\* Two requests at a time at each desk.
CONSTANTS
    o1 = o1
    o2 = o2
    o3 = o3
    t1 = t1
    t2 = t2
    t3 = t3
    t4 = t4
    brief = brief
    triage = triage
    Outputs = {o1, o2, o3}
    Traits <- TraitsOf
    MinCitations = 1
    MinCount = 2
    Limit = 2
    Unactivated = {1}
    Ids = {i1, i2}
    MaxVersion = 3
    Requests = {q1, q2}
    Does <- DoesOf
    Traces = {t1, t2, t3, t4}
    MinTraces = 1
    Candidates = {i1, i2}
    Reviewers = {q1, q2}
    Feedback = {f1, f2}
    Golds = {i1, i2}
    Produced = {"published", "reverted"}
    Promoters = {q1, q2}
    None = None
    NoCandidate = None
    NoRow = None
SPECIFICATION DeskSpec
SYMMETRY Interchangeable
CHECK_DEADLOCK FALSE
INVARIANTS
    DesksTypeOK
    AppliedHasItsVersion
    VersionsFormATree
    OneLiveProposal
    ContractsFollowEvidence
    OneCandidateWhenSerial
    GoldMatchesReview
    OneGoldWhenSerial
PROPERTIES
    DecisionsAreFinal
