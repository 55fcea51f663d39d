\* One promotion at a time over rounds that overlap, on SQLite.
CONSTANTS
    Versions = {v1, v2}
    Rounds = {r1, r2, r3}
    Golds <- TwoGolds
    Canaries = {2}
    Tests = {}
    Requests = {q1}
    Threshold = 1
    NullsFirst = FALSE
    MaxRunning = 2
    None = None
SYMMETRY Interchangeable
SPECIFICATION Spec
INVARIANTS
    PromotionClearsBaseline
    PromotedWithoutSeenRegression
PROPERTIES
    PromotionActivatesTarget
CHECK_DEADLOCK FALSE
