\* A round left unfinished by a replay becomes the baseline.
CONSTANTS
    Versions = {v1, v2}
    Rounds = {r1, r2, r3}
    Golds <- NoGolds
    Canaries = {}
    Tests = {t1}
    Requests = {q1}
    Threshold = 1
    NullsFirst = TRUE
    MaxRunning = 1
    None = None
SYMMETRY Interchangeable
SPECIFICATION Spec
INVARIANTS
    PromotionClearsBaseline
CHECK_DEADLOCK FALSE
