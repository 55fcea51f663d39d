\* Two promotions over three rounds, some left unfinished by a replay.
CONSTANTS
    Versions = {v1, v2}
    Rounds = {r1, r2, r3}
    Golds <- NoGolds
    Canaries = {}
    Tests = {t1}
    Requests = {q1, q2}
    Threshold = 1
    NullsFirst = TRUE
    MaxRunning = 1
    None = None
SYMMETRY Interchangeable
SPECIFICATION Spec
INVARIANTS
    TypeOK
PROPERTIES
    ImplementsCell
CHECK_DEADLOCK FALSE
