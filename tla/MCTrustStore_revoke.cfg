CHECK_DEADLOCK FALSE
SPECIFICATION Spec
CONSTANTS
    p1 = p1
    p2 = p2
    k1 = k1
    k2 = k2
    Pids = {p1, p2}
    Writers = {p1, p2}
    Keys = {k1, k2}
    NoKey = NoKey
    Windows = TRUE
    MaxCalls = 3
    MaxMishaps = 0
INVARIANTS
    RevocationHolds
