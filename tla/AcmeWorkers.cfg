SPECIFICATION Spec
CONSTANTS
    Workers = {w1, w2}
    Cleaners = {}
    Names = {n1}
    Orders = {o1, o2}
    Keys = {k1, k2}
    MaxAttempts = 2
    MaxTries = 2
    Faults = {"expiry", "stop", "list", "mark"}
    None = None
SYMMETRY Symmetric
CHECK_DEADLOCK FALSE
INVARIANTS MaterialMatchesKey TXTRecorded
