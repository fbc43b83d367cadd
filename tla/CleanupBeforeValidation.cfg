SPECIFICATION Spec
CONSTANTS
    Workers = {w1}
    Cleaners = {c1}
    Names = {n1}
    Orders = {o1}
    Keys = {k1}
    MaxAttempts = 1
    MaxTries = 1
    Faults = {}
    None = None
SYMMETRY Symmetric
INVARIANT PublishedUntilValidated
CHECK_DEADLOCK FALSE
