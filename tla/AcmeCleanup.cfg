SPECIFICATION RetrySpec
CONSTANTS
    Workers = {w1}
    Cleaners = {c1}
    Names = {n1, n2}
    Orders = {o1}
    Keys = {k1}
    MaxAttempts = 3
    MaxTries = 3
    Faults = {"stop", "list"}
    None = None
SYMMETRY Symmetric
CONSTRAINT Speaking
INVARIANT RowsSettled
INVARIANT RetriesPublishAgain
CHECK_DEADLOCK FALSE
