SPECIFICATION Spec
CONSTANTS
  Callers = {p1, p2}
  Challenges = {c1, c2}
  Elsewhere = {e1}
  NoChallenge = NoChallenge
  MaxAttempts = 3
  PageSize = 3
  MaxCalls = 3
  MaxLate = 1
  Waiters = {p1}
  maxCNAMEHops = 2
PROPERTIES RecordsAreKept LookupsAreTrue EveryCallEnds
CHECK_DEADLOCK FALSE
