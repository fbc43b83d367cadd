SPECIFICATION FairSpec
CONSTANTS
  None = None
  j1 = j1
  j2 = j2
  j3 = j3
  j4 = j4
  w1 = w1
  w2 = w2
  c1 = c1
  c2 = c2
  r1 = r1
  MaxVersion = 1
  Jobs = {j1, j2}
  Workers = {w1, w2}
  LockName <- OwnNames
  Clients = {}
  Renewers = {}
  MaxAttempts = 2
  MaxTries = 2
CHECK_DEADLOCK FALSE
INVARIANTS JobsAgree StatusTracksVersions
PROPERTIES OnlyHolderSettles EveryJobEnds
