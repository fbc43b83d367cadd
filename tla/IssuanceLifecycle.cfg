SPECIFICATION Spec
CONSTANTS
  None = None
  j1 = j1
  j2 = j2
  j3 = j3
  j4 = j4
  w1 = w1
  w2 = w2
  c1 = c1
  c2 = c2
  r1 = r1
  MaxVersion = 3
  Jobs = {j1, j2, j3}
  Workers = {w1}
  LockName <- OwnNames
  Clients = {c1}
  Renewers = {r1}
  MaxAttempts = 1
  MaxTries = 1
SYMMETRY JobSymmetry
CHECK_DEADLOCK FALSE
INVARIANTS IssuingBacked RemoteRevocationTruthful
PROPERTIES KeepsVersions NoStartWhileDisabled
