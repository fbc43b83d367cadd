SPECIFICATION Spec
CONSTANTS
  p1 = p1
  p2 = p2
  operator = operator
  Processes <- MCProcesses
  Readers <- MCReaders
  Operator = operator
  Hostnames = {h1, h2}
  Resources = {c1, c2}
  Retaining = {c1}
  User = User
  None = None
  Absent = Absent
  MaxVersions = 2
  MaxFaults = 1
CHECK_DEADLOCK FALSE
INVARIANTS DeliveryInv DirectoryInv ServerInv 
PROPERTIES OnlyOwnSecretsChange DirectoryFollowsMaterial ServesTheLatest SecretFollowsMaterial DeletionsEnd
