SPECIFICATION Spec
CONSTANTS
  s1 = s1
  s2 = s2
  b = b
  Processes <- MCProcesses
  Workers <- MCProcesses
  Shipped <- MCShipped
  StartsAs <- MCStartsAs
  NoOne = NoOne
  Nobody = Nobody
  OldRelease = OldRelease
  NewRelease = NewRelease
  Names = {i1, i2}
  BootName = i1
  Urls = {u1, u2}
  MaxTrouble = 1
  MaxRequests = 2
INVARIANTS UpgradeInv IssuersInv
PROPERTIES NobodyWaitsForever
