SPECIFICATION DnsSpec
CONSTANTS
  Providers = {d1, d2}
  Zones = {z1, z2}
  Listings <- MCListings
  RefreshJobs = {j1, j2}
  Refreshers = {w1, w2}
  SameNames = TRUE
  Requests = {r1}
  MaxExpiries = 1
  None = None
  z1 = z1
  z2 = z2
INVARIANTS DnsInv
PROPERTIES RefreshReplacesAllOrNothing RefreshEnds
