SPECIFICATION Spec
CONSTANTS
  Users = {u1}
  Sessions = {s1, s2}
  Calls = {c1, c2}
  None = None
  Secrets = {k1, k2, k3}
  Setups = {x1, x2}
  States = {o1}
  Handoffs = {h1}
  Links = {l1}
  MaxResets = 1
SYMMETRY Symmetric
CHECK_DEADLOCK FALSE
INVARIANTS LoginsInv ResetEndsAccess
PROPERTIES FactorAtLogin LinkWorksOnce
