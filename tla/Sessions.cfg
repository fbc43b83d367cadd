SPECIFICATION Spec
CONSTANTS
  Users = {u1}
  Sessions = {s1}
  Tokens = {t1, t2, t3, t4}
  Requests = {r1, r2}
  None = None
CHECK_DEADLOCK FALSE
INVARIANTS TokensAreExclusive ReuseEndsSession
PROPERTIES KeepsChains EveryRequestEnds
