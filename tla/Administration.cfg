SPECIFICATION Spec
CONSTANTS
  Emails = {e1, e2}
  Invites = {i1, i2}
  Attempts = {p1, p2, p3}
  Calls = {c1, c2}
  TwoFARequired = TRUE
  None = None
  Apps = {a1, server}
  SystemApps = {server}
  Users = {u1}
  GrantRoles = {"manager"}
  Admin = admin
  TokenRows = {t1}
  Values = {v1, v2}
  wildcard = wildcard
  apex = apex
  shallow = shallow
  deep = deep
  Scopes = {wildcard, apex}
  Labels <- MCLabels
  Criteria = {shallow, deep}
  Names <- MCNames
  Requests = {r1, r2}
  Nothing = Nothing
SYMMETRY Symmetry
INVARIANTS AccountsInv ApplicationsInv
PROPERTIES DeletionLosesNoWork
