SPECIFICATION Spec
CONSTANTS
  None = None
  l1 = l1
  c1 = c1
  c2 = c2
  c3 = c3
  c4 = c4
  ta = ta
  tb = tb
  x = x
  y = y
  z = z
  u1 = u1
  u2 = u2
  t1 = t1
  t2 = t2
  Login = {l1}
  Connection = {c1, c2, c3, c4}
  Scope = {ta, tb}
  Issuer = {x, y, z}
  Url = {u1, u2}
  Kind <- MCKind
  ScopeOf <- MCScopeOf
  IssuerOf <- MCIssuerOf
  Asks <- FewAsks
  AppScopes = {ta, tb}
  AppUrls = {u2}
  Try = {t1}
  Changes = {}
  ChangeBound = 0
  Expiring = FALSE
  Faults = FALSE
CHECK_DEADLOCK FALSE
INVARIANT CodeDeletedOnExchange
