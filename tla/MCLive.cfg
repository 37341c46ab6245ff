SPECIFICATION LiveSpec
CONSTANTS
  None = None
  l1 = l1
  c1 = c1
  c2 = c2
  c3 = c3
  c4 = c4
  ta = ta
  tb = tb
  x = x
  y = y
  z = z
  u1 = u1
  u2 = u2
  t1 = t1
  t2 = t2
  Login = {l1}
  Connection = {c1, c2, c3, c4}
  Scope = {ta, tb}
  Issuer = {x, y, z}
  Url = {u1, u2}
  Kind <- MCKind
  ScopeOf <- MCScopeOf
  IssuerOf <- MCIssuerOf
  Asks <- EveryAsk
  AppScopes = {ta, tb}
  AppUrls = {u2}
  Try = {t1, t2}
  Changes = {}
  ChangeBound = 0
  Expiring = FALSE
  Faults = FALSE
  s1 = s1
  i1 = i1
  i2 = i2
  MaxTraces = 2
  PageLimit = 1
  v1 = v1
  v2 = v2
  g1 = g1
  la = la
  e1 = e1
  e2 = e2
  d1 = d1
  w1 = w1
  w2 = w2
  MaxChanges = 3
  MaxFaults = 2
CHECK_DEADLOCK FALSE
PROPERTY LoginEndsWell
 
PROPERTY StaleRemoved
PROPERTY EveryEventServed
