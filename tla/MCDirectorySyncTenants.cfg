SPECIFICATION Spec
CONSTANTS
  None = None
  d1 = d1
  d2 = d2
  ta = ta
  tb = tb
  u1 = u1
  u2 = u2
  g1 = g1
  a = a
  b = b
  s1 = s1
  s2 = s2
  Directory = {d1, d2}
  Tenant = {ta, tb}
  TenantOf <- TwoTenants
  User = {u1, u2}
  Group = {g1}
  Label = {a, b}
  Slot = {s1, s2}
  Deletable = {}
  PageLimit = 1
CHECK_DEADLOCK FALSE
INVARIANT UsersListed
