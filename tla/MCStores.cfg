SPECIFICATION Spec
CONSTANTS
  None = None
  k1 = k1
  k2 = k2
  a = a
  b = b
  p1 = p1
  p2 = p2
  Key = {k1, k2}
  Label = {a, b}
  Caller = {p1, p2}
  Engine = {"mem", "sql", "planetscale", "redis", "mongo", "dynamodb"}
  CleanupLimit = 1
  MaxCalls = 3
SYMMETRY StoreSymmetry
CHECK_DEADLOCK FALSE
INVARIANT IndexesAgree
INVARIANT FindIsHonest
PROPERTY StoreIsMap
