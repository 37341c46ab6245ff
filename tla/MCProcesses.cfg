SPECIFICATION PartSpec
CONSTANTS
  e1 = e1
  e2 = e2
  e3 = e3
  d1 = d1
  d2 = d2
  i1 = i1
  i2 = i2
  w1 = w1
  w2 = w2
  None = None
  Event = {e1, e2}
  Directory = {d1}
  DirOf <- OneDirectory
  Instance = {i1}
  Worker = {w1, w2}
  HostOf <- SameProcess
  BatchSize = 2
  Stamp = {0, 1}
  Retry = 1
  RetryCap = 1
  Changes = {"gone"}
  StoreErrors = TRUE
  Broken = {}
  a1 = a1
  a2 = a2
  b1 = b1
  Caller = {a1, a2, b1}
  x1 = x1
  x2 = x2
  x3 = x3
  Certificate = {x1, x2, x3}
  Process = {i1, i2}
  ProcessOf <- MCProcessOf
  MaxEvents = 1
  la = la
  Product = {la}
  ProductOf <- MCProductOf
  Tokens = {TRUE, FALSE}
  PageLimit = 2
  MaxTraces = 3
  MaxFaults = 1
SYMMETRY QueueSymmetry
INVARIANT NothingVanishes
INVARIANT RetryCountHonest
INVARIANT FirstDeliveryInOrder
INVARIANT PartTypeOK
INVARIANT SoleCopyIsStored
INVARIANT ProductCleared
CHECK_DEADLOCK FALSE
