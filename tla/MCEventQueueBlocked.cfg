SPECIFICATION FairSpec
CONSTANTS
  e1 = e1
  e2 = e2
  e3 = e3
  d1 = d1
  d2 = d2
  i1 = i1
  i2 = i2
  w1 = w1
  w2 = w2
  None = None
  Event = {e1, e2}
  Directory = {d1, d2}
  DirOf <- FirstTwo
  Instance = {i1}
  Worker = {w1}
  HostOf <- OneWorker
  BatchSize = 2
  Stamp = {0}
  Retry = 0
  RetryCap = 1
  Changes = {"ready", "unready"}
  StoreErrors = FALSE
  Broken = {d1}
PROPERTY HealthyDirectoryServed
