SPECIFICATION FaultFreeSpec
CONSTANTS
  i1 = i1
  i2 = i2
  j1 = j1
  j2 = j2
  j3 = j3
  None = None
  Instance = {i1, i2}
  Job = {j1, j2, j3}
  Host <- SharedHost
  EventLockTTL = 6
  Latency = 1
INVARIANT HeldLockRenewed
