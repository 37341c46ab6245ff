SPECIFICATION LockSyncSpec
CONSTANTS
  None = None
  i1 = i1
  i2 = i2
  j1 = j1
  j2 = j2
  j3 = j3
  Instance = {i1, i2}
  Job = {j1, j2, j3}
  Host <- SharedHost
  EventLockTTL = 5
  Latency = 1
  v1 = v1
  v2 = v2
  g1 = g1
  la = la
  lb = lb
  s1 = s1
  s2 = s2
  User = {v1, v2}
  Group = {g1}
  Label = {la, lb}
  Sync = {s1, s2}
  Process = {i1}
  HostOf <- BothInOne
  Rank <- MCRank
  PageLimit = 2
  Renames = TRUE
  Faults = {"google", "store", "release"}
  MaxChanges = 1
  MaxFaults = 1
SYMMETRY SyncSymmetry
CHECK_DEADLOCK FALSE
INVARIANT TypeOK
INVARIANT RenewedLockFresh
INVARIANT DroppedWereAbsent
 
PROPERTY SettledLeaseKept
PROPERTY SettledLeaseExcludes
