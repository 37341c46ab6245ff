SPECIFICATION GoogleSpec
CONSTANTS
  None = None
  la = la
  lb = lb
  u1 = u1
  u2 = u2
  g1 = g1
  s1 = s1
  i1 = i1
  User = {u1, u2}
  Group = {g1}
  Label = {la, lb}
  Sync = {s1}
  Process = {i1}
  HostOf <- OneSync
  Rank <- MCRank
  PageLimit = 1
  Renames = TRUE
  Faults = {}
  MaxChanges = 1
  MaxFaults = 0
SYMMETRY SyncSymmetry
CHECK_DEADLOCK FALSE
INVARIANT GoneAreDeleted
