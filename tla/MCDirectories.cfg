SPECIFICATION DirectoriesSpec
CONSTANTS
  None = None
  d1 = d1
  d2 = d2
  ta = ta
  tb = tb
  u1 = u1
  u2 = u2
  g1 = g1
  a = a
  b = b
  s1 = s1
  s2 = s2
  Directory = {d1}
  Tenant = {ta}
  TenantOf <- OneTenant
  User = {u1, u2}
  Group = {g1}
  Label = {a, b}
  Slot = {s1, s2}
  Deletable = {d1}
  PageLimit = 1
  DirectoryId = {d1}
  Caller = {s1, s2}
  Grant = {g1}
  MaxCalls = 4
  MaxFaults = 1
SYMMETRY SyncSymmetry
CHECK_DEADLOCK FALSE
INVARIANT MembersHaveGroup
INVARIANT NothingLeftBehind
PROPERTY WebhookFollowsStore
INVARIANT PartTypeOK
INVARIANT SettingsKept
INVARIANT StoredAsAWhole
INVARIANT EventsFollow
