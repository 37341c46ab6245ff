SPECIFICATION MCSpec
CONSTANTS
  None = None
  l1 = l1
  c1 = c1
  c2 = c2
  c3 = c3
  c4 = c4
  ta = ta
  tb = tb
  x = x
  y = y
  z = z
  u1 = u1
  u2 = u2
  t1 = t1
  t2 = t2
  Login = {l1}
  Connection = {c1, c2, c3, c4}
  Scope = {ta, tb}
  Issuer = {x, y, z}
  Url = {u1, u2}
  Kind <- MCKind
  ScopeOf <- MCScopeOf
  IssuerOf <- MCIssuerOf
  Asks <- AllAsks
  AppScopes = {ta, tb}
  AppUrls = {u2}
  Try = {t1, t2}
  Changes <- OffAndOn
  ChangeBound = 1
  Expiring = TRUE
  Faults = TRUE
  Caller = {p1, p2}
  MaxCalls = 3
  Account = {a, b}
  Token = {k1, k2}
  KeepsEntries = {TRUE, FALSE}
  Tenant = {ta, tb}
  Idp = {x, y}
  Saml = {x}
  Limit = 1
  Owner = {oa, ob}
  Entity = {ea}
  r1 = r1
  r2 = r2
  Post = {p1, p2}
  Request = {r1, r2}
  Provider = {c1, c2}
  TenantOf <- MCTenantOf
  Sender = {x}
  SenderOf <- MCSenderOf
  Asker <- MCAsker
  MaxTrouble = 1
SYMMETRY TrySymmetry
CHECK_DEADLOCK FALSE
INVARIANT ProfileOfRequest
INVARIANT LateAnswerRefused
INVARIANT RedirectRechecked
INVARIANT PartTypeOK
INVARIANT LinkWorksUntilRevoked
INVARIANT AnsweredIsKept
INVARIANT CreatesKeepLimits
INVARIANT WebhookFollows
INVARIANT AppsAreKept
INVARIANT LoggedOutOnce
INVARIANT ConfirmedIsAccepted
PROPERTY LoginsAsPromised
