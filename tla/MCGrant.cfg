CONSTANTS
  w1 = w1  w2 = w2  app1 = app1  a1 = a1  u1 = u1  u2 = u2  c1 = c1  c2 = c2
  r1 = r1  r2 = r2  b1 = b1  b2 = b2  b3 = b3  s1 = s1  s2 = s2
  q1 = q1
  Workspace = {w1, w2}
  App = {app1}
  Agent = {a1}
  User = {u1, u2}
  Capability = {c1, c2}
  Role = {r1, r2}
  Binding = {b1, b2, b3}
  Secret = {s1, s2}
  home <- MCHome
  appOf <- MCAppOf
  riskClass <- MCRisk
  authMode <- MCAuthMode
  permissions <- MCPermissions
  binds <- MCBinds
  holds <- MCHolds
  rank <- MCRank
  base <- MCBase
  hashed <- MCHashed
  digits <- MCDigits
  Seed <- MCSeed
  Frozen = {w2, u2, r2, app1, a1, c1, c2, s1, s2}
  MaxGeneration = 0
  Request = {q1}
  ReadOnlyAttempts = 2
  None = None
SPECIFICATION RuntimeSpec
CHECK_DEADLOCK FALSE
INVARIANTS
  RuntimeTypeOK
  AuthorizationInvariant
  UsedOnlyIfAuthorized
  RefusedOnlyIfLapsed
  RecordedOnceBeforeReply
  RecordsStayHome
  RecordInvariant
