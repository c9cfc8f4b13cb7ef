CONSTANTS
  w1 = w1  w2 = w2  app1 = app1  app2 = app2  a1 = a1  u1 = u1  u2 = u2
  c1 = c1  c2 = c2  c3 = c3  c4 = c4  r1 = r1
  b1 = b1  b2 = b2  b3 = b3  b4 = b4
  s1 = s1  s2 = s2  s3 = s3  s4 = s4
  q1 = q1
  Workspace = {w1, w2}
  App = {app1, app2}
  Agent = {a1}
  User = {u1, u2}
  Capability = {c1, c2, c3, c4}
  Role = {r1}
  Binding = {b1, b2, b3, b4}
  Secret = {s1, s2, s3, s4}
  home <- MCHome
  appOf <- MCAppOf
  riskClass <- MCRisk
  authMode <- MCAuthMode
  permissions <- MCPermissions
  binds <- MCBinds
  holds <- MCHolds
  rank <- MCRank
  base <- MCBase
  hashed <- MCHashed
  digits <- MCDigits
  Seed <- MCSeed
  Frozen = {w1, w2, app2, u1, u2, r1, c1, c2, c3, c4, b1, b2, b3, b4, s3, s4}
  MaxGeneration = 1
  Request = {q1}
  ReadOnlyAttempts = 2
  None = None
SPECIFICATION RuntimeSpec
CHECK_DEADLOCK FALSE
INVARIANTS
  UsedOnlyIfAuthorized
  RefusedOnlyIfLapsed
  DeniedLeavesNoTrace
  ResentOnlyIfReadOnly
