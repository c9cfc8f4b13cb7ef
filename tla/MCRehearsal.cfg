CONSTANTS
  w1 = w1  w2 = w2  app1 = app1  app2 = app2  u1 = u1  c1 = c1  c2 = c2  r1 = r1  r2 = r2  r3 = r3  a1 = a1
  b1 = b1  b2 = b2  b3 = b3  s1 = s1  s2 = s2
  Workspace = {w1, w2}
  App = {app1, app2}
  Agent = {a1}
  User = {u1}
  Capability = {c1, c2}
  Role = {r1, r2, r3}
  Binding = {b1, b2, b3}
  Secret = {s1, s2}
  home <- MCHome
  appOf <- MCAppOf
  riskClass <- MCRisk
  authMode <- MCAuthMode
  permissions <- MCPermissions
  binds <- MCBinds
  holds <- MCHolds
  Seed <- MCSeed
  Frozen = {}
  MaxGeneration = 4
  named <- MCNamed
  rank <- MCRank
  Needed <- MCNeeded
  Touched = {w1, a1, b1, s1, c2}
  MaxMeddling = 2
  MaxRuns = 2
  None = None
  Partial = Partial  Unread = Unread
SPECIFICATION FairSpec
CHECK_DEADLOCK FALSE
INVARIANTS
  RehearsalTypeOK
  CompletedMeansUsable
  FailureExplained
  TokenKept
  Recoverable
  SuccessMeansRestored
PROPERTY
  EveryRunEnds
