CONSTANTS
  p1 = p1  p2 = p2  w1 = w1  w2 = w2  app1 = app1  a1 = a1  u1 = u1  c1 = c1
  r1 = r1  r2 = r2  r3 = r3  b1 = b1  b2 = b2  b3 = b3  s1 = s1  s2 = s2  s3 = s3
  d1 = "capability.describe"  x1 = "custom"
  Workspace = {w1, w2}
  App = {app1}
  Agent = {a1}
  User = {u1}
  Capability = {c1}
  Role = {r1, r2, r3}
  Binding = {b1, b2, b3}
  Secret = {s1, s2, s3}
  home <- MCHome
  appOf <- MCAppOf
  riskClass <- MCRisk
  authMode <- MCAuthMode
  permissions <- MCPermissions
  binds <- MCBinds
  holds <- MCHolds
  Seed <- MCSeed
  Frozen = {app1, u1, c1, r1, r3}
  MaxGeneration = 2
  Caller = {p1, p2}
  Super = Super
  Scopes = {Super, w1, w2}
  Code = {"capability.describe", "custom"}
  DefaultCode = {"capability.describe"}
  SeedCodes <- MCSeedCodes
  None = None
SPECIFICATION AdminSpec
CHECK_DEADLOCK FALSE
INVARIANTS
  SeedingNeverFails
