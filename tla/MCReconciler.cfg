CONSTANTS
  Id = {1, 2}
  Default = 1
  Config = {c1, c2}
  DefaultConfig = c1
  Pass = {loop, post}
  Loop = {loop}
  Absent = Absent
  None = None
  MaxEdits = 1
  MaxFaults = 1
SPECIFICATION LiveSpec
CHECK_DEADLOCK FALSE
INVARIANTS
  TypeOK

PROPERTIES
  OkMeansReconciled
  ReadFailurePreservesRoutes
  UndisturbedWritesRepair
  Converges
