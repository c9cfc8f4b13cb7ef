CONSTANTS
  Id = {1, 2}
  Default = 1
  Config = {c1, c2}
  DefaultConfig = c1
  Pass = {loop, post}
  Loop = {loop}
  Absent = Absent
  None = None
  MaxEdits = 1
  MaxFaults = 0
SPECIFICATION Spec
CHECK_DEADLOCK FALSE
PROPERTY
  OnlyLabelledDeleted
