CONSTANTS
  invocation = invocation  command = command  p1 = p1  p2 = p2
  Writer = {invocation, command}
  writes <- MCWrites
  Purger = {p1, p2}
  Days <- MCDays
  Lag = 1
  MaxClock = 4
SPECIFICATION FairSpec
CHECK_DEADLOCK FALSE
INVARIANTS
  RetentionInvariant
  ReportNeverShort
PROPERTIES
  PurgesAreAtomic
  EveryPurgeEnds
