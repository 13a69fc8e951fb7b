SPECIFICATION Spec
CONSTANTS
  Edges = {1}
  Zones = {1, 2, 3, 4}
  CanaryData <- SharedUnavailable
  Unavailable = {3}
  Workers = 2
  CanaryKiller = 2
  System = 0
CHECK_DEADLOCK FALSE
INVARIANT
  OverrideIsTemporary
