SPECIFICATION SpecWithCrash
CONSTANTS
  None = None
  Edges = {1, 2}
  Zones = {z1, z2}
  Canaries = {c1}
  Mtimes = {m1}
  Interval = 0
  Grace = 0
  Timed = {FALSE, TRUE}
  EdgeCounts = {2}
  DryRuns = {FALSE}
  ForceUpdates = {FALSE, TRUE}
  EdgeLists <- WholeList
  EdgeModes <- AllAvailable
  TestHealths <- PassOrFail
  Averages <- Ranked
  CanaryMaps <- SameCanaryOrNone
  CanaryTests <- CanariesPass
  Templates <- AllTemplates
  Unresolvable = {}
SYMMETRY Symmetry
CHECK_DEADLOCK FALSE
PROPERTIES
  ZonesAreFull
  UpdatesRepair
  KeepsPromise
