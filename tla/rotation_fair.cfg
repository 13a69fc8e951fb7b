SPECIFICATION RotationSpec
CONSTANTS
  None = None
  Edges = {1, 2, 3, 4}
  Zones = {}
  Canaries = {}
  Mtimes = {m1}
  Interval = 2
  Grace = 1
  Timed = {TRUE}
  EdgeCounts = {1}
  DryRuns = {FALSE}
  ForceUpdates = {FALSE}
  EdgeLists <- WholeList
  EdgeModes <- AllAvailable
  TestHealths <- AllHealthy
  Averages <- Ranked
  CanaryMaps <- NoCanaries
  CanaryTests <- CanaryTestsAny
  Templates <- AllTemplates
  Unresolvable = {}
INVARIANTS
  NoEdgeStarves
  LiveListCurrent
PROPERTY
  EveryEdgeGetsATurn
