SPECIFICATION Spec
CONSTANTS
  None = None
  Edges = {1, 2, 3}
  Zones = {z1, z2}
  Canaries = {c1, c2}
  Mtimes = {m1}
  Interval = 0
  Grace = 0
  Timed = {FALSE}
  EdgeCounts = {2}
  DryRuns = {FALSE, TRUE}
  ForceUpdates = {FALSE}
  EdgeLists <- WholeList
  EdgeModes <- AllAvailable
  TestHealths <- PassOrFail
  Averages <- Ranked
  CanaryMaps <- AnyCanaryMap
  CanaryTests <- CanaryUsableOrNot
  Templates <- AllTemplates
  Unresolvable = {1}
SYMMETRY Symmetry
INVARIANTS
  CanaryRecordTrue
  EdgeStatesMatchLiveList
PROPERTY
  KeepsPromise
