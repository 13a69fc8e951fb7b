SPECIFICATION Spec
CONSTANTS
  None = None
  Edges = {1, 2, 3}
  Zones = {z1}
  Canaries = {}
  Mtimes = {m1}
  Interval = 2
  Grace = 1
  Timed = {TRUE}
  EdgeCounts = {2}
  DryRuns = {FALSE, TRUE}
  ForceUpdates = {FALSE}
  EdgeLists <- WholeList
  EdgeModes <- EachMode
  TestHealths <- ThreeHealths
  Averages <- Ranked
  CanaryMaps <- NoCanaries
  CanaryTests <- CanaryTestsAny
  Templates <- AnyTemplates
  Unresolvable = {1}
INVARIANTS
  TimedServesBestTier
  ZonesServeLiveList
PROPERTY
  KeepsPromise
