SPECIFICATION Spec
CONSTANTS
  None = None
  Edges = {1, 2, 3}
  Zones = {z1}
  Canaries = {}
  Mtimes = {m1}
  Interval = 0
  Grace = 0
  Timed = {FALSE}
  EdgeCounts = {1, 2}
  DryRuns = {FALSE}
  ForceUpdates = {FALSE}
  EdgeLists <- OneMissingOrEmpty
  EdgeModes <- OneModeOrTwoForced
  TestHealths <- ThreeHealths
  Averages <- FirstTwoTie
  CanaryMaps <- NoCanaries
  CanaryTests <- CanaryTestsAny
  Templates <- AllTemplates
  Unresolvable = {}
INVARIANTS
  TypeOK
  NewLiveIsPassing
  BestEdgesChosen
  StableWhenHealthy
  HealthyEdgesKept
PROPERTY
  LiveNeverEmptied
