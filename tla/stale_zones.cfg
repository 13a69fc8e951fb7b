SPECIFICATION Spec
CONSTANTS
  None = None
  Edges = {1, 2, 3}
  Zones = {z1}
  Canaries = {}
  Mtimes = {m1}
  Interval = 0
  Grace = 0
  Timed = {FALSE}
  EdgeCounts = {2}
  DryRuns = {FALSE}
  ForceUpdates = {FALSE}
  EdgeLists <- WholeList
  EdgeModes <- AllAvailable
  TestHealths <- PassOrFail
  Averages <- Ranked
  CanaryMaps <- NoCanaries
  CanaryTests <- CanaryTestsAny
  Templates <- AllTemplates
  Unresolvable = {}
PROPERTY
  EstablishedIsServed
