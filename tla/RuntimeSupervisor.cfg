CONSTANTS
  d1 = d1 d2 = d2 d3 = d3 d4 = d4 r1 = r1 u1 = u1 u2 = u2
  Deployments = {d1, d2, d3, d4}
  Project <- ThreeProjects
  Snapshots <- Overlapping
  Requests = {r1}
  Updates = {u1, u2}
  WarmupConcurrency = 2
  MaxWarm = 2
  MaxWarmPerProject = 1
  MaxIdle = 1
  MaxTime = 1
  MaxFailures = 1
SPECIFICATION FairSpec
INVARIANTS PreparedSound AckMeansCompiled
PROPERTIES EvictsLeastRecent WarmupTerminates
