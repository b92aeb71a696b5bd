CONSTANTS
  r1 = r1 r2 = r2 r3 = r3
  Requests = {r1, r2, r3}
  Projects = {"a", "b"}
  ProjectOf <- TwoProjects
  Configs <- BothSizes
  ProjectLimit <- OneAtATime
  Limited = {"a"}
SPECIFICATION FairSpec
INVARIANTS PermitsSound MetricsBalance ExitWaits
PROPERTIES EveryoneIsServed
