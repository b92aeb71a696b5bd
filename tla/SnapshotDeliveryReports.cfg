CONSTANTS
  p1 = p1 p2 = p2 n1 = n1 r1 = r1
  Publications = {p1, p2}
  JobTicks = {p1, p2}
  Nodes = {n1}
  Replicas = {r1}
  MaxAttempts = 2
  IdRank <- OppositeRank
  Flaky = {n1, r1}
  Failing = {n1}
  Crashing = {n1}
  MaxRoutes = 0
  MaxTime = 0
SPECIFICATION FairSpec
INVARIANT PublishedMeansPersisted
PROPERTY EveryPublicationReported
