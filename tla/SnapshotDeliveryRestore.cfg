CONSTANTS
  p1 = p1 p2 = p2 n1 = n1 r1 = r1
  Publications = {p1, p2}
  JobTicks = {}
  Nodes = {n1}
  Replicas = {}
  MaxAttempts = 1
  IdRank <- OppositeRank
  Flaky = {}
  Failing = {}
  Crashing = {}
  MaxRoutes = 1
  MaxTime = 1
SPECIFICATION Spec
INVARIANT PersistsLatestAccepted
