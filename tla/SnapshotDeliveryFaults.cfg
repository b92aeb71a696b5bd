CONSTANTS
  p1 = p1 p2 = p2 n1 = n1 r1 = r1
  Publications = {p1, p2}
  JobTicks = {}
  Nodes = {n1}
  Replicas = {r1}
  MaxAttempts = 2
  IdRank <- OppositeRank
  Flaky = {r1}
  Failing = {n1, r1}
  Crashing = {n1, r1}
  MaxRoutes = 1
  MaxTime = 1
SPECIFICATION Spec
INVARIANTS ServesWhatItWouldRestore ConfirmedMeansHeld
SYMMETRY PublicationSymmetry
