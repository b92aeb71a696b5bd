------------------------- MODULE MCRuntimeSupervisor -------------------------
(* Instances of RuntimeSupervisor for TLC.                                   *)
EXTENDS RuntimeSupervisor

CONSTANTS d1, d2, d3, d4, r1, u1, u2

\* Two deployments of one project and one each of two others.
ThreeProjects == [d \in Deployments |-> IF d = d3 THEN "b" ELSE IF d = d4 THEN "c" ELSE "a"]

\* Tables that overlap in one deployment, so that an update keeps one entry and
\* drops others.  The first exceeds the node's limit, the second a project's.
Overlapping == {<<d1, d3, d4>>, <<d1, d2>>}
=============================================================================
