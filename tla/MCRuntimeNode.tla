---------------------------- MODULE MCRuntimeNode ----------------------------
(* Instances of RuntimeNode for TLC.                                         *)
EXTENDS RuntimeNode

CONSTANTS r1, r2, r3

\* Two requests of a project with limits and one of a project without.
TwoProjects == [r \in Requests |-> IF r = r3 THEN "b" ELSE "a"]

OneAtATime == [p \in Projects |-> IF p = "a" THEN 1 ELSE NoLimit]

\* With one invocation at a time the node's limit is met with a project's
\* permit in hand; with two, invocations of both projects overlap.
BothSizes == {[cache |-> FALSE, concurrent |-> 1], [cache |-> TRUE, concurrent |-> 2]}
=============================================================================
