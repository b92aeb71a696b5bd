--------------------------- MODULE MCResponseCache ---------------------------
(* Instances of ResponseCache for TLC.                                     *)
EXTENDS ResponseCache, TLC

CONSTANTS r1, r2, r3, u1, u2

Key(p, d) == [projectId |-> p, deploymentId |-> d, rest |-> "uri"]
OneKey   == {Key("p", "d1")}
TwoKeys  == {Key("p", "d1"), Key("q", "d2")}

\* Every request is a GET for a cacheable URI, or any mix of methods.

Gets        == {<<k, FALSE>> : k \in Keys}
GetsAndRest == Gets \cup {<<k, TRUE>> : k \in Keys} \cup {<<NoKey, FALSE>>}

Answer(ok, size, ttl, age, lag) ==
  [ok |-> ok, size |-> size, ttl |-> ttl, age |-> age, lag |-> lag]

\* A response that can always be stored.
PlainResponses == {Answer(TRUE, 1, 1, 0, 0)}
\* Private, small and large ones, with upstream age and clock lag.
MixedResponses == {Answer(FALSE, 1, 1, 0, 0), Answer(TRUE, 1, 3, 1, 0),
                   Answer(TRUE, 2, 2, 0, 0), Answer(TRUE, 3, 2, 0, 1)}

RequestSymmetry == Permutations(Requests)
=============================================================================
