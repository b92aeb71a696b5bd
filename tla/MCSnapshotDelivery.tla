-------------------------- MODULE MCSnapshotDelivery --------------------------
(* Instances of SnapshotDelivery for TLC.                                    *)
EXTENDS SnapshotDelivery, TLC

CONSTANTS p1, p2, n1, r1

\* Ids are hashes: here their order is the opposite of the routes' order, the
\* case in which a tie of the clock is broken the wrong way.
OppositeRank == [x \in (0..MaxTime) \X (0..MaxRoutes) |-> MaxRoutes - x[2]]

PublicationSymmetry == Permutations(Publications)
=============================================================================
