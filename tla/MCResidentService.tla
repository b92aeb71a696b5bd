-------------------------- MODULE MCResidentService --------------------------
(* Instances of ResidentService for TLC: the configurations give every       *)
(* constant its value.                                                       *)
EXTENDS ResidentService
=============================================================================
