------------------------------ MODULE MCReports ------------------------------
(***************************************************************************)
(* Reports on small instances; the booking requests are interchangeable.   *)
(***************************************************************************)
EXTENDS Reports, TLC

HandlerSymmetry == Permutations(Handlers)

AllOps == OpNames

=============================================================================
