----------------------------- MODULE MCTripMoney ----------------------------
(***************************************************************************)
(* TripMoney on small instances.  Handlers are interchangeable, so the     *)
(* safety runs use their permutations as symmetry.                         *)
(***************************************************************************)
EXTENDS TripMoneyInvariant, TLC

HandlerSymmetry == Permutations(Handlers)

AllTargets == {"PENDING", "CONFIRMED", "COMPLETED", "CANCELLED"}

=============================================================================
