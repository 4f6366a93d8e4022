--------------------------- MODULE MCBookingSlots ---------------------------
(***************************************************************************)
(* BookingSlots on small instances; the requests are interchangeable.      *)
(***************************************************************************)
EXTENDS BookingSlots, TLC

HandlerSymmetry == Permutations(Handlers)

AllOps == OpNames

=============================================================================
