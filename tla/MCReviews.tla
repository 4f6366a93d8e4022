----------------------------- MODULE MCReviews ------------------------------
(***************************************************************************)
(* Reviews on small instances; the requests are interchangeable.           *)
(***************************************************************************)
EXTENDS Reviews, TLC

HandlerSymmetry == Permutations(Handlers)

=============================================================================
