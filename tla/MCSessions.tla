----------------------------- MODULE MCSessions -----------------------------
(***************************************************************************)
(* Sessions on small instances; the requests are interchangeable.          *)
(***************************************************************************)
EXTENDS Sessions, TLC

HandlerSymmetry == Permutations(Handlers)

AllOps == OpNames

=============================================================================
