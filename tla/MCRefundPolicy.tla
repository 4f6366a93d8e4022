--------------------------- MODULE MCRefundPolicy ---------------------------
(***************************************************************************)
(* RefundPolicy on small instances: a price of three paisa makes every     *)
(* percentage round, and 10 % of it rounds to nothing.                     *)
(***************************************************************************)
EXTENDS RefundPolicy, TLC

HandlerSymmetry == Permutations(Handlers)

=============================================================================
