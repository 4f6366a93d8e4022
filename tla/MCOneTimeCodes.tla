--------------------------- MODULE MCOneTimeCodes ---------------------------
(***************************************************************************)
(* OneTimeCodes on small instances; the requests are interchangeable.      *)
(***************************************************************************)
EXTENDS OneTimeCodes, TLC

SymmetricIds == Permutations(Handlers) \cup Permutations(Subs)

AllOps == OpNames

=============================================================================
