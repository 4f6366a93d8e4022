----------------------------- MODULE MCContent ------------------------------
(***************************************************************************)
(* Content on small instances; the requests are interchangeable.           *)
(***************************************************************************)
EXTENDS Content, TLC

HandlerSymmetry == Permutations(Handlers)

\* Category ids are interchangeable as well.
ContentSymmetry == Permutations(Handlers) \cup Permutations(Categories)

\* New titles all read "Trip"; "trip" and "trip-2" belong to rows removed long
\* ago, so the third and fourth have to be found.
Titles == {<<0>>}
Removed == {<<0>>, <<0, 2>>}

\* "Beach" and "beach!" share the slug.
SlugTable == [n \in Names |-> IF n = "Hills" THEN "hills" ELSE "beach"]

=============================================================================
