----------------------------- MODULE MCMultiMap -----------------------------
(* A small instance of MultiMap for TLC. *)
EXTENDS MultiMap

\* Values 1 and 2 compare equal.
Ranks == [v \in Val |-> IF v = 3 THEN 0 ELSE 1]

(* Growth splits a bucket between its nodes, or moves all of it; two keys with
   one hash; an order that is not that of the numbers. *)
Chosen == {<<4, 5, 6, 0>>, <<0, 3, 7, 0>>, <<7, 2, 7, 0>>}

=============================================================================
