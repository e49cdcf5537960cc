----------------------------- MODULE MCListPool -----------------------------
(* Small instances of ListPool for TLC. *)
EXTENDS ListPool

\* Lists are interchangeable, and so are the blocks.
Symmetry == Permutations(List) \cup Permutations(Block)

=============================================================================
