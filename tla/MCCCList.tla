------------------------------ MODULE MCCCList ------------------------------
(* Small instances of CCList for TLC. *)
EXTENDS CCList

\* Lists are interchangeable, and so are the blocks.
Symmetry == Permutations(List) \cup Permutations(Block)

=============================================================================
