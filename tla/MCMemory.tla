------------------------------ MODULE MCMemory ------------------------------
(* A small instance of Memory for TLC. *)
EXTENDS Memory, TLC

\* No step tells threads, addresses or sites apart.
Symmetry == Permutations(Thread) \cup Permutations(Addr) \cup Permutations(Site)

=============================================================================
