------------------------------- MODULE CCSeq -------------------------------
(***************************************************************************)
(* Operators on sequences shared by the modules that model a queue of      *)
(* libcc as the sequence of its members, head first.                       *)
(***************************************************************************)
EXTENDS Integers, SequencesExt

(* The members of s that lie in S, in the order of s: what is left of a
   list after a loop that walks it from its head and removes every member
   outside S.  Written as a recursive function, so that CCSeqLemmas can
   prove what it returns. *)
Keep(s, S) ==
  LET kept[i \in 0..Len(s)] ==
        IF i = 0 THEN << >>
        ELSE IF s[i] \in S THEN Append(kept[i - 1], s[i])
        ELSE kept[i - 1]
  IN  kept[Len(s)]

(* The member at position k taken out of s and put back at position j of
   what remains. *)
Move(s, k, j) == InsertAt(RemoveAt(s, k), j, s[k])

=============================================================================
