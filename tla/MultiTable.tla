----------------------------- MODULE MultiTable -----------------------------
(***************************************************************************)
(* What a cc_multimap promises: a table that keeps, for every key, the     *)
(* values added under it and not removed, in the order of their ranks or   *)
(* in the order they came.  No hash, no bucket and no failure is left.     *)
(***************************************************************************)
EXTENDS CCSeq

CONSTANTS Key, Val, Rank

VARIABLES
  sorted,  \* the values of a key are kept in order of rank
  table    \* the values of each key

vars == <<sorted, table>>

Empty == [k \in Key |-> << >>]

Init == sorted \in BOOLEAN /\ table = Empty

\* Values of one rank stay in the order they came in.
InRank(s, i, v) ==
  /\ \A j \in 1..(i - 1) : Rank[s[j]] <= Rank[v]
  /\ i <= Len(s) => Rank[v] < Rank[s[i]]

Insert(k, v) ==
  \E i \in 1..(Len(table[k]) + 1) :
    /\ IF sorted THEN InRank(table[k], i, v) ELSE i = Len(table[k]) + 1
    /\ table' = [table EXCEPT ![k] = InsertAt(@, i, v)]
    /\ UNCHANGED sorted

Drop(k) ==
  \E i \in DOMAIN table[k] :
    /\ table' = [table EXCEPT ![k] = RemoveAt(@, i)]
    /\ UNCHANGED sorted

Clear == table' = Empty /\ UNCHANGED sorted

\* A new table in the place of an empty one.
Renew == table = Empty /\ table' = Empty /\ sorted' \in BOOLEAN

Next ==
  \/ \E k \in Key : Drop(k) \/ \E v \in Val : Insert(k, v)
  \/ Clear
  \/ Renew

Spec == Init /\ [][Next]_vars

=============================================================================
