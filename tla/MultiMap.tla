------------------------------ MODULE MultiMap ------------------------------
(***************************************************************************)
(* cc_multimap: a cc_map from keys to lists of values, its two-level       *)
(* iterator, and what it allocates.  A call is one action.  A value stands *)
(* for its list iterator: no value is added twice under one key.           *)
(***************************************************************************)
EXTENDS HashMap

CONSTANTS
  Val,    \* the values, as numbers
  Rank,   \* how compare orders them
  Hashes, \* the hash functions that random() can choose from
  MaxPairs \* bound: the values a multimap holds at once

ASSUME MultiMapAssumption ==
  /\ Val \subseteq Nat \ {0}
  /\ Rank \in [Val -> Nat]
  /\ Hashes \subseteq HashFunction /\ Hashes # {}
  /\ MaxPairs \in Nat

VARIABLES
  open,    \* there is a multimap
  sorted,  \* compare is not NULL
  map,     \* self->map
  lists,   \* the values of the list a key maps to
  heap,    \* what is allocated
  cursor,  \* the client's iterator: a key, and a value or Nil
  due      \* ghost: pairs the walk that is under way has still to visit

walk == <<cursor, due>>
vars == <<open, sorted, map, lists, heap, walk>>

Pair == Key \X Val
Pairs == {p \in Pair : p[2] \in Range(lists[p[1]])}

\* Allocations: a kind with a key and a value where there are several.
Base == {<<"multimap", Nil, Nil>>, <<"map", Nil, Nil>>,
         <<"buckets", Nil, Nil>>, <<"nodes", Nil, Nil>>}
OfKey(k) == {<<"list", k, Nil>>, <<"node", k, Nil>>, <<"entry", k, Nil>>}
Item(k, v) == <<"item", k, v>>

NoWalk == [miter |-> Nil, iter |-> Nil]

Init ==
  /\ open = FALSE
  /\ sorted = FALSE
  /\ map \in {NewMap(h) : h \in Hashes}
  /\ lists = [k \in Key |-> << >>]
  /\ heap = {}
  /\ cursor = NoWalk
  /\ due = {}

-----------------------------------------------------------------------------
(* new: the allocations in their order, and what is freed when one of them
   fails. *)
Order == <<"multimap", "map", "buckets", "nodes">>
Unwound(f) ==
  (IF f > 3 THEN {"buckets"} ELSE {}) \cup
  (IF f > 2 THEN {"map"} ELSE {}) \cup
  (IF f > 1 THEN {"multimap"} ELSE {})

New ==
  /\ ~open
  /\ open' = TRUE
  /\ sorted' \in BOOLEAN
  /\ map' \in {NewMap(h) : h \in Hashes}
  /\ heap' = heap \cup Base
  /\ UNCHANGED <<lists, walk>>

\* The allocation Order[f] fails.
NewFails(f) ==
  /\ ~open
  /\ heap' = (heap \cup {<<Order[i], Nil, Nil>> : i \in 1..(f - 1)})
               \ {<<o, Nil, Nil>> : o \in Unwound(f)}
  /\ UNCHANGED <<open, sorted, map, lists, walk>>

\* The client empties the multimap before it deletes it.
Delete ==
  /\ open /\ map.nodes = << >>
  /\ open' = FALSE
  /\ heap' = heap \ Base
  /\ cursor' = NoWalk /\ due' = {}
  /\ UNCHANGED <<sorted, map, lists>>

\* Each turn of the loop removes the first key with its list.
Emptied(m) ==
  LET after[n \in 0..Len(m.nodes)] ==
        IF n = 0 THEN m ELSE Removed(after[n - 1], MapHead(after[n - 1]))
  IN  after[Len(m.nodes)]

Discard ==
  /\ open
  /\ map' = Emptied(map)
  /\ heap' = heap \ UNION {OfKey(k) \cup {Item(k, v) : v \in Range(lists[k])} :
                           k \in Range(map.nodes)}
  /\ lists' = [k \in Key |-> IF k \in Range(map.nodes) THEN << >> ELSE lists[k]]
  /\ cursor' = NoWalk /\ due' = {}
  /\ UNCHANGED <<open, sorted>>

-----------------------------------------------------------------------------
(* Where cc_list_insertSorted puts v.  Mutant: before values of its rank. *)
MutantSortedPlace(s, v) ==
  Min({i \in DOMAIN s : Rank[v] <= Rank[s[i]]} \cup {Len(s) + 1})
SortedPlace(s, v) ==
  Min({i \in DOMAIN s : Rank[v] < Rank[s[i]]} \cup {Len(s) + 1})

Add(k, v) ==
  /\ open /\ v \notin Range(lists[k]) /\ Cardinality(Pairs) < MaxPairs
  /\ \/ /\ Find(map, k) # Nil
        /\ lists' = [lists EXCEPT ![k] =
             InsertAt(@, IF sorted THEN SortedPlace(@, v) ELSE Len(@) + 1, v)]
        /\ heap' = heap \cup {Item(k, v)}
        /\ UNCHANGED map
     \/ /\ Find(map, k) = Nil /\ k \notin LongKey
        /\ \E had \in BOOLEAN : map' = Added(map, k, had)
        /\ lists' = [lists EXCEPT ![k] = <<v>>]
        /\ heap' = heap \cup OfKey(k) \cup {Item(k, v)}
  /\ UNCHANGED <<open, sorted, walk>>

(* An add that fails: for a key there is, the item cannot be had, which
   changes nothing; for a new one, the f-th of list, item, node and entry, or
   the key is too long and there is no node.  The labels are passed in the
   order fail_at (of cc_map), fail_add, fail_append.
   Mutant: fail_append is passed by. *)
AddOrder == <<"list", "item", "node", "entry">>
MutantAddUnwound(f) ==
  (IF f > 3 THEN {"node"} ELSE {}) \cup (IF f > 2 THEN {"item"} ELSE {})
AddUnwound(f) ==
  (IF f > 3 THEN {"node"} ELSE {}) \cup
  (IF f > 2 THEN {"item"} ELSE {}) \cup
  (IF f > 1 THEN {"list"} ELSE {})

AddFails(k, v, f) ==
  LET Part(o) == <<o, k, IF o = "item" THEN v ELSE Nil>>
  IN  /\ open /\ Find(map, k) = Nil
      /\ k \in LongKey => f <= 3
      /\ heap' = (heap \cup {Part(AddOrder[i]) : i \in 1..(f - 1)})
                   \ {Part(o) : o \in AddUnwound(f)}
      /\ UNCHANGED <<open, sorted, map, lists, walk>>

-----------------------------------------------------------------------------
\* The iterator (k, v), a visit; or NULL, the end of the walk.
Visit(k) ==
  IF k = Nil THEN NoWalk ELSE [miter |-> k, iter |-> lists'[k][1]]

Visited(c, left) == cursor' = c /\ due' = left \ {<<c.miter, c.iter>>}

ValNext(s, v) ==
  LET i == CHOOSE j \in DOMAIN s : s[j] = v
  IN  IF i < Len(s) THEN s[i + 1] ELSE Nil

WalkHead ==
  /\ open
  /\ UNCHANGED <<open, sorted, map, lists, heap>>
  /\ Visited(Visit(MapHead(map)), Pairs)

(* find gives an iterator to the first value of a key; a walk from there has
   the values of that key and of the keys after it to visit. *)
WalkFind(k) ==
  /\ open
  /\ UNCHANGED <<open, sorted, map, lists, heap>>
  /\ Visited(Visit(Find(map, k)),
             IF Find(map, k) = Nil THEN {}
             ELSE {p \in Pairs : p[1] = k \/ Before(map, k, p[1])})

WalkNext ==
  LET n == ValNext(lists[cursor.miter], cursor.iter)
  IN  /\ cursor.iter # Nil
      /\ UNCHANGED <<open, sorted, map, lists, heap>>
      /\ Visited(IF n # Nil THEN [cursor EXCEPT !.iter = n]
                 ELSE Visit(MapNext(map, cursor.miter)), due)

\* nextItem gives NULL at the end of a list and leaves the iterator on its key.
WalkNextItem ==
  /\ cursor.iter # Nil
  /\ UNCHANGED <<open, sorted, map, lists, heap>>
  /\ Visited([cursor EXCEPT !.iter = ValNext(lists[cursor.miter], @)], due)

\* nextList skips what is left of a list.
WalkNextList ==
  /\ cursor.miter # Nil
  /\ UNCHANGED <<open, sorted, map, lists, heap>>
  /\ Visited(Visit(MapNext(map, cursor.miter)),
             {p \in due : p[1] # cursor.miter})

(* remove takes the value out of its list and moves the iterator to the next
   value; a list that is empty goes with its key.  Mutant: the last value of a
   list ends the walk. *)
MutantNextAfter(k, n, emptied) ==
  IF emptied THEN Visit(MapNext(map, k))
  ELSE IF n # Nil THEN [miter |-> k, iter |-> n] ELSE NoWalk
NextAfter(k, n, emptied) ==
  IF emptied THEN Visit(MapNext(map, k))
  ELSE IF n # Nil THEN [miter |-> k, iter |-> n]
  ELSE Visit(MapNext(map, k))

WalkRemove ==
  LET k == cursor.miter
      v == cursor.iter
      emptied == Len(lists[k]) = 1
  IN  /\ v # Nil
      /\ lists' = [lists EXCEPT ![k] = Keep(@, Val \ {v})]
      /\ map' = IF emptied THEN Removed(map, k) ELSE map
      /\ heap' = heap \ ({Item(k, v)} \cup IF emptied THEN OfKey(k) ELSE {})
      /\ Visited(NextAfter(k, ValNext(lists[k], v), emptied), due)
      /\ UNCHANGED <<open, sorted>>

-----------------------------------------------------------------------------
Next ==
  \/ New
  \/ \E f \in 1..4 : NewFails(f)
  \/ Delete
  \/ Discard
  \/ \E k \in Key, v \in Val : Add(k, v) \/ \E f \in 1..4 : AddFails(k, v, f)
  \/ WalkHead
  \/ \E k \in Key : WalkFind(k)
  \/ WalkNext
  \/ WalkNextItem
  \/ WalkNextList
  \/ WalkRemove

Spec == Init /\ [][Next]_vars

-----------------------------------------------------------------------------
(* A key is found if values were added under it that are still there, whatever
   the map has grown to and whatever was removed (cc_map.c:372, :810). *)
FindsExactly ==
  \A k \in Key : (Find(map, k) # Nil) <=> (lists[k] # << >>)

MapStaysOK == MapOK(map)

(* The pairs a walk has yet to come to. *)
Ahead ==
  IF cursor.miter = Nil THEN {}
  ELSE {p \in Pairs :
          \/ Place(map, p[1]) > Place(map, cursor.miter)
          \/ /\ p[1] = cursor.miter /\ cursor.iter # Nil
             /\ \E i, j \in DOMAIN lists[p[1]] :
                  /\ lists[p[1]][i] = cursor.iter
                  /\ lists[p[1]][j] = p[2]
                  /\ i < j}

(* A walk visits every value that is there from its beginning to its end, and
   none twice, while the client removes through it and adds beside it, and
   the map grows (cc_multimap.c:409, cc_map.c:372). *)
WalkOn ==
  LET at == <<cursor.miter, cursor.iter>>
  IN  /\ cursor.miter \in {Nil} \cup Range(map.nodes)
      /\ cursor.iter # Nil => at \in Pairs
      /\ due \subseteq Ahead

Forward ==
  \/ WalkHead \/ \E k \in Key : WalkFind(k)
  \/ cursor' = cursor
  \/ cursor'.iter = Nil
  \/ <<cursor'.miter, cursor'.iter>> \in Ahead

WalkExact == [][WalkOn' /\ Forward]_vars

(* What is allocated is what the multimap reaches: no call that fails, and no
   removal, leaves anything behind or frees what is in use (cc_multimap.c:318). *)
NothingLeaks ==
  heap = IF ~open THEN {}
         ELSE Base \cup (UNION {OfKey(k) : k \in Range(map.nodes)})
                   \cup {Item(p[1], p[2]) : p \in Pairs}

(* The multimap is a table of values: an add puts a value where it belongs
   among those of its key, a removal takes one out, whatever the map below
   does (cc_multimap.c:257, :409).  FindsExactly says that find sees it. *)
Table == INSTANCE MultiTable WITH table <- lists
TableSpec == Table!Spec

=============================================================================
