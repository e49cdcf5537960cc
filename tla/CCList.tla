------------------------------- MODULE CCList -------------------------------
(***************************************************************************)
(* cc_list: the head, tail, next and prev pointers of doubly linked lists, *)
(* and the stacks of free iterators in the lists and in the global pool.   *)
(* Checked to implement ListPool, where a list is a sequence.              *)
(*                                                                         *)
(* The next field of a free iterator links it into a stack; the stacks are *)
(* sequences here, top first, and next and prev are the fields of linked   *)
(* iterators.  The data an iterator points to is left out, and with it the *)
(* searches; a list made by cc_list_newCMalloc, which takes its iterators  *)
(* from calloc, is left out too.                                           *)
(***************************************************************************)
EXTENDS CCSeq

CONSTANTS
  List,       \* addresses of cc_list_t
  Block,      \* addresses of cc_listBlock_t
  BlockSize,  \* CC_LISTBLOCK_SIZE
  SetSize,    \* CC_LISTSET_SIZE
  NULL

Iter == Block \X (1..BlockSize)

ASSUME CCListAssumption ==
  /\ BlockSize \in Nat \ {0}
  /\ SetSize \in 1..BlockSize
  /\ NULL \notin Iter

VARIABLES
  live,              \* the lists there are
  next, prev,        \* the links of each iterator
  head, tail, size,  \* the fields of each list
  spare,             \* list->iters
  iters,             \* pool->iters
  count,             \* pool->count
  refcount,          \* pool->refcount
  blocks             \* pool->blocks

links == <<next, prev, head, tail, size>>
pool  == <<iters, count, refcount, blocks>>
vars  == <<live, links, spare, pool>>

Init ==
  /\ live = {}
  /\ next = [i \in Iter |-> NULL]
  /\ prev = [i \in Iter |-> NULL]
  /\ head = [l \in List |-> NULL]
  /\ tail = [l \in List |-> NULL]
  /\ size = [l \in List |-> 0]
  /\ spare = [l \in List |-> << >>]
  /\ iters = << >>
  /\ count = 0
  /\ refcount = 0
  /\ blocks = {}

\* The iterators of a list in the order of next, as a loop from its head that
\* goes on for size steps finds them.
Linked(l) ==
  LET at[k \in 1..size[l]] ==
        IF k = 1 THEN head[l]
        ELSE IF at[k - 1] \in Iter THEN next[at[k - 1]] ELSE NULL
  IN  at

In(l) == ToSet(Linked(l))

-----------------------------------------------------------------------------
(* The three functions that change links, as functions from all the links
   to all the links. *)

Links == [next |-> next, prev |-> prev, head |-> head, tail |-> tail,
          size |-> size]

Become(h) ==
  /\ next' = h.next
  /\ prev' = h.prev
  /\ head' = h.head
  /\ tail' = h.tail
  /\ size' = h.size

\* if(i) i->f = v
Set(f, i, v) == IF i = NULL THEN f ELSE [f EXCEPT ![i] = v]

MutantIterAdd(h, i, l, p, n) ==
  [next |-> Set([h.next EXCEPT ![i] = n], p, i),
   prev |-> [h.prev EXCEPT ![i] = p],
   head |-> IF p = NULL THEN [h.head EXCEPT ![l] = i] ELSE h.head,
   tail |-> IF n = NULL THEN [h.tail EXCEPT ![l] = i] ELSE h.tail,
   size |-> [h.size EXCEPT ![l] = @ + 1]]

\* cc_listIter_add: i between p and n.
IterAdd(h, i, l, p, n) ==
  [next |-> Set([h.next EXCEPT ![i] = n], p, i),
   prev |-> Set([h.prev EXCEPT ![i] = p], n, i),
   head |-> IF p = NULL THEN [h.head EXCEPT ![l] = i] ELSE h.head,
   tail |-> IF n = NULL THEN [h.tail EXCEPT ![l] = i] ELSE h.tail,
   size |-> [h.size EXCEPT ![l] = @ + 1]]

\* cc_listIter_remove
IterRemove(h, i, l) ==
  LET p == h.prev[i]
      n == h.next[i]
  IN  [next |-> [Set(h.next, p, n) EXCEPT ![i] = NULL],
       prev |-> [Set(h.prev, n, p) EXCEPT ![i] = NULL],
       head |-> IF h.head[l] = i THEN [h.head EXCEPT ![l] = n] ELSE h.head,
       tail |-> IF h.tail[l] = i THEN [h.tail EXCEPT ![l] = p] ELSE h.tail,
       size |-> [h.size EXCEPT ![l] = @ - 1]]

(* cc_listIter_move: i from where it is to between p and n.  The head and the
   tail are set by "else if": a list one moves in has two members at least. *)
IterMove(h, i, l, p, n) ==
  LET q == h.prev[i]
      m == h.next[i]
      unlinked == [next |-> Set(h.next, q, m), prev |-> Set(h.prev, m, q)]
      head1 == IF h.head[l] = i THEN m ELSE h.head[l]
      tail1 == IF h.head[l] # i /\ h.tail[l] = i THEN q ELSE h.tail[l]
  IN  [next |-> Set([unlinked.next EXCEPT ![i] = n], p, i),
       prev |-> Set([unlinked.prev EXCEPT ![i] = p], n, i),
       head |-> [h.head EXCEPT ![l] = IF p = NULL THEN i ELSE head1],
       tail |-> [h.tail EXCEPT ![l] = IF p # NULL /\ n = NULL THEN i
                                                              ELSE tail1],
       size |-> h.size]

-----------------------------------------------------------------------------
(* The pool. *)

(* The free iterators cc_listPool_get takes the top SetSize of: those of a new
   block, pushed from its first to its last, if there are too few. *)
Stock(more) ==
  [k \in 1..(BlockSize * Cardinality(more)) |->
     <<CHOOSE b \in more : TRUE, BlockSize + 1 - k>>] \o iters

Needed == IF count < SetSize THEN {{b} : b \in Block \ blocks} ELSE {{}}

Get(more) ==
  /\ iters' = SubSeq(Stock(more), SetSize + 1, Len(Stock(more)))
  /\ blocks' = blocks \cup more
  /\ count' = count + BlockSize * Cardinality(more) - SetSize
  /\ refcount' = refcount + SetSize

\* cc_listPool_put of a chain of iterators
Put(set) ==
  IF set = << >> THEN UNCHANGED pool
  ELSE /\ refcount' = refcount - Len(set)
       /\ IF refcount = Len(set)
          THEN iters' = << >> /\ count' = 0 /\ blocks' = {}
          ELSE /\ iters' = set \o iters
               /\ count' = count + Len(set)
               /\ UNCHANGED blocks

-----------------------------------------------------------------------------
(* The calls. *)

New(l) ==
  /\ l \in List \ live
  /\ live' = live \cup {l}
  /\ UNCHANGED <<links, spare, pool>>

\* cc_listIter_new between p and n; a set from the pool is stacked up from
\* its second iterator to its last.
IterNew(l, p, n) ==
  \/ /\ spare[l] # << >>
     /\ Become(IterAdd(Links, Head(spare[l]), l, p, n))
     /\ spare' = [spare EXCEPT ![l] = Tail(@)]
     /\ UNCHANGED pool
  \/ /\ spare[l] = << >>
     /\ \E more \in Needed :
          LET set == SubSeq(Stock(more), 1, SetSize)
          IN  /\ Get(more)
              /\ Become(IterAdd(Links, Head(set), l, p, n))
              /\ spare' = [spare EXCEPT ![l] = Reverse(Tail(set))]

\* cc_list_insert in front of an iterator, or at the head
Insert(l) ==
  /\ l \in live
  /\ \/ IterNew(l, NULL, head[l])
     \/ \E i \in In(l) : IterNew(l, prev[i], i)
  /\ UNCHANGED live

\* cc_list_append behind an iterator, or at the tail
AppendIter(l) ==
  /\ l \in live
  /\ \/ IterNew(l, tail[l], NULL)
     \/ \E i \in In(l) : IterNew(l, i, next[i])
  /\ UNCHANGED live

\* cc_list_remove
RemoveIter(l) ==
  /\ l \in live
  /\ \E i \in In(l) :
       /\ Become(IterRemove(Links, i, l))
       /\ spare' = [spare EXCEPT ![l] = <<i>> \o @]
  /\ UNCHANGED <<live, pool>>

MutantMovedBefore(h, l, i, to) == IterMove(h, i, l, h.prev[to], to)

\* cc_list_move
MovedBefore(h, l, i, to) ==
  IF i = to \/ i = h.prev[to] THEN h ELSE IterMove(h, i, l, h.prev[to], to)

\* cc_list_moven
MovedAfter(h, l, i, to) ==
  IF i = to \/ i = h.next[to] THEN h ELSE IterMove(h, i, l, to, h.next[to])

MoveIter(l) ==
  /\ l \in live
  /\ \E i \in In(l), to \in In(l) \cup {NULL} :
       \/ Become(MovedBefore(Links, l, i, IF to = NULL THEN head[l] ELSE to))
       \/ Become(MovedAfter(Links, l, i, IF to = NULL THEN tail[l] ELSE to))
  /\ UNCHANGED <<live, spare, pool>>

\* cc_list_swap and cc_list_swapn between two lists; within one they move.
Swap(l, m) ==
  /\ l \in live /\ m \in live /\ l # m
  /\ \E i \in In(l), to \in In(m) \cup {NULL} :
       LET removed == IterRemove(Links, i, l)
       IN  \/ Become(IterAdd(removed, i, m,
                             IF to = NULL THEN NULL ELSE removed.prev[to],
                             IF to = NULL THEN removed.head[m] ELSE to))
           \/ Become(IterAdd(removed, i, m,
                             IF to = NULL THEN removed.tail[m] ELSE to,
                             IF to = NULL THEN NULL ELSE removed.next[to]))
  /\ UNCHANGED <<live, spare, pool>>

\* The members of a in front of those of b, in list l; m is left empty.
Joined(a, b, l, m) ==
  /\ next' = Set(next, tail[a], head[b])
  /\ prev' = Set(prev, head[b], tail[a])
  /\ head' = [head EXCEPT ![l] = IF size[a] = 0 THEN head[b] ELSE head[a],
                          ![m] = NULL]
  /\ tail' = [tail EXCEPT ![l] = IF size[b] = 0 THEN tail[a] ELSE tail[b],
                          ![m] = NULL]
  /\ size' = [size EXCEPT ![l] = size[a] + size[b], ![m] = 0]

\* cc_list_appendList and cc_list_insertList
Concat(l, m) ==
  /\ l \in live /\ m \in live /\ l # m
  /\ size[m] # 0
  /\ Joined(l, m, l, m) \/ Joined(m, l, l, m)
  /\ UNCHANGED <<live, spare, pool>>

\* cc_list_discard removes the head until there is none.
DiscardLinks(l) ==
  LET after[k \in 0..size[l]] ==
        IF k = 0 THEN Links
        ELSE IterRemove(after[k - 1], after[k - 1].head[l], l)
  IN  after[size[l]]

Discarded(l) == Reverse(Linked(l)) \o spare[l]

Discard(l) ==
  /\ l \in live
  /\ Become(DiscardLinks(l))
  /\ spare' = [spare EXCEPT ![l] = Discarded(l)]
  /\ UNCHANGED <<live, pool>>

\* cc_list_delete
Delete(l) ==
  /\ l \in live
  /\ live' = live \ {l}
  /\ Become(DiscardLinks(l))
  /\ spare' = [spare EXCEPT ![l] = << >>]
  /\ Put(Discarded(l))

Next ==
  \/ \E l \in List :
       \/ New(l) \/ Insert(l) \/ AppendIter(l) \/ RemoveIter(l) \/ MoveIter(l)
       \/ Discard(l) \/ Delete(l)
  \/ \E l, m \in List : Swap(l, m) \/ Concat(l, m)

Spec == Init /\ [][Next]_vars

-----------------------------------------------------------------------------
(* Properties *)

(* A list reads the same from both ends: prev undoes next, the head and the
   tail are the ends and nothing is linked beyond them, whatever was inserted,
   removed, moved, swapped or joined where (cc_list.c:202-320, 772-880). *)
LinksAgree ==
  \A l \in List :
    LET s == Linked(l)
    IN  /\ head[l] = IF s = << >> THEN NULL ELSE s[1]
        /\ tail[l] = IF s = << >> THEN NULL ELSE Last(s)
        /\ \A k \in DOMAIN s :
             /\ s[k] \in Iter
             /\ prev[s[k]] = IF k = 1 THEN NULL ELSE s[k - 1]
             /\ next[s[k]] = IF k = Len(s) THEN NULL ELSE s[k + 1]

(* The pointers implement sequences, the stacks sets: each call does to the
   list what its name says, and to the pool what ListPool says. *)
Sequences == INSTANCE ListPool WITH
    seq   <- [l \in List |-> Linked(l)],
    spare <- [l \in List |-> ToSet(spare[l])],
    free  <- ToSet(iters)

ListPoolSpec == Sequences!Spec

=============================================================================
