------------------------------ MODULE ListPool ------------------------------
(***************************************************************************)
(* The iterators of cc_list: what the lists of a program hold, and the     *)
(* global pool they take them from and give them back to.  A list is the   *)
(* sequence of its iterators; module CCList has the pointers.              *)
(*                                                                         *)
(* The pool's mutex is held for the whole of cc_listPool_get and of        *)
(* cc_listPool_put but for the count of the iterators, which are the       *)
(* caller's own; a list is used by one thread at a time.  So every call is *)
(* one action, whatever thread makes it.                                   *)
(***************************************************************************)
EXTENDS CCSeq

CONSTANTS
  List,       \* addresses of cc_list_t
  Block,      \* addresses of cc_listBlock_t
  BlockSize,  \* CC_LISTBLOCK_SIZE
  SetSize     \* CC_LISTSET_SIZE

ASSUME ListPoolAssumption ==
  /\ BlockSize \in Nat \ {0}
  /\ SetSize \in 1..BlockSize

\* The iterators in a block, and all there can be.
Array(b) == {b} \X (1..BlockSize)
Iter == Block \X (1..BlockSize)

VARIABLES
  live,      \* the lists there are
  seq,       \* the iterators linked into each list, from head to tail
  spare,     \* the free iterators each list keeps (list->iters)
  free,      \* those of the pool (pool->iters)
  count,     \* pool->count
  refcount,  \* pool->refcount
  blocks     \* the blocks that are allocated (pool->blocks)

lists == <<live, seq, spare>>
pool  == <<free, count, refcount, blocks>>
vars  == <<lists, pool>>

Held(l) == ToSet(seq[l]) \cup spare[l]

Init ==
  /\ live = {}
  /\ seq = [l \in List |-> << >>]
  /\ spare = [l \in List |-> {}]
  /\ free = {}
  /\ count = 0
  /\ refcount = 0
  /\ blocks = {}

-----------------------------------------------------------------------------
(* The blocks cc_listPool_get may allocate: one, if the pool has less than a
   set. *)
Needed == IF count < SetSize THEN {{b} : b \in Block \ blocks} ELSE {{}}

(* A definition that begins with "Mutant" is a mistake the code does not
   make, which a run must notice in the place of the definition after it. *)
MutantGet(S) ==
  \E more \in Needed :
    /\ S \subseteq free \cup UNION {Array(b) : b \in more}
    /\ Cardinality(S) = SetSize
    /\ free' = (free \cup UNION {Array(b) : b \in more}) \ S
    /\ blocks' = blocks \cup more
    /\ count' = count + Cardinality(more) * BlockSize
    /\ refcount' = refcount + SetSize

(* cc_listPool_get, which returns the set S. *)
Get(S) ==
  \E more \in Needed :
    /\ S \subseteq free \cup UNION {Array(b) : b \in more}
    /\ Cardinality(S) = SetSize
    /\ free' = (free \cup UNION {Array(b) : b \in more}) \ S
    /\ blocks' = blocks \cup more
    /\ count' = count + Cardinality(more) * BlockSize - SetSize
    /\ refcount' = refcount + SetSize

MutantPutSet(S) ==
  IF S = {} THEN UNCHANGED pool
  ELSE /\ refcount' = refcount - SetSize
       /\ IF refcount = SetSize
          THEN free' = {} /\ count' = 0 /\ blocks' = {}
          ELSE /\ free' = free \cup S
               /\ count' = count + Cardinality(S)
               /\ UNCHANGED blocks
MutantPutEarly(S) ==
  IF S = {} THEN UNCHANGED pool
  ELSE /\ refcount' = refcount - Cardinality(S)
       /\ IF refcount - Cardinality(S) < SetSize
          THEN free' = {} /\ count' = 0 /\ blocks' = {}
          ELSE /\ free' = free \cup S
               /\ count' = count + Cardinality(S)
               /\ UNCHANGED blocks

(* cc_listPool_put of the iterators S: when no list holds an iterator any
   more, every block is freed. *)
Put(S) ==
  IF S = {} THEN UNCHANGED pool
  ELSE /\ refcount' = refcount - Cardinality(S)
       /\ IF refcount = Cardinality(S)
          THEN free' = {} /\ count' = 0 /\ blocks' = {}
          ELSE /\ free' = free \cup S
               /\ count' = count + Cardinality(S)
               /\ UNCHANGED blocks

-----------------------------------------------------------------------------
New(l) ==
  /\ l \in List \ live
  /\ live' = live \cup {l}
  /\ UNCHANGED <<seq, spare, pool>>

MutantAddSpare(l, p) ==
  \E i \in spare[l] :
    /\ seq' = [seq EXCEPT ![l] = InsertAt(@, p, i)]
    /\ UNCHANGED <<live, spare, pool>>

\* cc_listIter_new takes an iterator the list has to spare ...
AddSpare(l, p) ==
  \E i \in spare[l] :
    /\ seq' = [seq EXCEPT ![l] = InsertAt(@, p, i)]
    /\ spare' = [spare EXCEPT ![l] = @ \ {i}]
    /\ UNCHANGED <<live, pool>>

\* ... or else one of a set from the pool, and keeps the others.
AddRefill(l, p) ==
  /\ spare[l] = {}
  /\ \E S \in SUBSET Iter : \E i \in S :
       /\ Get(S)
       /\ seq' = [seq EXCEPT ![l] = InsertAt(@, p, i)]
       /\ spare' = [spare EXCEPT ![l] = S \ {i}]
  /\ UNCHANGED live

\* cc_list_insert, cc_list_append and cc_list_insertSorted put the new
\* iterator at some position p; when no block can be allocated they fail and
\* change nothing.
Add(l) ==
  /\ l \in live
  /\ \E p \in 1..(Len(seq[l]) + 1) : AddSpare(l, p) \/ AddRefill(l, p)

\* cc_list_remove
RemoveIter(l) ==
  /\ l \in live
  /\ \E k \in 1..Len(seq[l]) :
       /\ seq' = [seq EXCEPT ![l] = RemoveAt(@, k)]
       /\ spare' = [spare EXCEPT ![l] = @ \cup {seq[l][k]}]
  /\ UNCHANGED <<live, pool>>

\* cc_list_move and cc_list_moven
Reorder(l) ==
  /\ l \in live
  /\ \E j, k \in 1..Len(seq[l]) :
       seq' = [seq EXCEPT ![l] = Move(@, k, j)]
  /\ UNCHANGED <<live, spare, pool>>

\* cc_list_swap and cc_list_swapn between two lists
Swap(l, m) ==
  /\ l \in live /\ m \in live /\ l # m
  /\ \E k \in 1..Len(seq[l]), j \in 1..(Len(seq[m]) + 1) :
       seq' = [seq EXCEPT ![l] = RemoveAt(@, k),
                          ![m] = InsertAt(@, j, seq[l][k])]
  /\ UNCHANGED <<live, spare, pool>>

\* cc_list_appendList and cc_list_insertList: l takes all that m has linked.
Concat(l, m) ==
  /\ l \in live /\ m \in live /\ l # m
  /\ \E joined \in {seq[l] \o seq[m], seq[m] \o seq[l]} :
       seq' = [seq EXCEPT ![l] = joined, ![m] = << >>]
  /\ UNCHANGED <<live, spare, pool>>

\* cc_list_discard
Discard(l) ==
  /\ l \in live
  /\ seq' = [seq EXCEPT ![l] = << >>]
  /\ spare' = [spare EXCEPT ![l] = Held(l)]
  /\ UNCHANGED <<live, pool>>

MutantDelete(l) ==
  /\ l \in live
  /\ live' = live \ {l}
  /\ seq' = [seq EXCEPT ![l] = << >>]
  /\ spare' = [spare EXCEPT ![l] = {}]
  /\ Put(spare[l])

\* cc_list_delete discards what is linked and gives all to the pool.
Delete(l) ==
  /\ l \in live
  /\ live' = live \ {l}
  /\ seq' = [seq EXCEPT ![l] = << >>]
  /\ spare' = [spare EXCEPT ![l] = {}]
  /\ Put(Held(l))

Next ==
  \/ \E l \in List :
       New(l) \/ Add(l) \/ RemoveIter(l) \/ Reorder(l) \/ Discard(l) \/ Delete(l)
  \/ \E l, m \in List : Swap(l, m) \/ Concat(l, m)

Spec == Init /\ [][Next]_vars

-----------------------------------------------------------------------------
(* Properties *)

Allocated == UNION {Array(b) : b \in blocks}
InUse == UNION {Held(l) : l \in List}

(* Every variable has the type its C declaration and its use give it; the
   counters do not wrap below zero. *)
TypeOK ==
  /\ live \in SUBSET List
  /\ seq \in [List -> Seq(Iter)]
  /\ spare \in [List -> SUBSET Iter]
  /\ free \in SUBSET Iter
  /\ count \in Nat
  /\ refcount \in Nat
  /\ blocks \in SUBSET Block

(* An iterator is in one place: linked once into one list, spare in one list,
   or free in the pool, whichever lists it was moved through.  So no two
   users are ever given the same iterator (cc_list.c:339, 136). *)
OneHome ==
  /\ \A l \in List : IsInjective(seq[l]) /\ ToSet(seq[l]) \cap spare[l] = {}
  /\ \A l, m \in List : l # m => Held(l) \cap Held(m) = {}
  /\ free \cap InUse = {}

(* The iterators in lists and in the pool are exactly those of the blocks
   that are allocated: none is used after its block was freed
   (cc_list.c:190), and none is lost before. *)
NoDangling == free \cup InUse = Allocated

(* pool->count is the length of the free chain, of which get takes SetSize
   without looking (cc_list.c:138), and pool->refcount is what the lists
   hold, so that it is zero when the blocks can be freed and not before. *)
CountsExact ==
  /\ count = Cardinality(free)
  /\ refcount = Cardinality(InUse)

(* "free all blocks when not needed" (cc_list.c:179): memory is kept only as
   long as some list holds an iterator, and a list that is deleted holds
   none. *)
BlocksFreed ==
  /\ InUse = {} => blocks = {}
  /\ \A l \in List \ live : Held(l) = {}

=============================================================================
