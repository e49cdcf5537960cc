------------------------------ MODULE HashMap ------------------------------
(***************************************************************************)
(* cc_map: a list of nodes sorted by hash, length and key, and an array of *)
(* buckets, each of which points to the first of its nodes in the list.    *)
(* The operators give what each function makes of a map; module MultiMap   *)
(* has the calls.                                                          *)
(*                                                                         *)
(* A map holds one node per key, so a key stands for its node and for the  *)
(* iterator to it.  Keys are numbers in the order in which cc_mapNode_cmp  *)
(* puts keys of one hash: shorter ones first, then by their bytes.         *)
(***************************************************************************)
EXTENDS CCSeq

CONSTANTS
  Key,        \* the keys, as numbers
  LongKey,    \* those longer than CC_MAP_KEYLEN
  HashRange,  \* the hashes are 0..HashRange-1 (2^32 in the code)
  Capacity    \* CC_MAP_CAPACITY

\* The second conjunct says that HashRange is a power of two.
ASSUME HashMapAssumption ==
  /\ HashRange \in Nat \ {0}
  /\ \A c \in 1..HashRange :
       HashRange % c = 0 /\ 2 * c <= HashRange => HashRange % (2 * c) = 0
  /\ Capacity \in 1..HashRange
  /\ HashRange % Capacity = 0
  /\ Key \subseteq Nat \ {0}
  /\ LongKey \subseteq Key

Nil == 0

\* What a seed can make of the keys.
HashFunction == [Key -> 0..(HashRange - 1)]

NewMap(h) ==
  [hash     |-> h,
   capacity |-> Capacity,
   nodes    |-> << >>,
   buckets  |-> [s \in 0..(Capacity - 1) |-> Nil]]

\* CC_MAP_IDX
Slot(m, k) == m.hash[k] \div (HashRange \div m.capacity)

\* cc_mapNode_cmp: the node of a is less than the key b.
Before(m, a, b) ==
  \/ m.hash[a] < m.hash[b]
  \/ m.hash[a] = m.hash[b] /\ a < b

Place(m, k) == CHOOSE i \in DOMAIN m.nodes : m.nodes[i] = k

NodeAt(m, i) == IF i \in DOMAIN m.nodes THEN m.nodes[i] ELSE Nil

MapHead(m) == NodeAt(m, 1)
MapNext(m, k) == NodeAt(m, Place(m, k) + 1)

-----------------------------------------------------------------------------
(* The walk of findp and addp through a bucket passes the nodes less than k.
   Mutant: it looks at the hashes alone. *)
MutantPasses(m, n, k) == Slot(m, n) = Slot(m, k) /\ m.hash[n] <= m.hash[k]
Passes(m, n, k) == Slot(m, n) = Slot(m, k) /\ Before(m, n, k)

\* Where that walk ends, which may be behind the last node.
WalkEnd(m, k) ==
  LET first == Place(m, m.buckets[Slot(m, k)])
  IN  CHOOSE i \in first..(Len(m.nodes) + 1) :
        /\ i \in DOMAIN m.nodes => ~Passes(m, m.nodes[i], k)
        /\ \A j \in first..(i - 1) : Passes(m, m.nodes[j], k)

Find(m, k) ==
  IF \/ k \in LongKey
     \/ m.buckets[Slot(m, k)] = Nil
     \/ NodeAt(m, WalkEnd(m, k)) # k
  THEN Nil
  ELSE k

(* Where addp puts a node: in its bucket or, if that is empty, before the
   next bucket in use, or at the end. *)
UsedAfter(m, s) == {i \in (s + 1)..(m.capacity - 1) : m.buckets[i] # Nil}

AddPlace(m, k) ==
  LET used == UsedAfter(m, Slot(m, k))
  IN  IF m.buckets[Slot(m, k)] # Nil THEN WalkEnd(m, k)
      ELSE IF used # {} THEN Place(m, m.buckets[Min(used)])
      ELSE Len(m.nodes) + 1

\* A node that is put before the first of its bucket, or alone, heads it.
Heads(m, k) ==
  m.buckets[Slot(m, k)] \in {Nil, NodeAt(m, AddPlace(m, k))}

Inserted(m, k) ==
  [m EXCEPT !.nodes = InsertAt(@, AddPlace(m, k), k),
            !.buckets = IF Heads(m, k) THEN [@ EXCEPT ![Slot(m, k)] = k] ELSE @]

-----------------------------------------------------------------------------
(* The first node of slot j in the walk from the node h; the walk ends at a
   node of a greater slot. *)
FirstOf(m, h, j) ==
  LET reached == {i \in Place(m, h)..Len(m.nodes) : Slot(m, m.nodes[i]) >= j}
  IN  IF reached # {} /\ Slot(m, m.nodes[Min(reached)]) = j
      THEN m.nodes[Min(reached)]
      ELSE Nil

(* One step of the loop of grow: bucket k of the old array is divided between
   2k and 2k+1 of the new one, which begins at the same address. *)
Divide(m, b, k) ==
  [b EXCEPT ![2 * k]     = IF b[k] # Nil /\ Slot(m, b[k]) = 2 * k THEN b[k] ELSE Nil,
            ![2 * k + 1] = IF b[k] # Nil THEN FirstOf(m, b[k], 2 * k + 1) ELSE Nil]

\* The loop goes from the last bucket to the first.  Mutant: from the first.
MutantLoop(c, n) == n - 1
Loop(c, n) == c - n

(* realloc leaves the second half undefined; no step reads it before one has
   written it. *)
Doubled(m) == [m EXCEPT !.capacity = 2 * @]

Rebuilt(m) ==
  LET c == m.capacity
      after[n \in 0..c] ==
        IF n = 0 THEN [s \in 0..(2 * c - 1) |-> IF s < c THEN m.buckets[s] ELSE Nil]
        ELSE Divide(Doubled(m), after[n - 1], Loop(c, n))
  IN  after[c]

(* grow; the array may not be had.  At a capacity of HashRange it cannot:
   twice 2^30 is no int, and the size asked for has no end. *)
Grown(m, had) ==
  IF Len(m.nodes) > m.capacity /\ had /\ 2 * m.capacity <= HashRange
  THEN [Doubled(m) EXCEPT !.buckets = Rebuilt(m)]
  ELSE m

Added(m, k, had) == Grown(Inserted(m, k), had)

-----------------------------------------------------------------------------
(* The bucket of a node that is removed begins with the next node, if that is
   of the bucket. *)
NewHead(m, k) ==
  LET n == MapNext(m, k)
  IN  IF n # Nil /\ Slot(m, n) = Slot(m, k) THEN n ELSE Nil

Removed(m, k) ==
  [m EXCEPT !.nodes = RemoveAt(@, Place(m, k)),
            !.buckets = IF @[Slot(m, k)] = k THEN [@ EXCEPT ![Slot(m, k)] = NewHead(m, k)]
                        ELSE @]

Discarded(m) ==
  [m EXCEPT !.nodes = << >>, !.buckets = [s \in DOMAIN @ |-> Nil]]

-----------------------------------------------------------------------------
(* What every map is: typed, its nodes in order, and each bucket the first of
   its nodes (cc_map.c:372, :810). *)
MapType(m) ==
  /\ m \in [hash : HashFunction, capacity : 1..HashRange, nodes : Seq(Key \ LongKey),
            buckets : [0..(m.capacity - 1) -> Key \cup {Nil}]]
  /\ HashRange % m.capacity = 0

InOrder(m) ==
  \A i, j \in DOMAIN m.nodes : i < j => Before(m, m.nodes[i], m.nodes[j])

FirstInBucket(m, n, s) ==
  /\ n \in Range(m.nodes)
  /\ Slot(m, n) = s
  /\ \A o \in Range(m.nodes) : Slot(m, o) = s => ~Before(m, o, n)

BucketsExact(m) ==
  \A s \in 0..(m.capacity - 1) :
    IF \E n \in Range(m.nodes) : Slot(m, n) = s
    THEN FirstInBucket(m, m.buckets[s], s)
    ELSE m.buckets[s] = Nil

MapOK(m) == MapType(m) /\ InOrder(m) /\ BucketsExact(m)

=============================================================================
