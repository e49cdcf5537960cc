--------------------------- MODULE MultiMapProofs ---------------------------
(***************************************************************************)
(* Theorems about MultiMap, for any keys and values, any hash functions    *)
(* and any bound on the values: the map stays a map, and find sees exactly *)
(* the keys that have values.                                              *)
(***************************************************************************)
EXTENDS MultiMap, CCSeqLemmas

-----------------------------------------------------------------------------
(* The map: its functions keep the nodes in order and the buckets exact, for any
   keys, any hash function and any capacity. *)

(* Slots. *)

LEMMA Quotient ==
  ASSUME NEW a \in Nat, NEW w \in Nat \ {0}
  PROVE  /\ a \div w \in Nat
         /\ (a \div w) * w <= a
         /\ a < (a \div w) * w + w
OBVIOUS

LEMMA QuotientMonotone ==
  ASSUME NEW a \in Nat, NEW b \in Nat, NEW w \in Nat \ {0}, a <= b
  PROVE  a \div w <= b \div w
<1> DEFINE p == a \div w
           q == b \div w
<1>1. p \in Nat /\ q \in Nat /\ p * w <= a /\ b < q * w + w
  BY Quotient
<1> HIDE DEF p, q
<1>2. SUFFICES ASSUME q < p PROVE FALSE
  BY <1>1 DEF p, q
<1>3. (q + 1) * w <= p * w
  BY <1>1, <1>2
<1>4. (q + 1) * w = q * w + w
  BY <1>1
<1> QED
  BY <1>1, <1>3, <1>4

LEMMA QuotientBelow ==
  ASSUME NEW a \in Nat, NEW c \in Nat, NEW w \in Nat \ {0}, a < c * w
  PROVE  a \div w < c
<1> DEFINE q == a \div w
<1>1. q \in Nat /\ q * w <= a
  BY Quotient
<1> HIDE DEF q
<1>2. SUFFICES ASSUME c <= q PROVE FALSE
  BY <1>1 DEF q
<1>3. c * w <= q * w
  BY <1>1, <1>2
<1> QED
  BY <1>1, <1>3

LEMMA QuotientHalf ==
  ASSUME NEW a \in Nat, NEW w \in Nat \ {0}
  PROVE  a \div w \in {2 * (a \div (2 * w)), 2 * (a \div (2 * w)) + 1}
<1> DEFINE p == a \div w
           q == a \div (2 * w)
<1>1. p \in Nat /\ p * w <= a /\ a < p * w + w
  BY Quotient
<1>2. q \in Nat /\ q * (2 * w) <= a /\ a < q * (2 * w) + 2 * w
  <2>1. 2 * w \in Nat \ {0}
    OBVIOUS
  <2> QED
    BY <2>1, Quotient
<1> HIDE DEF p, q
<1>3. p >= 2 * q
  <2>1. SUFFICES ASSUME p + 1 <= 2 * q PROVE FALSE
    BY <1>1, <1>2
  <2>2. (p + 1) * w <= (2 * q) * w
    BY <1>1, <1>2, <2>1
  <2> QED
    BY <1>1, <1>2, <2>2
<1>4. p <= 2 * q + 1
  <2>1. SUFFICES ASSUME 2 * q + 2 <= p PROVE FALSE
    BY <1>1, <1>2
  <2>2. (2 * q + 2) * w <= p * w
    BY <1>1, <1>2, <2>1
  <2> QED
    BY <1>1, <1>2, <2>2
<1>5. p = 2 * q \/ p = 2 * q + 1
  <2>1. p \in Nat /\ q \in Nat
    BY <1>1, <1>2
  <2> QED
    BY <2>1, <1>3, <1>4
<1> QED
  BY <1>5 DEF p, q

\* The hashes of a slot, in number.
Width(c) == HashRange \div c

LEMMA WidthFacts ==
  ASSUME NEW c \in 1..HashRange, HashRange % c = 0
  PROVE  Width(c) \in Nat \ {0} /\ HashRange = c * Width(c)
<1>1. HashRange \in Nat /\ c \in Nat \ {0} /\ c <= HashRange
  BY HashMapAssumption
<1> DEFINE w == HashRange \div c
<1>2. w \in Nat /\ w * c <= HashRange /\ HashRange < w * c + c
  BY <1>1, Quotient
<1>3. HashRange = c * w + (HashRange % c)
  BY <1>1
<1>4. w # 0
  BY <1>1, <1>2
<1> QED
  BY <1>1, <1>2, <1>3, <1>4 DEF Width

LEMMA WidthHalf ==
  ASSUME NEW c \in 1..HashRange, HashRange % c = 0, 2 * c <= HashRange
  PROVE  /\ 2 * c \in 1..HashRange /\ HashRange % (2 * c) = 0
         /\ Width(c) = 2 * Width(2 * c)
<1>1. HashRange \in Nat /\ c \in Nat \ {0} /\ c <= HashRange
  BY HashMapAssumption
<1>2. 2 * c \in 1..HashRange /\ HashRange % (2 * c) = 0
  BY <1>1, HashMapAssumption
<1>3. Width(c) \in Nat /\ HashRange = c * Width(c)
  BY WidthFacts
<1>4. Width(2 * c) \in Nat /\ HashRange = (2 * c) * Width(2 * c)
  BY <1>2, WidthFacts
<1>5. c * Width(c) = c * (2 * Width(2 * c))
  BY <1>1, <1>3, <1>4
<1>6. \A x, y \in Nat : c * x = c * y => x = y
  BY <1>1
<1>7. 2 * Width(2 * c) \in Nat
  BY <1>4
<1> QED
  BY <1>2, <1>3, <1>5, <1>6, <1>7

-----------------------------------------------------------------------------
(* The nodes. *)

\* A map without its buckets.
NodesOK(m) ==
  /\ m.nodes \in Seq(Key \ LongKey)
  /\ m.hash \in HashFunction
  /\ m.capacity \in 1..HashRange
  /\ HashRange % m.capacity = 0
  /\ InOrder(m)

LEMMA SlotRange ==
  ASSUME NEW m, NodesOK(m), NEW k \in Key
  PROVE  Slot(m, k) \in 0..(m.capacity - 1)
<1> DEFINE c == m.capacity
           a == m.hash[k]
<1>1. /\ c \in 1..HashRange /\ HashRange % c = 0 /\ HashRange \in Nat
      /\ a \in Nat /\ a < HashRange
  BY HashMapAssumption DEF NodesOK, HashFunction
<1> HIDE DEF c, a
<1>2. Width(c) \in Nat \ {0} /\ HashRange = c * Width(c)
  BY <1>1, WidthFacts
<1>3. a \div Width(c) \in Nat
  BY <1>1, <1>2, Quotient
<1>4. a \div Width(c) < c
  BY <1>1, <1>2, QuotientBelow
<1>5. Slot(m, k) = a \div Width(c)
  BY DEF Slot, Width, a, c
<1>6. c \in Nat
  BY <1>1
<1> HIDE <1>2
<1>7. \A q \in Nat : q < c => q \in 0..(c - 1)
  BY <1>6
<1> QED
  BY <1>3, <1>4, <1>5, <1>7 DEF c

LEMMA SlotMonotone ==
  ASSUME NEW m, NodesOK(m), NEW k \in Key, NEW l \in Key,
         m.hash[k] <= m.hash[l]
  PROVE  Slot(m, k) <= Slot(m, l)
<1>1. m.hash[k] \in Nat /\ m.hash[l] \in Nat
  BY HashMapAssumption DEF NodesOK, HashFunction
<1>2. Width(m.capacity) \in Nat \ {0}
  BY WidthFacts DEF NodesOK
<1> QED
  BY <1>1, <1>2, QuotientMonotone DEF Slot, Width

\* The order of the keys is total, and that of the slots follows it.
LEMMA BeforeFacts ==
  ASSUME NEW m, NodesOK(m)
  PROVE  /\ \A a, b, c \in Key : Before(m, a, b) /\ Before(m, b, c) => Before(m, a, c)
         /\ \A a, b \in Key : Before(m, a, b) \/ a = b \/ Before(m, b, a)
         /\ \A a, b \in Key : Before(m, a, b) => ~Before(m, b, a) /\ a # b
         /\ \A a, b \in Key : Before(m, a, b) => Slot(m, a) <= Slot(m, b)
         /\ \A a, b \in Key : Slot(m, a) < Slot(m, b) => Before(m, a, b)
<1>1. \A k \in Key : k \in Nat /\ m.hash[k] \in Nat
  BY HashMapAssumption DEF NodesOK, HashFunction
<1>2. \A a, b \in Key : m.hash[a] <= m.hash[b] => Slot(m, a) <= Slot(m, b)
  BY SlotMonotone
<1>3. \A k \in Key : Slot(m, k) \in Nat
  BY SlotRange DEF NodesOK
<1>4. \A a, b, c \in Key : Before(m, a, b) /\ Before(m, b, c) => Before(m, a, c)
  BY <1>1 DEF Before
<1>5. /\ \A a, b \in Key : Before(m, a, b) \/ a = b \/ Before(m, b, a)
      /\ \A a, b \in Key : Before(m, a, b) => ~Before(m, b, a) /\ a # b
  BY <1>1 DEF Before
<1>6. \A a, b \in Key : Before(m, a, b) => Slot(m, a) <= Slot(m, b)
  BY <1>1, <1>2 DEF Before
<1>7. \A a, b \in Key : Slot(m, a) < Slot(m, b) => Before(m, a, b)
  BY <1>1, <1>2, <1>3 DEF Before
<1> QED
  BY <1>4, <1>5, <1>6, <1>7

LEMMA NodeFacts ==
  ASSUME NEW m, NodesOK(m)
  PROVE  /\ Len(m.nodes) \in Nat /\ DOMAIN m.nodes = 1..Len(m.nodes)
         /\ \A i \in 1..Len(m.nodes) :
              /\ m.nodes[i] \in Key \ LongKey /\ m.nodes[i] # Nil
              /\ Slot(m, m.nodes[i]) \in 0..(m.capacity - 1)
         /\ \A i, j \in 1..Len(m.nodes) :
              /\ i < j => Before(m, m.nodes[i], m.nodes[j])
              /\ i <= j => Slot(m, m.nodes[i]) <= Slot(m, m.nodes[j])
              /\ m.nodes[i] = m.nodes[j] => i = j
<1>1. /\ Len(m.nodes) \in Nat /\ DOMAIN m.nodes = 1..Len(m.nodes)
      /\ \A i \in 1..Len(m.nodes) : m.nodes[i] \in Key \ LongKey
  BY DEF NodesOK
<1>2. \A k \in Key : k # Nil /\ Slot(m, k) \in 0..(m.capacity - 1)
  BY SlotRange, HashMapAssumption DEF Nil
<1>3. \A k \in Key : Slot(m, k) \in Nat
  BY <1>2 DEF NodesOK
<1>4. \A i, j \in 1..Len(m.nodes) : i < j => Before(m, m.nodes[i], m.nodes[j])
  BY <1>1 DEF NodesOK, InOrder
<1>5. ASSUME NEW i \in 1..Len(m.nodes), NEW j \in 1..Len(m.nodes)
      PROVE  /\ i <= j => Slot(m, m.nodes[i]) <= Slot(m, m.nodes[j])
             /\ m.nodes[i] = m.nodes[j] => i = j
  <2>1. i < j \/ i = j \/ j < i
    BY <1>1
  <2>2. i < j => /\ m.nodes[i] # m.nodes[j]
                 /\ Slot(m, m.nodes[i]) <= Slot(m, m.nodes[j])
    BY <1>1, <1>4, BeforeFacts
  <2>3. j < i => m.nodes[i] # m.nodes[j] /\ ~(i <= j)
    BY <1>1, <1>4, BeforeFacts
  <2>4. Slot(m, m.nodes[i]) <= Slot(m, m.nodes[i])
    BY <1>1, <1>3
  <2> QED
    BY <2>1, <2>2, <2>3, <2>4
<1> QED
  BY <1>1, <1>2, <1>4, <1>5

LEMMA PlaceFacts ==
  ASSUME NEW m, NodesOK(m)
  PROVE  /\ \A i \in 1..Len(m.nodes) : Place(m, m.nodes[i]) = i
         /\ \A k \in Range(m.nodes) :
              Place(m, k) \in 1..Len(m.nodes) /\ m.nodes[Place(m, k)] = k
<1>1. \A i \in 1..Len(m.nodes) : Place(m, m.nodes[i]) = i
  BY NodeFacts DEF Place
<1>2. \A k \in Range(m.nodes) : \E i \in 1..Len(m.nodes) : m.nodes[i] = k
  BY NodeFacts DEF Range
<1> QED
  BY <1>1, <1>2

-----------------------------------------------------------------------------
(* The buckets, by places in the list. *)

Heading(m, s, i) ==
  /\ i \in 1..Len(m.nodes)
  /\ Slot(m, m.nodes[i]) = s
  /\ \A j \in 1..(i - 1) : Slot(m, m.nodes[j]) < s

HeadOK(m, s, b) ==
  \/ /\ b = Nil
     /\ \A i \in 1..Len(m.nodes) : Slot(m, m.nodes[i]) # s
  \/ \E i \in 1..Len(m.nodes) : Heading(m, s, i) /\ b = m.nodes[i]

LEMMA BucketsByPlace ==
  ASSUME NEW m, NodesOK(m)
  PROVE  BucketsExact(m) <=>
           \A s \in 0..(m.capacity - 1) : HeadOK(m, s, m.buckets[s])
<1>1. ASSUME NEW s \in 0..(m.capacity - 1), NEW i \in 1..Len(m.nodes)
      PROVE  Heading(m, s, i) <=> FirstInBucket(m, m.nodes[i], s)
  <2>1. /\ s \in Nat /\ i \in Nat
        /\ \A j \in 1..(i - 1) : j \in 1..Len(m.nodes) /\ j < i
        /\ \A j \in 1..Len(m.nodes) : j < i => j \in 1..(i - 1)
    BY NodeFacts DEF NodesOK
  <2>2. \A j \in 1..Len(m.nodes) : Slot(m, m.nodes[j]) \in Nat
    BY NodeFacts DEF NodesOK
  <2>3. Range(m.nodes) = {m.nodes[j] : j \in 1..Len(m.nodes)}
    BY NodeFacts DEF Range
  <2>4. ASSUME Heading(m, s, i)
        PROVE  FirstInBucket(m, m.nodes[i], s)
    <3>1. ASSUME NEW j \in 1..Len(m.nodes), Slot(m, m.nodes[j]) = s
          PROVE  ~Before(m, m.nodes[j], m.nodes[i])
      <4>1. j = i \/ i < j
        BY <2>1, <2>4, <3>1, <2>2 DEF Heading
      <4> QED
        BY <4>1, NodeFacts, BeforeFacts
    <3> QED
      BY <2>3, <2>4, <3>1 DEF FirstInBucket, Heading
  <2>5. ASSUME FirstInBucket(m, m.nodes[i], s)
        PROVE  Heading(m, s, i)
    <3>1. ASSUME NEW j \in 1..(i - 1)
          PROVE  Slot(m, m.nodes[j]) < s
      <4>1. Before(m, m.nodes[j], m.nodes[i]) /\ Slot(m, m.nodes[j]) <= Slot(m, m.nodes[i])
        BY <2>1, NodeFacts
      <4>2. Slot(m, m.nodes[j]) # s /\ Slot(m, m.nodes[i]) = s
        BY <4>1, <2>1, <2>3, <2>5 DEF FirstInBucket
      <4> QED
        BY <4>1, <4>2, <2>1, <2>2
    <3> QED
      BY <2>5, <3>1 DEF FirstInBucket, Heading
  <2> QED
    BY <2>4, <2>5
<1>2. Range(m.nodes) = {m.nodes[j] : j \in 1..Len(m.nodes)}
  BY NodeFacts DEF Range
<1>3. ASSUME NEW s \in 0..(m.capacity - 1)
      PROVE  HeadOK(m, s, m.buckets[s]) <=>
               IF \E n \in Range(m.nodes) : Slot(m, n) = s
               THEN FirstInBucket(m, m.buckets[s], s)
               ELSE m.buckets[s] = Nil
  <2>1. (\E n \in Range(m.nodes) : Slot(m, n) = s)
          <=> ~\A i \in 1..Len(m.nodes) : Slot(m, m.nodes[i]) # s
    BY <1>2
  <2>2. \A i \in 1..Len(m.nodes) : Heading(m, s, i) => Slot(m, m.nodes[i]) = s
    BY DEF Heading
  <2>3. FirstInBucket(m, m.buckets[s], s) =>
          \E i \in 1..Len(m.nodes) : m.buckets[s] = m.nodes[i]
    BY <1>2 DEF FirstInBucket
  <2> QED
    BY <1>1, <2>1, <2>2, <2>3 DEF HeadOK
<1> QED
  BY <1>3 DEF BucketsExact

-----------------------------------------------------------------------------
(* The walk through a bucket, and the place of a key. *)

LEMMA MinIs ==
  ASSUME NEW S \in SUBSET Nat, S # {}
  PROVE  Min(S) \in S /\ \A k \in S : Min(S) <= k
<1>1. \E m \in S : \A k \in S : m <= k
  BY LeastNat
<1> QED
  BY <1>1, Zenon DEF Min

\* i is where k stands among the nodes, or would stand.
Splits(m, k, i) ==
  /\ i \in 1..(Len(m.nodes) + 1)
  /\ \A j \in 1..(i - 1) : Before(m, m.nodes[j], k)
  /\ \A j \in i..Len(m.nodes) : ~Before(m, m.nodes[j], k)

(* It is enough to look at the node at i. *)
LEMMA SplitsAt ==
  ASSUME NEW m, NodesOK(m), NEW k \in Key, NEW i \in 1..(Len(m.nodes) + 1),
         \A j \in 1..(i - 1) : Before(m, m.nodes[j], k),
         i \in 1..Len(m.nodes) => ~Before(m, m.nodes[i], k)
  PROVE  Splits(m, k, i)
<1>1. Len(m.nodes) \in Nat /\ i \in Nat
  BY NodeFacts
<1>2. ASSUME NEW j \in i..Len(m.nodes)
      PROVE  ~Before(m, m.nodes[j], k)
  <2>1. i \in 1..Len(m.nodes) /\ j \in 1..Len(m.nodes) /\ (i = j \/ i < j)
    BY <1>1
  <2>2. i < j => Before(m, m.nodes[i], m.nodes[j])
    BY <2>1, NodeFacts
  <2>3. m.nodes[i] \in Key /\ m.nodes[j] \in Key
    BY <2>1, NodeFacts
  <2> QED
    BY <2>1, <2>2, <2>3, BeforeFacts
<1> QED
  BY <1>2 DEF Splits

LEMMA SplitsFacts ==
  ASSUME NEW m, NodesOK(m), NEW k \in Key, NEW i, Splits(m, k, i)
  PROVE  /\ k \in Range(m.nodes) <=> i \in 1..Len(m.nodes) /\ m.nodes[i] = k
         /\ k \notin Range(m.nodes) =>
              \A j \in i..Len(m.nodes) : Before(m, k, m.nodes[j])
<1>1. /\ Len(m.nodes) \in Nat /\ i \in 1..(Len(m.nodes) + 1)
      /\ Range(m.nodes) = {m.nodes[j] : j \in 1..Len(m.nodes)}
  BY NodeFacts DEF Range, Splits
<1>2. ASSUME NEW j \in 1..Len(m.nodes), m.nodes[j] = k
      PROVE  j = i
  <2>1. ~(j < i)
    BY <1>1, <1>2, BeforeFacts DEF Splits
  <2>2. ~(i < j)
    <3>1. SUFFICES ASSUME i < j PROVE FALSE
      OBVIOUS
    <3>2. i \in 1..Len(m.nodes) /\ i \in i..Len(m.nodes)
      BY <1>1, <3>1
    <3>3. Before(m, m.nodes[i], k)
      BY <1>2, <3>1, <3>2, NodeFacts
    <3> QED
      BY <3>2, <3>3 DEF Splits
  <2> QED
    BY <1>1, <2>1, <2>2
<1>3. ASSUME NEW j \in i..Len(m.nodes), k \notin Range(m.nodes)
      PROVE  Before(m, k, m.nodes[j])
  <2>1. j \in 1..Len(m.nodes)
    BY <1>1
  <2>2. ~Before(m, m.nodes[j], k) /\ m.nodes[j] # k /\ m.nodes[j] \in Key
    BY <1>1, <1>3, <2>1, NodeFacts DEF Splits
  <2> QED
    BY <2>2, BeforeFacts
<1> QED
  BY <1>1, <1>2, <1>3

LEMMA WalkEndSplits ==
  ASSUME NEW m, NodesOK(m), NEW k \in Key,
         HeadOK(m, Slot(m, k), m.buckets[Slot(m, k)]),
         m.buckets[Slot(m, k)] # Nil
  PROVE  Splits(m, k, WalkEnd(m, k))
<1> DEFINE s == Slot(m, k)
           first == Place(m, m.buckets[s])
           e == WalkEnd(m, k)
<1>1. /\ Len(m.nodes) \in Nat /\ DOMAIN m.nodes = 1..Len(m.nodes)
      /\ s \in Nat /\ \A i \in 1..Len(m.nodes) : Slot(m, m.nodes[i]) \in Nat
  BY NodeFacts, SlotRange DEF NodesOK
<1>2. Heading(m, s, first)
  BY PlaceFacts DEF HeadOK
<1>3. first \in 1..Len(m.nodes)
  BY <1>2 DEF Heading
<1> HIDE DEF first
<1> DEFINE Ends == {i \in first..(Len(m.nodes) + 1) :
                      i \in DOMAIN m.nodes => ~Passes(m, m.nodes[i], k)}
<1>4. \E i \in Ends : \A j \in Ends : i <= j
  <2>1. Len(m.nodes) + 1 \in Ends
    BY <1>1, <1>3
  <2>2. Ends \in SUBSET Nat
    BY <1>3
  <2> HIDE DEF Ends
  <2> QED
    BY <2>1, <2>2, LeastNat
<1>5. \E i \in first..(Len(m.nodes) + 1) :
        /\ i \in DOMAIN m.nodes => ~Passes(m, m.nodes[i], k)
        /\ \A j \in first..(i - 1) : Passes(m, m.nodes[j], k)
  <2>1. PICK i \in Ends : \A j \in Ends : i <= j
    BY <1>4
  <2>2. ASSUME NEW j \in first..(i - 1)
        PROVE  Passes(m, m.nodes[j], k)
    <3>1. j \in first..(Len(m.nodes) + 1) /\ ~(i <= j)
      BY <1>1, <1>3
    <3> QED
      BY <2>1, <3>1
  <2> QED
    BY <2>1, <2>2
<1>6. /\ e \in first..(Len(m.nodes) + 1)
      /\ e \in DOMAIN m.nodes => ~Passes(m, m.nodes[e], k)
      /\ \A j \in first..(e - 1) : Passes(m, m.nodes[j], k)
  BY <1>5 DEF WalkEnd, first
<1> HIDE DEF e
<1>7. e \in 1..(Len(m.nodes) + 1)
  BY <1>1, <1>3, <1>6
<1>8. ASSUME NEW j \in 1..(e - 1)
      PROVE  Before(m, m.nodes[j], k)
  <2>1. j \in 1..Len(m.nodes)
    BY <1>1, <1>7
  <2>2. CASE j < first
    <3>1. Slot(m, m.nodes[j]) < s
      BY <1>2, <1>3, <2>1, <2>2 DEF Heading
    <3> QED
      BY <2>1, <3>1, NodeFacts, BeforeFacts
  <2>3. CASE first <= j
    BY <1>1, <1>3, <1>6, <1>7, <2>3 DEF Passes
  <2> QED
    BY <1>3, <2>1, <2>2, <2>3
<1>9. ASSUME e \in 1..Len(m.nodes)
      PROVE  ~Before(m, m.nodes[e], k)
  <2>1. ~Passes(m, m.nodes[e], k)
    BY <1>1, <1>6, <1>9
  <2>2. CASE Slot(m, m.nodes[e]) = s
    BY <2>1, <2>2 DEF Passes
  <2>3. CASE Slot(m, m.nodes[e]) # s
    <3>1. first <= e
      BY <1>3, <1>6
    <3>2. s <= Slot(m, m.nodes[e])
      BY <1>2, <1>3, <1>9, <3>1, NodeFacts DEF Heading
    <3>3. s < Slot(m, m.nodes[e])
      BY <1>1, <1>9, <2>3, <3>2
    <3> QED
      BY <1>9, <3>3, NodeFacts, BeforeFacts
  <2> QED
    BY <2>2, <2>3
<1> QED
  BY <1>7, <1>8, <1>9, SplitsAt DEF e

LEMMA FindExact ==
  ASSUME NEW m, NodesOK(m), NEW k \in Key,
         \A s \in 0..(m.capacity - 1) : HeadOK(m, s, m.buckets[s])
  PROVE  /\ k \in Range(m.nodes) => Find(m, k) = k
         /\ k \notin Range(m.nodes) => Find(m, k) = Nil
<1> DEFINE s == Slot(m, k)
<1>1. s \in 0..(m.capacity - 1) /\ HeadOK(m, s, m.buckets[s])
  BY SlotRange
<1>2. /\ Range(m.nodes) = {m.nodes[j] : j \in 1..Len(m.nodes)}
      /\ \A i \in 1..Len(m.nodes) : m.nodes[i] \notin LongKey
      /\ DOMAIN m.nodes = 1..Len(m.nodes) /\ k # Nil
  BY NodeFacts, HashMapAssumption DEF Range, Nil
<1>3. CASE m.buckets[s] = Nil
  <2>1. \A i \in 1..Len(m.nodes) : Slot(m, m.nodes[i]) # s
    BY <1>1, <1>3, NodeFacts DEF HeadOK
  <2>2. k \notin Range(m.nodes)
    BY <1>2, <2>1
  <2> QED
    BY <1>3, <2>2 DEF Find
<1>4. CASE m.buckets[s] # Nil
  <2>1. Splits(m, k, WalkEnd(m, k))
    BY <1>1, <1>4, WalkEndSplits
  <2>2. k \in Range(m.nodes) <=>
          WalkEnd(m, k) \in 1..Len(m.nodes) /\ m.nodes[WalkEnd(m, k)] = k
    BY <2>1, SplitsFacts
  <2>3. k \in Range(m.nodes) <=> NodeAt(m, WalkEnd(m, k)) = k
    BY <1>2, <2>2 DEF NodeAt
  <2>4. k \in Range(m.nodes) => k \notin LongKey
    BY <1>2
  <2> QED
    BY <1>4, <2>3, <2>4 DEF Find
<1> QED
  BY <1>3, <1>4

LEMMA AddPlaceSplits ==
  ASSUME NEW m, NodesOK(m), NEW k \in Key,
         \A s \in 0..(m.capacity - 1) : HeadOK(m, s, m.buckets[s])
  PROVE  Splits(m, k, AddPlace(m, k))
<1> DEFINE s == Slot(m, k)
           used == UsedAfter(m, s)
           u == Min(used)
<1>1. /\ s \in 0..(m.capacity - 1) /\ HeadOK(m, s, m.buckets[s])
      /\ m.capacity \in Nat /\ Len(m.nodes) \in Nat
      /\ \A i \in 1..Len(m.nodes) :
           m.nodes[i] \in Key /\ Slot(m, m.nodes[i]) \in 0..(m.capacity - 1)
  BY SlotRange, NodeFacts DEF NodesOK
<1>2. CASE m.buckets[s] # Nil
  BY <1>1, <1>2, WalkEndSplits DEF AddPlace
<1>3. ASSUME m.buckets[s] = Nil
      PROVE  /\ \A i \in 1..Len(m.nodes) : Slot(m, m.nodes[i]) # s
             /\ used \in SUBSET Nat
             /\ \A v \in used : v \in 0..(m.capacity - 1) /\ s < v /\ m.buckets[v] # Nil
             /\ \A i \in 1..Len(m.nodes) :
                  s < Slot(m, m.nodes[i]) => Slot(m, m.nodes[i]) \in used
  <2>1. \A i \in 1..Len(m.nodes) : Slot(m, m.nodes[i]) # s
    BY <1>1, <1>3, NodeFacts DEF HeadOK
  <2>2. \A v \in used : v \in 0..(m.capacity - 1) /\ s < v /\ m.buckets[v] # Nil
    BY <1>1 DEF UsedAfter
  <2>3. ASSUME NEW i \in 1..Len(m.nodes), s < Slot(m, m.nodes[i])
        PROVE  Slot(m, m.nodes[i]) \in used
    <3> DEFINE v == Slot(m, m.nodes[i])
    <3>1. v \in (s + 1)..(m.capacity - 1) /\ v \in 0..(m.capacity - 1)
      BY <1>1, <2>3
    <3>2. m.buckets[v] # Nil
      BY <3>1, NodeFacts DEF HeadOK
    <3> QED
      BY <3>1, <3>2 DEF UsedAfter
  <2>4. used \in SUBSET Nat
    BY <1>1 DEF UsedAfter
  <2> QED
    BY <2>1, <2>2, <2>3, <2>4
<1>4. CASE m.buckets[s] = Nil /\ used # {}
  <2> DEFINE p == Place(m, m.buckets[u])
  <2>1. u \in used /\ \A v \in used : u <= v
    BY <1>3, <1>4, MinIs
  <2>2. u \in 0..(m.capacity - 1) /\ s < u /\ m.buckets[u] # Nil
    BY <1>3, <1>4, <2>1
  <2>3. AddPlace(m, k) = p
    BY <1>4 DEF AddPlace
  <2> HIDE DEF used, u
  <2>4. Heading(m, u, p)
    BY <2>2, PlaceFacts DEF HeadOK
  <2> HIDE DEF p
  <2>5. p \in 1..Len(m.nodes) /\ Slot(m, m.nodes[p]) = u
    BY <2>4 DEF Heading
  <2>6. ASSUME NEW j \in 1..(p - 1)
        PROVE  Before(m, m.nodes[j], k)
    <3>1. j \in 1..Len(m.nodes) /\ Slot(m, m.nodes[j]) < u
      BY <1>1, <2>4, <2>5 DEF Heading
    <3>2. Slot(m, m.nodes[j]) < s
      BY <1>1, <1>3, <1>4, <2>1, <2>2, <3>1
    <3> QED
      BY <1>1, <3>1, <3>2, BeforeFacts
  <2>7. ~Before(m, m.nodes[p], k)
    BY <1>1, <2>2, <2>5, BeforeFacts
  <2> QED
    BY <1>1, <2>3, <2>5, <2>6, <2>7, SplitsAt
<1>5. CASE m.buckets[s] = Nil /\ used = {}
  <2>1. AddPlace(m, k) = Len(m.nodes) + 1
    BY <1>5 DEF AddPlace
  <2>2. ASSUME NEW j \in 1..Len(m.nodes)
        PROVE  Before(m, m.nodes[j], k)
    <3>1. Slot(m, m.nodes[j]) < s
      BY <1>1, <1>3, <1>5
    <3> QED
      BY <1>1, <3>1, BeforeFacts
  <2> QED
    BY <1>1, <2>1, <2>2 DEF Splits
<1> QED
  BY <1>2, <1>4, <1>5

-----------------------------------------------------------------------------
(* Maps as a whole. *)

LEMMA MapByPlace ==
  ASSUME NEW m
  PROVE  MapOK(m) <=>
           /\ MapType(m)
           /\ NodesOK(m)
           /\ \A s \in 0..(m.capacity - 1) : HeadOK(m, s, m.buckets[s])
<1>1. MapType(m) /\ InOrder(m) => NodesOK(m)
  BY DEF MapType, NodesOK
<1>2. NodesOK(m) => InOrder(m)
  BY DEF NodesOK
<1> QED
  BY <1>1, <1>2, BucketsByPlace DEF MapOK

LEMMA NewMapOK ==
  ASSUME NEW h \in HashFunction
  PROVE  MapOK(NewMap(h)) /\ Range(NewMap(h).nodes) = {}
<1> DEFINE m == NewMap(h)
<1>1. /\ m.nodes = << >> /\ m.hash = h /\ m.capacity = Capacity
      /\ m.buckets = [s \in 0..(Capacity - 1) |-> Nil]
      /\ Capacity \in 1..HashRange /\ HashRange % Capacity = 0
  BY HashMapAssumption DEF NewMap
<1>2. MapType(m)
  <2>1. m.buckets \in [0..(m.capacity - 1) -> Key \cup {Nil}]
    BY <1>1
  <2> QED
    BY <1>1, <2>1 DEF MapType, NewMap
<1> HIDE DEF m
<1>3. InOrder(m) /\ Range(m.nodes) = {}
  BY <1>1 DEF InOrder, Range
<1>4. BucketsExact(m)
  BY <1>1, <1>3 DEF BucketsExact
<1> QED
  BY <1>2, <1>3, <1>4 DEF MapOK, m

\* InsertAtElements and InsertAtProperties for lists of nodes.
LEMMA NodeInserted ==
  ASSUME NEW q \in Seq(Key \ LongKey), NEW k \in Key \ LongKey,
         NEW i \in 1..(Len(q) + 1)
  PROVE  /\ InsertAt(q, i, k) \in Seq(Key \ LongKey)
         /\ Len(InsertAt(q, i, k)) = Len(q) + 1
         /\ \A j \in 1..(Len(q) + 1) :
              InsertAt(q, i, k)[j] =
                IF j < i THEN q[j] ELSE IF j = i THEN k ELSE q[j - 1]
         /\ Range(InsertAt(q, i, k)) = Range(q) \cup {k}
<1> DEFINE T == Key \ LongKey
<1>1. q \in Seq(T) /\ k \in T
  OBVIOUS
<1> HIDE DEF T
<1>2. ToSet(InsertAt(q, i, k)) = ToSet(q) \cup {k}
  BY <1>1, InsertAtProperties
<1>3. /\ InsertAt(q, i, k) \in Seq(T)
      /\ Len(InsertAt(q, i, k)) = Len(q) + 1
      /\ \A j \in 1..(Len(q) + 1) :
           InsertAt(q, i, k)[j] =
             IF j < i THEN q[j] ELSE IF j = i THEN k ELSE q[j - 1]
  <2> DEFINE r == InsertAt(q, i, k)
  <2>1. r \in Seq(T) /\ Len(r) = Len(q) + 1
    BY <1>1, InsertAtElements
  <2>2. ASSUME NEW j \in 1..(Len(q) + 1)
        PROVE  r[j] = IF j < i THEN q[j] ELSE IF j = i THEN k ELSE q[j - 1]
    BY <1>1, InsertAtElements
  <2> HIDE DEF r
  <2>3. /\ r \in Seq(T)
        /\ Len(r) = Len(q) + 1
        /\ \A j \in 1..(Len(q) + 1) :
             r[j] = IF j < i THEN q[j] ELSE IF j = i THEN k ELSE q[j - 1]
    BY <2>1, <2>2
  <2> QED
    BY <2>3 DEF r
<1> QED
  BY <1>2, <1>3 DEF T, ToSet, Range

LEMMA NodeRemoved ==
  ASSUME NEW q \in Seq(Key \ LongKey), IsInjective(q), NEW i \in 1..Len(q)
  PROVE  /\ RemoveAt(q, i) \in Seq(Key \ LongKey)
         /\ Len(RemoveAt(q, i)) = Len(q) - 1
         /\ \A j \in 1..(Len(q) - 1) :
              RemoveAt(q, i)[j] = IF j < i THEN q[j] ELSE q[j + 1]
         /\ Range(RemoveAt(q, i)) = Range(q) \ {q[i]}
<1> DEFINE T == Key \ LongKey
<1>1. q \in Seq(T)
  OBVIOUS
<1> HIDE DEF T
<1>2. ToSet(RemoveAt(q, i)) = ToSet(q) \ {q[i]}
  BY <1>1, RemoveAtProperties
<1>3. /\ RemoveAt(q, i) \in Seq(T)
      /\ Len(RemoveAt(q, i)) = Len(q) - 1
      /\ \A j \in 1..(Len(q) - 1) :
           RemoveAt(q, i)[j] = IF j < i THEN q[j] ELSE q[j + 1]
  BY <1>1, RemoveAtElements
<1> QED
  BY <1>2, <1>3 DEF T, ToSet, Range

LEMMA InsertedOK ==
  ASSUME NEW m, MapOK(m), NEW k \in Key \ LongKey, k \notin Range(m.nodes)
  PROVE  /\ MapOK(Inserted(m, k))
         /\ Range(Inserted(m, k).nodes) = Range(m.nodes) \cup {k}
<1> DEFINE i == AddPlace(m, k)
           r == Inserted(m, k)
           s == Slot(m, k)
           N == Len(m.nodes)
<1>1. /\ MapType(m) /\ NodesOK(m)
      /\ \A t \in 0..(m.capacity - 1) : HeadOK(m, t, m.buckets[t])
  BY MapByPlace
<1>2. Splits(m, k, i)
  BY <1>1, AddPlaceSplits
<1>3. /\ N \in Nat /\ i \in 1..(N + 1) /\ s \in 0..(m.capacity - 1) /\ s \in Nat
      /\ m.nodes \in Seq(Key \ LongKey) /\ DOMAIN m.nodes = 1..N
      /\ \A j \in 1..N : m.nodes[j] \in Key /\ Slot(m, m.nodes[j]) \in Nat
  BY <1>1, <1>2, NodeFacts, SlotRange DEF NodesOK, Splits
<1>4. /\ \A j \in 1..(i - 1) : Before(m, m.nodes[j], k)
      /\ \A j \in i..N : Before(m, k, m.nodes[j])
  BY <1>1, <1>2, SplitsFacts DEF Splits
<1>5. /\ r.nodes = InsertAt(m.nodes, i, k)
      /\ r.hash = m.hash /\ r.capacity = m.capacity
      /\ r.buckets = IF Heads(m, k) THEN [m.buckets EXCEPT ![s] = k] ELSE m.buckets
      /\ m.buckets \in [0..(m.capacity - 1) -> Key \cup {Nil}]
  BY <1>1 DEF Inserted, MapType
<1>6. MapType(r)
  <2>1. r.nodes \in Seq(Key \ LongKey)
    BY <1>3, <1>5, NodeInserted
  <2>2. r.buckets \in [0..(m.capacity - 1) -> Key \cup {Nil}]
    BY <1>3, <1>5
  <2> QED
    BY <1>1, <1>5, <2>1, <2>2 DEF MapType, Inserted
<1>7. /\ Len(r.nodes) = N + 1 /\ DOMAIN r.nodes = 1..(N + 1)
      /\ \A j \in 1..(N + 1) :
           r.nodes[j] = IF j < i THEN m.nodes[j] ELSE IF j = i THEN k ELSE m.nodes[j - 1]
      /\ Range(r.nodes) = Range(m.nodes) \cup {k}
  <2>1. /\ r.nodes \in Seq(Key \ LongKey) /\ Len(r.nodes) = N + 1
        /\ \A j \in 1..(N + 1) :
             r.nodes[j] = IF j < i THEN m.nodes[j] ELSE IF j = i THEN k ELSE m.nodes[j - 1]
        /\ Range(r.nodes) = Range(m.nodes) \cup {k}
    BY <1>3, <1>5, NodeInserted
  <2>2. DOMAIN r.nodes = 1..Len(r.nodes)
    BY <2>1
  <2> QED
    BY <2>1, <2>2
<1>8. /\ \A a : Slot(r, a) = Slot(m, a)
      /\ \A a, b : Before(r, a, b) <=> Before(m, a, b)
  BY <1>5 DEF Slot, Before
<1> HIDE DEF r, i, s
<1>9. InOrder(r)
  <2>1. ASSUME NEW a \in 1..(N + 1), NEW b \in 1..(N + 1), a < b
        PROVE  Before(m, r.nodes[a], r.nodes[b])
    <3>1. CASE b < i
      <4>1. a \in 1..N /\ b \in 1..N /\ a < i
        BY <1>3, <2>1, <3>1
      <4> QED
        BY <1>1, <1>7, <2>1, <3>1, <4>1, NodeFacts
    <3>2. CASE b = i
      BY <1>3, <1>4, <1>7, <2>1, <3>2
    <3>3. CASE b > i /\ a = i
      BY <1>3, <1>4, <1>7, <2>1, <3>3
    <3>4. CASE b > i /\ a > i
      <4>1. a - 1 \in 1..N /\ b - 1 \in 1..N /\ a - 1 < b - 1
        BY <1>3, <2>1, <3>4
      <4>2. r.nodes[a] = m.nodes[a - 1] /\ r.nodes[b] = m.nodes[b - 1]
        BY <1>3, <1>7, <2>1, <3>4
      <4> QED
        BY <1>1, <4>1, <4>2, NodeFacts
    <3>5. CASE b > i /\ a < i
      <4>1. a \in 1..N /\ b - 1 \in 1..N /\ a < b - 1
        BY <1>3, <2>1, <3>5
      <4> QED
        BY <1>1, <1>3, <1>7, <3>5, <4>1, NodeFacts
    <3> QED
      BY <1>3, <3>1, <3>2, <3>3, <3>4, <3>5
  <2> QED
    BY <1>7, <1>8, <2>1 DEF InOrder
<1>10. ASSUME NEW t \in 0..(m.capacity - 1), NEW f, Heading(m, t, f),
              t # s \/ f # i
       PROVE  HeadOK(r, t, m.nodes[f])
  <2>1. /\ f \in 1..N /\ Slot(m, m.nodes[f]) = t /\ t \in Nat
        /\ \A j \in 1..(f - 1) : Slot(m, m.nodes[j]) < t
    BY <1>10, <1>1 DEF Heading, NodesOK
  <2>2. CASE f < i
    <3>1. Heading(r, t, f)
      BY <1>3, <1>7, <1>8, <2>1, <2>2 DEF Heading
    <3> QED
      BY <1>3, <1>7, <2>1, <2>2, <3>1 DEF HeadOK
  <2>3. CASE i <= f
    <3>1. s < t
      <4>1. Before(m, k, m.nodes[f]) /\ s <= t
        BY <1>1, <1>3, <1>4, <2>1, <2>3, BeforeFacts DEF s
      <4>2. CASE t = s
        <5>1. i < f /\ i \in 1..(f - 1) /\ i \in i..N
          BY <1>3, <1>10, <2>1, <2>3, <4>2
        <5>2. Slot(m, m.nodes[i]) < s /\ Before(m, k, m.nodes[i])
          BY <1>4, <2>1, <4>2, <5>1
        <5> QED
          BY <1>1, <1>3, <5>1, <5>2, <2>1, BeforeFacts DEF s
      <4> QED
        BY <1>3, <2>1, <4>1, <4>2
    <3>2. f + 1 \in 1..(N + 1) /\ r.nodes[f + 1] = m.nodes[f]
      BY <1>3, <1>7, <2>1, <2>3
    <3>3. ASSUME NEW j \in 1..f
          PROVE  Slot(m, r.nodes[j]) < t
      <4>1. CASE j < i
        <5>1. j \in 1..(f - 1) /\ j \in 1..(N + 1)
          BY <1>3, <2>1, <2>3, <4>1
        <5> QED
          BY <1>7, <2>1, <4>1, <5>1
      <4>2. CASE j = i
        BY <1>3, <1>7, <2>1, <3>1, <4>2 DEF s
      <4>3. CASE j > i
        <5>1. /\ j - 1 \in 1..(f - 1) /\ j \in 1..(N + 1)
              /\ ~(j < i) /\ j # i
          BY <1>3, <2>1, <4>3
        <5>2. r.nodes[j] = m.nodes[j - 1]
          BY <1>7, <5>1
        <5> QED
          BY <2>1, <5>1, <5>2
      <4> QED
        BY <1>3, <4>1, <4>2, <4>3
    <3>4. (f + 1) - 1 = f
      BY <2>1
    <3>5. Heading(r, t, f + 1)
      BY <1>7, <1>8, <2>1, <3>2, <3>3, <3>4 DEF Heading
    <3> QED
      BY <1>7, <3>2, <3>5 DEF HeadOK
  <2> QED
    BY <1>3, <2>1, <2>2, <2>3
<1>11. Heads(m, k) => HeadOK(r, s, k)
  <2>1. SUFFICES ASSUME Heads(m, k) PROVE HeadOK(r, s, k)
    OBVIOUS
  <2>2. ASSUME NEW j \in 1..(i - 1)
        PROVE  Slot(m, m.nodes[j]) < s
    <3>1. j \in 1..N /\ Before(m, m.nodes[j], k) /\ Slot(m, m.nodes[j]) <= s
      BY <1>1, <1>3, <1>4, BeforeFacts DEF s
    <3>2. Slot(m, m.nodes[j]) # s
      <4>1. CASE m.buckets[s] = Nil
        BY <1>1, <1>3, <3>1, <4>1, NodeFacts DEF HeadOK
      <4>2. CASE m.buckets[s] # Nil
        <5>1. i \in 1..N /\ m.buckets[s] = m.nodes[i]
          BY <1>3, <2>1, <4>2 DEF Heads, NodeAt, i, s
        <5>2. PICK f \in 1..N : Heading(m, s, f) /\ m.buckets[s] = m.nodes[f]
          BY <1>1, <1>3, <4>2 DEF HeadOK
        <5>3. f = i
          BY <1>1, <5>1, <5>2, NodeFacts
        <5> QED
          BY <1>3, <3>1, <5>2, <5>3 DEF Heading
      <4> QED
        BY <4>1, <4>2
    <3> QED
      BY <1>3, <3>1, <3>2
  <2>3. Heading(r, s, i)
    BY <1>3, <1>7, <1>8, <2>2 DEF Heading, s
  <2> QED
    BY <1>3, <1>7, <2>3 DEF HeadOK
<1>12. ASSUME NEW t \in 0..(m.capacity - 1)
       PROVE  HeadOK(r, t, r.buckets[t])
  <2>1. CASE t = s /\ Heads(m, k)
    BY <1>5, <1>11, <2>1
  <2>2. CASE t = s /\ ~Heads(m, k)
    <3>1. r.buckets[t] = m.buckets[s] /\ m.buckets[s] # Nil
      BY <1>5, <2>2 DEF Heads, s
    <3>2. PICK f \in 1..N : Heading(m, s, f) /\ m.buckets[s] = m.nodes[f]
      BY <1>1, <1>3, <3>1 DEF HeadOK
    <3>3. f # i
      BY <1>3, <2>2, <3>2 DEF Heads, NodeAt, i, s
    <3> QED
      BY <1>3, <1>10, <2>2, <3>1, <3>2, <3>3
  <2>3. CASE t # s
    <3>1. r.buckets[t] = m.buckets[t]
      BY <1>5, <2>3
    <3>2. CASE m.buckets[t] = Nil
      <4>1. \A j \in 1..N : Slot(m, m.nodes[j]) # t
        BY <1>1, <3>2, NodeFacts DEF HeadOK
      <4>2. \A j \in 1..(N + 1) : Slot(m, r.nodes[j]) # t
        BY <1>3, <1>7, <2>3, <4>1 DEF s
      <4> QED
        BY <1>7, <1>8, <3>1, <3>2, <4>2 DEF HeadOK
    <3>3. CASE m.buckets[t] # Nil
      <4>1. PICK f \in 1..N : Heading(m, t, f) /\ m.buckets[t] = m.nodes[f]
        BY <1>1, <3>3 DEF HeadOK
      <4> QED
        BY <1>10, <2>3, <3>1, <4>1
    <3> QED
      BY <3>2, <3>3
  <2> QED
    BY <2>1, <2>2, <2>3
<1>13. MapOK(r)
  <2>1. NodesOK(r)
    BY <1>6, <1>9 DEF MapType, NodesOK
  <2>2. r.capacity = m.capacity
    BY <1>5
  <2> QED
    BY <1>6, <1>12, <2>1, <2>2, MapByPlace
<1> QED
  BY <1>7, <1>13 DEF r

LEMMA RemovedOK ==
  ASSUME NEW m, MapOK(m), NEW k \in Range(m.nodes)
  PROVE  /\ MapOK(Removed(m, k))
         /\ Range(Removed(m, k).nodes) = Range(m.nodes) \ {k}
         /\ Len(Removed(m, k).nodes) = Len(m.nodes) - 1
<1> DEFINE i == Place(m, k)
           r == Removed(m, k)
           s == Slot(m, k)
           N == Len(m.nodes)
<1>1. /\ MapType(m) /\ NodesOK(m)
      /\ \A t \in 0..(m.capacity - 1) : HeadOK(m, t, m.buckets[t])
  BY MapByPlace
<1>2. i \in 1..N /\ m.nodes[i] = k
  BY <1>1, PlaceFacts
<1>3. /\ N \in Nat /\ s \in 0..(m.capacity - 1) /\ s \in Nat
      /\ m.nodes \in Seq(Key \ LongKey) /\ DOMAIN m.nodes = 1..N
      /\ \A j \in 1..N : /\ m.nodes[j] \in Key \ LongKey /\ m.nodes[j] # Nil
                         /\ Slot(m, m.nodes[j]) \in Nat
  BY <1>1, <1>2, NodeFacts DEF NodesOK
<1>4. /\ r.nodes = RemoveAt(m.nodes, i)
      /\ r.hash = m.hash /\ r.capacity = m.capacity
      /\ r.buckets = IF m.buckets[s] = k THEN [m.buckets EXCEPT ![s] = NewHead(m, k)]
                     ELSE m.buckets
      /\ m.buckets \in [0..(m.capacity - 1) -> Key \cup {Nil}]
  BY <1>1 DEF Removed, MapType
<1>5. /\ r.nodes \in Seq(Key \ LongKey) /\ Len(r.nodes) = N - 1
      /\ DOMAIN r.nodes = 1..(N - 1)
      /\ \A j \in 1..(N - 1) : r.nodes[j] = IF j < i THEN m.nodes[j] ELSE m.nodes[j + 1]
      /\ Range(r.nodes) = Range(m.nodes) \ {k}
  <2>1. IsInjective(m.nodes)
    BY <1>1, <1>3, NodeFacts DEF IsInjective
  <2> HIDE DEF r, i
  <2>4. /\ RemoveAt(m.nodes, i) \in Seq(Key \ LongKey)
        /\ Len(RemoveAt(m.nodes, i)) = N - 1
        /\ \A j \in 1..(N - 1) :
             RemoveAt(m.nodes, i)[j] = IF j < i THEN m.nodes[j] ELSE m.nodes[j + 1]
        /\ Range(RemoveAt(m.nodes, i)) = Range(m.nodes) \ {m.nodes[i]}
    BY <1>2, <1>3, <2>1, NodeRemoved
  <2>2. /\ r.nodes \in Seq(Key \ LongKey) /\ Len(r.nodes) = N - 1
        /\ \A j \in 1..(N - 1) : r.nodes[j] = IF j < i THEN m.nodes[j] ELSE m.nodes[j + 1]
        /\ Range(r.nodes) = Range(m.nodes) \ {k}
    BY <1>2, <1>4, <2>4
  <2>3. DOMAIN r.nodes = 1..Len(r.nodes)
    BY <2>2
  <2> QED
    BY <2>2, <2>3
<1>6. /\ \A a : Slot(r, a) = Slot(m, a)
      /\ \A a, b : Before(r, a, b) <=> Before(m, a, b)
  BY <1>4 DEF Slot, Before
<1>7. NewHead(m, k) = IF i + 1 \in 1..N /\ Slot(m, m.nodes[i + 1]) = s
                      THEN m.nodes[i + 1] ELSE Nil
  BY <1>3 DEF NewHead, MapNext, NodeAt
<1>8. MapType(r)
  <2>1. NewHead(m, k) \in Key \cup {Nil}
    BY <1>3, <1>7
  <2>2. r.buckets \in [0..(m.capacity - 1) -> Key \cup {Nil}]
    BY <1>3, <1>4, <2>1
  <2> QED
    BY <1>1, <1>4, <1>5, <2>2 DEF MapType, Removed
<1> HIDE DEF r, i, s
<1>9. InOrder(r)
  <2>1. ASSUME NEW a \in 1..(N - 1), NEW b \in 1..(N - 1), a < b
        PROVE  Before(m, r.nodes[a], r.nodes[b])
    <3> DEFINE a1 == IF a < i THEN a ELSE a + 1
               b1 == IF b < i THEN b ELSE b + 1
    <3>1. a1 \in 1..N /\ b1 \in 1..N /\ a1 < b1
      BY <1>2, <1>3, <2>1
    <3>2. r.nodes[a] = m.nodes[a1] /\ r.nodes[b] = m.nodes[b1]
      BY <1>5, <2>1
    <3> HIDE DEF a1, b1
    <3> QED
      BY <1>1, <3>1, <3>2, NodeFacts
  <2> QED
    BY <1>5, <1>6, <2>1 DEF InOrder
<1>10. ASSUME NEW t \in 0..(m.capacity - 1), NEW f, Heading(m, t, f), f # i
       PROVE  HeadOK(r, t, m.nodes[f])
  <2>1. /\ f \in 1..N /\ Slot(m, m.nodes[f]) = t /\ t \in Nat
        /\ \A j \in 1..(f - 1) : Slot(m, m.nodes[j]) < t
    BY <1>10, <1>1 DEF Heading, NodesOK
  <2> DEFINE f1 == IF f < i THEN f ELSE f - 1
  <2>2. /\ f1 \in 1..(N - 1) /\ f1 <= f /\ (f1 < i \/ f1 = f - 1)
        /\ (f1 < i => f1 = f) /\ (~(f1 < i) => f1 + 1 = f)
    BY <1>2, <1>3, <1>10, <2>1
  <2> HIDE DEF f1
  <2>3. r.nodes[f1] = m.nodes[f]
    BY <1>5, <2>2
  <2>4. ASSUME NEW j \in 1..(f1 - 1)
        PROVE  Slot(m, r.nodes[j]) < t
    <3>1. CASE j < i
      <4>1. j \in 1..(f - 1) /\ j \in 1..(N - 1)
        BY <1>3, <2>1, <2>2
      <4> QED
        BY <1>5, <2>1, <3>1, <4>1
    <3>2. CASE ~(j < i)
      <4>1. j + 1 \in 1..(f - 1) /\ j \in 1..(N - 1)
        BY <1>2, <1>3, <2>1, <2>2, <3>2
      <4> QED
        BY <1>5, <2>1, <3>2, <4>1
    <3> QED
      BY <3>1, <3>2
  <2>5. Heading(r, t, f1)
    BY <1>5, <1>6, <2>1, <2>2, <2>3, <2>4 DEF Heading
  <2> QED
    BY <1>5, <2>2, <2>3, <2>5 DEF HeadOK
<1>11. m.buckets[s] = k => HeadOK(r, s, NewHead(m, k))
  <2>1. SUFFICES ASSUME m.buckets[s] = k PROVE HeadOK(r, s, NewHead(m, k))
    OBVIOUS
  <2>2. PICK f \in 1..N : Heading(m, s, f) /\ k = m.nodes[f]
    BY <1>1, <1>2, <1>3, <2>1 DEF HeadOK
  <2>3. f = i
    BY <1>1, <1>2, <2>2, NodeFacts
  <2>4. \A j \in 1..(i - 1) : Slot(m, m.nodes[j]) < s
    BY <2>2, <2>3 DEF Heading
  <2>5. \A j \in 1..(i - 1) : j \in 1..(N - 1) /\ r.nodes[j] = m.nodes[j]
    BY <1>2, <1>3, <1>5
  <2>6. CASE i + 1 \in 1..N /\ Slot(m, m.nodes[i + 1]) = s
    <3>1. i \in 1..(N - 1) /\ r.nodes[i] = m.nodes[i + 1]
      BY <1>2, <1>3, <1>5, <2>6
    <3>2. Heading(r, s, i)
      BY <1>5, <1>6, <2>4, <2>5, <2>6, <3>1 DEF Heading
    <3> QED
      BY <1>5, <1>7, <2>6, <3>1, <3>2 DEF HeadOK
  <2>7. CASE ~(i + 1 \in 1..N /\ Slot(m, m.nodes[i + 1]) = s)
    <3>1. ASSUME NEW j \in 1..(N - 1)
          PROVE  Slot(m, r.nodes[j]) # s
      <4>1. CASE j < i
        <5>1. j \in 1..(i - 1) /\ j \in 1..N
          BY <1>2, <1>3, <4>1
        <5> QED
          BY <1>3, <2>4, <2>5, <5>1
      <4>2. CASE ~(j < i)
        <5>1. /\ i + 1 \in 1..N /\ j + 1 \in 1..N /\ i + 1 <= j + 1 /\ i <= i + 1
              /\ r.nodes[j] = m.nodes[j + 1]
          <6>1. r.nodes[j] = m.nodes[j + 1]
            BY <1>5, <4>2
          <6>2. i \in Nat /\ j \in Nat /\ i <= j /\ j <= N - 1
            BY <1>2, <1>3, <4>2
          <6> QED
            BY <1>2, <1>3, <6>1, <6>2
        <5>2. /\ Slot(m, m.nodes[i]) <= Slot(m, m.nodes[i + 1])
              /\ Slot(m, m.nodes[i + 1]) <= Slot(m, m.nodes[j + 1])
          BY <1>1, <1>2, <5>1, NodeFacts
        <5>3. Slot(m, m.nodes[i]) = s
          BY <1>2 DEF s
        <5> QED
          BY <1>2, <1>3, <2>7, <5>1, <5>2, <5>3
      <4> QED
        BY <4>1, <4>2
    <3> QED
      BY <1>5, <1>6, <1>7, <2>7, <3>1 DEF HeadOK
  <2> QED
    BY <2>6, <2>7
<1>12. ASSUME NEW t \in 0..(m.capacity - 1)
       PROVE  HeadOK(r, t, r.buckets[t])
  <2>1. CASE t = s /\ m.buckets[s] = k
    BY <1>4, <1>11, <2>1
  <2>2. CASE ~(t = s /\ m.buckets[s] = k)
    <3>1. r.buckets[t] = m.buckets[t]
      BY <1>4, <2>2
    <3>2. CASE m.buckets[t] = Nil
      <4>1. \A j \in 1..N : Slot(m, m.nodes[j]) # t
        BY <1>1, <3>2, NodeFacts DEF HeadOK
      <4>2. \A j \in 1..(N - 1) : Slot(m, r.nodes[j]) # t
        BY <1>3, <1>5, <4>1
      <4> QED
        BY <1>5, <1>6, <3>1, <3>2, <4>2 DEF HeadOK
    <3>3. CASE m.buckets[t] # Nil
      <4>1. PICK f \in 1..N : Heading(m, t, f) /\ m.buckets[t] = m.nodes[f]
        BY <1>1, <3>3 DEF HeadOK
      <4>2. f # i
        BY <1>2, <2>2, <4>1 DEF Heading, s
      <4> QED
        BY <1>10, <3>1, <4>1, <4>2
    <3> QED
      BY <3>2, <3>3
  <2> QED
    BY <2>1, <2>2
<1>13. MapOK(r)
  <2>1. NodesOK(r)
    BY <1>8, <1>9 DEF MapType, NodesOK
  <2>2. r.capacity = m.capacity
    BY <1>4
  <2> QED
    BY <1>8, <1>12, <2>1, <2>2, MapByPlace
<1> QED
  BY <1>5, <1>13 DEF r

-----------------------------------------------------------------------------
(* Growth. *)

LEMMA DoubledFacts ==
  ASSUME NEW m, MapType(m), NodesOK(m), 2 * m.capacity <= HashRange
  PROVE  /\ NodesOK(Doubled(m))
         /\ Doubled(m).nodes = m.nodes /\ Doubled(m).hash = m.hash
         /\ Doubled(m).capacity = 2 * m.capacity
         /\ \A k \in Key : Slot(Doubled(m), k) \in {2 * Slot(m, k), 2 * Slot(m, k) + 1}
<1> DEFINE d == Doubled(m)
           c == m.capacity
<1>1. d.nodes = m.nodes /\ d.hash = m.hash /\ d.capacity = 2 * c
  BY DEF Doubled, MapType
<1>2. c \in 1..HashRange /\ HashRange % c = 0
  BY DEF NodesOK
<1>3. /\ 2 * c \in 1..HashRange /\ HashRange % (2 * c) = 0
      /\ Width(c) = 2 * Width(2 * c)
  BY <1>2, WidthHalf
<1>4. Width(2 * c) \in Nat \ {0}
  BY <1>3, WidthFacts
<1> HIDE DEF d
<1>5. NodesOK(d)
  BY <1>1, <1>3 DEF NodesOK, InOrder, Before
<1>6. ASSUME NEW k \in Key
      PROVE  Slot(d, k) \in {2 * Slot(m, k), 2 * Slot(m, k) + 1}
  <2>1. m.hash[k] \in Nat
    BY HashMapAssumption DEF NodesOK, HashFunction
  <2>2. Slot(m, k) = m.hash[k] \div Width(c) /\ Slot(d, k) = m.hash[k] \div Width(2 * c)
    BY <1>1 DEF Slot, Width
  <2> QED
    BY <1>3, <1>4, <2>1, <2>2, QuotientHalf
<1> QED
  BY <1>1, <1>5, <1>6 DEF d

\* b is the first node of slot j from the i-th on, or there is none.
FirstIs(d, i, j, b) ==
  \/ /\ b = Nil
     /\ \A x \in i..Len(d.nodes) : Slot(d, d.nodes[x]) # j
  \/ \E x \in i..Len(d.nodes) :
       /\ b = d.nodes[x] /\ Slot(d, d.nodes[x]) = j
       /\ \A y \in i..(x - 1) : Slot(d, d.nodes[y]) < j

LEMMA FirstOfFacts ==
  ASSUME NEW d, NodesOK(d), NEW i \in 1..Len(d.nodes), NEW j \in Nat,
         NEW b, b = FirstOf(d, d.nodes[i], j)
  PROVE  FirstIs(d, i, j, b)
<1> SUFFICES \/ /\ b = Nil
                /\ \A x \in i..Len(d.nodes) : Slot(d, d.nodes[x]) # j
             \/ \E x \in i..Len(d.nodes) :
                  /\ b = d.nodes[x] /\ Slot(d, d.nodes[x]) = j
                  /\ \A y \in i..(x - 1) : Slot(d, d.nodes[y]) < j
  BY DEF FirstIs
<1> DEFINE reached == {x \in i..Len(d.nodes) : Slot(d, d.nodes[x]) >= j}
           n == Min(reached)
<1>1. Place(d, d.nodes[i]) = i
  BY PlaceFacts
<1>2. b = IF reached # {} /\ Slot(d, d.nodes[n]) = j THEN d.nodes[n] ELSE Nil
  BY <1>1 DEF FirstOf
<1>3. /\ Len(d.nodes) \in Nat /\ i \in Nat
      /\ \A x \in 1..Len(d.nodes) : Slot(d, d.nodes[x]) \in Nat
  BY NodeFacts DEF NodesOK
<1>4. reached \in SUBSET Nat
  BY <1>3
<1>5. CASE reached = {}
  <2>1. \A x \in i..Len(d.nodes) : Slot(d, d.nodes[x]) # j
    BY <1>3, <1>5
  <2> QED
    BY <1>2, <1>5, <2>1
<1>6. CASE reached # {}
  <2>1. n \in reached /\ \A x \in reached : n <= x
    <3> HIDE DEF reached
    <3> QED
      BY <1>4, <1>6, MinIs
  <2> HIDE DEF n
  <2>2. n \in i..Len(d.nodes) /\ n \in 1..Len(d.nodes) /\ Slot(d, d.nodes[n]) >= j
    BY <1>3, <2>1
  <2>3. ASSUME NEW y \in i..(n - 1)
        PROVE  Slot(d, d.nodes[y]) < j
    <3>1. y \in i..Len(d.nodes) /\ y \in 1..Len(d.nodes) /\ ~(n <= y)
      BY <1>3, <2>2
    <3> QED
      BY <1>3, <2>1, <3>1
  <2>4. CASE Slot(d, d.nodes[n]) = j
    BY <1>2, <1>6, <2>2, <2>3, <2>4
  <2>5. CASE Slot(d, d.nodes[n]) # j
    <3>1. ASSUME NEW x \in i..Len(d.nodes)
          PROVE  Slot(d, d.nodes[x]) # j
      <4>1. CASE x < n
        BY <1>3, <2>2, <2>3, <4>1
      <4>2. CASE n <= x
        <5>1. x \in 1..Len(d.nodes) /\ Slot(d, d.nodes[n]) <= Slot(d, d.nodes[x])
          BY <1>3, <2>2, <4>2, NodeFacts
        <5> QED
          BY <1>3, <2>2, <2>5, <5>1
      <4> QED
        BY <1>3, <2>2, <4>1, <4>2
    <3> QED
      BY <1>2, <2>5, <3>1
  <2> QED
    BY <2>4, <2>5
<1> QED
  BY <1>5, <1>6

\* Bucket arrays of the new size.
NewBuckets(m) == [0..(2 * m.capacity - 1) -> Range(m.nodes) \cup {Nil}]

LEMMA DivideFacts ==
  ASSUME NEW m, MapType(m), NodesOK(m), 2 * m.capacity <= HashRange,
         NEW s \in 0..(m.capacity - 1), NEW b \in NewBuckets(m)
  PROVE  /\ Divide(Doubled(m), b, s) \in NewBuckets(m)
         /\ \A t \in 0..(2 * m.capacity - 1) :
              t # 2 * s /\ t # 2 * s + 1 => Divide(Doubled(m), b, s)[t] = b[t]
         /\ HeadOK(m, s, b[s]) =>
              /\ HeadOK(Doubled(m), 2 * s, Divide(Doubled(m), b, s)[2 * s])
              /\ HeadOK(Doubled(m), 2 * s + 1, Divide(Doubled(m), b, s)[2 * s + 1])
<1> DEFINE d == Doubled(m)
           e == Divide(d, b, s)
           N == Len(m.nodes)
           x0 == IF b[s] # Nil /\ Slot(d, b[s]) = 2 * s THEN b[s] ELSE Nil
           x1 == IF b[s] # Nil THEN FirstOf(d, b[s], 2 * s + 1) ELSE Nil
<1>1. /\ NodesOK(d) /\ d.nodes = m.nodes
      /\ \A k \in Key : Slot(d, k) \in {2 * Slot(m, k), 2 * Slot(m, k) + 1}
  BY DoubledFacts
<1>2. /\ m.capacity \in Nat /\ s \in Nat /\ s < m.capacity
      /\ 2 * s \in 0..(2 * m.capacity - 1) /\ 2 * s + 1 \in 0..(2 * m.capacity - 1)
      /\ s \in 0..(2 * m.capacity - 1) /\ 2 * s # 2 * s + 1 /\ 2 * s + 1 \in Nat
  BY DEF NodesOK
<1>3. /\ N \in Nat /\ Range(m.nodes) = {m.nodes[i] : i \in 1..N}
      /\ \A i \in 1..N : m.nodes[i] \in Key /\ m.nodes[i] # Nil
      /\ \A i \in 1..N : Slot(m, m.nodes[i]) \in Nat /\ Slot(d, m.nodes[i]) \in Nat
  <2>1. \A i \in 1..N : Slot(d, m.nodes[i]) \in 0..(d.capacity - 1)
    BY <1>1, NodeFacts
  <2>2. \A i \in 1..N : Slot(m, m.nodes[i]) \in 0..(m.capacity - 1)
    BY NodeFacts
  <2> QED
    BY <2>1, <2>2, NodeFacts DEF Range
<1>4. e = [b EXCEPT ![2 * s] = x0, ![2 * s + 1] = x1]
  BY DEF Divide
<1>5. b[s] \in Range(m.nodes) \cup {Nil}
  BY <1>2 DEF NewBuckets
<1>6. ASSUME NEW i \in 1..N, b[s] = m.nodes[i]
      PROVE  \/ /\ x1 = Nil
                /\ \A x \in i..N : Slot(d, m.nodes[x]) # 2 * s + 1
             \/ \E x \in i..N :
                  /\ x1 = m.nodes[x] /\ Slot(d, m.nodes[x]) = 2 * s + 1
                  /\ \A y \in i..(x - 1) : Slot(d, m.nodes[y]) < 2 * s + 1
  <2>1. x1 = FirstOf(d, d.nodes[i], 2 * s + 1)
    BY <1>1, <1>3, <1>6
  <2> HIDE DEF x1, d
  <2>2. i \in 1..Len(d.nodes) /\ 2 * s + 1 \in Nat
    BY <1>1, <1>2
  <2> DEFINE j == 2 * s + 1
  <2>3. x1 = FirstOf(d, d.nodes[i], j) /\ j \in Nat
    BY <2>1, <2>2
  <2> HIDE DEF j
  <2>4. FirstIs(d, i, j, x1)
    BY <1>1, <2>2, <2>3, FirstOfFacts
  <2> QED
    BY <1>1, <2>4 DEF j, FirstIs
<1> HIDE DEF d, e
<1>7. x0 \in Range(m.nodes) \cup {Nil} /\ x1 \in Range(m.nodes) \cup {Nil}
  <2>1. CASE b[s] = Nil
    BY <2>1
  <2>2. CASE b[s] # Nil
    <3>1. PICK i \in 1..N : b[s] = m.nodes[i]
      BY <1>3, <1>5, <2>2
    <3>2. \A x \in i..N : x \in 1..N
      BY <1>3
    <3> HIDE DEF x1
    <3>3. x1 = Nil \/ \E x \in i..N : x1 = m.nodes[x]
      BY <1>6, <3>1
    <3> QED
      BY <1>3, <1>5, <3>2, <3>3
  <2> QED
    BY <2>1, <2>2
<1>8. ASSUME HeadOK(m, s, b[s])
      PROVE  HeadOK(d, 2 * s, x0) /\ HeadOK(d, 2 * s + 1, x1)
  <2>1. CASE b[s] = Nil
    <3>1. \A i \in 1..N : Slot(m, m.nodes[i]) # s
      BY <1>3, <1>8, <2>1 DEF HeadOK
    <3>2. ASSUME NEW i \in 1..N
          PROVE  Slot(d, m.nodes[i]) # 2 * s /\ Slot(d, m.nodes[i]) # 2 * s + 1
      <4>1. /\ Slot(m, m.nodes[i]) \in Nat /\ Slot(m, m.nodes[i]) # s
            /\ Slot(d, m.nodes[i])
                 \in {2 * Slot(m, m.nodes[i]), 2 * Slot(m, m.nodes[i]) + 1}
        BY <1>1, <1>3, <3>1
      <4> QED
        BY <1>2, <4>1
    <3> QED
      BY <1>1, <2>1, <3>2 DEF HeadOK
  <2>2. CASE b[s] # Nil
    <3>1. PICK i \in 1..N : Heading(m, s, i) /\ b[s] = m.nodes[i]
      BY <1>8, <2>2 DEF HeadOK
    <3>2. /\ Slot(m, m.nodes[i]) = s
          /\ \A j \in 1..(i - 1) : Slot(m, m.nodes[j]) < s
      BY <3>1 DEF Heading
    <3>3. Slot(d, m.nodes[i]) \in {2 * s, 2 * s + 1}
      BY <1>1, <1>3, <3>2
    <3>4. ASSUME NEW j \in 1..(i - 1)
          PROVE  Slot(d, m.nodes[j]) < 2 * s
      <4>1. j \in 1..N
        BY <1>3
      <4>2. Slot(m, m.nodes[j]) < s /\ Slot(m, m.nodes[j]) \in Nat
        BY <1>3, <3>2, <4>1
      <4>3. Slot(d, m.nodes[j]) \in {2 * Slot(m, m.nodes[j]), 2 * Slot(m, m.nodes[j]) + 1}
        BY <1>1, <1>3, <4>1
      <4> QED
        BY <1>2, <4>2, <4>3
    <3>5. ASSUME NEW j \in i..N
          PROVE  Slot(d, m.nodes[i]) <= Slot(d, m.nodes[j])
      <4>1. j \in 1..N /\ i <= j
        BY <1>3
      <4> QED
        BY <1>1, <4>1, NodeFacts
    <3>6. HeadOK(d, 2 * s, x0)
      <4>1. CASE Slot(d, m.nodes[i]) = 2 * s
        <5>1. x0 = m.nodes[i]
          BY <2>2, <3>1, <4>1
        <5> HIDE DEF x0
        <5> QED
          BY <1>1, <3>4, <4>1, <5>1 DEF HeadOK, Heading
      <4>2. CASE Slot(d, m.nodes[i]) = 2 * s + 1
        <5>1. x0 = Nil
          BY <1>2, <3>1, <4>2
        <5> HIDE DEF x0
        <5>2. ASSUME NEW j \in 1..N
              PROVE  Slot(d, m.nodes[j]) # 2 * s
          <6>1. CASE j \in 1..(i - 1)
            BY <1>2, <1>3, <3>4, <6>1
          <6>2. CASE j \in i..N
            BY <1>2, <1>3, <3>5, <4>2, <6>2
          <6> QED
            BY <1>3, <6>1, <6>2
        <5> QED
          BY <1>1, <5>1, <5>2 DEF HeadOK
      <4> QED
        BY <3>3, <4>1, <4>2
    <3> HIDE DEF x1
    <3>7. CASE /\ x1 = Nil
               /\ \A x \in i..N : Slot(d, m.nodes[x]) # 2 * s + 1
      <4>1. ASSUME NEW j \in 1..N
            PROVE  Slot(d, m.nodes[j]) # 2 * s + 1
        <5>1. CASE j \in 1..(i - 1)
          BY <1>2, <1>3, <3>4, <5>1
        <5>2. CASE j \in i..N
          BY <3>7, <5>2
        <5> QED
          BY <1>3, <5>1, <5>2
      <4> QED
        BY <1>1, <3>6, <3>7, <4>1 DEF HeadOK
    <3>8. ASSUME NEW x \in i..N, x1 = m.nodes[x], Slot(d, m.nodes[x]) = 2 * s + 1,
                 \A y \in i..(x - 1) : Slot(d, m.nodes[y]) < 2 * s + 1
          PROVE  HeadOK(d, 2 * s + 1, x1)
      <4>1. x \in 1..N
        BY <1>3
      <4>2. ASSUME NEW j \in 1..(x - 1)
            PROVE  Slot(d, m.nodes[j]) < 2 * s + 1
        <5>1. CASE j \in 1..(i - 1)
          <6>1. j \in 1..N
            BY <1>3, <4>1
          <6> DEFINE a == Slot(d, m.nodes[j])
                     c == 2 * s
          <6>2. a < c
            BY <3>4, <5>1
          <6>3. a \in Nat
            <7>1. Slot(m, m.nodes[j]) \in Nat
              BY <1>3, <6>1
            <7>2. a \in {2 * Slot(m, m.nodes[j]), 2 * Slot(m, m.nodes[j]) + 1}
              BY <1>1, <1>3, <6>1
            <7> QED
              BY <7>1, <7>2
          <6>4. c \in Nat
            BY <1>2
          <6> HIDE DEF a, c
          <6>5. a < c + 1
            BY <6>2, <6>3, <6>4
          <6> QED
            BY <6>5 DEF a, c
        <5>2. CASE j \in i..(x - 1)
          BY <3>8, <5>2
        <5> QED
          BY <1>3, <4>1, <5>1, <5>2
      <4> QED
        BY <1>1, <3>8, <4>1, <4>2 DEF HeadOK, Heading
    <3> QED
      BY <1>6, <3>1, <3>6, <3>7, <3>8
  <2> QED
    BY <2>1, <2>2
<1> HIDE DEF x0, x1
<1>9. e[2 * s] = x0 /\ e[2 * s + 1] = x1
  BY <1>2, <1>4 DEF NewBuckets
<1>10. /\ e \in NewBuckets(m)
       /\ \A t \in 0..(2 * m.capacity - 1) : t # 2 * s /\ t # 2 * s + 1 => e[t] = b[t]
  BY <1>4, <1>7 DEF NewBuckets
<1> QED
  BY <1>8, <1>9, <1>10 DEF d, e

\* The bucket arrays between the turns of the loop of Rebuilt.
RebuildStep(m, f, n) ==
  IF n = 0 THEN [s \in 0..(2 * m.capacity - 1) |->
                   IF s < m.capacity THEN m.buckets[s] ELSE Nil]
  ELSE Divide(Doubled(m), f[n - 1], Loop(m.capacity, n))

OldBuckets(m) == RebuildStep(m, << >>, 0)

LEMMA OldBucketsFacts ==
  ASSUME NEW m, MapOK(m)
  PROVE  /\ OldBuckets(m) \in NewBuckets(m)
         /\ \A s \in 0..(m.capacity - 1) : OldBuckets(m)[s] = m.buckets[s]
<1>1. /\ NodesOK(m) /\ m.capacity \in Nat
      /\ \A s \in 0..(m.capacity - 1) : HeadOK(m, s, m.buckets[s])
  BY MapByPlace DEF NodesOK
<1>2. OldBuckets(m) = [s \in 0..(2 * m.capacity - 1) |->
                         IF s < m.capacity THEN m.buckets[s] ELSE Nil]
  BY DEF OldBuckets, RebuildStep
<1>3. \A s \in 0..(m.capacity - 1) : m.buckets[s] \in Range(m.nodes) \cup {Nil}
  <2>1. Range(m.nodes) = {m.nodes[i] : i \in 1..Len(m.nodes)}
    BY <1>1, NodeFacts DEF Range
  <2> QED
    BY <1>1, <2>1 DEF HeadOK
<1>4. \A s \in 0..(2 * m.capacity - 1) :
        s < m.capacity => s \in 0..(m.capacity - 1)
  BY <1>1
<1>5. \A s \in 0..(m.capacity - 1) : s \in 0..(2 * m.capacity - 1) /\ s < m.capacity
  BY <1>1
<1>6. \A s \in 0..(m.capacity - 1) : OldBuckets(m)[s] = m.buckets[s]
  BY <1>2, <1>5
<1>7. OldBuckets(m) \in NewBuckets(m)
  BY <1>2, <1>3, <1>4 DEF NewBuckets
<1> QED
  BY <1>6, <1>7

LEMMA RebuildExists ==
  ASSUME NEW m, MapOK(m), 2 * m.capacity <= HashRange
  PROVE  \E f : f = [n \in 0..m.capacity |-> RebuildStep(m, f, n)]
<1> DEFINE c == m.capacity
           V == NewBuckets(m)
           step == [p \in (1..c) \X V |-> Divide(Doubled(m), p[2], Loop(c, p[1]))]
<1>1. MapType(m) /\ NodesOK(m) /\ c \in Nat /\ OldBuckets(m) \in V
  BY MapByPlace, OldBucketsFacts DEF NodesOK
<1>2. ASSUME NEW n \in 1..c, NEW b \in V
      PROVE  Divide(Doubled(m), b, Loop(c, n)) \in V
  <2>1. Loop(c, n) \in 0..(c - 1)
    BY <1>1 DEF Loop
  <2> QED
    BY <1>1, <2>1, DivideFacts
<1> HIDE DEF V, c
<1>3. step \in [(1..c) \X V -> V]
  BY <1>2
<1>4. \A n \in 1..c, b \in V : step[<<n, b>>] = Divide(Doubled(m), b, Loop(c, n))
  OBVIOUS
<1> HIDE DEF step
<1> DEFINE v == OldBuckets(m)
<1>50. c \in Nat /\ v \in V
  BY <1>1
<1> HIDE DEF v
<1>5. PICK f :
        /\ f \in [0..c -> V]
        /\ f[0] = v
        /\ \A n \in 1..c : f[n] = step[<<n, f[n - 1]>>]
  <2>1. IsStep(step, c, V)
    BY <1>3 DEF IsStep
  <2>2. PICK f : Unrolls(f, c, V, v, step)
    BY <1>50, <2>1, RecursionUpTo
  <2> QED
    BY <2>2 DEF Unrolls
<1>6. ASSUME NEW n \in 0..c
      PROVE  f[n] = RebuildStep(m, f, n)
  <2>1. CASE n = 0
    BY <1>5, <2>1 DEF OldBuckets, RebuildStep, v
  <2>2. CASE n # 0
    <3>1. n \in 1..c /\ f[n - 1] \in V
      BY <1>1, <1>5, <2>2
    <3>2. f[n] = Divide(Doubled(m), f[n - 1], Loop(c, n))
      BY <1>4, <1>5, <3>1
    <3> QED
      BY <2>2, <3>2 DEF RebuildStep, c
  <2> QED
    BY <2>1, <2>2
<1>7. f = [n \in 0..c |-> RebuildStep(m, f, n)]
  BY <1>5, <1>6
<1> QED
  BY <1>7 DEF c

LEMMA RebuiltFacts ==
  ASSUME NEW m, MapOK(m), 2 * m.capacity <= HashRange
  PROVE  /\ Rebuilt(m) \in NewBuckets(m)
         /\ \A t \in 0..(2 * m.capacity - 1) : HeadOK(Doubled(m), t, Rebuilt(m)[t])
<1> DEFINE c == m.capacity
           d == Doubled(m)
           f == CHOOSE g : g = [n \in 0..m.capacity |->
                  IF n = 0 THEN [s \in 0..(2 * m.capacity - 1) |->
                                   IF s < m.capacity THEN m.buckets[s] ELSE Nil]
                  ELSE Divide(Doubled(m), g[n - 1], Loop(m.capacity, n))]
<1>1. f = [n \in 0..m.capacity |-> RebuildStep(m, f, n)]
  <2>1. \E g : g = [n \in 0..m.capacity |->
                  IF n = 0 THEN [s \in 0..(2 * m.capacity - 1) |->
                                   IF s < m.capacity THEN m.buckets[s] ELSE Nil]
                  ELSE Divide(Doubled(m), g[n - 1], Loop(m.capacity, n))]
    BY RebuildExists, Zenon DEF RebuildStep
  <2>2. f = [n \in 0..m.capacity |->
               IF n = 0 THEN [s \in 0..(2 * m.capacity - 1) |->
                                IF s < m.capacity THEN m.buckets[s] ELSE Nil]
               ELSE Divide(Doubled(m), f[n - 1], Loop(m.capacity, n))]
    BY <2>1, Zenon
  <2> QED
    BY <2>2, Zenon DEF RebuildStep
<1>2. Rebuilt(m) = f[c]
  BY Zenon DEF Rebuilt
<1> HIDE DEF f
<1>3. /\ MapType(m) /\ NodesOK(m) /\ c \in Nat
      /\ \A s \in 0..(c - 1) : HeadOK(m, s, m.buckets[s])
  BY MapByPlace DEF NodesOK
<1>4. \A n \in 0..c : f[n] = RebuildStep(m, f, n)
  BY <1>1, Zenon
<1> DEFINE Good == {n \in 0..c :
                      /\ f[n] \in NewBuckets(m)
                      /\ \A s \in 0..(c - n - 1) : f[n][s] = m.buckets[s]
                      /\ \A t \in (2 * (c - n))..(2 * c - 1) : HeadOK(d, t, f[n][t])}
<1>5. 0 \in Good
  <2>1. 0 \in 0..c /\ f[0] = OldBuckets(m)
    BY <1>3, <1>4 DEF OldBuckets, RebuildStep
  <2>2. \A s \in 0..(c - 0 - 1) : s \in 0..(c - 1)
    BY <1>3
  <2>3. \A t \in (2 * (c - 0))..(2 * c - 1) : FALSE
    BY <1>3
  <2> QED
    BY <2>1, <2>2, <2>3, OldBucketsFacts
<1>6. ASSUME NEW n \in 0..(c - 1), n \in Good
      PROVE  n + 1 \in Good
  <2> DEFINE s == c - (n + 1)
             e == f[n + 1]
  <2>1. /\ s \in 0..(c - 1) /\ s \in 0..(c - n - 1) /\ s \in Nat
        /\ n + 1 \in 0..c /\ n + 1 # 0 /\ n + 1 - 1 = n
        /\ c - (n + 1) - 1 = s - 1 /\ 2 * (c - (n + 1)) = 2 * s
        /\ 2 * (c - n) = 2 * s + 2
    BY <1>3
  <2>2. e = Divide(d, f[n], s)
    <3>1. e = RebuildStep(m, f, n + 1)
      BY <1>4, <2>1, Zenon
    <3> DEFINE k == n + 1
    <3>2. e = RebuildStep(m, f, k) /\ k # 0 /\ k - 1 = n /\ Loop(c, k) = s
      BY <2>1, <3>1 DEF Loop
    <3> HIDE DEF k, e, s
    <3>3. e = Divide(Doubled(m), f[n], s)
      BY <3>2, Zenon DEF RebuildStep
    <3> QED
      BY <3>3
  <2>3. /\ f[n] \in NewBuckets(m)
        /\ \A r \in 0..(c - n - 1) : f[n][r] = m.buckets[r]
        /\ \A t \in (2 * (c - n))..(2 * c - 1) : HeadOK(d, t, f[n][t])
    BY <1>6
  <2>4. HeadOK(m, s, f[n][s])
    BY <1>3, <2>1, <2>3
  <2> HIDE DEF e, d, s
  <2>5. /\ e \in NewBuckets(m)
        /\ \A t \in 0..(2 * c - 1) : t # 2 * s /\ t # 2 * s + 1 => e[t] = f[n][t]
        /\ HeadOK(d, 2 * s, e[2 * s]) /\ HeadOK(d, 2 * s + 1, e[2 * s + 1])
    <3>1. /\ MapType(m) /\ NodesOK(m) /\ 2 * m.capacity <= HashRange /\ f[n] \in NewBuckets(m)
          /\ s \in 0..(m.capacity - 1) /\ HeadOK(m, s, f[n][s])
      BY <1>3, <2>1, <2>3, <2>4 DEF c
    <3> DEFINE b == f[n]
    <3> HIDE DEF b
    <3>2. /\ Divide(Doubled(m), b, s) \in NewBuckets(m)
          /\ \A t \in 0..(2 * m.capacity - 1) :
               t # 2 * s /\ t # 2 * s + 1 => Divide(Doubled(m), b, s)[t] = b[t]
          /\ HeadOK(Doubled(m), 2 * s, Divide(Doubled(m), b, s)[2 * s])
          /\ HeadOK(Doubled(m), 2 * s + 1, Divide(Doubled(m), b, s)[2 * s + 1])
      BY <3>1, DivideFacts DEF b
    <3>3. e = Divide(Doubled(m), b, s)
      BY <2>2 DEF b, d
    <3> QED
      BY <3>2, <3>3 DEF b, d
  <2>6. ASSUME NEW r \in 0..(s - 1)
        PROVE  e[r] = m.buckets[r]
    <3>1. /\ r \in 0..(c - n - 1) /\ r \in 0..(2 * c - 1)
          /\ r # 2 * s /\ r # 2 * s + 1
      BY <1>3, <2>1
    <3> QED
      BY <2>3, <2>5, <3>1
  <2>7. ASSUME NEW t \in (2 * s)..(2 * c - 1)
        PROVE  HeadOK(d, t, e[t])
    <3>1. CASE t = 2 * s
      BY <2>5, <3>1
    <3>2. CASE t = 2 * s + 1
      BY <2>5, <3>2
    <3>3. CASE t # 2 * s /\ t # 2 * s + 1
      <4>1. t \in (2 * (c - n))..(2 * c - 1) /\ t \in 0..(2 * c - 1)
        BY <1>3, <2>1, <3>3
      <4> QED
        BY <2>3, <2>5, <3>3, <4>1
    <3> QED
      BY <3>1, <3>2, <3>3
  <2> QED
    BY <2>1, <2>5, <2>6, <2>7 DEF e, s
<1>7. 0..c \subseteq Good
  <2> HIDE DEF Good
  <2> QED
    BY <1>3, <1>5, <1>6, InductionUpTo
<1>8. c \in Good
  BY <1>3, <1>7
<1>9. 2 * (c - c) = 0
  BY <1>3
<1> QED
  BY <1>2, <1>8, <1>9

LEMMA GrownOK ==
  ASSUME NEW m, MapOK(m), NEW had
  PROVE  MapOK(Grown(m, had)) /\ Grown(m, had).nodes = m.nodes
<1>1. CASE ~(Len(m.nodes) > m.capacity /\ had /\ 2 * m.capacity <= HashRange)
  BY <1>1 DEF Grown
<1>2. CASE Len(m.nodes) > m.capacity /\ had /\ 2 * m.capacity <= HashRange
  <2> DEFINE g == Grown(m, had)
             d == Doubled(m)
  <2>1. MapType(m) /\ NodesOK(m)
    BY MapByPlace
  <2>2. /\ NodesOK(d) /\ d.nodes = m.nodes /\ d.hash = m.hash
        /\ d.capacity = 2 * m.capacity
    BY <1>2, <2>1, DoubledFacts
  <2>3. /\ Rebuilt(m) \in NewBuckets(m)
        /\ \A t \in 0..(2 * m.capacity - 1) : HeadOK(d, t, Rebuilt(m)[t])
    BY <1>2, RebuiltFacts
  <2>4. g = [d EXCEPT !.buckets = Rebuilt(m)]
    BY <1>2 DEF Grown
  <2>5. g = [hash |-> d.hash, capacity |-> d.capacity, nodes |-> d.nodes,
             buckets |-> Rebuilt(m)]
    BY <2>1, <2>4 DEF Doubled, MapType
  <2> HIDE DEF g, d
  <2>6. /\ g.nodes = d.nodes /\ g.hash = d.hash /\ g.capacity = d.capacity
        /\ g.buckets = Rebuilt(m)
    BY <2>5
  <2>7. NodesOK(g)
    BY <2>2, <2>6 DEF NodesOK, InOrder, Before
  <2>8. \A k : Slot(g, k) = Slot(d, k)
    BY <2>6 DEF Slot
  <2>9. \A t \in 0..(g.capacity - 1) : HeadOK(g, t, g.buckets[t])
    BY <2>2, <2>3, <2>6, <2>8 DEF HeadOK, Heading
  <2>10. MapType(g)
    <3>1. Range(m.nodes) \cup {Nil} \subseteq Key \cup {Nil}
      BY <2>1, NodeFacts DEF Range
    <3>2. g.buckets \in [0..(g.capacity - 1) -> Key \cup {Nil}]
      BY <2>2, <2>3, <2>6, <3>1 DEF NewBuckets
    <3>3. /\ g.hash \in HashFunction /\ g.capacity \in 1..HashRange
          /\ g.nodes \in Seq(Key \ LongKey) /\ HashRange % g.capacity = 0
      BY <2>7 DEF NodesOK
    <3> QED
      BY <2>5, <2>6, <3>2, <3>3 DEF MapType
  <2>11. MapOK(g)
    BY <2>7, <2>9, <2>10, MapByPlace
  <2> QED
    BY <2>2, <2>6, <2>11 DEF g
<1> QED
  BY <1>1, <1>2

LEMMA AddedOK ==
  ASSUME NEW m, MapOK(m), NEW k \in Key \ LongKey, k \notin Range(m.nodes), NEW had
  PROVE  /\ MapOK(Added(m, k, had))
         /\ Range(Added(m, k, had).nodes) = Range(m.nodes) \cup {k}
BY InsertedOK, GrownOK DEF Added

-----------------------------------------------------------------------------
(* Sequences of values. *)

LEMMA RangeIsToSet ==
  ASSUME NEW T, NEW s \in Seq(T)
  PROVE  /\ Range(s) = ToSet(s)
         /\ Len(s) \in Nat /\ DOMAIN s = 1..Len(s)
         /\ \A x : x \in Range(s) <=> \E i \in 1..Len(s) : s[i] = x
         /\ s = << >> <=> Len(s) = 0
         /\ s = << >> <=> Range(s) = {}
         /\ s # << >> => s[1] \in Range(s)
<1>1. Range(s) = ToSet(s)
  BY DEF Range, ToSet
<1>2. Len(s) \in Nat /\ DOMAIN s = 1..Len(s)
  OBVIOUS
<1>3. \A x : x \in Range(s) <=> \E i \in 1..Len(s) : s[i] = x
  BY <1>2 DEF Range
<1>4. s = << >> <=> Len(s) = 0
  OBVIOUS
<1>5. s # << >> => s[1] \in Range(s)
  BY <1>2, <1>3, <1>4
<1>6. s = << >> => Range(s) = {}
  BY <1>2, <1>3, <1>4
<1> QED
  BY <1>1, <1>2, <1>3, <1>4, <1>5, <1>6

LEMMA SortedPlaceOK ==
  ASSUME NEW s \in Seq(Val), NEW v \in Val
  PROVE  SortedPlace(s, v) \in 1..(Len(s) + 1)
<1> DEFINE S == {i \in DOMAIN s : Rank[v] < Rank[s[i]]} \cup {Len(s) + 1}
<1>1. S \subseteq 1..(Len(s) + 1) /\ S # {} /\ S \in SUBSET Nat
  OBVIOUS
<1>2. SortedPlace(s, v) = Min(S)
  BY DEF SortedPlace
<1> HIDE DEF S
<1> QED
  BY <1>1, <1>2, MinIs

(* A list that a value goes into. *)
LEMMA ValueInserted ==
  ASSUME NEW s \in Seq(Val), IsInjective(s), NEW v \in Val, v \notin Range(s),
         NEW i \in 1..(Len(s) + 1)
  PROVE  /\ InsertAt(s, i, v) \in Seq(Val)
         /\ IsInjective(InsertAt(s, i, v))
         /\ Range(InsertAt(s, i, v)) = Range(s) \cup {v}
<1>1. v \notin ToSet(s)
  BY RangeIsToSet
<1>2. /\ InsertAt(s, i, v) \in Seq(Val)
      /\ ToSet(InsertAt(s, i, v)) = ToSet(s) \cup {v}
      /\ IsInjective(InsertAt(s, i, v))
  BY <1>1, InsertAtProperties
<1> QED
  BY <1>2, RangeIsToSet

(* A list that a value is taken out of: it is empty if it held no other. *)
LEMMA ValueRemoved ==
  ASSUME NEW s \in Seq(Val), IsInjective(s), NEW v \in Range(s)
  PROVE  /\ Keep(s, Val \ {v}) \in Seq(Val)
         /\ IsInjective(Keep(s, Val \ {v}))
         /\ Range(Keep(s, Val \ {v})) = Range(s) \ {v}
         /\ Keep(s, Val \ {v}) = << >> <=> Len(s) = 1
<1> DEFINE r == Keep(s, Val \ {v})
<1>1. /\ r \in Seq(Val) /\ IsInjective(r)
      /\ ToSet(r) = ToSet(s) \cap (Val \ {v})
  BY KeepProperties
<1>2. /\ Len(s) \in Nat /\ DOMAIN s = 1..Len(s)
      /\ \A x : x \in Range(s) <=> \E i \in 1..Len(s) : s[i] = x
  BY RangeIsToSet
<1>3. Range(s) = ToSet(s) /\ Range(s) \subseteq Val
  BY <1>2, RangeIsToSet
<1>4. Range(r) = ToSet(r) /\ (r = << >> <=> Range(r) = {})
  BY <1>1, RangeIsToSet
<1> HIDE DEF r
<1>5. Range(r) = Range(s) \ {v}
  BY <1>1, <1>3, <1>4
<1>6. Len(s) = 1 => r = << >>
  BY <1>2, <1>4, <1>5
<1>7. Len(s) # 1 => r # << >>
  <2> SUFFICES ASSUME Len(s) # 1
               PROVE  \E w \in Range(s) : w # v
    BY <1>4, <1>5
  <2>1. 1 \in DOMAIN s /\ 2 \in DOMAIN s /\ s[1] \in Range(s) /\ s[2] \in Range(s)
    BY <1>2
  <2>2. s[1] # s[2]
    BY <2>1 DEF IsInjective
  <2> QED
    BY <2>1, <2>2
<1> QED
  BY <1>1, <1>5, <1>6, <1>7 DEF r

LEMMA ValNextFacts ==
  ASSUME NEW s \in Seq(Val), NEW v \in Range(s)
  PROVE  ValNext(s, v) \in Range(s) \cup {Nil}
<1>1. /\ Len(s) \in Nat /\ DOMAIN s = 1..Len(s)
      /\ \A x : x \in Range(s) <=> \E i \in 1..Len(s) : s[i] = x
  BY RangeIsToSet
<1> DEFINE i == CHOOSE j \in DOMAIN s : s[j] = v
<1>2. i \in DOMAIN s
  BY <1>1
<1>3. ValNext(s, v) = IF i < Len(s) THEN s[i + 1] ELSE Nil
  BY DEF ValNext
<1> HIDE DEF i
<1> QED
  BY <1>1, <1>2, <1>3

(* The next value of an injective list is not the value itself. *)
LEMMA ValNextOther ==
  ASSUME NEW s \in Seq(Val), IsInjective(s), NEW v \in Range(s)
  PROVE  ValNext(s, v) # v
<1>1. /\ Len(s) \in Nat /\ DOMAIN s = 1..Len(s)
      /\ \A x : x \in Range(s) <=> \E i \in 1..Len(s) : s[i] = x
  BY RangeIsToSet
<1> DEFINE i == CHOOSE j \in DOMAIN s : s[j] = v
<1>2. i \in DOMAIN s /\ s[i] = v
  BY <1>1
<1>3. ValNext(s, v) = IF i < Len(s) THEN s[i + 1] ELSE Nil
  BY DEF ValNext
<1> HIDE DEF i
<1>4. v \in Val /\ v # Nil
  BY <1>1, MultiMapAssumption DEF Nil
<1>5. i < Len(s) => i + 1 \in DOMAIN s /\ i + 1 # i
  BY <1>1, <1>2
<1> QED
  BY <1>2, <1>3, <1>4, <1>5 DEF IsInjective

-----------------------------------------------------------------------------
(* The nodes of a map. *)

LEMMA MapNodes ==
  ASSUME NEW m, MapOK(m)
  PROVE  /\ NodesOK(m) /\ m.nodes \in Seq(Key \ LongKey)
         /\ m.nodes = << >> <=> Range(m.nodes) = {}
         /\ Range(m.nodes) \subseteq Key \ LongKey
         /\ m.nodes # << >> => MapHead(m) \in Range(m.nodes)
         /\ m.nodes = << >> => MapHead(m) = Nil
         /\ \A k \in Range(m.nodes) :
              MapNext(m, k) \in (Range(m.nodes) \ {k}) \cup {Nil}
<1>1. NodesOK(m)
  BY MapByPlace
<1>2. m.nodes \in Seq(Key \ LongKey)
  BY <1>1 DEF NodesOK
<1> DEFINE q == m.nodes
<1>3. /\ Len(q) \in Nat /\ DOMAIN q = 1..Len(q)
      /\ \A x : x \in Range(q) <=> \E i \in 1..Len(q) : q[i] = x
      /\ q = << >> <=> Len(q) = 0
      /\ q = << >> <=> Range(q) = {}
      /\ q # << >> => q[1] \in Range(q)
  BY <1>2, RangeIsToSet
<1>4. Range(q) \subseteq Key \ LongKey
  BY <1>2, <1>3
<1>5. MapHead(m) = IF 1 \in DOMAIN q THEN q[1] ELSE Nil
  BY DEF MapHead, NodeAt
<1>6. ASSUME NEW k \in Range(q)
      PROVE  MapNext(m, k) \in (Range(q) \ {k}) \cup {Nil}
  <2> DEFINE i == Place(m, k)
  <2>1. i \in 1..Len(q) /\ q[i] = k
    BY <1>1, PlaceFacts
  <2>2. \A a, b \in 1..Len(q) : q[a] = q[b] => a = b
    BY <1>1, NodeFacts
  <2>3. MapNext(m, k) = IF i + 1 \in DOMAIN q THEN q[i + 1] ELSE Nil
    BY DEF MapNext, NodeAt
  <2> HIDE DEF i, q
  <2>4. i + 1 # i
    BY <2>1
  <2> QED
    BY <1>3, <2>1, <2>2, <2>3, <2>4
<1> QED
  BY <1>1, <1>2, <1>3, <1>4, <1>5, <1>6

LEMMA FindIn ==
  ASSUME NEW m, MapOK(m), NEW k \in Key
  PROVE  /\ k \in Range(m.nodes) => Find(m, k) = k
         /\ k \notin Range(m.nodes) => Find(m, k) = Nil
         /\ Find(m, k) # Nil <=> k \in Range(m.nodes)
<1>1. k # Nil
  BY HashMapAssumption DEF Nil
<1> QED
  BY <1>1, MapByPlace, FindExact

-----------------------------------------------------------------------------
(* discard: the loop that removes the first key until there is none. *)

Drained(m, f) ==
  /\ f[0] = m
  /\ \A n \in 1..Len(m.nodes) :
       f[n - 1].nodes # << >> => f[n] = Removed(f[n - 1], MapHead(f[n - 1]))

LEMMA DrainedFacts ==
  ASSUME NEW m, MapOK(m), NEW f, Drained(m, f)
  PROVE  \A n \in 0..Len(m.nodes) :
           MapOK(f[n]) /\ Len(f[n].nodes) = Len(m.nodes) - n
<1> DEFINE L == Len(m.nodes)
           S == {n \in 0..L : MapOK(f[n]) /\ Len(f[n].nodes) = L - n}
<1>1. L \in Nat
  BY MapNodes
<1>2. 0 \in S
  BY <1>1 DEF Drained
<1>3. ASSUME NEW n \in 0..(L - 1), n \in S
      PROVE  n + 1 \in S
  <2> DEFINE x == f[n]
  <2>1. MapOK(x) /\ Len(x.nodes) = L - n
    BY <1>3
  <2>2. n + 1 \in 1..L /\ n + 1 - 1 = n /\ n + 1 \in 0..L /\ L - n # 0
        /\ L - n - 1 = L - (n + 1)
    BY <1>1
  <2>3. x.nodes # << >>
    BY <2>1, <2>2
  <2>4. f[n + 1] = Removed(x, MapHead(x))
    BY <2>2, <2>3 DEF Drained
  <2> HIDE DEF x
  <2>5. MapHead(x) \in Range(x.nodes)
    BY <2>1, <2>3, MapNodes
  <2>6. /\ MapOK(Removed(x, MapHead(x)))
        /\ Len(Removed(x, MapHead(x)).nodes) = Len(x.nodes) - 1
    BY <2>1, <2>5, RemovedOK
  <2> QED
    BY <2>1, <2>2, <2>4, <2>6
<1>4. 0..L \subseteq S
  <2> HIDE DEF L, S
  <2> QED
    BY <1>1, <1>2, <1>3, InductionUpTo
<1> QED
  BY <1>4

EmptyStep(m, f, n) ==
  IF n = 0 THEN m ELSE Removed(f[n - 1], MapHead(f[n - 1]))

LEMMA DrainExists ==
  ASSUME NEW m, MapOK(m)
  PROVE  \E f : f = [n \in 0..Len(m.nodes) |-> EmptyStep(m, f, n)]
<1> DEFINE L == Len(m.nodes)
           W == [hash : HashFunction, capacity : 1..HashRange,
                 nodes : Seq(Key \ LongKey),
                 buckets : UNION {[0..(c - 1) -> Key \cup {Nil}] : c \in 1..HashRange}]
           V == {x \in W : MapOK(x)}
           turn(x) == IF x.nodes # << >> THEN Removed(x, MapHead(x)) ELSE x
           step == [p \in (1..L) \X V |-> turn(p[2])]
<1>1. L \in Nat
  BY MapNodes
<1>2. ASSUME NEW x, MapOK(x)
      PROVE  x \in V
  <2>1. /\ x \in [hash : HashFunction, capacity : 1..HashRange,
                  nodes : Seq(Key \ LongKey),
                  buckets : [0..(x.capacity - 1) -> Key \cup {Nil}]]
    BY <1>2 DEF MapOK, MapType
  <2>2. x.buckets \in UNION {[0..(c - 1) -> Key \cup {Nil}] : c \in 1..HashRange}
    BY <2>1
  <2>3. x \in W
    BY <2>1, <2>2
  <2> QED
    BY <1>2, <2>3
<1>3. \A x \in V : MapOK(x)
  OBVIOUS
<1> HIDE DEF V
<1>4. ASSUME NEW x \in V
      PROVE  turn(x) \in V
  BY <1>2, <1>3, MapNodes, RemovedOK
<1> HIDE DEF L
<1>5. step \in [(1..L) \X V -> V]
  BY <1>4
<1>6. \A n \in 1..L, x \in V : step[<<n, x>>] = turn(x)
  OBVIOUS
<1> HIDE DEF step
<1>7. PICK f :
        /\ f \in [0..L -> V]
        /\ f[0] = m
        /\ \A n \in 1..L : f[n] = step[<<n, f[n - 1]>>]
  <2>1. IsStep(step, L, V)
    BY <1>5 DEF IsStep
  <2>2. m \in V
    BY <1>2
  <2>3. PICK f : Unrolls(f, L, V, m, step)
    BY <1>1, <2>1, <2>2, RecursionUpTo
  <2> QED
    BY <2>3 DEF Unrolls
<1>8. \A n \in 1..L : n - 1 \in 0..L /\ f[n - 1] \in V /\ f[n] = turn(f[n - 1])
  <2> HIDE DEF turn
  <2> SUFFICES ASSUME NEW n \in 1..L
               PROVE  n - 1 \in 0..L /\ f[n - 1] \in V /\ f[n] = turn(f[n - 1])
    OBVIOUS
  <2>1. n - 1 \in 0..L
    BY <1>1
  <2>2. f[n - 1] \in V
    BY <1>7, <2>1
  <2>3. f[n] = step[<<n, f[n - 1]>>]
    BY <1>7
  <2>4. step[<<n, f[n - 1]>>] = turn(f[n - 1])
    BY <1>6, <2>2
  <2> QED
    BY <2>1, <2>2, <2>3, <2>4
<1>9. Drained(m, f)
  BY <1>7, <1>8 DEF Drained, L
<1>10. \A n \in 0..L : Len(f[n].nodes) = L - n
  BY <1>9, DrainedFacts DEF L
<1>11. ASSUME NEW n \in 0..L
       PROVE  f[n] = EmptyStep(m, f, n)
  <2>1. CASE n = 0
    BY <1>7, <2>1 DEF EmptyStep
  <2>2. CASE n # 0
    <3>1. n \in 1..L /\ n - 1 \in 0..L /\ L - (n - 1) # 0
      BY <1>1, <2>2
    <3>2. f[n - 1].nodes # << >>
      BY <1>10, <3>1
    <3>3. f[n] = Removed(f[n - 1], MapHead(f[n - 1]))
      BY <1>8, <3>1, <3>2
    <3> QED
      BY <2>2, <3>3 DEF EmptyStep
  <2> QED
    BY <2>1, <2>2
<1>12. f = [n \in 0..L |-> EmptyStep(m, f, n)]
  BY <1>7, <1>11
<1> QED
  BY <1>12 DEF L

LEMMA EmptiedOK ==
  ASSUME NEW m, MapOK(m)
  PROVE  MapOK(Emptied(m)) /\ Emptied(m).nodes = << >>
<1> DEFINE f == CHOOSE g : g = [n \in 0..Len(m.nodes) |->
                  IF n = 0 THEN m ELSE Removed(g[n - 1], MapHead(g[n - 1]))]
<1>1. f = [n \in 0..Len(m.nodes) |-> EmptyStep(m, f, n)]
  <2>1. \E g : g = [n \in 0..Len(m.nodes) |->
                  IF n = 0 THEN m ELSE Removed(g[n - 1], MapHead(g[n - 1]))]
    BY DrainExists, Zenon DEF EmptyStep
  <2>2. f = [n \in 0..Len(m.nodes) |->
               IF n = 0 THEN m ELSE Removed(f[n - 1], MapHead(f[n - 1]))]
    BY <2>1, Zenon
  <2> QED
    BY <2>2, Zenon DEF EmptyStep
<1>2. Emptied(m) = f[Len(m.nodes)]
  BY Zenon DEF Emptied
<1> HIDE DEF f
<1>3. \A n \in 0..Len(m.nodes) : f[n] = EmptyStep(m, f, n)
  BY <1>1, Zenon
<1>4. Len(m.nodes) \in Nat
  BY MapNodes
<1>5. Drained(m, f)
  <2>1. f[0] = m
    BY <1>3, <1>4 DEF EmptyStep
  <2>2. \A n \in 1..Len(m.nodes) : n \in 0..Len(m.nodes) /\ n # 0
    BY <1>4
  <2> QED
    BY <1>3, <2>1, <2>2 DEF Drained, EmptyStep
<1>6. MapOK(f[Len(m.nodes)]) /\ Len(f[Len(m.nodes)].nodes) = 0
  BY <1>4, <1>5, DrainedFacts
<1> DEFINE e == f[Len(m.nodes)]
<1> HIDE DEF e
<1>7. e.nodes \in Seq(Key \ LongKey) /\ Len(e.nodes) = 0
  BY <1>6, MapNodes DEF e
<1>8. e.nodes = << >>
  BY <1>7
<1> QED
  BY <1>2, <1>6, <1>8 DEF e

-----------------------------------------------------------------------------
(* The inductive invariant: a key is in the map if and only if its list has
   values, and the client's iterator is at a key of the map, and at a value of
   its list. *)

ListsOK ==
  /\ lists \in [Key -> Seq(Val)]
  /\ \A k \in Key : IsInjective(lists[k])
  /\ \A k \in Key : k \in Range(map.nodes) <=> lists[k] # << >>

CursorOK ==
  /\ cursor = [miter |-> cursor.miter, iter |-> cursor.iter]
  /\ cursor.miter \in Range(map.nodes) \cup {Nil}
  /\ cursor.miter = Nil => cursor.iter = Nil
  /\ cursor.iter # Nil => cursor.iter \in Range(lists[cursor.miter])

ClosedOK == ~open => cursor = NoWalk /\ map.nodes = << >>

IInv == MapOK(map) /\ ListsOK /\ CursorOK /\ ClosedOK

LEMMA EmptyCursor ==
  ASSUME NEW c, c = NoWalk
  PROVE  /\ c = [miter |-> c.miter, iter |-> c.iter]
         /\ c.miter = Nil /\ c.iter = Nil
BY DEF NoWalk

LEMMA InitOK == Init => IInv
<1> SUFFICES ASSUME Init
             PROVE  IInv
  OBVIOUS
<1>1. PICK h \in HashFunction : map = NewMap(h)
  BY MultiMapAssumption DEF Init
<1>2. MapOK(map) /\ Range(map.nodes) = {} /\ map.nodes = << >>
  BY <1>1, NewMapOK DEF NewMap
<1>3. ListsOK
  <2>1. \A k \in Key : lists[k] = << >> /\ << >> \in Seq(Val)
    BY DEF Init
  <2>2. IsInjective(<< >>)
    BY DEF IsInjective
  <2> QED
    BY <1>2, <2>1, <2>2 DEF Init, ListsOK
<1>4. cursor = NoWalk
  BY DEF Init
<1>5. CursorOK
  BY <1>4, EmptyCursor DEF CursorOK
<1> QED
  BY <1>2, <1>3, <1>4, <1>5 DEF IInv, ClosedOK

(* What Visit gives when the keys have their lists. *)
LEMMA VisitOK ==
  ASSUME ListsOK', MapOK(map)', NEW k \in Range(map'.nodes) \cup {Nil},
         cursor' = Visit(k)
  PROVE  CursorOK'
<1>1. k = Nil => CursorOK'
  BY EmptyCursor DEF Visit, CursorOK
<1>2. ASSUME k # Nil
      PROVE  CursorOK'
  <2>1. k \in Range(map'.nodes) /\ Range(map'.nodes) \subseteq Key
    BY <1>2, MapNodes
  <2>2. lists'[k] \in Seq(Val) /\ lists'[k] # << >>
    BY <2>1 DEF ListsOK
  <2>3. lists'[k][1] \in Range(lists'[k])
    BY <2>2, RangeIsToSet
  <2>4. cursor' = [miter |-> k, iter |-> lists'[k][1]]
    BY <1>2 DEF Visit
  <2> QED
    BY <1>2, <2>1, <2>3, <2>4 DEF CursorOK
<1> QED
  BY <1>1, <1>2

(* The facts of a state that the steps need. *)
LEMMA StateFacts ==
  ASSUME IInv
  PROVE  /\ MapOK(map) /\ NodesOK(map)
         /\ Range(map.nodes) \subseteq Key \ LongKey
         /\ map.nodes = << >> <=> Range(map.nodes) = {}
         /\ Nil \notin Key
         /\ cursor.miter # Nil =>
              /\ cursor.miter \in Range(map.nodes) /\ cursor.miter \in Key
              /\ lists[cursor.miter] \in Seq(Val)
              /\ IsInjective(lists[cursor.miter])
         /\ cursor.iter # Nil =>
              cursor.miter # Nil /\ cursor.iter \in Range(lists[cursor.miter])
<1>1. MapOK(map) /\ CursorOK /\ ListsOK
  BY DEF IInv
<1>2. Nil \notin Key
  BY HashMapAssumption DEF Nil
<1>3. Range(map.nodes) \subseteq Key \ LongKey
  BY <1>1, MapNodes
<1> QED
  BY <1>1, <1>2, <1>3, MapNodes DEF CursorOK, ListsOK

(* A step that leaves the map, the lists and whether there is a multimap. *)
LEMMA SameLists ==
  ASSUME IInv, open' = open, map' = map, lists' = lists, CursorOK',
         ~open => cursor' = cursor
  PROVE  IInv'
BY DEF IInv, ListsOK, ClosedOK

-----------------------------------------------------------------------------
(* One lemma for each action that changes the map or the iterator. *)

LEMMA NewStep ==
  ASSUME IInv, New
  PROVE  IInv'
<1>1. PICK h \in HashFunction : map' = NewMap(h)
  BY MultiMapAssumption DEF New
<1>2. MapOK(map)' /\ Range(map'.nodes) = {} /\ map'.nodes = << >>
  BY <1>1, NewMapOK DEF NewMap
<1>3. cursor' = NoWalk /\ map.nodes = << >> /\ lists' = lists /\ open'
  BY DEF New, IInv, ClosedOK, walk
<1>4. Range(map.nodes) = {}
  BY <1>3, StateFacts
<1>5. ListsOK'
  BY <1>2, <1>3, <1>4 DEF IInv, ListsOK
<1>6. CursorOK'
  BY <1>3, EmptyCursor DEF CursorOK
<1> QED
  BY <1>2, <1>3, <1>5, <1>6 DEF IInv, ClosedOK

LEMMA DiscardStep ==
  ASSUME IInv, Discard
  PROVE  IInv'
<1>1. MapOK(map)' /\ map'.nodes = << >>
  BY EmptiedOK DEF IInv, Discard
<1>2. Range(map'.nodes) = {}
  BY <1>1, MapNodes
<1>3. \A k \in Key : lists'[k] = << >>
  BY DEF IInv, ListsOK, Discard
<1>4. ListsOK'
  <2> DEFINE e(k) == IF k \in Range(map.nodes) THEN << >> ELSE lists[k]
  <2>1. lists' = [k \in Key |-> e(k)]
    BY DEF Discard
  <2>2. \A k \in Key : e(k) \in Seq(Val)
    BY DEF IInv, ListsOK
  <2> HIDE DEF e
  <2>3. lists' \in [Key -> Seq(Val)]
    BY <2>1, <2>2
  <2>4. IsInjective(<< >>)
    BY DEF IsInjective
  <2> QED
    BY <1>2, <1>3, <2>3, <2>4 DEF ListsOK
<1>5. cursor' = NoWalk
  BY DEF Discard
<1>6. CursorOK'
  BY <1>5, EmptyCursor DEF CursorOK
<1> QED
  BY <1>1, <1>4, <1>5, <1>6 DEF IInv, ClosedOK

LEMMA AddStep ==
  ASSUME IInv, NEW k \in Key, NEW v \in Val, Add(k, v)
  PROVE  IInv'
<1>1. /\ lists \in [Key -> Seq(Val)] /\ lists[k] \in Seq(Val)
      /\ IsInjective(lists[k]) /\ v \notin Range(lists[k])
      /\ cursor' = cursor /\ open' /\ open
  BY DEF IInv, ListsOK, Add, walk
<1>2. CASE Find(map, k) # Nil
  <2> DEFINE i == IF sorted THEN SortedPlace(lists[k], v) ELSE Len(lists[k]) + 1
             s == InsertAt(lists[k], i, v)
  <2>1. k \in Range(map.nodes) /\ map' = map
    BY <1>2, FindIn DEF IInv, Add
  <2>2. lists' = [lists EXCEPT ![k] = s]
    BY <1>2 DEF Add
  <2>3. i \in 1..(Len(lists[k]) + 1)
    BY <1>1, SortedPlaceOK
  <2> HIDE DEF i
  <2>4. s \in Seq(Val) /\ IsInjective(s) /\ Range(s) = Range(lists[k]) \cup {v}
    BY <1>1, <2>3, ValueInserted
  <2> HIDE DEF s
  <2>5. s # << >>
    BY <2>4, RangeIsToSet
  <2>6. ListsOK'
    BY <1>1, <2>1, <2>2, <2>4, <2>5 DEF IInv, ListsOK
  <2>7. \A j \in Key : Range(lists[j]) \subseteq Range(lists'[j])
    BY <1>1, <2>2, <2>4
  <2>8. CursorOK'
    BY <1>1, <2>1, <2>7, StateFacts DEF IInv, CursorOK
  <2> QED
    BY <1>1, <2>1, <2>6, <2>8 DEF IInv, ClosedOK
<1>3. CASE Find(map, k) = Nil
  <2>1. k \notin LongKey /\ lists' = [lists EXCEPT ![k] = <<v>>]
    BY <1>3 DEF Add
  <2>2. PICK had : map' = Added(map, k, had)
    BY <1>3 DEF Add
  <2>3. k \notin Range(map.nodes)
    BY <1>3, FindIn DEF IInv
  <2>4. MapOK(map)' /\ Range(map'.nodes) = Range(map.nodes) \cup {k}
    BY <2>1, <2>2, <2>3, AddedOK DEF IInv
  <2>5. <<v>> \in Seq(Val) /\ <<v>> # << >> /\ IsInjective(<<v>>)
    BY DEF IsInjective
  <2>6. ListsOK'
    BY <1>1, <2>1, <2>4, <2>5 DEF IInv, ListsOK
  <2>7. \A j \in Range(map.nodes) : lists'[j] = lists[j]
    BY <1>1, <2>1, <2>3, StateFacts
  <2>8. CursorOK'
    BY <1>1, <2>4, <2>7, StateFacts DEF IInv, CursorOK
  <2> QED
    BY <1>1, <2>4, <2>6, <2>8 DEF IInv, ClosedOK
<1> QED
  BY <1>2, <1>3

LEMMA WalkRemoveStep ==
  ASSUME IInv, WalkRemove
  PROVE  IInv'
<1> DEFINE k == cursor.miter
           v == cursor.iter
           s == lists[k]
           r == Keep(s, Val \ {v})
           n == ValNext(s, v)
<1>1. /\ v # Nil /\ k # Nil /\ k \in Range(map.nodes) /\ k \in Key
      /\ s \in Seq(Val) /\ IsInjective(s) /\ v \in Range(s)
  BY StateFacts DEF WalkRemove
<1>2. /\ lists' = [lists EXCEPT ![k] = r]
      /\ map' = IF Len(s) = 1 THEN Removed(map, k) ELSE map
      /\ cursor' = NextAfter(k, n, Len(s) = 1)
      /\ open' = open
  BY DEF WalkRemove, Visited
<1>3. /\ r \in Seq(Val) /\ IsInjective(r) /\ Range(r) = Range(s) \ {v}
      /\ r = << >> <=> Len(s) = 1
  BY <1>1, ValueRemoved
<1>4. n \in Range(s) \cup {Nil} /\ n # v
  BY <1>1, ValNextFacts, ValNextOther
<1>5. open /\ lists \in [Key -> Seq(Val)]
  BY <1>1, StateFacts, EmptyCursor DEF IInv, ClosedOK, ListsOK
<1>6. /\ MapOK(map)'
      /\ Range(map'.nodes) = IF Len(s) = 1 THEN Range(map.nodes) \ {k}
                             ELSE Range(map.nodes)
  BY <1>1, <1>2, RemovedOK DEF IInv
<1>7. MapNext(map, k) \in Range(map'.nodes) \cup {Nil}
  BY <1>1, <1>6, MapNodes DEF IInv
<1> HIDE DEF r, n, s
<1>8. ListsOK'
  <2>1. lists' \in [Key -> Seq(Val)] /\ lists'[k] = r
        /\ \A j \in Key \ {k} : lists'[j] = lists[j]
    BY <1>1, <1>2, <1>3, <1>5
  <2>2. \A j \in Key : IsInjective(lists'[j])
    BY <1>3, <2>1 DEF IInv, ListsOK
  <2>3. \A j \in Key : j \in Range(map'.nodes) <=> lists'[j] # << >>
    BY <1>1, <1>3, <1>6, <2>1 DEF IInv, ListsOK
  <2> QED
    BY <2>1, <2>2, <2>3 DEF ListsOK
<1>9. CursorOK'
  <2>1. CASE cursor' = Visit(MapNext(map, k))
    BY <1>6, <1>7, <1>8, <2>1, VisitOK
  <2>2. CASE Len(s) # 1 /\ n # Nil /\ cursor' = [miter |-> k, iter |-> n]
    <3>1. cursor'.miter = k /\ cursor'.iter = n
      BY <2>2
    <3>2. lists'[k] = r /\ n \in Range(r)
      BY <1>1, <1>2, <1>3, <1>4, <1>5, <2>2
    <3>3. k \in Range(map'.nodes)
      BY <1>1, <1>6, <2>2
    <3> HIDE DEF k
    <3> QED
      BY <1>1, <2>2, <3>1, <3>2, <3>3 DEF CursorOK
  <2> QED
    BY <1>2, <2>1, <2>2 DEF NextAfter
<1> QED
  BY <1>2, <1>5, <1>6, <1>8, <1>9 DEF IInv, ClosedOK

-----------------------------------------------------------------------------
LEMMA NextOK == IInv /\ [Next]_vars => IInv'
<1> SUFFICES ASSUME IInv, [Next]_vars
             PROVE  IInv'
  OBVIOUS
<1>1. CASE New
  BY <1>1, NewStep
<1>2. ASSUME NEW f \in 1..4, NewFails(f)
      PROVE  IInv'
  BY <1>2, SameLists DEF NewFails, walk, IInv, CursorOK
<1>3. CASE Delete
  <2>1. cursor' = NoWalk /\ map' = map /\ lists' = lists /\ map.nodes = << >>
    BY <1>3 DEF Delete
  <2>2. CursorOK'
    BY <2>1, EmptyCursor DEF CursorOK
  <2> QED
    BY <2>1, <2>2 DEF IInv, ListsOK, ClosedOK
<1>4. CASE Discard
  BY <1>4, DiscardStep
<1>5. ASSUME NEW k \in Key, NEW v \in Val, Add(k, v)
      PROVE  IInv'
  BY <1>5, AddStep
<1>6. ASSUME NEW k \in Key, NEW v \in Val, NEW f \in 1..4, AddFails(k, v, f)
      PROVE  IInv'
  BY <1>6, SameLists DEF AddFails, walk, IInv, CursorOK
<1>7. CASE WalkHead
  <2>1. open /\ open' = open /\ map' = map /\ lists' = lists
        /\ cursor' = Visit(MapHead(map))
    BY <1>7 DEF WalkHead, Visited
  <2>2. MapHead(map) \in Range(map'.nodes) \cup {Nil}
    BY <2>1, StateFacts, MapNodes
  <2>3. MapOK(map)' /\ ListsOK'
    BY <2>1 DEF IInv, ListsOK
  <2>4. CursorOK'
    BY <2>1, <2>2, <2>3, VisitOK
  <2> QED
    BY <2>1, <2>4, SameLists
<1>8. ASSUME NEW k \in Key, WalkFind(k)
      PROVE  IInv'
  <2>1. open /\ open' = open /\ map' = map /\ lists' = lists
        /\ cursor' = Visit(Find(map, k))
    BY <1>8 DEF WalkFind, Visited
  <2>2. Find(map, k) \in Range(map'.nodes) \cup {Nil}
    BY <2>1, StateFacts, FindIn
  <2>3. MapOK(map)' /\ ListsOK'
    BY <2>1 DEF IInv, ListsOK
  <2>4. CursorOK'
    BY <2>1, <2>2, <2>3, VisitOK
  <2> QED
    BY <2>1, <2>4, SameLists
<1>9. ASSUME cursor.iter # Nil
      PROVE  open
  BY <1>9, EmptyCursor DEF IInv, ClosedOK
<1>10. ASSUME cursor.miter # Nil
       PROVE  open /\ MapNext(map, cursor.miter) \in Range(map.nodes) \cup {Nil}
  BY <1>10, StateFacts, MapNodes, EmptyCursor DEF IInv, ClosedOK
<1>11. ASSUME cursor.iter # Nil, cursor.miter # Nil, map' = map, lists' = lists,
              cursor' = [cursor EXCEPT !.iter =
                           ValNext(lists[cursor.miter], cursor.iter)]
       PROVE  CursorOK'
  <2> DEFINE n == ValNext(lists[cursor.miter], cursor.iter)
  <2>1. n \in Range(lists[cursor.miter]) \cup {Nil}
    BY <1>11, StateFacts, ValNextFacts
  <2>2. cursor' = [miter |-> cursor.miter, iter |-> n]
    BY <1>11 DEF IInv, CursorOK
  <2> HIDE DEF n
  <2>3. cursor'.miter = cursor.miter /\ cursor'.iter = n
    BY <2>2
  <2> QED
    BY <1>11, <2>1, <2>2, <2>3, StateFacts DEF CursorOK
<1>12. CASE WalkNext
  <2> DEFINE n == ValNext(lists[cursor.miter], cursor.iter)
  <2>1. /\ cursor.iter # Nil /\ open' = open /\ map' = map /\ lists' = lists
        /\ cursor' = IF n # Nil THEN [cursor EXCEPT !.iter = n]
                     ELSE Visit(MapNext(map, cursor.miter))
    BY <1>12 DEF WalkNext, Visited
  <2>2. cursor.miter # Nil
    BY <2>1, StateFacts
  <2>3. MapOK(map)' /\ ListsOK'
    BY <2>1 DEF IInv, ListsOK
  <2>4. CASE n # Nil
    <3>1. CursorOK'
      BY <1>11, <2>1, <2>2, <2>4
    <3> QED
      BY <1>9, <2>1, <3>1, SameLists
  <2>5. CASE n = Nil
    <3>1. CursorOK'
      BY <1>10, <2>1, <2>2, <2>3, <2>5, VisitOK
    <3> QED
      BY <1>9, <2>1, <3>1, SameLists
  <2> QED
    BY <2>4, <2>5
<1>13. CASE WalkNextItem
  <2>1. /\ cursor.iter # Nil /\ open' = open /\ map' = map /\ lists' = lists
        /\ cursor' = [cursor EXCEPT !.iter =
                        ValNext(lists[cursor.miter], cursor.iter)]
    BY <1>13 DEF WalkNextItem, Visited
  <2>2. CursorOK'
    BY <1>11, <2>1, StateFacts
  <2> QED
    BY <1>9, <2>1, <2>2, SameLists
<1>14. CASE WalkNextList
  <2>1. /\ cursor.miter # Nil /\ open' = open /\ map' = map /\ lists' = lists
        /\ cursor' = Visit(MapNext(map, cursor.miter))
    BY <1>14 DEF WalkNextList, Visited
  <2>2. MapOK(map)' /\ ListsOK'
    BY <2>1 DEF IInv, ListsOK
  <2>3. CursorOK'
    BY <1>10, <2>1, <2>2, VisitOK
  <2> QED
    BY <1>10, <2>1, <2>3, SameLists
<1>15. CASE WalkRemove
  BY <1>15, WalkRemoveStep
<1>16. CASE UNCHANGED vars
  BY <1>16 DEF vars, walk, IInv, ListsOK, CursorOK, ClosedOK
<1> QED
  BY <1>1, <1>2, <1>3, <1>4, <1>5, <1>6, <1>7, <1>8, <1>12, <1>13, <1>14,
     <1>15, <1>16 DEF Next

(* The inductive invariant holds in every behaviour of the multimap. *)
THEOREM MultiMapInvariant == Spec => []IInv
<1> QED
  BY InitOK, NextOK, PTL DEF Spec

(* Whatever is added, removed and walked, and whenever the table grows or
   cannot, the nodes stay in order and each bucket points to the first of its
   nodes (cc_map.c, cc_map_addp, cc_map_grow, cc_map_remove). *)
THEOREM MultiMapMapStaysOK == Spec => []MapStaysOK
<1>1. IInv => MapStaysOK
  BY DEF IInv, MapStaysOK
<1> QED
  BY <1>1, MultiMapInvariant, PTL

(* find sees a key if and only if values were added under it that have not
   been removed, with any hash function and any capacity (cc_map.c,
   cc_map_findp; cc_multimap.c). *)
THEOREM MultiMapFindsExactly == Spec => []FindsExactly
<1>1. ASSUME IInv
      PROVE  FindsExactly
  BY <1>1, FindIn DEF IInv, ListsOK, FindsExactly
<1> QED
  BY <1>1, MultiMapInvariant, PTL

-----------------------------------------------------------------------------
(* MultiMap implements MultiTable: every step is one of the table of values,
   or leaves it alone. *)

LEMMA NoLists ==
  ASSUME lists \in [Key -> Seq(Val)], \A k \in Key : lists[k] = << >>
  PROVE  lists = Table!Empty
BY DEF Table!Empty

LEMMA SameOperators ==
  ASSUME NEW s, NEW i, NEW x
  PROVE  /\ Table!InsertAt(s, i, x) = InsertAt(s, i, x)
         /\ Table!RemoveAt(s, i) = RemoveAt(s, i)
BY DEF Table!InsertAt, InsertAt, Table!RemoveAt, RemoveAt

LEMMA InsertBy ==
  ASSUME NEW k, NEW v, NEW i \in 1..(Len(lists[k]) + 1),
         IF sorted THEN Table!InRank(lists[k], i, v) ELSE i = Len(lists[k]) + 1,
         lists' = [lists EXCEPT ![k] = InsertAt(lists[k], i, v)], UNCHANGED sorted
  PROVE  Table!Insert(k, v)
<1>1. lists' = [lists EXCEPT ![k] = Table!InsertAt(lists[k], i, v)]
  BY SameOperators
<1> QED
  BY <1>1, Zenon DEF Table!Insert

LEMMA DropBy ==
  ASSUME NEW k, NEW i \in DOMAIN lists[k],
         lists' = [lists EXCEPT ![k] = RemoveAt(lists[k], i)], UNCHANGED sorted
  PROVE  Table!Drop(k)
<1>1. lists' = [lists EXCEPT ![k] = Table!RemoveAt(lists[k], i)]
  BY SameOperators
<1> QED
  BY <1>1, Zenon DEF Table!Drop

LEMMA SortedPlaceInRank ==
  ASSUME NEW s \in Seq(Val), NEW v \in Val
  PROVE  Table!InRank(s, SortedPlace(s, v), v)
<1> DEFINE S == {i \in DOMAIN s : Rank[v] < Rank[s[i]]} \cup {Len(s) + 1}
           p == SortedPlace(s, v)
<1>1. S \subseteq 1..(Len(s) + 1) /\ S # {} /\ S \in SUBSET Nat
  OBVIOUS
<1>2. p = Min(S)
  BY DEF SortedPlace
<1>3. \A i \in DOMAIN s : i \in S <=> Rank[v] < Rank[s[i]]
  OBVIOUS
<1> HIDE DEF S, p
<1>4. p \in S /\ \A i \in S : p <= i
  BY <1>1, <1>2, MinIs
<1>5. Rank[v] \in Nat /\ \A i \in DOMAIN s : Rank[s[i]] \in Nat
  <2>1. \A x \in Val : Rank[x] \in Nat
    BY MultiMapAssumption
  <2>2. \A i \in DOMAIN s : s[i] \in Val
    OBVIOUS
  <2> QED
    BY <2>1, <2>2
<1>6. Len(s) \in Nat /\ DOMAIN s = 1..Len(s) /\ p \in 1..(Len(s) + 1)
  BY <1>1, <1>4
<1>7. ASSUME NEW j \in 1..(p - 1)
      PROVE  Rank[s[j]] <= Rank[v]
  <2>1. j \in DOMAIN s /\ ~(p <= j)
    BY <1>6
  <2>2. j \notin S
    BY <1>4, <2>1
  <2> QED
    BY <1>3, <1>5, <2>1, <2>2
<1>8. p <= Len(s) => Rank[v] < Rank[s[p]]
  BY <1>3, <1>4, <1>6
<1> QED
  BY <1>7, <1>8 DEF Table!InRank, p

LEMMA InsertIntoEmpty ==
  ASSUME NEW v \in Val
  PROVE  InsertAt(<< >>, 1, v) = <<v>>
<1>1. ASSUME NEW e \in Seq(Val), NEW p \in 1..(Len(e) + 1)
      PROVE  /\ InsertAt(e, p, v) \in Seq(Val)
             /\ Len(InsertAt(e, p, v)) = Len(e) + 1
             /\ InsertAt(e, p, v)[p] = v
  <2>1. Len(e) \in Nat
    OBVIOUS
  <2> QED
    BY <2>1, InsertAtElements
<1>2. << >> \in Seq(Val) /\ Len(<< >>) = 0 /\ 1 \in 1..(Len(<< >>) + 1)
  OBVIOUS
<1> DEFINE t == InsertAt(<< >>, 1, v)
<1>3. t \in Seq(Val) /\ Len(t) = Len(<< >>) + 1 /\ t[1] = v
  BY <1>1, <1>2, Zenon
<1> HIDE DEF t
<1>4. t \in Seq(Val) /\ Len(t) = 1 /\ t[1] = v
  BY <1>2, <1>3
<1>5. t = <<v>>
  BY <1>4
<1> QED
  BY <1>5 DEF t

LEMMA AddInserts ==
  ASSUME IInv, NEW k \in Key, NEW v \in Val, Add(k, v)
  PROVE  Table!Insert(k, v)
<1>1. /\ lists \in [Key -> Seq(Val)] /\ lists[k] \in Seq(Val)
      /\ UNCHANGED sorted
  BY DEF IInv, ListsOK, Add
<1>2. CASE Find(map, k) # Nil
  <2> DEFINE i == IF sorted THEN SortedPlace(lists[k], v) ELSE Len(lists[k]) + 1
  <2>1. lists' = [lists EXCEPT ![k] = InsertAt(lists[k], i, v)]
    BY <1>2 DEF Add
  <2>2. i \in 1..(Len(lists[k]) + 1)
    BY <1>1, SortedPlaceOK
  <2>3. IF sorted THEN Table!InRank(lists[k], i, v) ELSE i = Len(lists[k]) + 1
    BY <1>1, SortedPlaceInRank
  <2> HIDE DEF i
  <2> QED
    BY <1>1, <2>1, <2>2, <2>3, InsertBy
<1>3. CASE Find(map, k) = Nil
  <2>1. lists' = [lists EXCEPT ![k] = <<v>>]
    BY <1>3 DEF Add
  <2>2. lists[k] = << >>
    BY <1>1, <1>3, FindIn DEF IInv, ListsOK
  <2>3. InsertAt(<< >>, 1, v) = <<v>>
    BY InsertIntoEmpty
  <2>4. Len(lists[k]) = 0 /\ 1 \in 1..(Len(lists[k]) + 1)
    BY <2>2
  <2>5. Table!InRank(lists[k], 1, v)
    BY <2>4 DEF Table!InRank
  <2>6. lists' = [lists EXCEPT ![k] = InsertAt(lists[k], 1, v)]
    BY <2>1, <2>2, <2>3
  <2>7. IF sorted THEN Table!InRank(lists[k], 1, v) ELSE 1 = Len(lists[k]) + 1
    BY <2>4, <2>5
  <2> DEFINE i == 1
  <2>8. /\ i \in 1..(Len(lists[k]) + 1)
        /\ IF sorted THEN Table!InRank(lists[k], i, v) ELSE i = Len(lists[k]) + 1
        /\ lists' = [lists EXCEPT ![k] = InsertAt(lists[k], i, v)]
    BY <2>4, <2>6, <2>7
  <2> HIDE DEF i
  <2> QED
    BY <1>1, <2>8, InsertBy
<1> QED
  BY <1>2, <1>3

LEMMA RemoveDrops ==
  ASSUME IInv, WalkRemove
  PROVE  \E k \in Key : Table!Drop(k)
<1> DEFINE k == cursor.miter
           v == cursor.iter
           s == lists[k]
<1>1. /\ k \in Key /\ s \in Seq(Val) /\ IsInjective(s) /\ v \in Range(s)
  BY StateFacts DEF WalkRemove
<1>2. lists' = [lists EXCEPT ![k] = Keep(s, Val \ {v})] /\ UNCHANGED sorted
  BY DEF WalkRemove
<1>3. PICK i \in 1..Len(s) : s[i] = v
  BY <1>1, RangeIsToSet
<1>4. Keep(s, Val \ {v}) = RemoveAt(s, i)
  BY <1>1, <1>3, KeepAllButOne
<1>5. i \in DOMAIN lists[k]
  BY <1>1, RangeIsToSet
<1>6. lists' = [lists EXCEPT ![k] = RemoveAt(lists[k], i)]
  BY <1>2, <1>4
<1> HIDE DEF k
<1> QED
  BY <1>1, <1>2, <1>5, <1>6, DropBy

LEMMA StepIsTable == IInv /\ [Next]_vars => [Table!Next]_(Table!vars)
<1> SUFFICES ASSUME IInv, [Next]_vars
             PROVE  Table!Next \/ UNCHANGED <<sorted, lists>>
  BY DEF Table!vars
<1>1. ASSUME map.nodes = << >>
      PROVE  lists = Table!Empty
  <2>1. Range(map.nodes) = {}
    BY <1>1, StateFacts
  <2>2. lists \in [Key -> Seq(Val)] /\ \A k \in Key : lists[k] = << >>
    BY <2>1 DEF IInv, ListsOK
  <2> QED
    BY <2>2, NoLists
<1>2. CASE New
  <2>1. lists = Table!Empty /\ lists' = lists /\ sorted' \in BOOLEAN
    BY <1>1, <1>2 DEF New, IInv, ClosedOK
  <2>2. Table!Renew
    BY <2>1 DEF Table!Renew
  <2> QED
    BY <2>2 DEF Table!Next
<1>3. CASE Discard
  <2>1. lists' = [k \in Key |-> IF k \in Range(map.nodes) THEN << >> ELSE lists[k]]
    BY <1>3 DEF Discard
  <2>2. \A k \in Key : (IF k \in Range(map.nodes) THEN << >> ELSE lists[k]) = << >>
    BY DEF IInv, ListsOK
  <2>3. lists' = Table!Empty
    BY <2>1, <2>2 DEF Table!Empty
  <2>4. Table!Clear
    BY <1>3, <2>3 DEF Discard, Table!Clear
  <2> QED
    BY <2>4 DEF Table!Next
<1>4. ASSUME NEW k \in Key, NEW v \in Val, Add(k, v)
      PROVE  Table!Next
  BY <1>4, AddInserts DEF Table!Next
<1>5. CASE WalkRemove
  BY <1>5, RemoveDrops DEF Table!Next
<1>6. ASSUME \/ \E f \in 1..4 : NewFails(f)
             \/ \E k \in Key, v \in Val, f \in 1..4 : AddFails(k, v, f)
             \/ Delete \/ WalkHead \/ \E k \in Key : WalkFind(k)
             \/ WalkNext \/ WalkNextItem \/ WalkNextList \/ UNCHANGED vars
      PROVE  UNCHANGED <<sorted, lists>>
  BY <1>6 DEF NewFails, AddFails, Delete, WalkHead, WalkFind, WalkNext,
     WalkNextItem, WalkNextList, vars
<1> QED
  BY <1>2, <1>3, <1>4, <1>5, <1>6 DEF Next

(* A multimap is a table of values, whatever the map below it does and
   whatever allocation fails: an add puts a value where it belongs among those
   of its key, a removal takes out that value alone (cc_multimap.c,
   cc_multimap_addp, cc_multimap_remove). *)
THEOREM MultiMapImplementsTable == Spec => TableSpec
<1>1. Init => Table!Init
  <2>1. Init => lists = Table!Empty /\ sorted \in BOOLEAN
    BY DEF Init, Table!Empty
  <2> QED
    BY <2>1 DEF Table!Init
<1> QED
  BY <1>1, StepIsTable, MultiMapInvariant, PTL DEF Spec, TableSpec, Table!Spec

-----------------------------------------------------------------------------
(* What is allocated is what the multimap reaches. *)

\* What a multimap with the keys R and the lists L owns besides its base.
Owned(R, L) ==
  (UNION {OfKey(k) : k \in R})
    \cup {Item(p[1], p[2]) : p \in {q \in Pair : q[2] \in Range(L[q[1]])}}

LEMMA OwnedFacts ==
  ASSUME NEW R, NEW L
  PROVE  \A x : x \in Owned(R, L) <=>
           \/ \E k \in R : x \in OfKey(k)
           \/ \E k \in Key, v \in Val : v \in Range(L[k]) /\ x = Item(k, v)
<1> DEFINE P == {q \in Pair : q[2] \in Range(L[q[1]])}
<1>1. ASSUME NEW k \in Key, NEW v \in Val, v \in Range(L[k])
      PROVE  Item(k, v) \in Owned(R, L)
  <2>1. <<k, v>> \in P
    BY <1>1 DEF Pair
  <2>2. Item(<<k, v>>[1], <<k, v>>[2]) \in Owned(R, L)
    BY <2>1 DEF Owned
  <2> QED
    BY <2>2
<1>2. ASSUME NEW p \in P
      PROVE  \E k \in Key, v \in Val :
               v \in Range(L[k]) /\ Item(p[1], p[2]) = Item(k, v)
  BY <1>2 DEF Pair
<1> HIDE DEF P
<1>3. \A x : x \in Owned(R, L) <=>
        (\E k \in R : x \in OfKey(k)) \/ (\E p \in P : x = Item(p[1], p[2]))
  BY DEF Owned, P
<1> QED
  BY <1>1, <1>2, <1>3

LEMMA Distinct ==
  /\ \A k, j, x : x \in OfKey(k) /\ x \in OfKey(j) => k = j
  /\ \A k, j, v : Item(k, v) \notin OfKey(j)
  /\ \A k, v : Item(k, v) \notin Base
  /\ \A k, x : x \in OfKey(k) => x \notin Base
  /\ \A k, j, v, w : Item(k, v) = Item(j, w) => k = j /\ v = w
BY DEF OfKey, Item, Base

LEMMA HeapIs ==
  NothingLeaks <=>
    heap = IF ~open THEN {} ELSE Base \cup Owned(Range(map.nodes), lists)
BY DEF NothingLeaks, Owned, Pairs

LEMMA OwnedNothing ==
  ASSUME NEW L, \A k \in Key : Range(L[k]) = {}
  PROVE  Owned({}, L) = {}
BY OwnedFacts

\* The keys and their lists, in what follows.
LEMMA ListFacts ==
  ASSUME IInv
  PROVE  /\ Range(map.nodes) \subseteq Key
         /\ \A k \in Key : k \in Range(map.nodes) <=> lists[k] # << >>
         /\ \A k \in Key : lists[k] \in Seq(Val) /\ Range(lists[k]) \subseteq Val
         /\ \A k \in Key : k \notin Range(map.nodes) => Range(lists[k]) = {}
         /\ map.nodes = << >> => Range(map.nodes) = {}
<1>1. \A k \in Key : lists[k] \in Seq(Val)
  BY DEF IInv, ListsOK
<1>2. \A k \in Key : k \in Range(map.nodes) <=> lists[k] # << >>
  BY DEF IInv, ListsOK
<1>3. \A k \in Key : Range(lists[k]) \subseteq Val
  BY <1>1, RangeIsToSet
<1>4. \A k \in Key : k \notin Range(map.nodes) => Range(lists[k]) = {}
  BY <1>1, <1>2, RangeIsToSet
<1> QED
  BY <1>1, <1>2, <1>3, <1>4, StateFacts

LEMMA HeapNothing ==
  ASSUME IInv, NothingLeaks, map.nodes = << >>
  PROVE  heap = IF ~open THEN {} ELSE Base
<1>1. Range(map.nodes) = {} /\ \A k \in Key : Range(lists[k]) = {}
  BY ListFacts
<1>2. Owned(Range(map.nodes), lists) = {}
  BY <1>1, OwnedNothing
<1> QED
  BY <1>2, HeapIs

LEMMA EmptyLists ==
  ASSUME IInv', map'.nodes = << >>
  PROVE  Range(map'.nodes) = {} /\ \A k \in Key : Range(lists'[k]) = {}
<1>1. Range(map'.nodes) = {}
  <2>1. MapOK(map)'
    BY DEF IInv
  <2> QED
    BY <2>1, MapNodes
<1>2. ASSUME NEW k \in Key
      PROVE  Range(lists'[k]) = {}
  <2>1. lists'[k] \in Seq(Val) /\ lists'[k] = << >>
    BY <1>1 DEF IInv, ListsOK
  <2> QED
    BY <2>1, RangeIsToSet
<1> QED
  BY <1>1, <1>2

(* new unwinds whatever it has when an allocation fails, and so does add. *)
LEMMA NewUnwinds ==
  ASSUME NEW f \in 1..4
  PROVE  {<<Order[i], Nil, Nil>> : i \in 1..(f - 1)}
           \subseteq {<<o, Nil, Nil>> : o \in Unwound(f)}
<1>1. \A i \in 1..(f - 1) : i \in {1, 2, 3}
  OBVIOUS
<1>2. \A i \in 1..(f - 1) : Order[i] \in Unwound(f)
  BY <1>1 DEF Order, Unwound
<1> QED
  BY <1>2

LEMMA AddUnwinds ==
  ASSUME NEW f \in 1..4
  PROVE  /\ \A i \in 1..(f - 1) : AddOrder[i] \in AddUnwound(f)
         /\ AddUnwound(f) \subseteq {"list", "item", "node"}
<1>1. \A i \in 1..(f - 1) : i \in {1, 2, 3}
  OBVIOUS
<1> QED
  BY <1>1 DEF AddOrder, AddUnwound

LEMMA AddFailsHeap ==
  ASSUME IInv, NothingLeaks, NEW k \in Key, NEW v \in Val, NEW f \in 1..4,
         AddFails(k, v, f)
  PROVE  heap' = heap
<1> DEFINE Part(o) == <<o, k, IF o = "item" THEN v ELSE Nil>>
           X == {Part(AddOrder[i]) : i \in 1..(f - 1)}
           Y == {Part(o) : o \in AddUnwound(f)}
<1>1. heap' = (heap \cup X) \ Y /\ open /\ Find(map, k) = Nil
  BY DEF AddFails
<1>2. X \subseteq Y
  BY AddUnwinds
<1>3. \A y \in Y : y \in OfKey(k) \/ y = Item(k, v)
  BY AddUnwinds DEF OfKey, Item
<1>4. k \notin Range(map.nodes) /\ Range(lists[k]) = {}
  BY <1>1, FindIn, ListFacts DEF IInv
<1>5. heap = Base \cup Owned(Range(map.nodes), lists)
  BY <1>1, HeapIs
<1> HIDE DEF X, Y
<1>6. \A y \in Y : y \notin heap
  BY <1>3, <1>4, <1>5, OwnedFacts, Distinct
<1> QED
  BY <1>1, <1>2, <1>6

LEMMA DiscardHeap ==
  ASSUME IInv, NothingLeaks, Discard
  PROVE  heap' = Base
<1> DEFINE R == Range(map.nodes)
           Gone == UNION {OfKey(k) \cup {Item(k, v) : v \in Range(lists[k])} : k \in R}
<1>1. heap' = heap \ Gone /\ open
  BY DEF Discard
<1>2. heap = Base \cup Owned(R, lists)
  BY <1>1, HeapIs
<1>3. \A x : x \in Gone <=>
        \E k \in R : x \in OfKey(k) \/ \E v \in Range(lists[k]) : x = Item(k, v)
  <2>1. \A x : x \in Gone <=>
          \E k \in R : x \in OfKey(k) \cup {Item(k, v) : v \in Range(lists[k])}
    OBVIOUS
  <2> HIDE DEF Gone, R
  <2>2. ASSUME NEW x, NEW k
        PROVE  x \in OfKey(k) \cup {Item(k, v) : v \in Range(lists[k])} <=>
                 x \in OfKey(k) \/ \E v \in Range(lists[k]) : x = Item(k, v)
    OBVIOUS
  <2> QED
    BY <2>1, <2>2, Zenon
<1> HIDE DEF Gone
<1>4. \A x \in Owned(R, lists) : x \in Gone
  BY <1>3, OwnedFacts, ListFacts
<1>5. \A x \in Gone : x \notin Base
  BY <1>3, Distinct
<1> QED
  BY <1>1, <1>2, <1>4, <1>5

LEMMA AddHeap ==
  ASSUME IInv, NothingLeaks, NEW k \in Key, NEW v \in Val, Add(k, v)
  PROVE  NothingLeaks'
<1> DEFINE R == Range(map.nodes)
<1>1. /\ open /\ open' /\ lists \in [Key -> Seq(Val)] /\ lists[k] \in Seq(Val)
      /\ IsInjective(lists[k]) /\ v \notin Range(lists[k])
  BY DEF IInv, ListsOK, Add
<1>2. heap = Base \cup Owned(R, lists)
  BY <1>1, HeapIs
<1>3. /\ heap' = heap \cup (IF k \in R THEN {} ELSE OfKey(k)) \cup {Item(k, v)}
      /\ Range(map'.nodes) = R \cup {k}
      /\ Range(lists'[k]) = Range(lists[k]) \cup {v}
      /\ \A j \in Key : j # k => lists'[j] = lists[j]
  <2>1. CASE Find(map, k) # Nil
    <3> DEFINE i == IF sorted THEN SortedPlace(lists[k], v) ELSE Len(lists[k]) + 1
               s == InsertAt(lists[k], i, v)
    <3>1. k \in R /\ map' = map /\ heap' = heap \cup {Item(k, v)}
      BY <2>1, FindIn DEF IInv, Add
    <3>2. lists' = [lists EXCEPT ![k] = s]
      BY <2>1 DEF Add
    <3>3. i \in 1..(Len(lists[k]) + 1)
      BY <1>1, SortedPlaceOK
    <3> HIDE DEF i
    <3>4. Range(s) = Range(lists[k]) \cup {v}
      BY <1>1, <3>3, ValueInserted
    <3> HIDE DEF s
    <3> QED
      BY <1>1, <3>1, <3>2, <3>4
  <2>2. CASE Find(map, k) = Nil
    <3>1. /\ k \notin LongKey /\ lists' = [lists EXCEPT ![k] = <<v>>]
          /\ heap' = heap \cup OfKey(k) \cup {Item(k, v)}
      BY <2>2 DEF Add
    <3>2. PICK had : map' = Added(map, k, had)
      BY <2>2 DEF Add
    <3>3. k \notin R /\ Range(lists[k]) = {}
      BY <2>2, FindIn, ListFacts DEF IInv
    <3>4. Range(map'.nodes) = R \cup {k}
      BY <3>1, <3>2, <3>3, AddedOK DEF IInv
    <3>5. Range(<<v>>) = {v}
      BY DEF Range
    <3> QED
      BY <1>1, <3>1, <3>3, <3>4, <3>5
  <2> QED
    BY <2>1, <2>2
<1> HIDE DEF R
<1>4. ASSUME NEW x
      PROVE  x \in Owned(R \cup {k}, lists') <=>
               \/ x \in Owned(R, lists)
               \/ x \in OfKey(k)
               \/ x = Item(k, v)
  BY <1>3, OwnedFacts
<1>5. k \in R => \A x \in OfKey(k) : x \in Owned(R, lists)
  BY OwnedFacts
<1>6. heap' = Base \cup Owned(R \cup {k}, lists')
  BY <1>2, <1>3, <1>4, <1>5
<1> QED
  BY <1>1, <1>3, <1>6 DEF NothingLeaks, Owned, Pairs

LEMMA RemoveHeap ==
  ASSUME IInv, NothingLeaks, WalkRemove
  PROVE  NothingLeaks'
<1> DEFINE R == Range(map.nodes)
           k == cursor.miter
           v == cursor.iter
           s == lists[k]
           Alone == Len(s) = 1
<1>1. /\ v # Nil /\ k # Nil /\ k \in R /\ k \in Key
      /\ s \in Seq(Val) /\ IsInjective(s) /\ v \in Range(s) /\ v \in Val
  BY StateFacts, ListFacts DEF WalkRemove
<1>2. /\ lists' = [lists EXCEPT ![k] = Keep(s, Val \ {v})]
      /\ map' = IF Alone THEN Removed(map, k) ELSE map
      /\ heap' = heap \ ({Item(k, v)} \cup IF Alone THEN OfKey(k) ELSE {})
      /\ open' = open
  BY DEF WalkRemove
<1>3. /\ Range(Keep(s, Val \ {v})) = Range(s) \ {v}
      /\ Keep(s, Val \ {v}) = << >> <=> Alone
  BY <1>1, ValueRemoved
<1>4. open /\ lists \in [Key -> Seq(Val)]
  BY <1>1, EmptyCursor DEF IInv, ClosedOK, ListsOK
<1>5. Range(map'.nodes) = IF Alone THEN R \ {k} ELSE R
  BY <1>1, <1>2, RemovedOK DEF IInv
<1>6. /\ Range(lists'[k]) = Range(lists[k]) \ {v}
      /\ \A j \in Key : j # k => lists'[j] = lists[j]
  BY <1>1, <1>2, <1>3, <1>4
<1>7. heap = Base \cup Owned(R, lists)
  BY <1>4, HeapIs
<1> DEFINE N == IF Alone THEN R \ {k} ELSE R
           Out == {Item(k, v)} \cup IF Alone THEN OfKey(k) ELSE {}
<1> HIDE DEF R, k, v, s, Alone
<1>8. ASSUME NEW x
      PROVE  x \in Owned(N, lists') <=> x \in Owned(R, lists) /\ x \notin Out
  <2>1. (\E j \in N : x \in OfKey(j)) <=>
          (\E j \in R : x \in OfKey(j)) /\ x \notin Out
    BY <1>1, Distinct
  <2>2. (\E j \in Key, w \in Val : w \in Range(lists'[j]) /\ x = Item(j, w)) <=>
          /\ \E j \in Key, w \in Val : w \in Range(lists[j]) /\ x = Item(j, w)
          /\ x \notin Out
    BY <1>1, <1>6, Distinct
  <2> QED
    BY <2>1, <2>2, OwnedFacts
<1>9. \A x \in Out : x \notin Base
  BY Distinct
<1>10. heap' = Base \cup Owned(N, lists')
  BY <1>2, <1>7, <1>8, <1>9
<1> QED
  BY <1>2, <1>4, <1>5, <1>10 DEF NothingLeaks, Owned, Pairs

LEMMA HeapStep == IInv /\ NothingLeaks /\ [Next]_vars => NothingLeaks'
<1> SUFFICES ASSUME IInv, NothingLeaks, [Next]_vars
             PROVE  NothingLeaks'
  OBVIOUS
<1>1. ASSUME open' = open, map' = map, lists' = lists, heap' = heap
      PROVE  NothingLeaks'
  BY <1>1 DEF NothingLeaks, Pairs
<1>2. IInv'
  BY NextOK
<1>3. ASSUME map'.nodes = << >>, heap' = IF ~open' THEN {} ELSE Base
      PROVE  NothingLeaks'
  <2>1. Range(map'.nodes) = {} /\ \A k \in Key : Range(lists'[k]) = {}
    BY <1>2, <1>3, EmptyLists
  <2>2. Owned(Range(map'.nodes), lists') = {}
    BY <2>1, OwnedNothing
  <2> QED
    BY <1>3, <2>2 DEF NothingLeaks, Owned, Pairs
<1>4. CASE New
  <2>1. heap = {} /\ open' /\ heap' = heap \cup Base
    BY <1>4, HeapNothing DEF New, IInv, ClosedOK
  <2>2. map'.nodes = << >>
    BY <1>4 DEF New, NewMap
  <2> QED
    BY <1>3, <2>1, <2>2
<1>5. ASSUME NEW f \in 1..4, NewFails(f)
      PROVE  NothingLeaks'
  <2>1. heap = {} /\ open' = open /\ map' = map /\ lists' = lists
    BY <1>5, HeapNothing DEF NewFails, IInv, ClosedOK
  <2>2. heap' = {}
    BY <1>5, <2>1, NewUnwinds DEF NewFails
  <2> QED
    BY <1>1, <2>1, <2>2
<1>6. CASE Delete
  <2>1. heap = Base /\ map'.nodes = << >> /\ ~open' /\ heap' = heap \ Base
    BY <1>6, HeapNothing DEF Delete
  <2> QED
    BY <1>3, <2>1
<1>7. CASE Discard
  <2>1. heap' = Base /\ open'
    BY <1>7, DiscardHeap DEF Discard
  <2>2. map'.nodes = << >>
    BY <1>7, EmptiedOK DEF Discard, IInv
  <2> QED
    BY <1>3, <2>1, <2>2
<1>8. ASSUME NEW k \in Key, NEW v \in Val, Add(k, v)
      PROVE  NothingLeaks'
  BY <1>8, AddHeap
<1>9. ASSUME NEW k \in Key, NEW v \in Val, NEW f \in 1..4, AddFails(k, v, f)
      PROVE  NothingLeaks'
  <2>1. heap' = heap
    BY <1>9, AddFailsHeap
  <2> QED
    BY <1>1, <1>9, <2>1 DEF AddFails
<1>10. CASE WalkRemove
  BY <1>10, RemoveHeap
<1>11. ASSUME \/ WalkHead \/ \E k \in Key : WalkFind(k)
              \/ WalkNext \/ WalkNextItem \/ WalkNextList \/ UNCHANGED vars
       PROVE  NothingLeaks'
  <2>1. open' = open /\ map' = map /\ lists' = lists /\ heap' = heap
    BY <1>11 DEF WalkHead, WalkFind, WalkNext, WalkNextItem, WalkNextList, vars
  <2> QED
    BY <1>1, <2>1
<1> QED
  BY <1>4, <1>5, <1>6, <1>7, <1>8, <1>9, <1>10, <1>11 DEF Next

(* No call leaks and none frees what is in use, whichever of its allocations
   fails (cc_multimap.c, cc_multimap_addp; cc_map.c, cc_map_new). *)
THEOREM MultiMapNothingLeaks == Spec => []NothingLeaks
<1>1. Init => NothingLeaks
  BY DEF Init, NothingLeaks
<1>2. Spec => [](IInv /\ NothingLeaks)
  BY <1>1, InitOK, NextOK, HeapStep, PTL DEF Spec
<1> QED
  BY <1>2, PTL

-----------------------------------------------------------------------------
(* Walks.  After(s, a, b): b comes after a in s. *)

After(s, a, b) == \E i, j \in DOMAIN s : s[i] = a /\ s[j] = b /\ i < j

LEMMA AfterNext ==
  ASSUME NEW s \in Seq(Val), IsInjective(s), NEW v \in Range(s)
  PROVE  /\ ValNext(s, v) # Nil =>
              /\ After(s, v, ValNext(s, v))
              /\ \A w : After(s, v, w) /\ w # ValNext(s, v) =>
                          After(s, ValNext(s, v), w)
         /\ ValNext(s, v) = Nil => \A w : ~After(s, v, w)
         /\ \A w : After(s, v, w) => w # v /\ w \in Range(s)
<1>1. /\ Len(s) \in Nat /\ DOMAIN s = 1..Len(s)
      /\ \A x : x \in Range(s) <=> \E i \in 1..Len(s) : s[i] = x
  BY RangeIsToSet
<1> DEFINE i == CHOOSE j \in DOMAIN s : s[j] = v
           n == ValNext(s, v)
<1>2. i \in 1..Len(s) /\ s[i] = v
  BY <1>1
<1>3. n = IF i < Len(s) THEN s[i + 1] ELSE Nil
  BY DEF ValNext
<1> HIDE DEF i, n
<1>4. \A x, y \in 1..Len(s) : s[x] = s[y] => x = y
  BY <1>1 DEF IsInjective
<1>5. \A w : After(s, v, w) <=> \E j \in 1..Len(s) : s[j] = w /\ i < j
  BY <1>1, <1>2, <1>4 DEF After
<1>6. \A x \in Val : x # Nil
  BY MultiMapAssumption DEF Nil
<1>7. i < Len(s) => i + 1 \in 1..Len(s) /\ n = s[i + 1] /\ i < i + 1
  BY <1>1, <1>2, <1>3
<1>8. n # Nil <=> i < Len(s)
  BY <1>1, <1>3, <1>6, <1>7
<1>9. n # Nil => After(s, v, n)
  BY <1>5, <1>7, <1>8
<1>10. ASSUME n # Nil, NEW w, After(s, v, w), w # n
       PROVE  After(s, n, w)
  <2>1. PICK j \in 1..Len(s) : s[j] = w /\ i < j
    BY <1>5, <1>10
  <2>2. j # i + 1
    BY <1>7, <1>8, <1>10, <2>1
  <2>3. i + 1 < j
    BY <1>2, <2>1, <2>2
  <2> QED
    BY <1>1, <1>7, <1>8, <1>10, <2>1, <2>3 DEF After
<1>11. n = Nil => \A w : ~After(s, v, w)
  BY <1>1, <1>2, <1>5, <1>8
<1>12. \A w : After(s, v, w) => w # v /\ w \in Range(s)
  BY <1>1, <1>2, <1>4, <1>5
<1> QED
  BY <1>9, <1>10, <1>11, <1>12 DEF n

LEMMA AfterFirst ==
  ASSUME NEW s \in Seq(Val), NEW w \in Range(s), w # s[1]
  PROVE  After(s, s[1], w)
<1>1. /\ Len(s) \in Nat /\ DOMAIN s = 1..Len(s)
      /\ \A x : x \in Range(s) <=> \E i \in 1..Len(s) : s[i] = x
  BY RangeIsToSet
<1>2. PICK j \in 1..Len(s) : s[j] = w
  BY <1>1
<1>3. 1 \in 1..Len(s) /\ 1 < j
  BY <1>1, <1>2
<1> QED
  BY <1>1, <1>2, <1>3 DEF After

LEMMA AfterInsert ==
  ASSUME NEW s \in Seq(Val), NEW p \in 1..(Len(s) + 1), NEW v \in Val,
         NEW a, NEW b, After(s, a, b)
  PROVE  After(InsertAt(s, p, v), a, b)
<1> DEFINE t == InsertAt(s, p, v)
<1>1. /\ t \in Seq(Val) /\ Len(t) = Len(s) + 1
      /\ \A j \in 1..(Len(s) + 1) :
           t[j] = IF j < p THEN s[j] ELSE IF j = p THEN v ELSE s[j - 1]
  BY InsertAtElements
<1> HIDE DEF t
<1>2. Len(s) \in Nat /\ DOMAIN s = 1..Len(s) /\ DOMAIN t = 1..(Len(s) + 1)
  BY <1>1
<1>3. PICK i, j \in 1..Len(s) : s[i] = a /\ s[j] = b /\ i < j
  BY <1>2 DEF After
<1> DEFINE To(x) == IF x < p THEN x ELSE x + 1
<1>4. \A x \in 1..Len(s) : To(x) \in 1..(Len(s) + 1) /\ t[To(x)] = s[x]
  <2> TAKE x \in 1..Len(s)
  <2>1. CASE x < p
    BY <1>1, <1>2, <2>1
  <2>2. CASE ~(x < p)
    <3>1. x + 1 \in 1..(Len(s) + 1) /\ ~(x + 1 < p) /\ x + 1 # p /\ x + 1 - 1 = x
      BY <1>2, <2>2
    <3> QED
      BY <1>1, <2>2, <3>1
  <2> QED
    BY <2>1, <2>2
<1>5. To(i) < To(j)
  BY <1>3
<1> HIDE DEF To
<1>6. After(t, a, b)
  BY <1>2, <1>3, <1>4, <1>5 DEF After
<1> QED
  BY <1>6 DEF t

LEMMA AfterRemove ==
  ASSUME NEW s \in Seq(Val), IsInjective(s), NEW v \in Range(s),
         NEW a, NEW b, After(s, a, b), a # v, b # v
  PROVE  After(Keep(s, Val \ {v}), a, b)
<1>1. /\ Len(s) \in Nat /\ DOMAIN s = 1..Len(s)
      /\ \A x : x \in Range(s) <=> \E i \in 1..Len(s) : s[i] = x
  BY RangeIsToSet
<1>2. PICK p \in 1..Len(s) : s[p] = v
  BY <1>1
<1> DEFINE t == RemoveAt(s, p)
<1>3. Keep(s, Val \ {v}) = t
  BY <1>2, KeepAllButOne
<1>4. /\ t \in Seq(Val) /\ Len(t) = Len(s) - 1
      /\ \A j \in 1..(Len(s) - 1) : t[j] = IF j < p THEN s[j] ELSE s[j + 1]
  BY RemoveAtElements
<1> HIDE DEF t
<1>5. DOMAIN t = 1..(Len(s) - 1)
  BY <1>4
<1>6. PICK i, j \in 1..Len(s) : s[i] = a /\ s[j] = b /\ i < j
  BY <1>1 DEF After
<1> DEFINE To(x) == IF x < p THEN x ELSE x - 1
<1>7. \A x \in 1..Len(s) : x # p => To(x) \in 1..(Len(s) - 1) /\ t[To(x)] = s[x]
  <2> TAKE x \in 1..Len(s)
  <2>1. CASE x < p
    <3>1. x \in 1..(Len(s) - 1)
      BY <1>1, <2>1
    <3> QED
      BY <1>4, <2>1, <3>1
  <2>2. CASE p < x
    <3>1. x - 1 \in 1..(Len(s) - 1) /\ ~(x - 1 < p) /\ x - 1 + 1 = x /\ ~(x < p)
      BY <1>1, <2>2
    <3> QED
      BY <1>4, <3>1
  <2> QED
    BY <2>1, <2>2
<1>8. i # p /\ j # p
  BY <1>2, <1>6
<1>9. To(i) < To(j)
  BY <1>6, <1>8
<1> HIDE DEF To
<1> QED
  BY <1>3, <1>5, <1>6, <1>7, <1>8, <1>9 DEF After

(* The order of the nodes is that of Before. *)
LEMMA NodeOrder ==
  ASSUME NEW m, MapOK(m)
  PROVE  /\ \A k, j \in Range(m.nodes) :
              Place(m, k) < Place(m, j) <=> Before(m, k, j)
         /\ \A j \in Range(m.nodes) : j = MapHead(m) \/ Before(m, MapHead(m), j)
         /\ \A k \in Range(m.nodes) :
              /\ MapNext(m, k) # Nil => Before(m, k, MapNext(m, k))
              /\ \A j \in Range(m.nodes) : Before(m, k, j) =>
                   /\ MapNext(m, k) # Nil
                   /\ j = MapNext(m, k) \/ Before(m, MapNext(m, k), j)
<1> DEFINE q == m.nodes
           N == Len(m.nodes)
<1>1. /\ NodesOK(m) /\ q \in Seq(Key \ LongKey) /\ Range(q) \subseteq Key
  BY MapNodes
<1>2. /\ N \in Nat /\ DOMAIN q = 1..N
      /\ \A i \in 1..N : q[i] # Nil
      /\ \A i, j \in 1..N : i < j => Before(m, q[i], q[j])
  BY <1>1, NodeFacts
<1>3. \A k \in Range(q) : Place(m, k) \in 1..N /\ q[Place(m, k)] = k
  BY <1>1, PlaceFacts
<1>4. \A a, b \in Key : Before(m, a, b) => ~Before(m, b, a) /\ a # b
  BY <1>1, BeforeFacts
<1>5. \A k, j \in Range(q) : Place(m, k) < Place(m, j) <=> Before(m, k, j)
  <2> TAKE k, j \in Range(q)
  <2> DEFINE x == Place(m, k)
             y == Place(m, j)
  <2>1. x \in 1..N /\ y \in 1..N /\ q[x] = k /\ q[y] = j /\ k \in Key /\ j \in Key
    BY <1>1, <1>3
  <2> HIDE DEF x, y, q, N
  <2>2. x < y => Before(m, k, j)
    BY <1>2, <2>1
  <2>3. y < x => ~Before(m, k, j)
    BY <1>2, <1>4, <2>1
  <2>4. x = y => ~Before(m, k, j)
    BY <1>4, <2>1
  <2> QED
    BY <1>2, <2>1, <2>2, <2>3, <2>4 DEF x, y
<1>6. MapHead(m) = IF 1 \in DOMAIN q THEN q[1] ELSE Nil
  BY DEF MapHead, NodeAt
<1>7. \A k : MapNext(m, k) = IF Place(m, k) + 1 \in DOMAIN q THEN q[Place(m, k) + 1]
                             ELSE Nil
  BY DEF MapNext, NodeAt
<1> HIDE DEF q, N
<1>8. ASSUME NEW j \in Range(q)
      PROVE  j = MapHead(m) \/ Before(m, MapHead(m), j)
  <2>1. Place(m, j) \in 1..N /\ q[Place(m, j)] = j /\ 1 \in 1..N
    BY <1>2, <1>3
  <2>2. Place(m, j) = 1 \/ 1 < Place(m, j)
    BY <1>2, <2>1
  <2> QED
    BY <1>2, <1>6, <2>1, <2>2
<1>9. ASSUME NEW k \in Range(q)
      PROVE  MapNext(m, k) # Nil => Before(m, k, MapNext(m, k))
  <2>1. Place(m, k) \in 1..N /\ q[Place(m, k)] = k
    BY <1>3
  <2>2. Place(m, k) < Place(m, k) + 1
    BY <1>2, <2>1
  <2> QED
    BY <1>2, <1>7, <2>1, <2>2
<1>10. ASSUME NEW k \in Range(q), NEW j \in Range(q), Before(m, k, j)
       PROVE  /\ MapNext(m, k) # Nil
              /\ j = MapNext(m, k) \/ Before(m, MapNext(m, k), j)
  <2> DEFINE x == Place(m, k)
             y == Place(m, j)
  <2>1. x \in 1..N /\ y \in 1..N /\ q[x] = k /\ q[y] = j /\ x < y
    BY <1>3, <1>5, <1>10
  <2>2. MapNext(m, k) = IF x + 1 \in DOMAIN q THEN q[x + 1] ELSE Nil
    BY <1>7
  <2> HIDE DEF x, y
  <2>3. x + 1 \in 1..N /\ (y = x + 1 \/ x + 1 < y)
    BY <1>2, <2>1
  <2> QED
    BY <1>2, <2>1, <2>2, <2>3
<1> QED
  BY <1>5, <1>8, <1>9, <1>10 DEF q

(* No call changes the hashes of a map that stays. *)
LEMMA HashStaysAdded ==
  ASSUME NEW m, MapOK(m), NEW k \in Key \ LongKey, k \notin Range(m.nodes), NEW had
  PROVE  Added(m, k, had).hash = m.hash
<1> DEFINE i == Inserted(m, k)
<1>1. i.hash = m.hash
  BY DEF MapOK, MapType, Inserted
<1>2. MapOK(i)
  BY InsertedOK
<1>3. Added(m, k, had) = Grown(i, had)
  BY DEF Added
<1> HIDE DEF i
<1>4. Grown(i, had).hash = i.hash
  BY <1>2 DEF MapOK, MapType, Grown, Doubled
<1> QED
  BY <1>1, <1>3, <1>4

LEMMA HashStaysRemoved ==
  ASSUME NEW m, MapOK(m), NEW k
  PROVE  Removed(m, k).hash = m.hash
BY DEF MapOK, MapType, Removed

-----------------------------------------------------------------------------
(* A walk is at a pair and has the pairs behind it to visit. *)

\* The pair p comes after the iterator at k and v.
Behind(k, v, p) ==
  \/ Before(map, k, p[1])
  \/ p[1] = k /\ v # Nil /\ After(lists[k], v, p[2])

PairsOK ==
  /\ \A p \in Pairs :
       /\ p[1] \in Key /\ p[1] \in Range(map.nodes)
       /\ p[2] \in Range(lists[p[1]])
       /\ p = <<p[1], p[2]>>
  /\ \A k \in Range(map.nodes) : \A v \in Range(lists[k]) : <<k, v>> \in Pairs
  /\ \A k \in Range(map.nodes) :
       lists[k] \in Seq(Val) /\ lists[k][1] \in Range(lists[k])
  /\ map.nodes = << >> => Pairs = {}

LEMMA PairFacts == IInv => PairsOK
<1> SUFFICES ASSUME IInv
             PROVE  PairsOK
  OBVIOUS
<1>1. /\ Range(map.nodes) \subseteq Key
      /\ \A k \in Key : k \in Range(map.nodes) <=> lists[k] # << >>
      /\ \A k \in Key : lists[k] \in Seq(Val) /\ Range(lists[k]) \subseteq Val
      /\ \A k \in Key : k \notin Range(map.nodes) => Range(lists[k]) = {}
      /\ map.nodes = << >> => Range(map.nodes) = {}
  BY ListFacts
<1>2. ASSUME NEW p \in Pairs
      PROVE  /\ p[1] \in Key /\ p[1] \in Range(map.nodes)
             /\ p[2] \in Range(lists[p[1]])
             /\ p = <<p[1], p[2]>>
  <2>1. p \in Pair /\ p[2] \in Range(lists[p[1]])
    BY DEF Pairs
  <2>2. p[1] \in Key /\ p = <<p[1], p[2]>>
    BY <2>1 DEF Pair
  <2> QED
    BY <1>1, <2>1, <2>2
<1>3. ASSUME NEW k \in Range(map.nodes), NEW v \in Range(lists[k])
      PROVE  <<k, v>> \in Pairs
  <2>1. <<k, v>> \in Pair /\ <<k, v>>[2] \in Range(lists[<<k, v>>[1]])
    BY <1>1 DEF Pair
  <2> QED
    BY <2>1 DEF Pairs
<1>4. ASSUME NEW k \in Range(map.nodes)
      PROVE  lists[k] \in Seq(Val) /\ lists[k][1] \in Range(lists[k])
  <2>1. lists[k] \in Seq(Val) /\ lists[k] # << >>
    BY <1>1
  <2> QED
    BY <2>1, RangeIsToSet
<1>5. map.nodes = << >> => Pairs = {}
  BY <1>1, <1>2
<1> QED
  BY <1>2, <1>3, <1>4, <1>5 DEF PairsOK

AheadOK ==
  \A p : p \in Ahead <=>
    /\ cursor.miter # Nil
    /\ p \in Pairs
    /\ Behind(cursor.miter, cursor.iter, p)

LEMMA AheadIs == IInv => AheadOK
<1> SUFFICES ASSUME IInv
             PROVE  AheadOK
  OBVIOUS
<1>1. CASE cursor.miter = Nil
  BY <1>1 DEF Ahead, AheadOK
<1>2. CASE cursor.miter # Nil
  <2>1. cursor.miter \in Range(map.nodes) /\ MapOK(map)
    BY <1>2, StateFacts
  <2>2. ASSUME NEW p \in Pairs
        PROVE  Place(map, p[1]) > Place(map, cursor.miter)
                 <=> Before(map, cursor.miter, p[1])
    <3>1. p[1] \in Range(map.nodes)
      BY PairFacts DEF PairsOK
    <3>2. Place(map, cursor.miter) < Place(map, p[1])
            <=> Before(map, cursor.miter, p[1])
      BY <2>1, <3>1, NodeOrder
    <3>3. Place(map, p[1]) \in Int /\ Place(map, cursor.miter) \in Int
      BY <2>1, <3>1, PlaceFacts, MapNodes
    <3> QED
      BY <3>2, <3>3
  <2>3. \A p : p \in Ahead <=>
          /\ p \in Pairs
          /\ \/ Place(map, p[1]) > Place(map, cursor.miter)
             \/ /\ p[1] = cursor.miter /\ cursor.iter # Nil
                /\ After(lists[p[1]], cursor.iter, p[2])
    BY <1>2, Zenon DEF Ahead, After
  <2> QED
    BY <1>2, <2>2, <2>3 DEF Behind, AheadOK
<1> QED
  BY <1>1, <1>2

LEMMA FactsLater == IInv' => PairsOK' /\ AheadOK'
  BY PairFacts, AheadIs, PTL

\* What WalkExact says of a state, besides CursorOK.
DueOK == due \subseteq Ahead

LEMMA WalkOnIs ==
  ASSUME IInv, DueOK
  PROVE  WalkOn
<1>1. cursor.miter \in {Nil} \cup Range(map.nodes)
  BY DEF IInv, CursorOK
<1>2. ASSUME cursor.iter # Nil
      PROVE  <<cursor.miter, cursor.iter>> \in Pairs
  BY <1>2, StateFacts, PairFacts DEF PairsOK
<1> QED
  BY <1>1, <1>2 DEF WalkOn, DueOK

(* A walk that comes to the first value of a key has the pairs of D left, if
   they are of that key or of keys after it. *)
LEMMA VisitDue ==
  ASSUME IInv', NEW k \in Range(map'.nodes) \cup {Nil}, cursor' = Visit(k),
         NEW D, D \subseteq Pairs',
         \A p \in D : k # Nil /\ (p[1] = k \/ Before(map', k, p[1])),
         due' = D \ {<<cursor'.miter, cursor'.iter>>}
  PROVE  DueOK'
<1>1. CASE k = Nil
  BY <1>1 DEF DueOK
<1>2. CASE k # Nil
  <2> DEFINE s == lists'[k]
  <2>1. s \in Seq(Val) /\ s[1] \in Range(s) /\ s[1] # Nil
    <3>1. k \in Range(map'.nodes)
      BY <1>2
    <3>2. \A j \in Range(map'.nodes) :
            lists'[j] \in Seq(Val) /\ lists'[j][1] \in Range(lists'[j])
      BY FactsLater DEF PairsOK
    <3>3. s \in Seq(Val) /\ s[1] \in Range(s)
      BY <3>1, <3>2
    <3> HIDE DEF s
    <3>4. Range(s) \subseteq Val
      BY <3>3, RangeIsToSet
    <3> QED
      BY <3>3, <3>4, MultiMapAssumption DEF Nil
  <2>2. cursor'.miter = k /\ cursor'.iter = s[1]
    BY <1>2 DEF Visit
  <2>3. ASSUME NEW p \in due'
        PROVE  p \in Ahead'
    <3>1. /\ p \in Pairs' /\ p # <<k, s[1]>>
          /\ p[1] = k \/ Before(map', k, p[1])
      BY <2>2, <2>3
    <3>2. p[2] \in Range(lists'[p[1]]) /\ p = <<p[1], p[2]>>
      BY <3>1, FactsLater DEF PairsOK
    <3>3. p[1] = k => After(s, s[1], p[2])
      BY <2>1, <3>1, <3>2, AfterFirst
    <3>4. \/ Before(map', k, p[1])
          \/ p[1] = k /\ s[1] # Nil /\ After(lists'[k], s[1], p[2])
      BY <2>1, <3>1, <3>3
    <3>5. /\ cursor'.miter # Nil /\ p \in Pairs'
          /\ \/ Before(map', cursor'.miter, p[1])
             \/ /\ p[1] = cursor'.miter /\ cursor'.iter # Nil
                /\ After(lists'[cursor'.miter], cursor'.iter, p[2])
      BY <1>2, <2>2, <3>1, <3>4
    <3> QED
      BY <3>5, FactsLater, Zenon DEF AheadOK, Behind
  <2> QED
    BY <2>3 DEF DueOK
<1> QED
  BY <1>1, <1>2

AtNext == <<cursor'.miter, cursor'.iter>>

LEMMA SameBefore ==
  ASSUME map'.hash = map.hash
  PROVE  \A a, b : Before(map', a, b) <=> Before(map, a, b)
BY DEF Before

\* The pairs a walk has left are pairs, behind its iterator.
LEMMA DueFacts ==
  ASSUME IInv, DueOK
  PROVE  \A p \in due :
           /\ p \in Pairs /\ p = <<p[1], p[2]>> /\ p[1] \in Range(map.nodes)
           /\ p[2] \in Range(lists[p[1]])
           /\ cursor.miter # Nil
           /\ \/ Before(map, cursor.miter, p[1])
              \/ /\ p[1] = cursor.miter /\ cursor.iter # Nil
                 /\ After(lists[cursor.miter], cursor.iter, p[2])
<1>1. \A p \in due : p \in Ahead
  BY DEF DueOK
<1>2. \A p \in Ahead :
        /\ cursor.miter # Nil /\ p \in Pairs
        /\ \/ Before(map, cursor.miter, p[1])
           \/ /\ p[1] = cursor.miter /\ cursor.iter # Nil
              /\ After(lists[cursor.miter], cursor.iter, p[2])
  BY AheadIs DEF AheadOK, Behind
<1>3. \A p \in Pairs :
        /\ p = <<p[1], p[2]>> /\ p[1] \in Range(map.nodes)
        /\ p[2] \in Range(lists[p[1]])
  BY PairFacts DEF PairsOK
<1> QED
  BY <1>1, <1>2, <1>3

\* The same for the next state, to be shown of each of them.
LEMMA DueBy ==
  ASSUME IInv',
         \A p \in due' :
           /\ cursor'.miter # Nil
           /\ p \in Pairs'
           /\ \/ Before(map', cursor'.miter, p[1])
              \/ /\ p[1] = cursor'.miter /\ cursor'.iter # Nil
                 /\ After(lists'[cursor'.miter], cursor'.iter, p[2])
  PROVE  DueOK'
<1>1. \A p : p \in Ahead' <=>
        /\ cursor'.miter # Nil
        /\ p \in Pairs'
        /\ \/ Before(map', cursor'.miter, p[1])
           \/ /\ p[1] = cursor'.miter /\ cursor'.iter # Nil
              /\ After(lists'[p[1]], cursor'.iter, p[2])
  BY FactsLater DEF AheadOK, Behind
<1>2. \A p \in due' : p \in Ahead'
  BY <1>1
<1> QED
  BY <1>2 DEF DueOK

(* A step beside the walk: it takes no pair that is due away. *)
LEMMA BesideWalk ==
  ASSUME IInv, DueOK, IInv', cursor' = cursor, due' = due, map'.hash = map.hash,
         due \subseteq Pairs',
         \A a, b : After(lists[cursor.miter], a, b) =>
                     After(lists'[cursor.miter], a, b)
  PROVE  DueOK'
<1>1. \A p \in due' :
        /\ cursor'.miter # Nil
        /\ p \in Pairs'
        /\ \/ Before(map', cursor'.miter, p[1])
           \/ /\ p[1] = cursor'.miter /\ cursor'.iter # Nil
              /\ After(lists'[cursor'.miter], cursor'.iter, p[2])
  BY DueFacts, SameBefore
<1> QED
  BY <1>1, DueBy

(* A step of the walk to the next value of its list, or to its end. *)
LEMMA AlongList ==
  ASSUME IInv, DueOK, IInv', cursor.iter # Nil, map'.hash = map.hash,
         cursor'.miter = cursor.miter,
         cursor'.iter = ValNext(lists[cursor.miter], cursor.iter),
         due' = due \ {AtNext},
         \A p \in due : p \in Pairs',
         \A w : /\ After(lists[cursor.miter], cursor'.iter, w)
                /\ cursor'.iter # cursor.iter /\ w # cursor.iter
                => After(lists'[cursor.miter], cursor'.iter, w)
  PROVE  DueOK' /\ (cursor'.iter = Nil \/ AtNext \in Ahead)
<1> DEFINE k == cursor.miter
           v == cursor.iter
           n == ValNext(lists[k], v)
<1>1. /\ k # Nil /\ k \in Range(map.nodes)
      /\ lists[k] \in Seq(Val) /\ IsInjective(lists[k]) /\ v \in Range(lists[k])
  BY StateFacts
<1>2. /\ n # Nil => /\ After(lists[k], v, n)
                    /\ \A w : After(lists[k], v, w) /\ w # n => After(lists[k], n, w)
      /\ n = Nil => \A w : ~After(lists[k], v, w)
      /\ \A w : After(lists[k], v, w) => w # v /\ w \in Range(lists[k])
  BY <1>1, AfterNext
<1>3. n # v
  BY <1>1, ValNextOther
<1>4. cursor'.miter = k /\ cursor'.iter = n /\ AtNext = <<k, n>>
  BY DEF AtNext
<1> HIDE DEF n
<1>5. ASSUME NEW p \in due'
      PROVE  /\ p \in Pairs'
             /\ \/ Before(map', k, p[1])
                \/ p[1] = k /\ n # Nil /\ After(lists'[k], n, p[2])
  <2>1. p \in due /\ p # <<k, n>>
    BY <1>4
  <2>2. /\ p = <<p[1], p[2]>>
        /\ \/ Before(map, k, p[1])
           \/ p[1] = k /\ After(lists[k], v, p[2])
    BY <2>1, DueFacts
  <2>3. CASE Before(map, k, p[1])
    BY <2>1, <2>3, SameBefore
  <2>4. CASE p[1] = k /\ After(lists[k], v, p[2])
    <3>1. p[2] # n
      BY <2>1, <2>2, <2>4
    <3>2. n # Nil /\ p[2] # v /\ After(lists[k], n, p[2])
      BY <1>2, <2>4, <3>1
    <3>3. After(lists'[k], n, p[2])
      BY <1>3, <1>4, <3>2
    <3> QED
      BY <2>1, <2>4, <3>2, <3>3
  <2> QED
    BY <2>2, <2>3, <2>4
<1>6. DueOK'
  BY <1>1, <1>4, <1>5, DueBy
<1>7. n # Nil => <<k, n>> \in Ahead
  <2> HAVE n # Nil
  <2>1. <<k, n>> \in Pairs
    BY <1>1, <1>2, PairFacts DEF PairsOK
  <2> DEFINE p == <<k, n>>
  <2>2. p[1] = k /\ p[2] = n
    OBVIOUS
  <2>3. p \in Pairs /\ k # Nil /\ Behind(k, v, p)
    BY <1>1, <1>2, <2>1, <2>2 DEF Behind
  <2> HIDE DEF p
  <2>4. p \in Ahead
    BY <2>3, AheadIs DEF AheadOK
  <2> QED
    BY <2>4 DEF p
<1> QED
  BY <1>4, <1>6, <1>7

(* A step of the walk to the next key. *)
LEMMA ToNextKey ==
  ASSUME IInv, DueOK, IInv', cursor.miter # Nil, map'.hash = map.hash,
         MapNext(map, cursor.miter) \in Range(map'.nodes) \cup {Nil},
         cursor' = Visit(MapNext(map, cursor.miter)),
         \A j \in Key : j # cursor.miter => lists'[j] = lists[j],
         NEW D, D \subseteq due, D \subseteq Pairs',
         \A p \in D : Before(map, cursor.miter, p[1]),
         due' = D \ {AtNext}
  PROVE  DueOK' /\ (cursor'.iter = Nil \/ AtNext \in Ahead)
<1> DEFINE k == cursor.miter
           n == MapNext(map, k)
<1>1. /\ k \in Range(map.nodes) /\ MapOK(map) /\ Range(map.nodes) \subseteq Key
  BY StateFacts
<1>2. /\ n # Nil => Before(map, k, n)
      /\ \A j \in Range(map.nodes) : Before(map, k, j) =>
           n # Nil /\ (j = n \/ Before(map, n, j))
      /\ n \in (Range(map.nodes) \ {k}) \cup {Nil}
  BY <1>1, NodeOrder, MapNodes
<1> HIDE DEF n
<1>3. \A p \in D : n # Nil /\ (p[1] = n \/ Before(map', n, p[1]))
  BY <1>2, DueFacts, SameBefore
<1>4. /\ n \in Range(map'.nodes) \cup {Nil} /\ cursor' = Visit(n)
      /\ due' = D \ {<<cursor'.miter, cursor'.iter>>}
  BY DEF n, AtNext
<1>5. DueOK'
  BY <1>3, <1>4, VisitDue
<1>6. n = Nil => cursor'.iter = Nil
  BY <1>4 DEF Visit, NoWalk
<1>7. n # Nil => AtNext \in Ahead
  <2> HAVE n # Nil
  <2>1. n \in Range(map.nodes) /\ n # k /\ n \in Key
    BY <1>1, <1>2
  <2>2. AtNext = <<n, lists[n][1]>>
    BY <1>4, <2>1 DEF Visit, AtNext
  <2>3. <<n, lists[n][1]>> \in Pairs
    BY <2>1, PairFacts DEF PairsOK
  <2> DEFINE p == <<n, lists[n][1]>>
  <2>4. p[1] = n
    OBVIOUS
  <2>5. p \in Pairs /\ k # Nil /\ Behind(k, cursor.iter, p)
    BY <1>2, <2>3, <2>4 DEF Behind
  <2> HIDE DEF p
  <2>6. p \in Ahead
    BY <2>5, AheadIs DEF AheadOK
  <2> QED
    BY <2>2, <2>6 DEF p
<1> QED
  BY <1>5, <1>6, <1>7

Onward == Forward \/ UNCHANGED vars

LEMMA NoneDue ==
  ASSUME IInv, DueOK, cursor.miter = Nil
  PROVE  due = {}
BY DueFacts

LEMMA AddKeepsLists ==
  ASSUME IInv, NEW k \in Key, NEW v \in Val, Add(k, v)
  PROVE  /\ map'.hash = map.hash
         /\ \A j \in Key : Range(lists[j]) \subseteq Range(lists'[j])
         /\ \A j \in Key : \A a, b : After(lists[j], a, b) => After(lists'[j], a, b)
<1>1. /\ lists \in [Key -> Seq(Val)] /\ lists[k] \in Seq(Val)
      /\ IsInjective(lists[k]) /\ v \notin Range(lists[k])
  BY DEF IInv, ListsOK, Add
<1>2. CASE Find(map, k) # Nil
  <2> DEFINE i == IF sorted THEN SortedPlace(lists[k], v) ELSE Len(lists[k]) + 1
             s == InsertAt(lists[k], i, v)
  <2>1. map' = map /\ lists' = [lists EXCEPT ![k] = s]
    BY <1>2 DEF Add
  <2>2. i \in 1..(Len(lists[k]) + 1)
    BY <1>1, SortedPlaceOK
  <2> HIDE DEF i
  <2>3. Range(s) = Range(lists[k]) \cup {v}
    BY <1>1, <2>2, ValueInserted
  <2>4. \A a, b : After(lists[k], a, b) => After(s, a, b)
    BY <1>1, <2>2, AfterInsert
  <2> HIDE DEF s
  <2>5. \A j \in Key : lists'[j] = IF j = k THEN s ELSE lists[j]
    BY <1>1, <2>1
  <2> QED
    BY <2>1, <2>3, <2>4, <2>5
<1>3. CASE Find(map, k) = Nil
  <2>1. /\ k \notin LongKey
        /\ \E had \in BOOLEAN : map' = Added(map, k, had)
        /\ lists' = [lists EXCEPT ![k] = <<v>>]
    BY <1>3 DEF Add
  <2>2. k \notin Range(map.nodes) /\ lists[k] = << >>
    BY <1>1, <1>3, FindIn DEF IInv, ListsOK
  <2>3. map'.hash = map.hash
    BY <2>1, <2>2, HashStaysAdded DEF IInv
  <2>4. \A j \in Key : j # k => lists'[j] = lists[j]
    BY <1>1, <2>1
  <2>5. Range(lists[k]) = {} /\ \A a, b : ~After(lists[k], a, b)
    BY <2>2 DEF Range, After
  <2> QED
    BY <2>3, <2>4, <2>5
<1> QED
  BY <1>2, <1>3

LEMMA AddWalk ==
  ASSUME IInv, DueOK, IInv', NEW k \in Key, NEW v \in Val, Add(k, v)
  PROVE  DueOK'
<1>1. cursor' = cursor /\ due' = due
  BY DEF Add, walk
<1>2. CASE cursor.miter = Nil
  BY <1>1, <1>2, NoneDue DEF DueOK
<1>3. CASE cursor.miter # Nil
  <2>1. cursor.miter \in Key
    BY <1>3, StateFacts
  <2>2. due \subseteq Pairs'
    <3>1. \A p \in due : p \in Pairs
      BY DueFacts
    <3>2. \A p \in Pair : p[1] \in Key
      BY DEF Pair
    <3>3. \A p \in Pair : p[2] \in Range(lists[p[1]]) => p[2] \in Range(lists'[p[1]])
      BY <3>2, AddKeepsLists
    <3> QED
      BY <3>1, <3>3 DEF Pairs
  <2> QED
    BY <1>1, <2>1, <2>2, AddKeepsLists, BesideWalk
<1> QED
  BY <1>2, <1>3

LEMMA HeadWalk ==
  ASSUME IInv, DueOK, IInv', WalkHead
  PROVE  DueOK'
<1> DEFINE k == MapHead(map)
<1>1. /\ map' = map /\ lists' = lists /\ cursor' = Visit(k)
      /\ due' = Pairs \ {<<cursor'.miter, cursor'.iter>>}
  BY DEF WalkHead, Visited
<1>2. /\ map.nodes # << >> => k \in Range(map.nodes) /\ k # Nil
      /\ map.nodes = << >> => k = Nil
  BY StateFacts, MapNodes
<1>3. \A p \in Pairs : p[1] \in Range(map.nodes)
  BY PairFacts DEF PairsOK
<1>4. map.nodes = << >> => Pairs = {}
  BY PairFacts DEF PairsOK
<1>5. \A j \in Range(map.nodes) : j = k \/ Before(map, k, j)
  BY StateFacts, NodeOrder
<1> HIDE DEF k
<1>6. \A p \in Pairs : k # Nil /\ (p[1] = k \/ Before(map', k, p[1]))
  BY <1>1, <1>2, <1>3, <1>4, <1>5
<1>7. Pairs' = Pairs
  BY <1>1 DEF Pairs
<1>8. k \in Range(map'.nodes) \cup {Nil}
  BY <1>1, <1>2
<1> DEFINE D == Pairs
<1>9. D \subseteq Pairs'
  BY <1>7
<1> QED
  BY <1>1, <1>6, <1>8, <1>9, VisitDue

LEMMA FindWalk ==
  ASSUME IInv, DueOK, IInv', NEW k \in Key, WalkFind(k)
  PROVE  DueOK'
<1> DEFINE n == Find(map, k)
           D == IF n = Nil THEN {} ELSE {p \in Pairs : p[1] = k \/ Before(map, k, p[1])}
<1>1. /\ map' = map /\ lists' = lists /\ cursor' = Visit(n)
      /\ due' = D \ {<<cursor'.miter, cursor'.iter>>}
  BY DEF WalkFind, Visited
<1>2. n = Nil \/ (n = k /\ k \in Range(map.nodes))
  BY StateFacts, FindIn
<1> HIDE DEF n
<1>3. D \subseteq Pairs'
  BY <1>1 DEF Pairs
<1>4. \A p \in D : n # Nil /\ (p[1] = n \/ Before(map', n, p[1]))
  BY <1>1, <1>2
<1>5. n \in Range(map'.nodes) \cup {Nil}
  BY <1>1, <1>2
<1> HIDE DEF D
<1> QED
  BY <1>1, <1>3, <1>4, <1>5, VisitDue

LEMMA NextWalk ==
  ASSUME IInv, DueOK, IInv', WalkNext \/ WalkNextItem \/ WalkNextList
  PROVE  DueOK' /\ (cursor'.iter = Nil \/ AtNext \in Ahead)
<1> DEFINE k == cursor.miter
           n == ValNext(lists[k], cursor.iter)
<1>1. map' = map /\ lists' = lists /\ Pairs' = Pairs /\ map'.hash = map.hash
  BY DEF WalkNext, WalkNextItem, WalkNextList, Pairs
<1>2. \A p \in due : p \in Pairs'
  BY <1>1, DueFacts
<1>3. cursor = [miter |-> k, iter |-> cursor.iter]
  BY DEF IInv, CursorOK
<1>4. k # Nil
  BY StateFacts DEF WalkNext, WalkNextItem, WalkNextList
<1>5. MapNext(map, k) \in Range(map'.nodes) \cup {Nil}
  BY <1>1, <1>4, StateFacts, MapNodes
<1>6. CASE WalkNextItem \/ (WalkNext /\ n # Nil)
  <2>1. /\ cursor.iter # Nil /\ cursor' = [cursor EXCEPT !.iter = n]
        /\ due' = due \ {AtNext}
    BY <1>6 DEF WalkNext, WalkNextItem, Visited, AtNext
  <2> HIDE DEF n
  <2>2. cursor'.miter = k /\ cursor'.iter = n
    BY <1>3, <2>1
  <2> QED
    BY <1>1, <1>2, <2>1, <2>2, AlongList DEF n
<1>7. CASE WalkNext /\ n = Nil
  <2>1. /\ cursor.iter # Nil /\ cursor' = Visit(MapNext(map, k))
        /\ due' = due \ {AtNext}
    BY <1>7 DEF WalkNext, Visited, AtNext
  <2>2. \A w : ~After(lists[k], cursor.iter, w)
    BY <1>7, <2>1, StateFacts, AfterNext
  <2>3. \A p \in due : Before(map, k, p[1])
    BY <2>2, DueFacts
  <2> DEFINE D == due
  <2>4. D \subseteq due /\ D \subseteq Pairs' /\ due' = D \ {AtNext}
    BY <1>2, <2>1
  <2> QED
    BY <1>1, <1>4, <1>5, <2>1, <2>3, <2>4, ToNextKey
<1>8. CASE WalkNextList
  <2> DEFINE D == {p \in due : p[1] # k}
  <2>1. cursor' = Visit(MapNext(map, k)) /\ due' = D \ {AtNext}
    BY <1>8 DEF WalkNextList, Visited, AtNext
  <2>2. \A p \in D : Before(map, k, p[1])
    BY DueFacts
  <2>3. D \subseteq due /\ D \subseteq Pairs'
    BY <1>2
  <2> HIDE DEF D
  <2> QED
    BY <1>1, <1>4, <1>5, <2>1, <2>2, <2>3, ToNextKey
<1> QED
  BY <1>6, <1>7, <1>8

LEMMA RemoveWalk ==
  ASSUME IInv, DueOK, IInv', WalkRemove
  PROVE  DueOK' /\ (cursor'.iter = Nil \/ AtNext \in Ahead)
<1> DEFINE k == cursor.miter
           v == cursor.iter
           s == lists[k]
           r == Keep(s, Val \ {v})
           n == ValNext(s, v)
<1>1. /\ v # Nil /\ k # Nil /\ k \in Range(map.nodes) /\ k \in Key
      /\ s \in Seq(Val) /\ IsInjective(s) /\ v \in Range(s) /\ MapOK(map)
  BY StateFacts DEF WalkRemove
<1>2. /\ lists' = [lists EXCEPT ![k] = r]
      /\ map' = IF Len(s) = 1 THEN Removed(map, k) ELSE map
      /\ cursor' = NextAfter(k, n, Len(s) = 1)
      /\ due' = due \ {AtNext}
  BY DEF WalkRemove, Visited, AtNext
<1>3. Range(r) = Range(s) \ {v}
  BY <1>1, ValueRemoved
<1>4. \A a, b : After(s, a, b) /\ a # v /\ b # v => After(r, a, b)
  BY <1>1, AfterRemove
<1>5. lists \in [Key -> Seq(Val)]
  BY DEF IInv, ListsOK
<1>6. map'.hash = map.hash
  BY <1>1, <1>2, HashStaysRemoved
<1>7. Range(map'.nodes) = IF Len(s) = 1 THEN Range(map.nodes) \ {k}
                          ELSE Range(map.nodes)
  BY <1>1, <1>2, RemovedOK
<1>8. MapNext(map, k) \in Range(map'.nodes) \cup {Nil}
  BY <1>1, <1>7, MapNodes
<1>9. \A w : After(s, v, w) => w # v /\ w \in Range(s)
  BY <1>1, AfterNext
<1>10. Len(s) = 1 => \A w : ~After(s, v, w)
  BY <1>1, RangeIsToSet DEF After
<1>11. n = Nil => \A w : ~After(s, v, w)
  BY <1>1, AfterNext
<1> HIDE DEF r, n
<1>12. /\ lists'[k] = r
       /\ \A j \in Key : j # k => lists'[j] = lists[j]
  BY <1>1, <1>2, <1>5
<1>13. \A p \in due : p \in Pairs'
  <2>1. ASSUME NEW p \in due
        PROVE  p \in Pair /\ p[1] \in Key /\ p[2] \in Range(lists'[p[1]])
    <3>1. /\ p \in Pair /\ p[1] \in Key /\ p[2] \in Range(lists[p[1]])
      BY DueFacts DEF Pairs, Pair
    <3>2. Before(map, k, p[1]) \/ (p[1] = k /\ After(s, v, p[2]))
      BY DueFacts
    <3>3. CASE p[1] # k
      BY <1>12, <3>1, <3>3
    <3>4. CASE p[1] = k
      <4>1. ~Before(map, k, k)
        BY <1>1, MapNodes, BeforeFacts
      <4>2. p[2] # v
        BY <1>9, <3>2, <3>4, <4>1
      <4> QED
        BY <1>3, <1>12, <3>1, <3>4, <4>2
    <3> QED
      BY <3>3, <3>4
  <2> QED
    BY <2>1 DEF Pairs
<1>14. CASE n = Nil \/ Len(s) = 1
  <2>1. cursor' = Visit(MapNext(map, k))
    BY <1>2, <1>14 DEF NextAfter
  <2>2. \A p \in due : Before(map, k, p[1])
    BY <1>10, <1>11, <1>14, DueFacts
  <2> DEFINE D == due
  <2>3. D \subseteq due /\ D \subseteq Pairs' /\ due' = D \ {AtNext}
    BY <1>2, <1>13
  <2> QED
    BY <1>1, <1>6, <1>8, <1>12, <2>1, <2>2, <2>3, ToNextKey
<1>15. CASE n # Nil /\ Len(s) # 1
  <2>1. cursor' = [miter |-> k, iter |-> n]
    BY <1>2, <1>15 DEF NextAfter
  <2>2. cursor'.miter = k /\ cursor'.iter = n
    BY <2>1
  <2>3. \A w : /\ After(lists[k], cursor'.iter, w)
               /\ cursor'.iter # v /\ w # v
               => After(lists'[k], cursor'.iter, w)
    BY <1>4, <1>12
  <2>4. cursor'.iter = ValNext(lists[k], v)
    BY <2>2 DEF n
  <2> QED
    BY <1>1, <1>2, <1>6, <1>13, <2>2, <2>3, <2>4, AlongList
<1> QED
  BY <1>14, <1>15

LEMMA WalkStep == IInv /\ DueOK /\ [Next]_vars => DueOK' /\ Onward
<1> SUFFICES ASSUME IInv, DueOK, [Next]_vars
             PROVE  DueOK' /\ Onward
  OBVIOUS
<1>1. IInv'
  BY NextOK
<1>2. ASSUME cursor' = cursor
      PROVE  Onward
  BY <1>2 DEF Onward, Forward
<1>3. ASSUME cursor'.iter = Nil \/ AtNext \in Ahead
      PROVE  Onward
  BY <1>3 DEF Onward, Forward, AtNext
<1>4. ASSUME due' = {}, cursor' = NoWalk
      PROVE  DueOK' /\ Onward
  BY <1>3, <1>4, EmptyCursor DEF DueOK
<1>5. CASE New
  <2>1. cursor' = cursor /\ due' = due /\ cursor = NoWalk
    BY <1>5 DEF New, walk, IInv, ClosedOK
  <2>2. due' = {}
    BY <2>1, NoneDue, EmptyCursor
  <2> QED
    BY <1>4, <2>1, <2>2
<1>6. ASSUME \/ \E f \in 1..4 : NewFails(f)
             \/ \E k \in Key, v \in Val, f \in 1..4 : AddFails(k, v, f)
             \/ UNCHANGED vars
      PROVE  DueOK' /\ Onward
  <2>1. cursor' = cursor /\ due' = due /\ map' = map /\ lists' = lists
    BY <1>6 DEF NewFails, AddFails, vars, walk
  <2>2. due \subseteq Pairs'
    BY <2>1, DueFacts DEF Pairs
  <2>3. DueOK'
    BY <1>1, <2>1, <2>2, BesideWalk
  <2> QED
    BY <1>2, <2>1, <2>3
<1>7. CASE Delete \/ Discard
  BY <1>4, <1>7 DEF Delete, Discard
<1>8. ASSUME NEW k \in Key, NEW v \in Val, Add(k, v)
      PROVE  DueOK' /\ Onward
  BY <1>1, <1>2, <1>8, AddWalk DEF Add, walk
<1>9. CASE WalkHead
  BY <1>1, <1>9, HeadWalk DEF Onward, Forward
<1>10. ASSUME NEW k \in Key, WalkFind(k)
       PROVE  DueOK' /\ Onward
  BY <1>1, <1>10, FindWalk DEF Onward, Forward
<1>11. CASE WalkNext \/ WalkNextItem \/ WalkNextList
  BY <1>1, <1>3, <1>11, NextWalk
<1>12. CASE WalkRemove
  BY <1>1, <1>3, <1>12, RemoveWalk
<1> QED
  BY <1>5, <1>6, <1>7, <1>8, <1>9, <1>10, <1>11, <1>12 DEF Next

(* A walk comes to every value that is there from its beginning to its end,
   and never back, while the client removes through it and adds beside it and
   the map grows (cc_multimap.c, cc_multimap_next, cc_multimap_remove). *)
THEOREM MultiMapWalkExact == Spec => WalkExact
<1>1. Init => DueOK
  BY DEF Init, DueOK
<1>2. IInv /\ DueOK => WalkOn
  BY WalkOnIs
<1>3. Onward => [Forward]_vars
  BY DEF Onward
<1>4. Spec => [](IInv /\ DueOK)
  BY <1>1, InitOK, NextOK, WalkStep, PTL DEF Spec
<1> QED
  BY <1>2, <1>3, <1>4, WalkStep, PTL DEF Spec, WalkExact

=============================================================================
