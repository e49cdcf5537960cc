--------------------------- MODULE ListPoolProofs ---------------------------
(***************************************************************************)
(* Theorems about ListPool, for any number of lists and blocks and for     *)
(* sets and blocks of any size.                                            *)
(***************************************************************************)
EXTENDS ListPool, CCSeqLemmas, FiniteSetTheorems

-----------------------------------------------------------------------------
(* What the lists hold, as predicates of values: each operation is a change
   of one list, or of two one after the other. *)

HeldIn(q, f, l) == ToSet(q[l]) \cup f[l]

Used(q, f) == UNION {HeldIn(q, f, l) : l \in List}

Homes(q, f) ==
  /\ q \in [List -> Seq(Iter)]
  /\ f \in [List -> SUBSET Iter]
  /\ \A l \in List : IsInjective(q[l]) /\ ToSet(q[l]) \cap f[l] = {}
  /\ \A l, m \in List : l # m => HeldIn(q, f, l) \cap HeldIn(q, f, m) = {}

\* List l alone changes, and comes to hold iterators that it held before or
\* that no list held.
Rehomed(l, q, f, q2, f2) ==
  /\ q2 \in [List -> Seq(Iter)]
  /\ f2 \in [List -> SUBSET Iter]
  /\ \A m \in List \ {l} : q2[m] = q[m] /\ f2[m] = f[m]
  /\ IsInjective(q2[l])
  /\ ToSet(q2[l]) \cap f2[l] = {}
  /\ \A i \in HeldIn(q2, f2, l) :
       i \in HeldIn(q, f, l) \/ i \notin Used(q, f)

LEMMA Rehome ==
  ASSUME NEW q, NEW f, Homes(q, f), NEW l \in List, NEW q2, NEW f2,
         Rehomed(l, q, f, q2, f2)
  PROVE  /\ Homes(q2, f2)
         /\ Used(q2, f2)
              = (Used(q, f) \ HeldIn(q, f, l)) \cup HeldIn(q2, f2, l)
         /\ \A m \in List \ {l} : HeldIn(q2, f2, m) = HeldIn(q, f, m)
<1>1. \A m \in List \ {l} : HeldIn(q2, f2, m) = HeldIn(q, f, m)
  BY DEF Rehomed, HeldIn
<1>2. \A m \in List \ {l} : HeldIn(q, f, m) \cap HeldIn(q, f, l) = {}
  BY DEF Homes
<1>3. \A m \in List : HeldIn(q, f, m) \subseteq Used(q, f)
  BY DEF Used
<1>4. \A m \in List \ {l} : HeldIn(q2, f2, l) \cap HeldIn(q, f, m) = {}
  BY <1>2, <1>3 DEF Rehomed
<1>5. Homes(q2, f2)
  <2>1. \A m \in List : IsInjective(q2[m]) /\ ToSet(q2[m]) \cap f2[m] = {}
    BY DEF Homes, Rehomed
  <2>2. \A k, m \in List : k # m => HeldIn(q2, f2, k) \cap HeldIn(q2, f2, m) = {}
    BY <1>1, <1>4 DEF Homes
  <2> QED
    BY <2>1, <2>2 DEF Homes, Rehomed
<1>6. Used(q2, f2) = (Used(q, f) \ HeldIn(q, f, l)) \cup HeldIn(q2, f2, l)
  <2>1. ASSUME NEW i \in Used(q2, f2)
        PROVE  i \in (Used(q, f) \ HeldIn(q, f, l)) \cup HeldIn(q2, f2, l)
    <3>1. PICK m \in List : i \in HeldIn(q2, f2, m)
      BY <2>1 DEF Used
    <3> QED
      BY <3>1, <1>1, <1>2, <1>3
  <2>2. ASSUME NEW i \in Used(q, f) \ HeldIn(q, f, l)
        PROVE  i \in Used(q2, f2)
    <3>1. PICK m \in List : i \in HeldIn(q, f, m)
      BY <2>2 DEF Used
    <3>2. m # l /\ i \in HeldIn(q2, f2, m)
      BY <2>2, <3>1, <1>1
    <3> QED
      BY <3>2 DEF Used
  <2>3. HeldIn(q2, f2, l) \subseteq Used(q2, f2)
    BY DEF Used
  <2> QED
    BY <2>1, <2>2, <2>3
<1> QED
  BY <1>1, <1>5, <1>6

-----------------------------------------------------------------------------
(* The pool, as a predicate of its fields and of the iterators in use. *)

ArraysOf(bl) == UNION {Array(b) : b \in bl}

Pooled(fr, c, r, bl, used) ==
  /\ bl \in SUBSET Block /\ IsFiniteSet(bl)
  /\ fr \cap used = {}
  /\ fr \cup used = ArraysOf(bl)
  /\ c = Cardinality(fr)
  /\ r = Cardinality(used)
  /\ used = {} => bl = {}

LEMMA DisjointUnion ==
  ASSUME NEW S, NEW T, IsFiniteSet(S), IsFiniteSet(T), S \cap T = {}
  PROVE  /\ IsFiniteSet(S \cup T)
         /\ Cardinality(S) \in Nat /\ Cardinality(T) \in Nat
         /\ Cardinality(S \cup T) = Cardinality(S) + Cardinality(T)
<1>1. Cardinality(S) \in Nat /\ Cardinality(T) \in Nat
  BY FS_CardinalityType
<1>2. /\ IsFiniteSet(S \cup T)
      /\ Cardinality(S \cup T)
           = Cardinality(S) + Cardinality(T) - Cardinality(S \cap T)
  BY FS_Union
<1>3. Cardinality(S \cap T) = 0
  BY FS_EmptySet
<1> QED
  BY <1>1, <1>2, <1>3

LEMMA SubsetDifference ==
  ASSUME NEW S, IsFiniteSet(S), NEW T, T \subseteq S
  PROVE  /\ IsFiniteSet(T)
         /\ Cardinality(S) \in Nat /\ Cardinality(T) \in Nat
         /\ Cardinality(S \ T) = Cardinality(S) - Cardinality(T)
<1>1. IsFiniteSet(T) /\ IsFiniteSet(S \ T)
  BY FS_Subset, FS_Difference
<1>2. (S \ T) \cup T = S /\ (S \ T) \cap T = {}
  OBVIOUS
<1>3. /\ Cardinality(S \ T) \in Nat /\ Cardinality(T) \in Nat
      /\ Cardinality((S \ T) \cup T) = Cardinality(S \ T) + Cardinality(T)
  BY <1>1, <1>2, DisjointUnion
<1>4. Cardinality(S) = Cardinality(S \ T) + Cardinality(T)
  BY <1>2, <1>3
<1>5. Cardinality(S) \in Nat
  BY FS_CardinalityType
<1>6. Cardinality(S \ T) = Cardinality(S) - Cardinality(T)
  BY <1>3, <1>4, <1>5
<1> QED
  BY <1>1, <1>3, <1>5, <1>6

LEMMA ArrayFinite ==
  ASSUME NEW b
  PROVE  IsFiniteSet(Array(b)) /\ Cardinality(Array(b)) = BlockSize
<1>1. IsFiniteSet({b}) /\ Cardinality({b}) = 1
  BY FS_Singleton
<1>2. IsFiniteSet(1..BlockSize) /\ Cardinality(1..BlockSize) = BlockSize
  BY FS_Interval, ListPoolAssumption
<1>3. /\ IsFiniteSet({b} \X (1..BlockSize))
      /\ Cardinality({b} \X (1..BlockSize)) = Cardinality({b}) * Cardinality(1..BlockSize)
  BY <1>1, <1>2, FS_Product
<1> QED
  BY <1>1, <1>2, <1>3, ListPoolAssumption DEF Array

LEMMA ArraysFinite ==
  ASSUME NEW bl, IsFiniteSet(bl), bl \subseteq Block
  PROVE  IsFiniteSet(ArraysOf(bl)) /\ ArraysOf(bl) \subseteq Iter
<1>1. ArraysOf(bl) = bl \X (1..BlockSize)
  BY DEF ArraysOf, Array
<1>2. IsFiniteSet(1..BlockSize)
  BY FS_Interval, ListPoolAssumption
<1> QED
  BY <1>1, <1>2, FS_Product DEF Iter

LEMMA ArraysDisjoint ==
  ASSUME NEW bl, NEW b, b \notin bl
  PROVE  /\ ArraysOf(bl) \cap Array(b) = {}
         /\ ArraysOf(bl \cup {b}) = ArraysOf(bl) \cup Array(b)
<1>1. ArraysOf(bl \cup {b}) = ArraysOf(bl) \cup Array(b)
  BY DEF ArraysOf
<1>2. ASSUME NEW i, i \in ArraysOf(bl), i \in Array(b) PROVE FALSE
  <2>1. PICK d \in bl : i \in Array(d)
    BY <1>2 DEF ArraysOf
  <2>2. PICK j \in 1..BlockSize : i = <<d, j>>
    BY <2>1 DEF Array
  <2>3. PICK k \in 1..BlockSize : i = <<b, k>>
    BY <1>2 DEF Array
  <2> QED
    BY <2>2, <2>3
<1> QED
  BY <1>1, <1>2

\* cc_listPool_get gives iterators that no list holds.
LEMMA GetKeepsPool ==
  ASSUME NEW used, Pooled(free, count, refcount, blocks, used),
         NEW S, Get(S)
  PROVE  /\ S \in SUBSET Iter /\ S # {} /\ S \cap used = {}
         /\ Pooled(free', count', refcount', blocks', used \cup S)
<1>1. PICK more \in Needed :
        /\ S \subseteq free \cup UNION {Array(b) : b \in more}
        /\ Cardinality(S) = SetSize
        /\ free' = (free \cup UNION {Array(b) : b \in more}) \ S
        /\ blocks' = blocks \cup more
        /\ count' = count + Cardinality(more) * BlockSize - SetSize
        /\ refcount' = refcount + SetSize
  BY DEF Get
<1> DEFINE new == ArraysOf(more)
<1>2. /\ IsFiniteSet(more) /\ IsFiniteSet(new) /\ more \subseteq Block
      /\ Cardinality(new) = Cardinality(more) * BlockSize
      /\ new \cap ArraysOf(blocks) = {}
      /\ ArraysOf(blocks \cup more) = ArraysOf(blocks) \cup new
  <2>1. CASE more = {}
    <3>1. new = {}
      BY <2>1 DEF ArraysOf
    <3> QED
      BY <2>1, <3>1, FS_EmptySet, ListPoolAssumption
  <2>2. ASSUME NEW b \in Block \ blocks, more = {b}
        PROVE  <1>2!:
    <3>1. new = Array(b)
      BY <2>2 DEF ArraysOf
    <3>2. IsFiniteSet(more) /\ Cardinality(more) = 1
      BY <2>2, FS_Singleton
    <3>3. IsFiniteSet(new) /\ Cardinality(new) = BlockSize
      BY <3>1, ArrayFinite
    <3>4. /\ new \cap ArraysOf(blocks) = {}
          /\ ArraysOf(blocks \cup more) = ArraysOf(blocks) \cup new
      <4>1. b \notin blocks
        BY <2>2
      <4>2. /\ ArraysOf(blocks) \cap Array(b) = {}
            /\ ArraysOf(blocks \cup {b}) = ArraysOf(blocks) \cup Array(b)
        BY <4>1, ArraysDisjoint
      <4> QED
        BY <4>2, <3>1, <2>2
    <3>5. Cardinality(new) = Cardinality(more) * BlockSize
      BY <3>2, <3>3, ListPoolAssumption
    <3> HIDE DEF new
    <3> QED
      BY <2>2, <3>2, <3>3, <3>4, <3>5
  <2> QED
    BY <2>1, <2>2 DEF Needed
<1>3. /\ blocks \subseteq Block /\ IsFiniteSet(blocks)
      /\ IsFiniteSet(ArraysOf(blocks)) /\ ArraysOf(blocks) \subseteq Iter
      /\ free \subseteq ArraysOf(blocks) /\ used \subseteq ArraysOf(blocks)
      /\ IsFiniteSet(free) /\ IsFiniteSet(used)
  <2>1. blocks \subseteq Block /\ IsFiniteSet(blocks)
    BY DEF Pooled
  <2>2. IsFiniteSet(ArraysOf(blocks)) /\ ArraysOf(blocks) \subseteq Iter
    BY <2>1, ArraysFinite
  <2>3. free \subseteq ArraysOf(blocks) /\ used \subseteq ArraysOf(blocks)
    BY DEF Pooled
  <2> QED
    BY <2>1, <2>2, <2>3, FS_Subset
<1> DEFINE stock == free \cup new
<1>4. /\ IsFiniteSet(stock)
      /\ Cardinality(stock) = Cardinality(free) + Cardinality(new)
      /\ Cardinality(free) \in Nat /\ Cardinality(new) \in Nat
  <2> HIDE DEF new
  <2>1. free \cap new = {}
    BY <1>2, <1>3
  <2> QED
    BY <2>1, <1>2, <1>3, DisjointUnion
<1>5. /\ S \subseteq stock /\ Cardinality(S) = SetSize /\ free' = stock \ S
  BY <1>1 DEF ArraysOf
<1>6. /\ IsFiniteSet(S) /\ S # {}
      /\ Cardinality(stock \ S) = Cardinality(stock) - SetSize
  <2> HIDE DEF stock
  <2>1. /\ IsFiniteSet(S)
        /\ Cardinality(stock \ S) = Cardinality(stock) - Cardinality(S)
    BY <1>4, <1>5, SubsetDifference
  <2> QED
    BY <1>5, <2>1, FS_EmptySet, ListPoolAssumption
<1>7. S \cap used = {}
  BY <1>2, <1>3, <1>5 DEF Pooled
<1>8. Cardinality(used \cup S) = refcount + SetSize
  <2>1. Cardinality(used \cup S) = Cardinality(used) + Cardinality(S)
    BY <1>3, <1>6, <1>7, DisjointUnion
  <2> QED
    BY <2>1, <1>5 DEF Pooled
<1>9. IsFiniteSet(blocks \cup more)
  BY <1>2, <1>3, FS_Union
<1>10. count' = Cardinality(free')
  <2>1. count = Cardinality(free)
    BY DEF Pooled
  <2>2. count' = count + Cardinality(new) - SetSize
    BY <1>1, <1>2
  <2>3. Cardinality(free') = Cardinality(stock) - SetSize
    BY <1>5, <1>6
  <2> HIDE DEF stock, new
  <2> QED
    BY <2>1, <2>2, <2>3, <1>4, ListPoolAssumption
<1>11. /\ free' \cap (used \cup S) = {}
       /\ free' \cup (used \cup S) = ArraysOf(blocks')
  BY <1>1, <1>2, <1>3, <1>5 DEF Pooled
<1>12. S \in SUBSET Iter
  <2>1. new \subseteq Iter
    BY <1>2, ArraysFinite
  <2> QED
    BY <2>1, <1>3, <1>5
<1> QED
  BY <1>1, <1>2, <1>3, <1>6, <1>7, <1>8, <1>9, <1>10, <1>11, <1>12 DEF Pooled

\* cc_listPool_put takes back some of what the lists hold.
LEMMA PutKeepsPool ==
  ASSUME NEW used, Pooled(free, count, refcount, blocks, used),
         NEW S \in SUBSET used, Put(S)
  PROVE  Pooled(free', count', refcount', blocks', used \ S)
<1>1. /\ IsFiniteSet(free) /\ IsFiniteSet(used) /\ IsFiniteSet(S)
      /\ refcount = Cardinality(used) /\ count = Cardinality(free)
      /\ free \cap used = {}
  <2>1. IsFiniteSet(ArraysOf(blocks))
    BY ArraysFinite DEF Pooled
  <2>2. free \subseteq ArraysOf(blocks) /\ used \subseteq ArraysOf(blocks)
    BY DEF Pooled
  <2>3. IsFiniteSet(free) /\ IsFiniteSet(used)
    BY <2>1, <2>2, FS_Subset
  <2> QED
    BY <2>3, FS_Subset DEF Pooled
<1>2. CASE S = {}
  <2>1. used \ S = used
    BY <1>2
  <2> QED
    BY <1>2, <2>1 DEF Put, pool
<1>3. CASE S # {} /\ S = used
  <2>1. free' = {} /\ count' = 0 /\ blocks' = {} /\ used \ S = {}
    BY <1>1, <1>3 DEF Put
  <2>2. refcount' = 0
    BY <1>1, <1>3, FS_CardinalityType DEF Put
  <2>3. ArraysOf({}) = {}
    BY DEF ArraysOf
  <2> QED
    BY <2>1, <2>2, <2>3, FS_EmptySet DEF Pooled
<1>4. CASE S # {} /\ S # used
  <2>1. refcount # Cardinality(S)
    BY <1>1, <1>4, FS_Subset
  <2>2. /\ free' = free \cup S /\ count' = count + Cardinality(S)
        /\ refcount' = refcount - Cardinality(S)
        /\ blocks' = blocks
    BY <1>4, <2>1 DEF Put
  <2>3. Cardinality(free \cup S) = Cardinality(free) + Cardinality(S)
    <3>1. free \cap S = {}
      BY <1>1
    <3> QED
      BY <3>1, <1>1, DisjointUnion
  <2>4. Cardinality(used \ S) = Cardinality(used) - Cardinality(S)
    BY <1>1, SubsetDifference
  <2>5. /\ (free \cup S) \cap (used \ S) = {}
        /\ (free \cup S) \cup (used \ S) = ArraysOf(blocks)
    BY <1>1 DEF Pooled
  <2> QED
    BY <1>1, <1>4, <2>2, <2>3, <2>4, <2>5 DEF Pooled
<1> QED
  BY <1>2, <1>3, <1>4

-----------------------------------------------------------------------------
(* The inductive invariant: the properties of ListPool, all together, and
   that there are finitely many blocks. *)
IInv ==
  TypeOK /\ OneHome /\ NoDangling /\ CountsExact /\ BlocksFreed
  /\ IsFiniteSet(blocks)

Idle(lv, q, f) == \A l \in List \ lv : HeldIn(q, f, l) = {}

LEMMA UsedIsInUse ==
  /\ InUse = Used(seq, spare)
  /\ InUse' = Used(seq', spare')
BY DEF InUse, Used, Held, HeldIn

LEMMA IInvParts ==
  IInv <=> /\ live \in SUBSET List
           /\ Homes(seq, spare)
           /\ Idle(live, seq, spare)
           /\ Pooled(free, count, refcount, blocks, Used(seq, spare))
<1>1. ASSUME IInv
      PROVE  /\ live \in SUBSET List
             /\ Homes(seq, spare)
             /\ Idle(live, seq, spare)
             /\ Pooled(free, count, refcount, blocks, Used(seq, spare))
  <2>1. live \in SUBSET List /\ Homes(seq, spare)
    BY <1>1 DEF IInv, TypeOK, OneHome, Homes, Held, HeldIn
  <2>2. Idle(live, seq, spare)
    BY <1>1 DEF IInv, BlocksFreed, Idle, Held, HeldIn
  <2>3. Pooled(free, count, refcount, blocks, InUse)
    BY <1>1 DEF IInv, TypeOK, OneHome, NoDangling, CountsExact, BlocksFreed,
                Pooled, Allocated, ArraysOf
  <2> QED
    BY <2>1, <2>2, <2>3, UsedIsInUse
<1>2. ASSUME live \in SUBSET List, Homes(seq, spare), Idle(live, seq, spare),
             Pooled(free, count, refcount, blocks, Used(seq, spare))
      PROVE  IInv
  <2>1. Pooled(free, count, refcount, blocks, InUse)
    BY <1>2, UsedIsInUse
  <2>2. /\ IsFiniteSet(ArraysOf(blocks)) /\ ArraysOf(blocks) \subseteq Iter
        /\ free \subseteq ArraysOf(blocks) /\ InUse \subseteq ArraysOf(blocks)
    BY <2>1, ArraysFinite DEF Pooled
  <2>3. IsFiniteSet(free) /\ IsFiniteSet(InUse)
    BY <2>2, FS_Subset
  <2>4. count \in Nat /\ refcount \in Nat
    BY <2>1, <2>3, FS_CardinalityType DEF Pooled
  <2>5. TypeOK
    BY <1>2, <2>1, <2>2, <2>4 DEF TypeOK, Homes, Pooled
  <2>6. OneHome
    BY <1>2, <2>1 DEF OneHome, Homes, Held, HeldIn, Pooled
  <2>7. NoDangling /\ CountsExact /\ IsFiniteSet(blocks)
    BY <2>1 DEF NoDangling, CountsExact, Pooled, Allocated, ArraysOf
  <2>8. BlocksFreed
    BY <1>2, <2>1 DEF BlocksFreed, Idle, Held, HeldIn, Pooled
  <2> QED
    BY <2>5, <2>6, <2>7, <2>8 DEF IInv
<1> QED
  BY <1>1, <1>2

\* The same of the next state, whose parts each step gives.
LEMMA IInvPartsNext ==
  ASSUME live' \in SUBSET List, Homes(seq', spare'),
         Idle(live', seq', spare'),
         Pooled(free', count', refcount', blocks', Used(seq', spare'))
  PROVE  IInv'
<1>1. (IInv <=> /\ live \in SUBSET List
                /\ Homes(seq, spare)
                /\ Idle(live, seq, spare)
                /\ Pooled(free, count, refcount, blocks, Used(seq, spare)))'
  BY IInvParts, PTL
<1> QED
  BY <1>1

-----------------------------------------------------------------------------
(* The actions. *)

\* A step that arranges what one list holds in another way.
LEMMA Rearrange ==
  ASSUME IInv, NEW l \in live,
         NEW s \in Seq(Iter), NEW F \in SUBSET Iter,
         IsInjective(s), ToSet(s) \cap F = {},
         ToSet(s) \cup F = HeldIn(seq, spare, l),
         seq' = [seq EXCEPT ![l] = s], spare' = [spare EXCEPT ![l] = F],
         UNCHANGED <<live, pool>>
  PROVE  IInv'
<1>1. /\ live \in SUBSET List /\ l \in List
      /\ Homes(seq, spare)
      /\ Idle(live, seq, spare)
      /\ Pooled(free, count, refcount, blocks, Used(seq, spare))
  BY IInvParts
<1>2. /\ Homes(seq', spare')
      /\ Used(seq', spare') = (Used(seq, spare) \ HeldIn(seq, spare, l))
                                \cup HeldIn(seq', spare', l)
      /\ HeldIn(seq', spare', l) = HeldIn(seq, spare, l)
      /\ \A m \in List \ {l} :
           HeldIn(seq', spare', m) = HeldIn(seq, spare, m)
  <2>1. /\ seq' \in [List -> Seq(Iter)] /\ spare' \in [List -> SUBSET Iter]
        /\ seq'[l] = s /\ spare'[l] = F
        /\ \A m \in List \ {l} : seq'[m] = seq[m] /\ spare'[m] = spare[m]
    BY <1>1 DEF Homes
  <2>2. HeldIn(seq', spare', l) = HeldIn(seq, spare, l)
    BY <2>1 DEF HeldIn
  <2>3. IsInjective(seq'[l]) /\ ToSet(seq'[l]) \cap spare'[l] = {}
    BY <2>1
  <2>4. \A i \in HeldIn(seq', spare', l) :
          i \in HeldIn(seq, spare, l) \/ i \notin Used(seq, spare)
    BY <2>2
  <2>5. Rehomed(l, seq, spare, seq', spare')
    BY <2>1, <2>3, <2>4 DEF Rehomed
  <2>6. \A m \in List \ {l} :
          HeldIn(seq', spare', m) = HeldIn(seq, spare, m)
    BY <2>1 DEF HeldIn
  <2>7. Homes(seq', spare')
    BY <1>1, <2>5, Rehome
  <2>8. Used(seq', spare') = (Used(seq, spare) \ HeldIn(seq, spare, l))
                               \cup HeldIn(seq', spare', l)
    BY <1>1, <2>5, Rehome
  <2> QED
    BY <2>2, <2>6, <2>7, <2>8
<1>3. Used(seq', spare') = Used(seq, spare)
  BY <1>1, <1>2 DEF Used
<1>4. Idle(live', seq', spare')
  BY <1>1, <1>2 DEF Idle
<1>5. Pooled(free', count', refcount', blocks', Used(seq', spare'))
  BY <1>1, <1>3 DEF pool
<1> QED
  BY <1>1, <1>2, <1>4, <1>5, IInvPartsNext

LEMMA InitKeeps == Init => IInv
<1> SUFFICES ASSUME Init PROVE IInv
  OBVIOUS
<1>1. << >> \in Seq(Iter) /\ ToSet(<< >>) = {} /\ IsInjective(<< >>)
  BY DEF ToSet, IsInjective
<1>2. Homes(seq, spare) /\ \A l \in List : HeldIn(seq, spare, l) = {}
  BY <1>1 DEF Init, Homes, HeldIn
<1>3. Used(seq, spare) = {} /\ ArraysOf({}) = {}
  BY <1>2 DEF Used, ArraysOf
<1>4. Pooled(free, count, refcount, blocks, Used(seq, spare))
  BY <1>3, FS_EmptySet DEF Init, Pooled
<1> QED
  BY <1>2, <1>4, IInvParts DEF Init, Idle

LEMMA NewKeeps ==
  ASSUME IInv, NEW l \in List, New(l)
  PROVE  IInv'
<1>1. /\ live' \in SUBSET List /\ Homes(seq', spare')
      /\ Idle(live', seq', spare')
      /\ Pooled(free', count', refcount', blocks', Used(seq', spare'))
  BY IInvParts DEF New, pool, Idle
<1> QED
  BY <1>1, IInvPartsNext

LEMMA AddKeeps ==
  ASSUME IInv, NEW l \in List, Add(l)
  PROVE  IInv'
<1>1. /\ l \in live
      /\ Homes(seq, spare)
      /\ Idle(live, seq, spare) /\ live \in SUBSET List
      /\ Pooled(free, count, refcount, blocks, Used(seq, spare))
  BY IInvParts DEF Add
<1>2. /\ seq[l] \in Seq(Iter) /\ spare[l] \in SUBSET Iter
      /\ IsInjective(seq[l]) /\ ToSet(seq[l]) \cap spare[l] = {}
  BY <1>1 DEF Homes
<1>3. PICK p \in 1..(Len(seq[l]) + 1) : AddSpare(l, p) \/ AddRefill(l, p)
  BY DEF Add
<1>4. CASE AddSpare(l, p)
  <2>1. PICK i \in spare[l] :
          /\ seq' = [seq EXCEPT ![l] = InsertAt(seq[l], p, i)]
          /\ spare' = [spare EXCEPT ![l] = spare[l] \ {i}]
          /\ UNCHANGED <<live, pool>>
    BY <1>4 DEF AddSpare
  <2> DEFINE s == InsertAt(seq[l], p, i)
  <2>2. i \in Iter /\ i \notin ToSet(seq[l])
    BY <1>2, <2>1
  <2>3. /\ s \in Seq(Iter) /\ ToSet(s) = ToSet(seq[l]) \cup {i}
        /\ IsInjective(s)
    BY <1>2, <1>3, <2>2, InsertAtProperties
  <2> HIDE DEF s
  <2>4. /\ ToSet(s) \cap (spare[l] \ {i}) = {}
        /\ ToSet(s) \cup (spare[l] \ {i}) = HeldIn(seq, spare, l)
    BY <1>2, <2>1, <2>3 DEF HeldIn
  <2>5. spare[l] \ {i} \in SUBSET Iter
    BY <1>2
  <2> QED
    BY <1>1, <2>1, <2>3, <2>4, <2>5, Rearrange DEF s
<1>5. CASE AddRefill(l, p)
  <2> PICK S \in SUBSET Iter : \E i \in S :
          /\ spare[l] = {}
          /\ Get(S)
          /\ seq' = [seq EXCEPT ![l] = InsertAt(seq[l], p, i)]
          /\ spare' = [spare EXCEPT ![l] = S \ {i}]
          /\ live' = live
    BY <1>5 DEF AddRefill
  <2>1. PICK i \in S :
          /\ spare[l] = {}
          /\ Get(S)
          /\ seq' = [seq EXCEPT ![l] = InsertAt(seq[l], p, i)]
          /\ spare' = [spare EXCEPT ![l] = S \ {i}]
          /\ live' = live
    OBVIOUS
  <2>2. /\ S \cap Used(seq, spare) = {}
        /\ Pooled(free', count', refcount', blocks', Used(seq, spare) \cup S)
    BY <1>1, <2>1, GetKeepsPool
  <2> DEFINE s == InsertAt(seq[l], p, i)
  <2>3. ToSet(seq[l]) \subseteq Used(seq, spare)
    BY DEF Used, HeldIn
  <2>4. i \in Iter /\ i \notin ToSet(seq[l])
    BY <2>1, <2>2, <2>3
  <2>5. /\ s \in Seq(Iter) /\ ToSet(s) = ToSet(seq[l]) \cup {i}
        /\ IsInjective(s)
    BY <1>2, <1>3, <2>4, InsertAtProperties
  <2> HIDE DEF s
  <2>6. HeldIn(seq, spare, l) = ToSet(seq[l])
    BY <2>1 DEF HeldIn
  <2>7. /\ ToSet(s) \cap (S \ {i}) = {}
        /\ ToSet(s) \cup (S \ {i}) = HeldIn(seq, spare, l) \cup S
    BY <2>2, <2>3, <2>5, <2>6
  <2>8. S \ {i} \in SUBSET Iter
    OBVIOUS
  <2>9. /\ Homes(seq', spare')
        /\ Used(seq', spare') = (Used(seq, spare) \ HeldIn(seq, spare, l))
                                  \cup HeldIn(seq', spare', l)
        /\ HeldIn(seq', spare', l) = HeldIn(seq, spare, l) \cup S
        /\ \A m \in List \ {l} :
             HeldIn(seq', spare', m) = HeldIn(seq, spare, m)
    <3>1. seq' = [seq EXCEPT ![l] = s] /\ spare' = [spare EXCEPT ![l] = S \ {i}]
      BY <2>1 DEF s
    <3>2. /\ seq' \in [List -> Seq(Iter)] /\ spare' \in [List -> SUBSET Iter]
          /\ seq'[l] = s /\ spare'[l] = S \ {i}
          /\ \A m \in List \ {l} : seq'[m] = seq[m] /\ spare'[m] = spare[m]
      BY <1>1, <2>5, <2>8, <3>1 DEF Homes
    <3>3. HeldIn(seq', spare', l) = HeldIn(seq, spare, l) \cup S
      BY <3>2, <2>7 DEF HeldIn
    <3>4. \A k \in HeldIn(seq', spare', l) :
            k \in HeldIn(seq, spare, l) \/ k \notin Used(seq, spare)
      BY <2>2, <3>3
    <3>5. IsInjective(seq'[l]) /\ ToSet(seq'[l]) \cap spare'[l] = {}
      BY <3>2, <2>5, <2>7
    <3>6. Rehomed(l, seq, spare, seq', spare')
      BY <3>2, <3>4, <3>5 DEF Rehomed
    <3>7. \A m \in List \ {l} :
            HeldIn(seq', spare', m) = HeldIn(seq, spare, m)
      BY <3>2 DEF HeldIn
    <3>8. Homes(seq', spare')
      BY <1>1, <3>6, Rehome
    <3>9. Used(seq', spare') = (Used(seq, spare) \ HeldIn(seq, spare, l))
                                 \cup HeldIn(seq', spare', l)
      BY <1>1, <3>6, Rehome
    <3> QED
      BY <3>3, <3>7, <3>8, <3>9
  <2>10. Used(seq', spare') = Used(seq, spare) \cup S
    BY <2>3, <2>6, <2>7, <2>9
  <2>11. Idle(live', seq', spare')
    BY <1>1, <2>1, <2>9 DEF Idle
  <2> QED
    BY <1>1, <2>1, <2>2, <2>9, <2>10, <2>11, IInvPartsNext
<1> QED
  BY <1>3, <1>4, <1>5

LEMMA RemoveIterKeeps ==
  ASSUME IInv, NEW l \in List, RemoveIter(l)
  PROVE  IInv'
<1>1. l \in live /\ Homes(seq, spare)
  BY IInvParts DEF RemoveIter
<1>2. /\ seq[l] \in Seq(Iter) /\ spare[l] \in SUBSET Iter
      /\ IsInjective(seq[l]) /\ ToSet(seq[l]) \cap spare[l] = {}
  BY <1>1 DEF Homes
<1>3. PICK k \in 1..Len(seq[l]) :
        /\ seq' = [seq EXCEPT ![l] = RemoveAt(seq[l], k)]
        /\ spare' = [spare EXCEPT ![l] = spare[l] \cup {seq[l][k]}]
        /\ UNCHANGED <<live, pool>>
  BY DEF RemoveIter
<1> DEFINE s == RemoveAt(seq[l], k)
           F == spare[l] \cup {seq[l][k]}
<1>4. /\ s \in Seq(Iter) /\ IsInjective(s)
      /\ ToSet(s) = ToSet(seq[l]) \ {seq[l][k]}
  BY <1>2, RemoveAtProperties
<1>5. seq[l][k] \in ToSet(seq[l]) /\ seq[l][k] \in Iter
  BY <1>2, InToSet
<1> HIDE DEF s
<1>6. /\ F \in SUBSET Iter /\ ToSet(s) \cap F = {}
      /\ ToSet(s) \cup F = HeldIn(seq, spare, l)
  BY <1>2, <1>4, <1>5 DEF HeldIn
<1> HIDE DEF F
<1> QED
  BY <1>1, <1>3, <1>4, <1>6, Rearrange DEF s, F

LEMMA ReorderKeeps ==
  ASSUME IInv, NEW l \in List, Reorder(l)
  PROVE  IInv'
<1>1. l \in live /\ Homes(seq, spare)
  BY IInvParts DEF Reorder
<1>2. /\ seq[l] \in Seq(Iter) /\ spare[l] \in SUBSET Iter
      /\ spare = [spare EXCEPT ![l] = spare[l]]
      /\ IsInjective(seq[l]) /\ ToSet(seq[l]) \cap spare[l] = {}
  BY <1>1 DEF Homes
<1>3. PICK j \in 1..Len(seq[l]), k \in 1..Len(seq[l]) :
        seq' = [seq EXCEPT ![l] = Move(seq[l], k, j)]
  BY DEF Reorder
<1> DEFINE s == Move(seq[l], k, j)
<1>4. s \in Seq(Iter) /\ IsInjective(s) /\ ToSet(s) = ToSet(seq[l])
  BY <1>2, MoveProperties
<1> HIDE DEF s
<1>5. /\ ToSet(s) \cap spare[l] = {}
      /\ ToSet(s) \cup spare[l] = HeldIn(seq, spare, l)
  BY <1>2, <1>4 DEF HeldIn
<1>6. /\ seq' = [seq EXCEPT ![l] = s] /\ spare' = [spare EXCEPT ![l] = spare[l]]
      /\ UNCHANGED <<live, pool>>
  BY <1>2, <1>3 DEF Reorder, s
<1> QED
  BY <1>1, <1>2, <1>4, <1>5, <1>6, Rearrange

LEMMA DiscardKeeps ==
  ASSUME IInv, NEW l \in List, Discard(l)
  PROVE  IInv'
<1>1. l \in live /\ Homes(seq, spare)
  BY IInvParts DEF Discard
<1>2. << >> \in Seq(Iter) /\ ToSet(<< >>) = {} /\ IsInjective(<< >>)
  BY DEF ToSet, IsInjective
<1>3. HeldIn(seq, spare, l) \in SUBSET Iter
  <2>1. seq[l] \in Seq(Iter) /\ spare[l] \in SUBSET Iter
    BY <1>1 DEF Homes
  <2>2. ToSet(seq[l]) \subseteq Iter
    BY <2>1 DEF ToSet
  <2> QED
    BY <2>1, <2>2 DEF HeldIn
<1>4. /\ seq' = [seq EXCEPT ![l] = << >>]
      /\ spare' = [spare EXCEPT ![l] = HeldIn(seq, spare, l)]
      /\ UNCHANGED <<live, pool>>
  BY DEF Discard, Held, HeldIn
<1> QED
  BY <1>1, <1>2, <1>3, <1>4, Rearrange

LEMMA DeleteKeeps ==
  ASSUME IInv, NEW l \in List, Delete(l)
  PROVE  IInv'
<1>1. /\ live \in SUBSET List
      /\ Homes(seq, spare)
      /\ Idle(live, seq, spare)
      /\ Pooled(free, count, refcount, blocks, Used(seq, spare))
  BY IInvParts
<1>2. /\ seq' = [seq EXCEPT ![l] = << >>]
      /\ spare' = [spare EXCEPT ![l] = {}]
      /\ live' = live \ {l}
      /\ Put(HeldIn(seq, spare, l))
  BY DEF Delete, Held, HeldIn
<1>3. << >> \in Seq(Iter) /\ ToSet(<< >>) = {} /\ IsInjective(<< >>)
  BY DEF ToSet, IsInjective
<1>4. /\ seq' \in [List -> Seq(Iter)] /\ spare' \in [List -> SUBSET Iter]
      /\ seq'[l] = << >> /\ spare'[l] = {}
      /\ \A m \in List \ {l} : seq'[m] = seq[m] /\ spare'[m] = spare[m]
  BY <1>1, <1>2, <1>3 DEF Homes
<1>5. HeldIn(seq', spare', l) = {}
  BY <1>3, <1>4 DEF HeldIn
<1>6. Rehomed(l, seq, spare, seq', spare')
  BY <1>3, <1>4, <1>5 DEF Rehomed
<1>7. Homes(seq', spare')
  BY <1>1, <1>6, Rehome
<1>8. Used(seq', spare') = (Used(seq, spare) \ HeldIn(seq, spare, l))
                             \cup HeldIn(seq', spare', l)
  BY <1>1, <1>6, Rehome
<1>9. Used(seq', spare') = Used(seq, spare) \ HeldIn(seq, spare, l)
  BY <1>5, <1>8
<1>10. HeldIn(seq, spare, l) \in SUBSET Used(seq, spare)
  BY DEF Used
<1>11. Pooled(free', count', refcount', blocks',
              Used(seq, spare) \ HeldIn(seq, spare, l))
  BY <1>1, <1>2, <1>10, PutKeepsPool
<1>12. \A m \in List \ {l} : HeldIn(seq', spare', m) = HeldIn(seq, spare, m)
  BY <1>4 DEF HeldIn
<1>13. Idle(live', seq', spare') /\ live' \in SUBSET List
  BY <1>1, <1>2, <1>5, <1>12 DEF Idle
<1> QED
  BY <1>7, <1>9, <1>11, <1>13, IInvPartsNext

\* A step that takes iterators from one live list to another: first m gives
\* what l then takes.
LEMMA HandOver ==
  ASSUME IInv, NEW l \in live, NEW m \in live, l # m,
         NEW s \in Seq(Iter), NEW t \in Seq(Iter),
         IsInjective(s), IsInjective(t),
         ToSet(t) \subseteq ToSet(seq[m]),
         ToSet(s) = ToSet(seq[l]) \cup (ToSet(seq[m]) \ ToSet(t)),
         seq' = [seq EXCEPT ![l] = s, ![m] = t],
         UNCHANGED <<live, spare, pool>>
  PROVE  IInv'
<1>1. /\ live \in SUBSET List /\ l \in List /\ m \in List
      /\ Homes(seq, spare)
      /\ Idle(live, seq, spare)
      /\ Pooled(free, count, refcount, blocks, Used(seq, spare))
      /\ pool' = pool /\ live' = live /\ spare' = spare
  BY IInvParts
<1> DEFINE q == [seq EXCEPT ![m] = t]
<1>2. /\ q \in [List -> Seq(Iter)] /\ spare \in [List -> SUBSET Iter]
      /\ q[m] = t /\ q[l] = seq[l]
      /\ \A k \in List \ {m} : q[k] = seq[k]
  BY <1>1 DEF Homes
<1>3. /\ seq' \in [List -> Seq(Iter)]
      /\ seq'[l] = s /\ seq'[m] = t
      /\ \A k \in List \ {l} : seq'[k] = q[k]
  BY <1>1 DEF Homes
<1> HIDE DEF q
<1>4. /\ ToSet(seq[m]) \cap spare[m] = {} /\ ToSet(seq[l]) \cap spare[l] = {}
      /\ HeldIn(seq, spare, l) \cap HeldIn(seq, spare, m) = {}
      /\ HeldIn(seq, spare, m) \subseteq Used(seq, spare)
  BY <1>1 DEF Homes, Used
<1>5. Rehomed(m, seq, spare, q, spare)
  BY <1>2, <1>4 DEF Rehomed, HeldIn
<1>6. Homes(q, spare)
  BY <1>1, <1>5, Rehome
<1>7. Used(q, spare) = (Used(seq, spare) \ HeldIn(seq, spare, m))
                         \cup HeldIn(q, spare, m)
  BY <1>1, <1>5, Rehome
<1>8. /\ HeldIn(q, spare, m) = ToSet(t) \cup spare[m]
      /\ HeldIn(seq, spare, m) = ToSet(seq[m]) \cup spare[m]
      /\ HeldIn(q, spare, l) = ToSet(seq[l]) \cup spare[l]
      /\ HeldIn(seq, spare, l) = ToSet(seq[l]) \cup spare[l]
      /\ HeldIn(seq', spare, l) = ToSet(s) \cup spare[l]
  BY <1>2, <1>3 DEF HeldIn
<1>9. Used(q, spare) = Used(seq, spare) \ (ToSet(seq[m]) \ ToSet(t))
  BY <1>4, <1>7, <1>8
<1>10. Rehomed(l, q, spare, seq', spare)
  <2>1. ToSet(s) \cap spare[l] = {}
    BY <1>4, <1>8
  <2>2. \A i \in HeldIn(seq', spare, l) :
          i \in HeldIn(q, spare, l) \/ i \notin Used(q, spare)
    BY <1>8, <1>9
  <2> QED
    BY <1>2, <1>3, <2>1, <2>2 DEF Rehomed
<1>11. Homes(seq', spare)
  BY <1>1, <1>6, <1>10, Rehome
<1>12. Used(seq', spare) = (Used(q, spare) \ HeldIn(q, spare, l))
                             \cup HeldIn(seq', spare, l)
  BY <1>1, <1>6, <1>10, Rehome
<1>13. HeldIn(q, spare, l) \subseteq Used(q, spare)
  BY <1>1 DEF Used
<1>14. Used(seq', spare) = Used(seq, spare)
  BY <1>4, <1>8, <1>9, <1>12, <1>13
<1>15. \A k \in List \ live : HeldIn(seq', spare, k) = HeldIn(seq, spare, k)
  <2> SUFFICES ASSUME NEW k \in List \ live
               PROVE  HeldIn(seq', spare, k) = HeldIn(seq, spare, k)
    OBVIOUS
  <2>1. seq'[k] = seq[k]
    BY <1>2, <1>3
  <2> QED
    BY <2>1 DEF HeldIn
<1>16. Idle(live', seq', spare')
  BY <1>1, <1>15 DEF Idle
<1>17. Homes(seq', spare') /\ live' \in SUBSET List
  BY <1>1, <1>11
<1>18. Pooled(free', count', refcount', blocks', Used(seq', spare'))
  BY <1>1, <1>14 DEF pool
<1> QED
  BY <1>16, <1>17, <1>18, IInvPartsNext

LEMMA SwapKeeps ==
  ASSUME IInv, NEW l \in List, NEW m \in List, Swap(l, m)
  PROVE  IInv'
<1>1. /\ l \in live /\ m \in live /\ l # m /\ Homes(seq, spare)
      /\ UNCHANGED <<live, spare, pool>>
  BY IInvParts DEF Swap
<1>2. /\ seq[l] \in Seq(Iter) /\ seq[m] \in Seq(Iter)
      /\ IsInjective(seq[l]) /\ IsInjective(seq[m])
      /\ ToSet(seq[l]) \cap ToSet(seq[m]) = {}
      /\ seq \in [List -> Seq(Iter)]
  BY <1>1 DEF Homes, HeldIn
<1>3. PICK k \in 1..Len(seq[l]), j \in 1..(Len(seq[m]) + 1) :
        seq' = [seq EXCEPT ![l] = RemoveAt(seq[l], k),
                           ![m] = InsertAt(seq[m], j, seq[l][k])]
  BY <1>1, <1>2 DEF Swap
<1> DEFINE t == RemoveAt(seq[l], k)
           s == InsertAt(seq[m], j, seq[l][k])
<1>4. t \in Seq(Iter) /\ IsInjective(t) /\ ToSet(t) = ToSet(seq[l]) \ {seq[l][k]}
  BY <1>2, RemoveAtProperties
<1>5. /\ seq[l][k] \in ToSet(seq[l]) /\ seq[l][k] \in Iter
      /\ seq[l][k] \notin ToSet(seq[m])
  BY <1>2, InToSet
<1>6. s \in Seq(Iter) /\ IsInjective(s) /\ ToSet(s) = ToSet(seq[m]) \cup {seq[l][k]}
  BY <1>2, <1>5, InsertAtProperties
<1>7. seq' = [seq EXCEPT ![m] = s, ![l] = t]
  BY <1>1, <1>2, <1>3
<1> HIDE DEF s, t
<1>8. ToSet(s) = ToSet(seq[m]) \cup (ToSet(seq[l]) \ ToSet(t))
  BY <1>4, <1>5, <1>6
<1> QED
  BY <1>1, <1>4, <1>6, <1>7, <1>8, HandOver

LEMMA ConcatKeeps ==
  ASSUME IInv, NEW l \in List, NEW m \in List, Concat(l, m)
  PROVE  IInv'
<1>1. /\ l \in live /\ m \in live /\ l # m /\ Homes(seq, spare)
      /\ UNCHANGED <<live, spare, pool>>
  BY IInvParts DEF Concat
<1>2. /\ seq[l] \in Seq(Iter) /\ seq[m] \in Seq(Iter)
      /\ IsInjective(seq[l]) /\ IsInjective(seq[m])
      /\ ToSet(seq[l]) \cap ToSet(seq[m]) = {}
  BY <1>1 DEF Homes, HeldIn
<1>3. PICK s \in {seq[l] \o seq[m], seq[m] \o seq[l]} :
        seq' = [seq EXCEPT ![l] = s, ![m] = << >>]
  BY DEF Concat
<1>4. << >> \in Seq(Iter) /\ ToSet(<< >>) = {} /\ IsInjective(<< >>)
  BY DEF ToSet, IsInjective
<1>5. s \in Seq(Iter) /\ IsInjective(s) /\ ToSet(s) = ToSet(seq[l]) \cup ToSet(seq[m])
  <2>1. CASE s = seq[l] \o seq[m]
    BY <2>1, <1>2, JoinedProperties
  <2>2. CASE s = seq[m] \o seq[l]
    BY <2>2, <1>2, JoinedProperties
  <2> QED
    BY <2>1, <2>2
<1> QED
  BY <1>1, <1>3, <1>4, <1>5, HandOver

-----------------------------------------------------------------------------
(* The theorems. *)

LEMMA NextKeeps == IInv /\ [Next]_vars => IInv'
<1> SUFFICES ASSUME IInv, [Next]_vars PROVE IInv'
  OBVIOUS
<1>1. ASSUME NEW l \in List,
             New(l) \/ Add(l) \/ RemoveIter(l) \/ Reorder(l) \/ Discard(l) \/ Delete(l)
      PROVE  IInv'
  BY <1>1, NewKeeps, AddKeeps, RemoveIterKeeps, ReorderKeeps, DiscardKeeps,
     DeleteKeeps
<1>2. ASSUME NEW l \in List, NEW m \in List, Swap(l, m) \/ Concat(l, m)
      PROVE  IInv'
  BY <1>2, SwapKeeps, ConcatKeeps
<1>3. CASE UNCHANGED vars
  <2>1. /\ live' \in SUBSET List /\ Homes(seq', spare')
        /\ Idle(live', seq', spare')
        /\ Pooled(free', count', refcount', blocks', Used(seq', spare'))
    BY <1>3, IInvParts DEF vars, lists, pool
  <2> QED
    BY <2>1, IInvPartsNext
<1> QED
  BY <1>1, <1>2, <1>3 DEF Next

(* The properties of the lists and the pool hold together in every reachable
   state, and the blocks stay finite in number. *)
THEOREM ListPoolInvariant == Spec => []IInv
BY InitKeeps, NextKeeps, PTL DEF Spec

(* pool->count and pool->refcount never wrap below zero, and every pointer is
   to an iterator of some block. *)
THEOREM ListPoolTypeCorrect == Spec => []TypeOK
<1>1. IInv => TypeOK
  BY DEF IInv
<1> QED
  BY <1>1, ListPoolInvariant, PTL

(* No two lists, and no list and the pool, ever have the same iterator,
   through whichever lists it was swapped or joined. *)
THEOREM ListPoolOneHome == Spec => []OneHome
<1>1. IInv => OneHome
  BY DEF IInv
<1> QED
  BY <1>1, ListPoolInvariant, PTL

(* No list holds an iterator of a block that put has freed, and no iterator
   of an allocated block is lost. *)
THEOREM ListPoolNoDangling == Spec => []NoDangling
<1>1. IInv => NoDangling
  BY DEF IInv
<1> QED
  BY <1>1, ListPoolInvariant, PTL

(* The free chain is as long as pool->count says, so that get never runs off
   its end, and pool->refcount is zero exactly when no list holds an
   iterator. *)
THEOREM ListPoolCountsExact == Spec => []CountsExact
<1>1. IInv => CountsExact
  BY DEF IInv
<1> QED
  BY <1>1, ListPoolInvariant, PTL

(* Blocks are kept only as long as some list holds an iterator. *)
THEOREM ListPoolBlocksFreed == Spec => []BlocksFreed
<1>1. IInv => BlocksFreed
  BY DEF IInv
<1> QED
  BY <1>1, ListPoolInvariant, PTL

=============================================================================
