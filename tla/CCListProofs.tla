---------------------------- MODULE CCListProofs ----------------------------
(***************************************************************************)
(* The pointers of CCList implement the sequences of ListPool, for any     *)
(* number of lists and blocks and for sets and blocks of any size.         *)
(***************************************************************************)
EXTENDS CCList, CCSeqLemmas, FiniteSetTheorems

-----------------------------------------------------------------------------
(* Links that represent sequences, as a predicate of values. *)

Pointer == Iter \cup {NULL}

AreLinks(h) ==
  /\ h.next \in [Iter -> Pointer]
  /\ h.prev \in [Iter -> Pointer]
  /\ h.head \in [List -> Pointer]
  /\ h.tail \in [List -> Pointer]
  /\ h.size \in [List -> Nat]

\* The iterator at position k of s, NULL in front of the first and behind the
\* last.
At(s, k) == IF k \in 1..Len(s) THEN s[k] ELSE NULL

\* List l reads as the sequence s, from both ends.
Chain(h, l, s) ==
  /\ h.size[l] = Len(s)
  /\ h.head[l] = At(s, 1)
  /\ h.tail[l] = At(s, Len(s))
  /\ \A k \in 1..Len(s) :
       h.prev[s[k]] = At(s, k - 1) /\ h.next[s[k]] = At(s, k + 1)

\* No iterator is linked twice.
Apart(q) ==
  /\ q \in [List -> Seq(Iter)]
  /\ \A l \in List : IsInjective(q[l])
  /\ \A l, m \in List : l # m => ToSet(q[l]) \cap ToSet(q[m]) = {}

Chains(h, q) == AreLinks(h) /\ Apart(q) /\ \A l \in List : Chain(h, l, q[l])

\* What At finds is an iterator of the sequence, at one place.
LEMMA AtFacts ==
  ASSUME NEW s \in Seq(Iter)
  PROVE  /\ \A k \in Int : At(s, k) \in Pointer
         /\ \A k \in Int : At(s, k) = NULL <=> k \notin 1..Len(s)
         /\ \A k \in 1..Len(s) : At(s, k) = s[k] /\ s[k] \in Iter
                                 /\ s[k] # NULL /\ s[k] \in ToSet(s)
         /\ IsInjective(s) =>
              \A j, k \in 1..Len(s) : s[j] = s[k] => j = k
         /\ Len(s) \in Nat
         /\ \A x \in ToSet(s) : \E k \in 1..Len(s) : x = s[k]
<1>1. DOMAIN s = 1..Len(s) /\ Len(s) \in Nat /\ \A k \in 1..Len(s) : s[k] \in Iter
  OBVIOUS
<1>2. \A k \in 1..Len(s) : s[k] # NULL /\ s[k] \in ToSet(s)
  BY <1>1, CCListAssumption DEF ToSet
<1> QED
  BY <1>1, <1>2 DEF At, Pointer, ToSet, IsInjective

\* g is f but at i.
Written(f, i, v, g) ==
  /\ g \in [Iter -> Pointer]
  /\ \A x \in Iter : g[x] = IF x = i THEN v ELSE f[x]

IsField(f) == f \in [Iter -> Pointer]

\* Set writes through a pointer that is not NULL.
LEMMA SetWrites ==
  ASSUME NEW f, IsField(f), NEW i, i \in Pointer, NEW v, v \in Pointer
  PROVE  Written(f, i, v, Set(f, i, v))
BY CCListAssumption DEF Set, Pointer, IsField, Written

\* r is s with i at position p, or without what was at position p.
Inserted(s, p, i, r) ==
  /\ r \in Seq(Iter)
  /\ Len(r) = Len(s) + 1
  /\ \A j \in 1..(Len(s) + 1) :
       r[j] = IF j < p THEN s[j] ELSE IF j = p THEN i ELSE s[j - 1]

Removed(s, p, r) ==
  /\ r \in Seq(Iter)
  /\ Len(r) = Len(s) - 1
  /\ \A j \in 1..(Len(s) - 1) : r[j] = IF j < p THEN s[j] ELSE s[j + 1]

LEMMA InsertIter ==
  ASSUME NEW s \in Seq(Iter), NEW i \in Iter, NEW p \in 1..(Len(s) + 1)
  PROVE  Inserted(s, p, i, InsertAt(s, p, i))
<1>1. /\ InsertAt(s, p, i) \in Seq(Iter)
      /\ Len(InsertAt(s, p, i)) = Len(s) + 1
      /\ \A j \in 1..(Len(s) + 1) :
           InsertAt(s, p, i)[j] =
             IF j < p THEN s[j] ELSE IF j = p THEN i ELSE s[j - 1]
  BY InsertAtElements
<1> QED
  BY <1>1 DEF Inserted

LEMMA RemoveIterAt ==
  ASSUME NEW s \in Seq(Iter), NEW p \in 1..Len(s)
  PROVE  Removed(s, p, RemoveAt(s, p))
<1>1. /\ RemoveAt(s, p) \in Seq(Iter)
      /\ Len(RemoveAt(s, p)) = Len(s) - 1
      /\ \A j \in 1..(Len(s) - 1) :
           RemoveAt(s, p)[j] = IF j < p THEN s[j] ELSE s[j + 1]
  BY RemoveAtElements
<1> QED
  BY <1>1 DEF Removed

-----------------------------------------------------------------------------
(* What the functions that change links make of the sequences. *)

\* One list alone is another sequence.
LEMMA ChainsBut ==
  ASSUME NEW h, NEW q, Chains(h, q), NEW l \in List,
         NEW g, AreLinks(g), NEW s \in Seq(Iter), IsInjective(s),
         \A m \in List \ {l} : ToSet(s) \cap ToSet(q[m]) = {},
         Chain(g, l, s),
         \A m \in List \ {l} : /\ g.size[m] = h.size[m]
                               /\ g.head[m] = h.head[m]
                               /\ g.tail[m] = h.tail[m]
                               /\ \A x \in ToSet(q[m]) :
                                    g.prev[x] = h.prev[x] /\ g.next[x] = h.next[x]
  PROVE  Chains(g, [q EXCEPT ![l] = s])
<1> DEFINE q2 == [q EXCEPT ![l] = s]
<1>1. /\ q2 \in [List -> Seq(Iter)] /\ q2[l] = s
      /\ \A m \in List \ {l} : q2[m] = q[m]
  BY DEF Chains, Apart
<1> HIDE DEF q2
<1>2. Apart(q2)
  <2>1. /\ \A m \in List : IsInjective(q[m])
        /\ \A m, k \in List : m # k => ToSet(q[m]) \cap ToSet(q[k]) = {}
    BY DEF Chains, Apart
  <2>2. \A m \in List : IsInjective(q2[m])
    BY <1>1, <2>1
  <2>3. ASSUME NEW m \in List, NEW k \in List, m # k
        PROVE  ToSet(q2[m]) \cap ToSet(q2[k]) = {}
    <3>1. CASE m = l
      BY <1>1, <2>3, <3>1
    <3>2. CASE k = l
      BY <1>1, <2>3, <3>2
    <3>3. CASE m # l /\ k # l
      BY <1>1, <2>1, <2>3, <3>3
    <3> QED
      BY <3>1, <3>2, <3>3
  <2> QED
    BY <1>1, <2>2, <2>3 DEF Apart
<1>3. ASSUME NEW m \in List, m # l
      PROVE  Chain(g, m, q2[m])
  <2>1. q2[m] = q[m] /\ q[m] \in Seq(Iter) /\ Chain(h, m, q[m])
    BY <1>1, <1>3 DEF Chains, Apart
  <2>2. \A k \in 1..Len(q[m]) : q[m][k] \in ToSet(q[m])
    <3>1. DOMAIN q[m] = 1..Len(q[m])
      BY <2>1
    <3> QED
      BY <3>1 DEF ToSet
  <2>3. /\ g.size[m] = h.size[m] /\ g.head[m] = h.head[m]
        /\ g.tail[m] = h.tail[m]
        /\ \A x \in ToSet(q[m]) :
             g.prev[x] = h.prev[x] /\ g.next[x] = h.next[x]
    BY <1>3
  <2>4. /\ h.size[m] = Len(q[m]) /\ h.head[m] = At(q[m], 1)
        /\ h.tail[m] = At(q[m], Len(q[m]))
        /\ \A k \in 1..Len(q[m]) : /\ h.prev[q[m][k]] = At(q[m], k - 1)
                                   /\ h.next[q[m][k]] = At(q[m], k + 1)
    BY <2>1 DEF Chain
  <2>5. Chain(g, m, q[m])
    BY <2>2, <2>3, <2>4 DEF Chain
  <2> QED
    BY <2>1, <2>5
<1>4. \A m \in List : Chain(g, m, q2[m])
  BY <1>1, <1>3
<1>5. Chains(g, q2)
  BY <1>2, <1>4 DEF Chains
<1> QED
  BY <1>5 DEF q2

\* cc_listIter_add between neighbours is an insertion.
LEMMA IterAddChain ==
  ASSUME NEW h, AreLinks(h), NEW l \in List, NEW s \in Seq(Iter),
         IsInjective(s), Chain(h, l, s),
         NEW i \in Iter, i \notin ToSet(s), NEW p \in 1..(Len(s) + 1)
  PROVE  LET g == IterAdd(h, i, l, At(s, p - 1), At(s, p))
         IN  /\ AreLinks(g)
             /\ Chain(g, l, InsertAt(s, p, i))
             /\ \A m \in List \ {l} : /\ g.size[m] = h.size[m]
                                      /\ g.head[m] = h.head[m]
                                      /\ g.tail[m] = h.tail[m]
             /\ \A x \in Iter : x \notin ToSet(s) /\ x # i =>
                  g.prev[x] = h.prev[x] /\ g.next[x] = h.next[x]
<1> DEFINE a == At(s, p - 1)
           b == At(s, p)
           g == IterAdd(h, i, l, a, b)
           r == InsertAt(s, p, i)
<1>1. /\ h.next \in [Iter -> Pointer] /\ h.prev \in [Iter -> Pointer]
      /\ h.head \in [List -> Pointer] /\ h.tail \in [List -> Pointer]
      /\ h.size \in [List -> Nat]
  BY DEF AreLinks
<1>2. /\ \A k \in Int : At(s, k) \in Pointer
      /\ \A k \in Int : At(s, k) = NULL <=> k \notin 1..Len(s)
      /\ \A k \in 1..Len(s) : At(s, k) = s[k] /\ s[k] \in Iter
                              /\ s[k] # NULL /\ s[k] \in ToSet(s)
      /\ \A j, k \in 1..Len(s) : s[j] = s[k] => j = k
      /\ Len(s) \in Nat /\ p \in Nat /\ p - 1 \in Nat
  BY AtFacts
<1>3. a \in Pointer /\ b \in Pointer /\ a # i /\ b # i /\ i \in Pointer
  BY <1>2, CCListAssumption DEF Pointer, At
<1>4. /\ r \in Seq(Iter) /\ Len(r) = Len(s) + 1
      /\ \A j \in 1..(Len(s) + 1) :
           r[j] = IF j < p THEN s[j] ELSE IF j = p THEN i ELSE s[j - 1]
  BY InsertIter DEF Inserted
<1>5. /\ g.next = Set([h.next EXCEPT ![i] = b], a, i)
      /\ g.prev = Set([h.prev EXCEPT ![i] = a], b, i)
      /\ g.head = IF a = NULL THEN [h.head EXCEPT ![l] = i] ELSE h.head
      /\ g.tail = IF b = NULL THEN [h.tail EXCEPT ![l] = i] ELSE h.tail
      /\ g.size = [h.size EXCEPT ![l] = @ + 1]
  BY DEF IterAdd
<1> HIDE DEF g, r
<1>6. /\ g.next \in [Iter -> Pointer]
      /\ \A x \in Iter : g.next[x] = IF x = a THEN i
                                     ELSE IF x = i THEN b ELSE h.next[x]
  <2> DEFINE f == [h.next EXCEPT ![i] = b]
  <2>1. IsField(f) /\ \A x \in Iter : f[x] = IF x = i THEN b ELSE h.next[x]
    BY <1>1, <1>3 DEF IsField
  <2> HIDE DEF f
  <2>2. Written(f, a, i, Set(f, a, i))
    BY <1>3, <2>1, SetWrites
  <2>3. g.next = Set(f, a, i)
    BY <1>5 DEF f
  <2> HIDE DEF a, b
  <2> QED
    BY <2>1, <2>2, <2>3 DEF Written
<1>7. /\ g.prev \in [Iter -> Pointer]
      /\ \A x \in Iter : g.prev[x] = IF x = b THEN i
                                     ELSE IF x = i THEN a ELSE h.prev[x]
  <2> DEFINE f == [h.prev EXCEPT ![i] = a]
  <2>1. IsField(f) /\ \A x \in Iter : f[x] = IF x = i THEN a ELSE h.prev[x]
    BY <1>1, <1>3 DEF IsField
  <2> HIDE DEF f
  <2>2. Written(f, b, i, Set(f, b, i))
    BY <1>3, <2>1, SetWrites
  <2>3. g.prev = Set(f, b, i)
    BY <1>5 DEF f
  <2> HIDE DEF a, b
  <2> QED
    BY <2>1, <2>2, <2>3 DEF Written
<1>8. /\ g.head \in [List -> Pointer] /\ g.tail \in [List -> Pointer]
      /\ g.size \in [List -> Nat]
      /\ g.head[l] = IF a = NULL THEN i ELSE h.head[l]
      /\ g.tail[l] = IF b = NULL THEN i ELSE h.tail[l]
      /\ g.size[l] = Len(s) + 1
      /\ \A m \in List \ {l} : /\ g.size[m] = h.size[m]
                               /\ g.head[m] = h.head[m]
                               /\ g.tail[m] = h.tail[m]
  <2> HIDE DEF a, b
  <2>1. h.size[l] = Len(s)
    BY DEF Chain
  <2> QED
    BY <1>1, <1>2, <1>3, <1>5, <2>1
<1>9. \A j \in 0..(Len(s) + 2) :
        At(r, j) = IF j < p THEN At(s, j) ELSE IF j = p THEN i ELSE At(s, j - 1)
  BY <1>2, <1>4 DEF At
<1>10. /\ h.head[l] = At(s, 1) /\ h.tail[l] = At(s, Len(s))
       /\ \A k \in 1..Len(s) :
            h.prev[s[k]] = At(s, k - 1) /\ h.next[s[k]] = At(s, k + 1)
  BY DEF Chain
<1>11. g.head[l] = At(r, 1) /\ g.tail[l] = At(r, Len(r))
  BY <1>2, <1>4, <1>8, <1>9, <1>10
<1>12. ASSUME NEW k \in 1..Len(r)
       PROVE  g.prev[r[k]] = At(r, k - 1) /\ g.next[r[k]] = At(r, k + 1)
  <2>1. CASE k < p
    <3>1. k \in 1..Len(s) /\ r[k] = s[k] /\ s[k] \in Iter /\ s[k] # i
      BY <1>2, <1>4, <2>1
    <3>2. At(r, k - 1) = At(s, k - 1)
      BY <1>2, <1>9, <2>1, <3>1
    <3>3. s[k] # b
      BY <1>2, <2>1, <3>1
    <3>4. g.prev[r[k]] = At(r, k - 1)
      BY <1>7, <1>10, <3>1, <3>2, <3>3
    <3>5. s[k] = a <=> k = p - 1
      BY <1>2, <2>1, <3>1
    <3>6. At(r, k + 1) = IF k = p - 1 THEN i ELSE At(s, k + 1)
      BY <1>2, <1>9, <2>1, <3>1
    <3>7. g.next[r[k]] = At(r, k + 1)
      BY <1>6, <1>10, <3>1, <3>5, <3>6
    <3> QED
      BY <3>4, <3>7
  <2>2. CASE k = p
    <3>1. r[k] = i
      BY <1>4, <2>2
    <3>2. g.prev[i] = a /\ g.next[i] = b
      BY <1>3, <1>6, <1>7
    <3>3. At(r, k - 1) = At(s, p - 1) /\ At(r, k + 1) = At(s, p)
      BY <1>2, <1>9, <2>2
    <3> QED
      BY <3>1, <3>2, <3>3
  <2>3. CASE k > p
    <3>1. /\ k - 1 \in 1..Len(s) /\ r[k] = s[k - 1]
          /\ s[k - 1] \in Iter /\ s[k - 1] # i
      BY <1>2, <1>4, <2>3
    <3>2. At(r, k + 1) = At(s, k)
      BY <1>2, <1>4, <1>9, <2>3
    <3>3. s[k - 1] # a
      BY <1>2, <2>3, <3>1
    <3>4. h.next[s[k - 1]] = At(s, k)
      <4>1. (k - 1) + 1 = k
        OBVIOUS
      <4> QED
        BY <1>10, <3>1, <4>1
    <3>5. g.next[r[k]] = At(r, k + 1)
      BY <1>6, <3>1, <3>2, <3>3, <3>4
    <3>6. s[k - 1] = b <=> k - 1 = p
      BY <1>2, <2>3, <3>1
    <3>7. At(r, k - 1) = IF k - 1 = p THEN i ELSE At(s, k - 2)
      BY <1>2, <1>4, <1>9, <2>3
    <3>8. h.prev[s[k - 1]] = At(s, k - 2)
      <4>1. (k - 1) - 1 = k - 2
        OBVIOUS
      <4> QED
        BY <1>10, <3>1, <4>1
    <3>9. g.prev[r[k]] = At(r, k - 1)
      BY <1>7, <3>1, <3>6, <3>7, <3>8
    <3> QED
      BY <3>5, <3>9
  <2> QED
    BY <1>2, <1>4, <2>1, <2>2, <2>3
<1>13. Chain(g, l, r)
  BY <1>4, <1>8, <1>11, <1>12 DEF Chain
<1>14. \A x \in Iter : x \notin ToSet(s) /\ x # i =>
         g.prev[x] = h.prev[x] /\ g.next[x] = h.next[x]
  <2>1. \A x \in Iter : x \notin ToSet(s) => x # a /\ x # b
    BY <1>2, CCListAssumption DEF At
  <2> QED
    BY <1>6, <1>7, <2>1
<1>15. AreLinks(g)
  BY <1>6, <1>7, <1>8 DEF AreLinks
<1> QED
  BY <1>8, <1>13, <1>14, <1>15 DEF g, r

\* cc_listIter_remove is a removal.
LEMMA IterRemoveChain ==
  ASSUME NEW h, AreLinks(h), NEW l \in List, NEW s \in Seq(Iter),
         IsInjective(s), Chain(h, l, s), NEW c \in 1..Len(s)
  PROVE  LET g == IterRemove(h, s[c], l)
         IN  /\ AreLinks(g)
             /\ Chain(g, l, RemoveAt(s, c))
             /\ \A m \in List \ {l} : /\ g.size[m] = h.size[m]
                                      /\ g.head[m] = h.head[m]
                                      /\ g.tail[m] = h.tail[m]
             /\ \A x \in Iter : x \notin ToSet(s) =>
                  g.prev[x] = h.prev[x] /\ g.next[x] = h.next[x]
<1> DEFINE i == s[c]
           a == h.prev[i]
           b == h.next[i]
           g == IterRemove(h, i, l)
           r == RemoveAt(s, c)
<1>1. /\ h.next \in [Iter -> Pointer] /\ h.prev \in [Iter -> Pointer]
      /\ h.head \in [List -> Pointer] /\ h.tail \in [List -> Pointer]
      /\ h.size \in [List -> Nat]
  BY DEF AreLinks
<1>2. /\ \A k \in Int : At(s, k) \in Pointer
      /\ \A k \in Int : At(s, k) = NULL <=> k \notin 1..Len(s)
      /\ \A k \in 1..Len(s) : At(s, k) = s[k] /\ s[k] \in Iter
                              /\ s[k] # NULL /\ s[k] \in ToSet(s)
      /\ \A j, k \in 1..Len(s) : s[j] = s[k] => j = k
      /\ Len(s) \in Nat /\ c \in Nat
  BY AtFacts
<1>3. /\ h.size[l] = Len(s) /\ h.head[l] = At(s, 1)
      /\ h.tail[l] = At(s, Len(s))
      /\ \A k \in 1..Len(s) :
           h.prev[s[k]] = At(s, k - 1) /\ h.next[s[k]] = At(s, k + 1)
  BY DEF Chain
<1>4. /\ i \in Iter /\ a = At(s, c - 1) /\ b = At(s, c + 1)
      /\ a \in Pointer /\ b \in Pointer /\ NULL \in Pointer
  BY <1>2, <1>3 DEF Pointer
<1>5. /\ r \in Seq(Iter) /\ Len(r) = Len(s) - 1
      /\ \A j \in 1..(Len(s) - 1) : r[j] = IF j < c THEN s[j] ELSE s[j + 1]
  BY RemoveIterAt DEF Removed
<1>6. /\ g.next = [Set(h.next, a, b) EXCEPT ![i] = NULL]
      /\ g.prev = [Set(h.prev, b, a) EXCEPT ![i] = NULL]
      /\ g.head = IF h.head[l] = i THEN [h.head EXCEPT ![l] = b] ELSE h.head
      /\ g.tail = IF h.tail[l] = i THEN [h.tail EXCEPT ![l] = a] ELSE h.tail
      /\ g.size = [h.size EXCEPT ![l] = @ - 1]
  BY DEF IterRemove
<1> HIDE DEF g, r, i, a, b
<1>7. /\ g.next \in [Iter -> Pointer]
      /\ \A x \in Iter : g.next[x] = IF x = i THEN NULL
                                     ELSE IF x = a THEN b ELSE h.next[x]
  <2> DEFINE f == Set(h.next, a, b)
  <2>1. Written(h.next, a, b, f)
    <3>1. IsField(h.next)
      BY <1>1 DEF IsField
    <3> QED
      BY <1>4, <3>1, SetWrites
  <2> HIDE DEF f
  <2>2. g.next = [f EXCEPT ![i] = NULL]
    BY <1>6 DEF f
  <2> QED
    BY <1>4, <2>1, <2>2 DEF Written
<1>8. /\ g.prev \in [Iter -> Pointer]
      /\ \A x \in Iter : g.prev[x] = IF x = i THEN NULL
                                     ELSE IF x = b THEN a ELSE h.prev[x]
  <2> DEFINE f == Set(h.prev, b, a)
  <2>1. Written(h.prev, b, a, f)
    <3>1. IsField(h.prev)
      BY <1>1 DEF IsField
    <3> QED
      BY <1>4, <3>1, SetWrites
  <2> HIDE DEF f
  <2>2. g.prev = [f EXCEPT ![i] = NULL]
    BY <1>6 DEF f
  <2> QED
    BY <1>4, <2>1, <2>2 DEF Written
<1>9. /\ g.head \in [List -> Pointer] /\ g.tail \in [List -> Pointer]
      /\ g.size \in [List -> Nat]
      /\ g.head[l] = IF h.head[l] = i THEN b ELSE h.head[l]
      /\ g.tail[l] = IF h.tail[l] = i THEN a ELSE h.tail[l]
      /\ g.size[l] = Len(s) - 1
      /\ \A m \in List \ {l} : /\ g.size[m] = h.size[m]
                               /\ g.head[m] = h.head[m]
                               /\ g.tail[m] = h.tail[m]
  <2>1. h.size[l] - 1 \in Nat /\ h.size[l] = Len(s)
    BY <1>2, <1>3
  <2> QED
    BY <1>1, <1>4, <1>6, <2>1
<1>10. \A j \in 0..Len(s) :
         At(r, j) = IF j < c THEN At(s, j) ELSE At(s, j + 1)
  BY <1>2, <1>5 DEF At
<1>11. \A k \in 1..Len(s) : s[k] = i <=> k = c
  BY <1>2 DEF i
<1>12. g.head[l] = At(r, 1) /\ g.tail[l] = At(r, Len(r))
  <2>1. At(r, 1) = IF 1 < c THEN At(s, 1) ELSE At(s, 2)
    BY <1>2, <1>10
  <2>2. At(s, 1) = i <=> c = 1
    BY <1>2, <1>11
  <2>3. g.head[l] = At(r, 1)
    BY <1>2, <1>3, <1>4, <1>9, <2>1, <2>2
  <2>4. At(r, Len(r)) = IF Len(s) - 1 < c THEN At(s, Len(s) - 1)
                        ELSE At(s, Len(s))
    BY <1>2, <1>5, <1>10
  <2>5. At(s, Len(s)) = i <=> c = Len(s)
    BY <1>2, <1>11
  <2>6. g.tail[l] = At(r, Len(r))
    BY <1>2, <1>3, <1>4, <1>9, <2>4, <2>5
  <2> QED
    BY <2>3, <2>6
<1>13. ASSUME NEW k \in 1..Len(r)
       PROVE  g.prev[r[k]] = At(r, k - 1) /\ g.next[r[k]] = At(r, k + 1)
  <2> DEFINE d == IF k < c THEN k ELSE k + 1
  <2>1. /\ d \in 1..Len(s) /\ r[k] = s[d] /\ d # c /\ d \in Int
        /\ s[d] \in Iter /\ s[d] # i
    BY <1>2, <1>5, <1>11
  <2>2. /\ s[d] = a <=> d = c - 1
        /\ s[d] = b <=> d = c + 1
    <3> HIDE DEF d
    <3>1. s[d] = a <=> d = c - 1
      BY <1>2, <1>4, <2>1
    <3>2. s[d] = b <=> d = c + 1
      BY <1>2, <1>4, <2>1
    <3> QED
      BY <3>1, <3>2
  <2>3. g.prev[s[d]] = IF d = c + 1 THEN At(s, c - 1) ELSE At(s, d - 1)
    BY <1>3, <1>4, <1>8, <2>1, <2>2
  <2>4. g.next[s[d]] = IF d = c - 1 THEN At(s, c + 1) ELSE At(s, d + 1)
    BY <1>3, <1>4, <1>7, <2>1, <2>2
  <2>5. At(r, k - 1) = IF k - 1 < c THEN At(s, k - 1) ELSE At(s, k)
    BY <1>2, <1>5, <1>10
  <2>6. At(r, k + 1) = IF k + 1 < c THEN At(s, k + 1) ELSE At(s, k + 2)
    BY <1>2, <1>5, <1>10
  <2>7. g.prev[s[d]] = At(r, k - 1)
    BY <1>2, <1>5, <2>3, <2>5
  <2>8. g.next[s[d]] = At(r, k + 1)
    BY <1>2, <1>5, <2>4, <2>6
  <2> QED
    BY <2>1, <2>7, <2>8
<1>14. Chain(g, l, r)
  BY <1>5, <1>9, <1>12, <1>13 DEF Chain
<1>15. \A x \in Iter : x \notin ToSet(s) =>
         g.prev[x] = h.prev[x] /\ g.next[x] = h.next[x]
  <2>1. \A x \in Iter : x \notin ToSet(s) => x # a /\ x # b /\ x # i
    BY <1>2, <1>4, CCListAssumption DEF At, i
  <2> QED
    BY <1>7, <1>8, <2>1
<1>16. AreLinks(g)
  BY <1>7, <1>8, <1>9 DEF AreLinks
<1> QED
  BY <1>9, <1>14, <1>15, <1>16 DEF g, r, i

\* The insertion of an iterator that is in no list.
LEMMA InsertChains ==
  ASSUME NEW h, NEW q, Chains(h, q), NEW l \in List,
         NEW i \in Iter, \A m \in List : i \notin ToSet(q[m]),
         NEW p \in 1..(Len(q[l]) + 1)
  PROVE  Chains(IterAdd(h, i, l, At(q[l], p - 1), At(q[l], p)),
                [q EXCEPT ![l] = InsertAt(q[l], p, i)])
<1> DEFINE s == q[l]
           g == IterAdd(h, i, l, At(s, p - 1), At(s, p))
           r == InsertAt(s, p, i)
<1>1. /\ AreLinks(h) /\ s \in Seq(Iter) /\ IsInjective(s) /\ Chain(h, l, s)
      /\ i \notin ToSet(s)
      /\ q \in [List -> Seq(Iter)]
      /\ \A m \in List \ {l} : ToSet(s) \cap ToSet(q[m]) = {}
  BY DEF Chains, Apart
<1> HIDE DEF s
<1>2. p \in 1..(Len(s) + 1)
  BY DEF s
<1>3. /\ AreLinks(g) /\ Chain(g, l, r)
      /\ \A m \in List \ {l} : /\ g.size[m] = h.size[m]
                               /\ g.head[m] = h.head[m]
                               /\ g.tail[m] = h.tail[m]
      /\ \A x \in Iter : x \notin ToSet(s) /\ x # i =>
           g.prev[x] = h.prev[x] /\ g.next[x] = h.next[x]
  BY <1>1, <1>2, IterAddChain
<1>4. /\ r \in Seq(Iter) /\ IsInjective(r) /\ ToSet(r) = ToSet(s) \cup {i}
  BY <1>1, <1>2, InsertAtProperties
<1> HIDE DEF g, r
<1>5. ASSUME NEW m \in List \ {l}
      PROVE  /\ ToSet(r) \cap ToSet(q[m]) = {}
             /\ \A x \in ToSet(q[m]) :
                  g.prev[x] = h.prev[x] /\ g.next[x] = h.next[x]
  <2>1. ToSet(q[m]) \subseteq Iter /\ i \notin ToSet(q[m])
    BY <1>1 DEF ToSet
  <2> QED
    BY <1>1, <1>3, <1>4, <2>1
<1>6. Chains(g, [q EXCEPT ![l] = r])
  BY <1>3, <1>4, <1>5, ChainsBut
<1> QED
  BY <1>6 DEF g, r, s

\* The removal of what is at position c.
LEMMA RemoveChains ==
  ASSUME NEW h, NEW q, Chains(h, q), NEW l \in List, NEW c \in 1..Len(q[l])
  PROVE  Chains(IterRemove(h, q[l][c], l),
                [q EXCEPT ![l] = RemoveAt(q[l], c)])
<1> DEFINE s == q[l]
           g == IterRemove(h, s[c], l)
           r == RemoveAt(s, c)
<1>1. /\ AreLinks(h) /\ s \in Seq(Iter) /\ IsInjective(s) /\ Chain(h, l, s)
      /\ q \in [List -> Seq(Iter)]
      /\ \A m \in List \ {l} : ToSet(s) \cap ToSet(q[m]) = {}
  BY DEF Chains, Apart
<1> HIDE DEF s
<1>2. c \in 1..Len(s)
  BY DEF s
<1>3. /\ AreLinks(g) /\ Chain(g, l, r)
      /\ \A m \in List \ {l} : /\ g.size[m] = h.size[m]
                               /\ g.head[m] = h.head[m]
                               /\ g.tail[m] = h.tail[m]
      /\ \A x \in Iter : x \notin ToSet(s) =>
           g.prev[x] = h.prev[x] /\ g.next[x] = h.next[x]
  BY <1>1, <1>2, IterRemoveChain
<1>4. /\ r \in Seq(Iter) /\ IsInjective(r) /\ ToSet(r) = ToSet(s) \ {s[c]}
  BY <1>1, <1>2, RemoveAtProperties
<1> HIDE DEF g, r
<1>5. ASSUME NEW m \in List \ {l}
      PROVE  /\ ToSet(r) \cap ToSet(q[m]) = {}
             /\ \A x \in ToSet(q[m]) :
                  g.prev[x] = h.prev[x] /\ g.next[x] = h.next[x]
  <2>1. ToSet(q[m]) \subseteq Iter
    BY <1>1 DEF ToSet
  <2> QED
    BY <1>1, <1>3, <1>4, <2>1
<1>6. Chains(g, [q EXCEPT ![l] = r])
  BY <1>3, <1>4, <1>5, ChainsBut
<1> QED
  BY <1>6 DEF g, r, s

-----------------------------------------------------------------------------
(* cc_listIter_move. *)

(* Between neighbours of what is left, it is a removal and an insertion: the
   "else if" of the code makes no difference in a list of two or more. *)
LEMMA MoveIsTwoSteps ==
  ASSUME NEW h, AreLinks(h), NEW l \in List, NEW s \in Seq(Iter),
         IsInjective(s), Chain(h, l, s), Len(s) > 1,
         NEW c \in 1..Len(s), NEW p \in Pointer, NEW n \in Pointer,
         ~(p = NULL /\ n = NULL), p # s[c], n # s[c]
  PROVE  IterMove(h, s[c], l, p, n)
           = IterAdd(IterRemove(h, s[c], l), s[c], l, p, n)
<1> DEFINE i == s[c]
           a == h.prev[i]
           b == h.next[i]
           g == IterRemove(h, i, l)
           one == IterMove(h, i, l, p, n)
           two == IterAdd(g, i, l, p, n)
<1>1. /\ h.next \in [Iter -> Pointer] /\ h.prev \in [Iter -> Pointer]
      /\ h.head \in [List -> Pointer] /\ h.tail \in [List -> Pointer]
      /\ h.size \in [List -> Nat] /\ i \in Iter
  BY DEF AreLinks
<1>2. ~(h.head[l] = i /\ h.tail[l] = i)
  <2>1. /\ h.head[l] = s[1] /\ h.tail[l] = s[Len(s)]
        /\ 1 \in 1..Len(s) /\ Len(s) \in 1..Len(s) /\ Len(s) # 1
    BY DEF Chain, At
  <2>2. s[1] # s[Len(s)]
    BY <2>1, AtFacts
  <2> QED
    BY <2>1, <2>2
<1>3. /\ g.next = [Set(h.next, a, b) EXCEPT ![i] = NULL]
      /\ g.prev = [Set(h.prev, b, a) EXCEPT ![i] = NULL]
      /\ g.head = IF h.head[l] = i THEN [h.head EXCEPT ![l] = b] ELSE h.head
      /\ g.tail = IF h.tail[l] = i THEN [h.tail EXCEPT ![l] = a] ELSE h.tail
      /\ g.size = [h.size EXCEPT ![l] = @ - 1]
  BY DEF IterRemove
<1>4. two = [next |-> Set([g.next EXCEPT ![i] = n], p, i),
             prev |-> Set([g.prev EXCEPT ![i] = p], n, i),
             head |-> IF p = NULL THEN [g.head EXCEPT ![l] = i] ELSE g.head,
             tail |-> IF n = NULL THEN [g.tail EXCEPT ![l] = i] ELSE g.tail,
             size |-> [g.size EXCEPT ![l] = @ + 1]]
  BY DEF IterAdd
<1> DEFINE head1 == IF h.head[l] = i THEN b ELSE h.head[l]
           tail1 == IF h.head[l] # i /\ h.tail[l] = i THEN a ELSE h.tail[l]
<1>5. one = [next |-> Set([Set(h.next, a, b) EXCEPT ![i] = n], p, i),
             prev |-> Set([Set(h.prev, b, a) EXCEPT ![i] = p], n, i),
             head |-> [h.head EXCEPT ![l] = IF p = NULL THEN i ELSE head1],
             tail |-> [h.tail EXCEPT ![l] = IF p # NULL /\ n = NULL THEN i
                                            ELSE tail1],
             size |-> h.size]
  BY DEF IterMove
<1> HIDE DEF one, two, g
<1>6. [g.next EXCEPT ![i] = n] = [Set(h.next, a, b) EXCEPT ![i] = n]
  <2> DEFINE f == Set(h.next, a, b)
  <2>1. f = Set(h.next, a, b)
    OBVIOUS
  <2> HIDE DEF f, i
  <2>2. [[f EXCEPT ![i] = NULL] EXCEPT ![i] = n] = [f EXCEPT ![i] = n]
    OBVIOUS
  <2> QED
    BY <1>3, <2>1, <2>2
<1>7. [g.prev EXCEPT ![i] = p] = [Set(h.prev, b, a) EXCEPT ![i] = p]
  <2> DEFINE f == Set(h.prev, b, a)
  <2>1. f = Set(h.prev, b, a)
    OBVIOUS
  <2> HIDE DEF f, i
  <2>2. [[f EXCEPT ![i] = NULL] EXCEPT ![i] = p] = [f EXCEPT ![i] = p]
    OBVIOUS
  <2> QED
    BY <1>3, <2>1, <2>2
<1> HIDE DEF a, b, i
<1>8. (IF p = NULL THEN [g.head EXCEPT ![l] = i] ELSE g.head)
        = [h.head EXCEPT ![l] = IF p = NULL THEN i ELSE head1]
  BY <1>1, <1>3
<1>9. (IF n = NULL THEN [g.tail EXCEPT ![l] = i] ELSE g.tail)
        = [h.tail EXCEPT ![l] = IF p # NULL /\ n = NULL THEN i ELSE tail1]
  <2>1. n = NULL => p # NULL
    OBVIOUS
  <2>2. h.tail[l] = i => h.head[l] # i
    BY <1>2
  <2> QED
    BY <1>1, <1>3, <2>1, <2>2
<1>10. [g.size EXCEPT ![l] = @ + 1] = h.size
  BY <1>1, <1>3
<1>11. one = two
  BY <1>4, <1>5, <1>6, <1>7, <1>8, <1>9, <1>10
<1> QED
  BY <1>11 DEF one, two, g, i

\* So it moves what is at c to position j of the rest.
LEMMA MoveChains ==
  ASSUME NEW h, NEW q, Chains(h, q), NEW l \in List,
         NEW c \in 1..Len(q[l]), NEW j \in 1..Len(q[l]), Len(q[l]) > 1
  PROVE  LET r == RemoveAt(q[l], c)
         IN  Chains(IterMove(h, q[l][c], l, At(r, j - 1), At(r, j)),
                    [q EXCEPT ![l] = Move(q[l], c, j)])
<1> DEFINE s == q[l]
           i == s[c]
           r == RemoveAt(s, c)
           p == At(r, j - 1)
           n == At(r, j)
           q1 == [q EXCEPT ![l] = r]
           g == IterRemove(h, i, l)
<1>1. /\ AreLinks(h) /\ s \in Seq(Iter) /\ IsInjective(s) /\ Chain(h, l, s)
      /\ q \in [List -> Seq(Iter)]
      /\ \A m \in List \ {l} : ToSet(s) \cap ToSet(q[m]) = {}
  BY DEF Chains, Apart
<1>2. Chains(g, q1)
  BY RemoveChains
<1> HIDE DEF s
<1>3. c \in 1..Len(s) /\ j \in 1..Len(s) /\ Len(s) > 1 /\ Len(s) \in Nat
  BY <1>1 DEF s
<1>4. i \in Iter /\ i \in ToSet(s)
  BY <1>1, <1>3, AtFacts
<1>5. /\ r \in Seq(Iter) /\ Len(r) = Len(s) - 1 /\ ToSet(r) = ToSet(s) \ {i}
  BY <1>1, <1>3, RemoveAtProperties
<1> HIDE DEF r, i, g, q1
<1>6. q1 \in [List -> Seq(Iter)] /\ q1[l] = r
      /\ \A m \in List \ {l} : q1[m] = q[m]
  BY <1>1, <1>5 DEF q1
<1>7. \A m \in List : i \notin ToSet(q1[m])
  BY <1>1, <1>4, <1>5, <1>6
<1>8. j \in 1..(Len(q1[l]) + 1)
  BY <1>3, <1>5, <1>6
<1>9. Chains(IterAdd(g, i, l, At(q1[l], j - 1), At(q1[l], j)),
             [q1 EXCEPT ![l] = InsertAt(q1[l], j, i)])
  BY <1>2, <1>4, <1>7, <1>8, InsertChains
<1>10. [q1 EXCEPT ![l] = InsertAt(r, j, i)] = [q EXCEPT ![l] = InsertAt(r, j, i)]
  BY <1>1 DEF q1
<1>11. /\ p \in Pointer /\ n \in Pointer /\ ~(p = NULL /\ n = NULL)
       /\ p # i /\ n # i
  <2>1. /\ \A k \in Int : At(r, k) \in Pointer
        /\ \A k \in Int : At(r, k) = NULL <=> k \notin 1..Len(r)
        /\ \A k \in 1..Len(r) : At(r, k) \in ToSet(r)
    <3>1. r \in Seq(Iter)
      BY <1>5
    <3>2. \A k \in Int : At(r, k) \in Pointer
      BY <3>1, AtFacts
    <3>3. \A k \in Int : At(r, k) = NULL <=> k \notin 1..Len(r)
      BY <3>1, AtFacts
    <3>4. \A k \in 1..Len(r) : At(r, k) = r[k] /\ r[k] \in ToSet(r)
      BY <3>1, AtFacts
    <3> QED
      BY <3>2, <3>3, <3>4
  <2>2. i # NULL
    BY <1>4, CCListAssumption
  <2>3. ~(p = NULL /\ n = NULL)
    BY <1>3, <1>5, <2>1
  <2>4. \A k \in Int : At(r, k) # i
    BY <1>5, <2>1, <2>2
  <2> QED
    BY <1>3, <2>1, <2>3, <2>4
<1> HIDE DEF p, n
<1>12. IterMove(h, i, l, p, n) = IterAdd(g, i, l, p, n)
  BY <1>1, <1>3, <1>11, MoveIsTwoSteps DEF i, g
<1>13. Move(s, c, j) = InsertAt(r, j, i)
  BY DEF Move, r, i
<1>14. Chains(IterMove(h, i, l, p, n), [q EXCEPT ![l] = Move(s, c, j)])
  BY <1>6, <1>9, <1>10, <1>12, <1>13 DEF p, n
<1> QED
  BY <1>14 DEF i, p, n, r, s

\* The neighbours in front of and behind an iterator, once another is out.
LEMMA NeighboursOf ==
  ASSUME NEW s \in Seq(Iter), IsInjective(s),
         NEW c \in 1..Len(s), NEW d \in 1..Len(s), c # d
  PROVE  LET r == RemoveAt(s, c)
             before == IF d < c THEN d ELSE d - 1
             behind == IF d < c THEN d + 1 ELSE d
         IN  /\ before \in 1..Len(s) /\ behind \in 1..Len(s)
             /\ At(r, before) = s[d] /\ At(r, behind - 1) = s[d]
             /\ s[c] # At(s, d - 1) => At(r, before - 1) = At(s, d - 1)
             /\ s[c] # At(s, d + 1) => At(r, behind) = At(s, d + 1)
<1> DEFINE r == RemoveAt(s, c)
           before == IF d < c THEN d ELSE d - 1
           behind == IF d < c THEN d + 1 ELSE d
<1>1. /\ r \in Seq(Iter) /\ Len(r) = Len(s) - 1
      /\ \A j \in 1..(Len(s) - 1) : r[j] = IF j < c THEN s[j] ELSE s[j + 1]
  BY RemoveIterAt DEF Removed
<1> HIDE DEF r
<1>2. Len(s) \in Nat /\ c \in Nat /\ d \in Nat
  OBVIOUS
<1>3. \A j \in 0..Len(s) :
        At(r, j) = IF j < c THEN At(s, j) ELSE At(s, j + 1)
  BY <1>1, <1>2 DEF At
<1>4. At(s, d) = s[d] /\ At(s, c) = s[c]
  BY DEF At
<1>5. /\ before \in 1..Len(s) /\ behind \in 1..Len(s)
      /\ At(r, before) = s[d] /\ At(r, behind - 1) = s[d]
  BY <1>2, <1>3, <1>4
<1>6. s[c] # At(s, d - 1) => At(r, before - 1) = At(s, d - 1)
  BY <1>2, <1>3, <1>4
<1>7. s[c] # At(s, d + 1) => At(r, behind) = At(s, d + 1)
  BY <1>2, <1>3, <1>4
<1> QED
  BY <1>5, <1>6, <1>7 DEF r

\* cc_list_move and cc_list_moven of what is at c to what is at d.
Moved(h, q, l, c, d, g) ==
  /\ c \in 1..Len(q[l]) /\ d \in 1..Len(q[l])
  /\ \/ g = MovedBefore(h, l, q[l][c], q[l][d])
     \/ g = MovedAfter(h, l, q[l][c], q[l][d])

LEMMA MovedChains ==
  ASSUME NEW h, NEW q, Chains(h, q), NEW l \in List,
         NEW c, NEW d, NEW g, Moved(h, q, l, c, d, g)
  PROVE  \/ g = h
         \/ \E j \in 1..Len(q[l]) :
              Chains(g, [q EXCEPT ![l] = Move(q[l], c, j)])
<1> DEFINE s == q[l]
           r == RemoveAt(s, c)
           before == IF d < c THEN d ELSE d - 1
           behind == IF d < c THEN d + 1 ELSE d
<1>0. /\ c \in 1..Len(q[l]) /\ d \in 1..Len(q[l])
      /\ \/ g = MovedBefore(h, l, s[c], s[d])
         \/ g = MovedAfter(h, l, s[c], s[d])
  BY DEF Moved
<1>1. s \in Seq(Iter) /\ IsInjective(s) /\ Chain(h, l, s)
  BY DEF Chains, Apart
<1>2. CASE c = d
  BY <1>0, <1>2 DEF MovedBefore, MovedAfter
<1>3. CASE c # d
  <2> HIDE DEF s
  <2>1. /\ c \in 1..Len(s) /\ d \in 1..Len(s) /\ Len(s) > 1
        /\ s[c] # s[d]
    <3>1. c \in 1..Len(s) /\ d \in 1..Len(s)
      BY <1>0 DEF s
    <3> QED
      BY <1>1, <1>3, <3>1, AtFacts
  <2>2. h.prev[s[d]] = At(s, d - 1) /\ h.next[s[d]] = At(s, d + 1)
    BY <1>1, <2>1 DEF Chain
  <2>3. /\ before \in 1..Len(s) /\ behind \in 1..Len(s)
        /\ At(r, before) = s[d] /\ At(r, behind - 1) = s[d]
        /\ s[c] # At(s, d - 1) => At(r, before - 1) = At(s, d - 1)
        /\ s[c] # At(s, d + 1) => At(r, behind) = At(s, d + 1)
    BY <1>1, <1>3, <2>1, NeighboursOf
  <2> HIDE DEF r, before, behind
  <2>4. \A j \in 1..Len(s) :
          Chains(IterMove(h, s[c], l, At(r, j - 1), At(r, j)),
                 [q EXCEPT ![l] = Move(s, c, j)])
    BY <2>1, MoveChains DEF s, r
  <2>5. CASE g = MovedBefore(h, l, s[c], s[d]) /\ g # h
    <3>1. /\ g = IterMove(h, s[c], l, At(s, d - 1), s[d])
          /\ s[c] # At(s, d - 1)
      BY <2>2, <2>5 DEF MovedBefore
    <3>2. Chains(g, [q EXCEPT ![l] = Move(s, c, before)])
      BY <2>3, <2>4, <3>1
    <3> QED
      BY <2>3, <3>2 DEF s
  <2>6. CASE g = MovedAfter(h, l, s[c], s[d]) /\ g # h
    <3>1. /\ g = IterMove(h, s[c], l, s[d], At(s, d + 1))
          /\ s[c] # At(s, d + 1)
      BY <2>2, <2>6 DEF MovedAfter
    <3>2. Chains(g, [q EXCEPT ![l] = Move(s, c, behind)])
      BY <2>3, <2>4, <3>1
    <3> QED
      BY <2>3, <3>2 DEF s
  <2> QED
    BY <1>0, <2>5, <2>6 DEF s
<1> QED
  BY <1>2, <1>3

-----------------------------------------------------------------------------
(* What Linked reads. *)

\* Linked, of the values it reads.
Reading(nexts, first, n) ==
  LET at[k \in 1..n] ==
        IF k = 1 THEN first
        ELSE IF at[k - 1] \in Iter THEN nexts[at[k - 1]] ELSE NULL
  IN  at

ReadStep(nexts, first, at, k) ==
  IF k = 1 THEN first
  ELSE IF at[k - 1] \in Iter THEN nexts[at[k - 1]] ELSE NULL

Follows(nexts, first, n, at) ==
  at = [k \in 1..n |-> ReadStep(nexts, first, at, k)]

\* The walk from the head of a chain finds the sequence.
LEMMA ReadOff ==
  ASSUME NEW h, NEW l, NEW s \in Seq(Iter), Chain(h, l, s)
  PROVE  Reading(h.next, h.head[l], h.size[l]) = s
<1> DEFINE n == Len(s)
           first == h.head[l]
           nexts == h.next
           at == Reading(nexts, first, n)
<1>1. /\ n \in Nat /\ DOMAIN s = 1..n /\ \A k \in 1..n : s[k] \in Iter
      /\ s = [k \in 1..n |-> s[k]]
      /\ h.size[l] = n
  BY DEF Chain
<1>2. ASSUME NEW k \in 1..n
      PROVE  ReadStep(nexts, first, s, k) = s[k]
  <2>1. CASE k = 1
    <3>1. first = s[1]
      BY <1>1, <2>1 DEF Chain, At
    <3> HIDE DEF first, nexts
    <3> QED
      BY <2>1, <3>1 DEF ReadStep
  <2>2. CASE k # 1
    <3>1. k - 1 \in 1..n /\ (k - 1) + 1 = k
      BY <1>1, <2>2
    <3>2. nexts[s[k - 1]] = At(s, (k - 1) + 1)
      BY <3>1 DEF Chain
    <3>3. nexts[s[k - 1]] = s[k] /\ s[k - 1] \in Iter
      BY <1>1, <3>1, <3>2 DEF At
    <3> HIDE DEF first, nexts
    <3> QED
      BY <2>2, <3>3 DEF ReadStep
  <2> QED
    BY <2>1, <2>2
<1> HIDE DEF n, first, nexts
<1>3. Follows(nexts, first, n, s)
  <2>1. [k \in 1..n |-> ReadStep(nexts, first, s, k)] = [k \in 1..n |-> s[k]]
    BY <1>2
  <2> QED
    BY <1>1, <2>1 DEF Follows
<1>4. Follows(nexts, first, n, at)
  <2>1. \E g : g = [k \in 1..n |->
                      IF k = 1 THEN first
                      ELSE IF g[k - 1] \in Iter THEN nexts[g[k - 1]] ELSE NULL]
    BY <1>3, Zenon DEF Follows, ReadStep
  <2>2. at = [k \in 1..n |->
                IF k = 1 THEN first
                ELSE IF at[k - 1] \in Iter THEN nexts[at[k - 1]] ELSE NULL]
    BY <2>1, Zenon DEF Reading
  <2> HIDE DEF at
  <2> QED
    BY <2>2, Zenon DEF Follows, ReadStep
<1> HIDE DEF at
<1>5. \A k \in 1..n : at[k] = ReadStep(nexts, first, at, k)
  BY <1>4, Zenon DEF Follows
<1> DEFINE D == {k \in 0..n : k = 0 \/ at[k] = s[k]}
<1>6. 0 \in D
  BY <1>1
<1>7. ASSUME NEW k \in 0..(n - 1), k \in D
      PROVE  k + 1 \in D
  <2>1. k + 1 \in 1..n /\ k + 1 \in 0..n /\ (k + 1) - 1 = k
    BY <1>1
  <2>2. ReadStep(nexts, first, at, k + 1) = ReadStep(nexts, first, s, k + 1)
    <3>1. CASE k = 0
      BY <3>1 DEF ReadStep
    <3>2. CASE k # 0
      <4>1. at[k] = s[k] /\ k + 1 # 1
        BY <1>1, <1>7, <3>2
      <4> QED
        BY <2>1, <4>1 DEF ReadStep
    <3> QED
      BY <3>1, <3>2
  <2>3. at[k + 1] = s[k + 1]
    BY <1>2, <1>5, <2>1, <2>2
  <2> QED
    BY <2>1, <2>3
<1>8. 0..n \subseteq D
  <2> HIDE DEF D
  <2> QED
    BY <1>1, <1>6, <1>7, InductionUpTo
<1>9. \A k \in 1..n : at[k] = s[k]
  BY <1>1, <1>8
<1>10. at = [k \in 1..n |-> at[k]]
  <2>1. at = [k \in 1..n |-> ReadStep(nexts, first, at, k)]
    BY <1>4 DEF Follows
  <2> QED
    BY <1>5, <2>1
<1>11. at = s
  BY <1>1, <1>9, <1>10
<1> QED
  BY <1>1, <1>11 DEF at, n, first, nexts

\* The sequences the lists read as.
Read == [l \in List |-> Linked(l)]

LEMMA ChainsRead ==
  ASSUME NEW q, Chains(Links, q)
  PROVE  q = Read
<1>1. q \in [List -> Seq(Iter)]
  BY DEF Chains, Apart
<1>2. ASSUME NEW l \in List
      PROVE  Linked(l) = q[l]
  <2>1. Chain(Links, l, q[l]) /\ q[l] \in Seq(Iter)
    BY <1>1 DEF Chains
  <2>2. Reading(Links.next, Links.head[l], Links.size[l]) = q[l]
    BY <2>1, ReadOff
  <2>3. Links.next = next /\ Links.head = head /\ Links.size = size
    BY DEF Links
  <2> QED
    BY <2>2, <2>3 DEF Linked, Reading
<1> QED
  BY <1>1, <1>2 DEF Read

LEMMA ChainsReadNext ==
  ASSUME NEW q, Chains(Links', q)
  PROVE  q = Read'
<1>1. q \in [List -> Seq(Iter)]
  BY DEF Chains, Apart
<1>2. ASSUME NEW l \in List
      PROVE  Linked(l)' = q[l]
  <2>1. Chain(Links', l, q[l]) /\ q[l] \in Seq(Iter)
    BY <1>1 DEF Chains
  <2> DEFINE h == Links'
  <2>2. h.next = next' /\ h.head = head' /\ h.size = size'
    BY DEF Links
  <2> HIDE DEF h
  <2>3. Reading(h.next, h.head[l], h.size[l]) = q[l]
    BY <2>1, ReadOff DEF h
  <2> QED
    BY <2>2, <2>3 DEF Linked, Reading
<1> QED
  BY <1>1, <1>2 DEF Read

-----------------------------------------------------------------------------
(* Where an iterator can be put, and cc_list_swap. *)

\* p and n are neighbours in s, or NULL at an end of it.
Neighbours(s, j, p, n) ==
  j \in 1..(Len(s) + 1) /\ p = At(s, j - 1) /\ n = At(s, j)

Place(s, p, n) == \E j \in 1..(Len(s) + 1) : Neighbours(s, j, p, n)

\* In front of the head or of a member, behind the tail or a member.
LEMMA Places ==
  ASSUME NEW h, NEW l, NEW s \in Seq(Iter), Chain(h, l, s)
  PROVE  /\ Place(s, NULL, h.head[l])
         /\ Place(s, h.tail[l], NULL)
         /\ \A x \in ToSet(s) : Place(s, h.prev[x], x) /\ Place(s, x, h.next[x])
<1>1. /\ Len(s) \in Nat /\ DOMAIN s = 1..Len(s)
      /\ At(s, 0) = NULL /\ At(s, Len(s) + 1) = NULL
      /\ \A k \in 1..Len(s) : At(s, k) = s[k]
  BY DEF At
<1>2. Place(s, NULL, h.head[l])
  <2>1. Neighbours(s, 1, NULL, h.head[l])
    BY <1>1 DEF Chain, Neighbours
  <2> QED
    BY <1>1, <2>1 DEF Place
<1>3. Place(s, h.tail[l], NULL)
  <2>1. Neighbours(s, Len(s) + 1, h.tail[l], NULL)
    BY <1>1 DEF Chain, Neighbours
  <2> QED
    BY <1>1, <2>1 DEF Place
<1>4. ASSUME NEW x \in ToSet(s)
      PROVE  Place(s, h.prev[x], x) /\ Place(s, x, h.next[x])
  <2>1. PICK k \in 1..Len(s) : x = s[k]
    BY AtFacts
  <2>2. h.prev[x] = At(s, k - 1) /\ h.next[x] = At(s, k + 1)
    BY <2>1 DEF Chain
  <2>3. Neighbours(s, k, h.prev[x], x)
    BY <1>1, <2>1, <2>2 DEF Neighbours
  <2>4. Neighbours(s, k + 1, x, h.next[x])
    <3>1. k + 1 \in 1..(Len(s) + 1) /\ (k + 1) - 1 = k
      BY <1>1
    <3> QED
      BY <1>1, <2>1, <2>2, <3>1 DEF Neighbours
  <2>5. k \in 1..(Len(s) + 1) /\ k + 1 \in 1..(Len(s) + 1)
    BY <1>1
  <2> QED
    BY <2>3, <2>4, <2>5 DEF Place
<1> QED
  BY <1>2, <1>3, <1>4

\* A new iterator put at a place of the list.
LEMMA AddChains ==
  ASSUME NEW h, NEW q, Chains(h, q), NEW l \in List,
         NEW i \in Iter, \A m \in List : i \notin ToSet(q[m]),
         NEW p, NEW n, Place(q[l], p, n)
  PROVE  \E j \in 1..(Len(q[l]) + 1) :
           Chains(IterAdd(h, i, l, p, n), [q EXCEPT ![l] = InsertAt(q[l], j, i)])
<1>1. PICK j \in 1..(Len(q[l]) + 1) : Neighbours(q[l], j, p, n)
  BY DEF Place
<1>2. Chains(IterAdd(h, i, l, At(q[l], j - 1), At(q[l], j)),
             [q EXCEPT ![l] = InsertAt(q[l], j, i)])
  BY InsertChains
<1> QED
  BY <1>1, <1>2 DEF Neighbours

\* What is at position c of one list, put at a place of another.
Swapped(q, l, m, c, j) ==
  [q EXCEPT ![l] = RemoveAt(q[l], c), ![m] = InsertAt(q[m], j, q[l][c])]

SwapTo(h, l, m, i, to, g) ==
  LET removed == IterRemove(h, i, l)
  IN  \/ g = IterAdd(removed, i, m,
                     IF to = NULL THEN NULL ELSE removed.prev[to],
                     IF to = NULL THEN removed.head[m] ELSE to)
      \/ g = IterAdd(removed, i, m,
                     IF to = NULL THEN removed.tail[m] ELSE to,
                     IF to = NULL THEN NULL ELSE removed.next[to])

LEMMA SwapChains ==
  ASSUME NEW h, NEW q, Chains(h, q), NEW l \in List, NEW m \in List, l # m,
         NEW c \in 1..Len(q[l]), NEW to \in ToSet(q[m]) \cup {NULL},
         NEW g, SwapTo(h, l, m, q[l][c], to, g)
  PROVE  \E j \in 1..(Len(q[m]) + 1) : Chains(g, Swapped(q, l, m, c, j))
<1> DEFINE s == q[l]
           t == q[m]
           i == s[c]
           r == RemoveAt(s, c)
           removed == IterRemove(h, i, l)
           q1 == [q EXCEPT ![l] = r]
<1>1. /\ q \in [List -> Seq(Iter)] /\ s \in Seq(Iter) /\ t \in Seq(Iter)
      /\ IsInjective(s)
      /\ \A k \in List \ {l} : ToSet(s) \cap ToSet(q[k]) = {}
  BY DEF Chains, Apart
<1>2. Chains(removed, q1)
  BY RemoveChains
<1>3. /\ i \in Iter /\ i \in ToSet(s) /\ i \notin ToSet(r)
      /\ r \in Seq(Iter)
  <2> HIDE DEF s
  <2>1. c \in 1..Len(s)
    BY DEF s
  <2>2. i \in Iter /\ i \in ToSet(s)
    BY <1>1, <2>1, AtFacts
  <2>3. r \in Seq(Iter) /\ ToSet(r) = ToSet(s) \ {i}
    BY <1>1, <2>1, RemoveAtProperties
  <2> QED
    BY <2>2, <2>3
<1>4. /\ \A p, n : g = IterAdd(removed, i, m, p, n) /\ Place(t, p, n) =>
           \E j \in 1..(Len(t) + 1) : Chains(g, Swapped(q, l, m, c, j))
  <2> SUFFICES ASSUME NEW p, NEW n, g = IterAdd(removed, i, m, p, n),
                      Place(t, p, n)
               PROVE  \E j \in 1..(Len(t) + 1) :
                        Chains(g, Swapped(q, l, m, c, j))
    OBVIOUS
  <2>1. \A j : [q1 EXCEPT ![m] = InsertAt(t, j, i)] = Swapped(q, l, m, c, j)
    BY <1>1 DEF Swapped
  <2> HIDE DEF i, r, removed, q1
  <2>2. q1[m] = t /\ q1[l] = r /\ \A k \in List \ {l} : q1[k] = q[k]
    BY <1>1 DEF q1
  <2>3. \A k \in List : i \notin ToSet(q1[k])
    BY <1>1, <1>3, <2>2
  <2>4. \E j \in 1..(Len(q1[m]) + 1) :
          Chains(IterAdd(removed, i, m, p, n),
                 [q1 EXCEPT ![m] = InsertAt(q1[m], j, i)])
    <3>1. Place(q1[m], p, n)
      BY <2>2
    <3> QED
      BY <1>2, <1>3, <2>3, <3>1, AddChains
  <2>5. PICK j \in 1..(Len(t) + 1) :
          Chains(IterAdd(removed, i, m, p, n), [q1 EXCEPT ![m] = InsertAt(t, j, i)])
    BY <2>2, <2>4
  <2> QED
    BY <2>1, <2>5
<1>5. /\ Place(t, NULL, removed.head[m])
      /\ Place(t, removed.tail[m], NULL)
      /\ \A x \in ToSet(t) : /\ Place(t, removed.prev[x], x)
                             /\ Place(t, x, removed.next[x])
  <2> HIDE DEF removed, r
  <2>1. q1[m] = t
    BY <1>1
  <2>2. Chain(removed, m, t)
    BY <1>2, <2>1 DEF Chains
  <2> QED
    BY <1>1, <2>2, Places
<1> DEFINE a == IF to = NULL THEN NULL ELSE removed.prev[to]
           b == IF to = NULL THEN removed.head[m] ELSE to
           d == IF to = NULL THEN removed.tail[m] ELSE to
           e == IF to = NULL THEN NULL ELSE removed.next[to]
<1>6. g = IterAdd(removed, i, m, a, b) \/ g = IterAdd(removed, i, m, d, e)
  BY DEF SwapTo
<1> HIDE DEF i, removed, t
<1>7. Place(t, a, b) /\ Place(t, d, e)
  <2>1. to \in ToSet(t) \cup {NULL}
    BY DEF t
  <2> QED
    BY <1>5, <2>1
<1> HIDE DEF a, b, d, e
<1>8. \E j \in 1..(Len(t) + 1) : Chains(g, Swapped(q, l, m, c, j))
  BY <1>4, <1>6, <1>7
<1> QED
  BY <1>8 DEF t

-----------------------------------------------------------------------------
(* cc_list_appendList and cc_list_insertList. *)

\* The positions of two sequences, one behind the other.
LEMMA AtJoined ==
  ASSUME NEW s \in Seq(Iter), NEW t \in Seq(Iter)
  PROVE  /\ s \o t \in Seq(Iter)
         /\ Len(s \o t) = Len(s) + Len(t)
         /\ \A k \in Int : At(s \o t, k) = IF k <= Len(s) THEN At(s, k)
                                           ELSE At(t, k - Len(s))
<1> DEFINE r == s \o t
<1>1. /\ r \in Seq(Iter) /\ Len(r) = Len(s) + Len(t)
      /\ Len(s) \in Nat /\ Len(t) \in Nat
      /\ \A k \in 1..(Len(s) + Len(t)) :
           r[k] = IF k <= Len(s) THEN s[k] ELSE t[k - Len(s)]
  OBVIOUS
<1> HIDE DEF r
<1>2. \A k \in Int : At(r, k) = IF k <= Len(s) THEN At(s, k)
                                ELSE At(t, k - Len(s))
  BY <1>1 DEF At
<1> QED
  BY <1>1, <1>2 DEF r

\* The links of the one list that is left.
JoinedLinks(h, g, a, b, l, m) ==
  /\ g.next = Set(h.next, h.tail[a], h.head[b])
  /\ g.prev = Set(h.prev, h.head[b], h.tail[a])
  /\ g.head = [h.head EXCEPT ![l] = IF h.size[a] = 0 THEN h.head[b] ELSE h.head[a],
                             ![m] = NULL]
  /\ g.tail = [h.tail EXCEPT ![l] = IF h.size[b] = 0 THEN h.tail[a] ELSE h.tail[b],
                             ![m] = NULL]
  /\ g.size = [h.size EXCEPT ![l] = h.size[a] + h.size[b], ![m] = 0]

\* Lists a and b read as s and t, which have no member in common.
TwoChains(h, a, s, b, t) ==
  /\ AreLinks(h) /\ a \in List /\ b \in List
  /\ s \in Seq(Iter) /\ t \in Seq(Iter)
  /\ Chain(h, a, s) /\ Chain(h, b, t) /\ IsInjective(s) /\ IsInjective(t)
  /\ ToSet(s) \cap ToSet(t) = {}

LEMMA JoinedChain ==
  ASSUME NEW h, NEW a, NEW b, NEW s, NEW t, TwoChains(h, a, s, b, t),
         NEW g, NEW l \in List, NEW m \in List, l # m,
         JoinedLinks(h, g, a, b, l, m)
  PROVE  /\ AreLinks(g)
         /\ Chain(g, l, s \o t)
         /\ Chain(g, m, << >>)
         /\ \A x \in Iter : x \notin ToSet(s) /\ x \notin ToSet(t) =>
              g.prev[x] = h.prev[x] /\ g.next[x] = h.next[x]
<1> DEFINE u == h.tail[a]
           v == h.head[b]
           r == s \o t
<1>0. /\ AreLinks(h) /\ a \in List /\ b \in List
      /\ s \in Seq(Iter) /\ t \in Seq(Iter)
      /\ Chain(h, a, s) /\ Chain(h, b, t) /\ IsInjective(s) /\ IsInjective(t)
      /\ ToSet(s) \cap ToSet(t) = {}
  BY DEF TwoChains
<1>1. /\ IsField(h.next) /\ IsField(h.prev)
      /\ h.head \in [List -> Pointer] /\ h.tail \in [List -> Pointer]
      /\ h.size \in [List -> Nat] /\ u \in Pointer /\ v \in Pointer
  BY <1>0 DEF AreLinks, IsField
<1>2. /\ u = At(s, Len(s)) /\ v = At(t, 1)
      /\ h.size[a] = Len(s) /\ h.size[b] = Len(t)
      /\ h.head[a] = At(s, 1) /\ h.tail[b] = At(t, Len(t))
      /\ \A k \in 1..Len(s) :
           h.prev[s[k]] = At(s, k - 1) /\ h.next[s[k]] = At(s, k + 1)
      /\ \A k \in 1..Len(t) :
           h.prev[t[k]] = At(t, k - 1) /\ h.next[t[k]] = At(t, k + 1)
  BY <1>0 DEF Chain
<1> HIDE DEF u, v
<1>3. Written(h.next, u, v, g.next) /\ Written(h.prev, v, u, g.prev)
  <2>1. /\ Written(h.next, u, v, Set(h.next, u, v))
        /\ Written(h.prev, v, u, Set(h.prev, v, u))
    BY <1>1, SetWrites
  <2> QED
    BY <2>1 DEF JoinedLinks, u, v
<1>4. /\ g.next \in [Iter -> Pointer] /\ g.prev \in [Iter -> Pointer]
      /\ \A x \in Iter : g.next[x] = IF x = u THEN v ELSE h.next[x]
      /\ \A x \in Iter : g.prev[x] = IF x = v THEN u ELSE h.prev[x]
  BY <1>3 DEF Written
<1>5. /\ r \in Seq(Iter) /\ Len(r) = Len(s) + Len(t)
      /\ \A k \in Int : At(r, k) = IF k <= Len(s) THEN At(s, k)
                                   ELSE At(t, k - Len(s))
  BY <1>0, AtJoined
<1>6. /\ Len(s) \in Nat /\ Len(t) \in Nat /\ NULL \notin Iter
      /\ \A k \in Int : At(s, k) = NULL <=> k \notin 1..Len(s)
      /\ \A k \in Int : At(t, k) = NULL <=> k \notin 1..Len(t)
      /\ \A k \in 1..Len(s) : At(s, k) = s[k] /\ s[k] \in Iter
                              /\ s[k] # NULL /\ s[k] \in ToSet(s)
      /\ \A k \in 1..Len(t) : At(t, k) = t[k] /\ t[k] \in Iter
                              /\ t[k] # NULL /\ t[k] \in ToSet(t)
      /\ \A j, k \in 1..Len(s) : s[j] = s[k] => j = k
      /\ \A j, k \in 1..Len(t) : t[j] = t[k] => j = k
  BY <1>0, AtFacts, CCListAssumption
<1>7. /\ u \in ToSet(s) \cup {NULL} /\ v \in ToSet(t) \cup {NULL}
      /\ \A k \in 1..Len(s) : s[k] \in Iter /\ s[k] # v
      /\ \A k \in 1..Len(t) : t[k] \in Iter /\ t[k] # u
  <2>1. u \in ToSet(s) \cup {NULL} /\ v \in ToSet(t) \cup {NULL}
    <3>1. Len(s) \in 1..Len(s) \/ Len(s) \notin 1..Len(s)
      OBVIOUS
    <3> QED
      BY <1>2, <1>6, <3>1
  <2>2. ASSUME NEW k \in 1..Len(s) PROVE s[k] \in Iter /\ s[k] # v
    <3>1. s[k] \in ToSet(s) /\ s[k] # NULL /\ s[k] \in Iter
      BY <1>6
    <3> QED
      BY <1>0, <2>1, <3>1
  <2>3. ASSUME NEW k \in 1..Len(t) PROVE t[k] \in Iter /\ t[k] # u
    <3>1. t[k] \in ToSet(t) /\ t[k] # NULL /\ t[k] \in Iter
      BY <1>6
    <3> QED
      BY <1>0, <2>1, <3>1
  <2> QED
    BY <2>1, <2>2, <2>3
<1>8. /\ g.head = [h.head EXCEPT ![l] = IF Len(s) = 0 THEN v ELSE h.head[a],
                                 ![m] = NULL]
      /\ g.tail = [h.tail EXCEPT ![l] = IF Len(t) = 0 THEN u ELSE h.tail[b],
                                 ![m] = NULL]
      /\ g.size = [h.size EXCEPT ![l] = Len(s) + Len(t), ![m] = 0]
  BY <1>2 DEF JoinedLinks, u, v
<1>9. AreLinks(g)
  <2>1. NULL \in Pointer /\ h.head[a] \in Pointer /\ h.tail[b] \in Pointer
    BY <1>0, <1>1 DEF Pointer
  <2> DEFINE x == IF Len(s) = 0 THEN v ELSE h.head[a]
             y == IF Len(t) = 0 THEN u ELSE h.tail[b]
  <2>2. x \in Pointer /\ y \in Pointer
    BY <1>1, <2>1
  <2> HIDE DEF x, y
  <2>4. g.head \in [List -> Pointer]
    <3>1. g.head = [h.head EXCEPT ![l] = x, ![m] = NULL]
      BY <1>8 DEF x
    <3> QED
      BY <1>1, <2>1, <2>2, <3>1
  <2>5. g.tail \in [List -> Pointer]
    <3>1. g.tail = [h.tail EXCEPT ![l] = y, ![m] = NULL]
      BY <1>8 DEF y
    <3> QED
      BY <1>1, <2>1, <2>2, <3>1
  <2>3. g.size \in [List -> Nat]
    <3>1. Len(s) + Len(t) \in Nat
      BY <1>6
    <3> QED
      BY <1>1, <1>8, <3>1
  <2> QED
    BY <1>4, <2>3, <2>4, <2>5 DEF AreLinks
<1>10. /\ g.head[l] = IF Len(s) = 0 THEN v ELSE h.head[a]
       /\ g.tail[l] = IF Len(t) = 0 THEN u ELSE h.tail[b]
       /\ g.size[l] = Len(s) + Len(t)
       /\ g.head[m] = NULL /\ g.tail[m] = NULL /\ g.size[m] = 0
  BY <1>1, <1>8
<1> HIDE DEF r
<1>11. g.head[l] = At(r, 1) /\ g.tail[l] = At(r, Len(r)) /\ g.size[l] = Len(r)
  <2>1. g.head[l] = At(r, 1)
    BY <1>2, <1>5, <1>6, <1>10
  <2>2. g.tail[l] = At(r, Len(r))
    <3>1. CASE Len(t) = 0
      BY <1>2, <1>5, <1>6, <1>10, <3>1
    <3>2. CASE Len(t) # 0
      <4>1. At(r, Len(r)) = At(t, Len(r) - Len(s)) /\ Len(r) - Len(s) = Len(t)
        BY <1>5, <1>6, <3>2
      <4> QED
        BY <1>2, <1>10, <3>2, <4>1
    <3> QED
      BY <3>1, <3>2
  <2> QED
    BY <1>5, <1>10, <2>1, <2>2
<1>12. ASSUME NEW k \in 1..Len(s)
       PROVE  /\ r[k] = s[k]
              /\ g.prev[s[k]] = At(r, k - 1)
              /\ g.next[s[k]] = At(r, k + 1)
  <2>1. r[k] = s[k]
    <3>1. At(r, k) = s[k] /\ k \in 1..Len(r)
      BY <1>5, <1>6
    <3> QED
      BY <3>1 DEF At
  <2>2. s[k] \in Iter /\ s[k] # v
    BY <1>7
  <2>3. g.prev[s[k]] = At(r, k - 1)
    <3>1. k - 1 \in Int /\ k - 1 <= Len(s)
      BY <1>6
    <3>2. At(r, k - 1) = At(s, k - 1)
      BY <1>5, <3>1
    <3> QED
      BY <1>2, <1>4, <2>2, <3>2
  <2>4. g.next[s[k]] = At(r, k + 1)
    <3>1. CASE k = Len(s)
      BY <1>2, <1>4, <1>5, <1>6, <2>2, <3>1
    <3>2. CASE k # Len(s)
      <4>1. s[k] # u
        <5>1. Len(s) \in 1..Len(s)
          BY <1>6
        <5>2. u = s[Len(s)]
          BY <1>2, <1>6, <5>1
        <5> QED
          BY <1>6, <3>2, <5>1, <5>2
      <4>2. k + 1 \in Int /\ k + 1 <= Len(s)
        BY <1>6, <3>2
      <4>3. At(r, k + 1) = At(s, k + 1)
        BY <1>5, <4>2
      <4> QED
        BY <1>2, <1>4, <2>2, <4>1, <4>3
    <3> QED
      BY <3>1, <3>2
  <2> QED
    BY <2>1, <2>3, <2>4
<1>13. ASSUME NEW k \in 1..Len(t)
       PROVE  /\ r[Len(s) + k] = t[k]
              /\ g.prev[t[k]] = At(r, Len(s) + k - 1)
              /\ g.next[t[k]] = At(r, Len(s) + k + 1)
  <2>1. r[Len(s) + k] = t[k]
    <3>1. At(r, Len(s) + k) = t[k] /\ Len(s) + k \in 1..Len(r)
      BY <1>5, <1>6
    <3> QED
      BY <3>1 DEF At
  <2>2. t[k] \in Iter /\ t[k] # u
    BY <1>7
  <2>3. g.next[t[k]] = At(r, Len(s) + k + 1)
    <3>1. At(r, Len(s) + k + 1) = At(t, k + 1)
      BY <1>5, <1>6
    <3> QED
      BY <1>2, <1>4, <2>2, <3>1
  <2>4. g.prev[t[k]] = At(r, Len(s) + k - 1)
    <3>1. CASE k = 1
      <4>1. t[k] = v
        BY <1>2, <1>6, <3>1
      <4>2. At(r, Len(s) + k - 1) = At(s, Len(s))
        BY <1>5, <1>6, <3>1
      <4> QED
        BY <1>2, <1>4, <2>2, <4>1, <4>2
    <3>2. CASE k # 1
      <4>1. t[k] # v
        <5>1. 1 \in 1..Len(t)
          BY <1>6
        <5>2. v = t[1]
          BY <1>2, <1>6, <5>1
        <5> QED
          BY <1>6, <3>2, <5>1, <5>2
      <4>2. At(r, Len(s) + k - 1) = At(t, k - 1)
        BY <1>5, <1>6, <3>2
      <4> QED
        BY <1>2, <1>4, <2>2, <4>1, <4>2
    <3> QED
      BY <3>1, <3>2
  <2> QED
    BY <2>1, <2>3, <2>4
<1>14. ASSUME NEW k \in 1..Len(r)
       PROVE  g.prev[r[k]] = At(r, k - 1) /\ g.next[r[k]] = At(r, k + 1)
  <2>1. CASE k <= Len(s)
    <3>1. k \in 1..Len(s)
      BY <1>6, <2>1
    <3>2. /\ r[k] = s[k] /\ g.prev[s[k]] = At(r, k - 1)
          /\ g.next[s[k]] = At(r, k + 1)
      BY <1>12, <3>1
    <3> QED
      BY <3>2
  <2>2. CASE ~(k <= Len(s))
    <3> DEFINE j == k - Len(s)
    <3>1. j \in 1..Len(t) /\ Len(s) + j = k
      BY <1>5, <1>6, <2>2
    <3> HIDE DEF j
    <3>2. /\ r[Len(s) + j] = t[j] /\ g.prev[t[j]] = At(r, Len(s) + j - 1)
          /\ g.next[t[j]] = At(r, Len(s) + j + 1)
      BY <1>13, <3>1
    <3> QED
      BY <3>1, <3>2
  <2> QED
    BY <2>1, <2>2
<1>15. Chain(g, l, r)
  BY <1>11, <1>14 DEF Chain
<1>16. Chain(g, m, << >>)
  BY <1>10 DEF Chain, At
<1>17. \A x \in Iter : x \notin ToSet(s) /\ x \notin ToSet(t) =>
         g.prev[x] = h.prev[x] /\ g.next[x] = h.next[x]
  BY <1>4, <1>6, <1>7
<1> QED
  BY <1>9, <1>15, <1>16, <1>17 DEF r

LEMMA JoinedChains ==
  ASSUME NEW h, NEW q, Chains(h, q), NEW g,
         NEW l \in List, NEW m \in List, l # m,
         NEW a, NEW b, \/ a = l /\ b = m
                       \/ a = m /\ b = l,
         JoinedLinks(h, g, a, b, l, m)
  PROVE  Chains(g, [q EXCEPT ![l] = q[a] \o q[b], ![m] = << >>])
<1> DEFINE s == q[a]
           t == q[b]
           r == s \o t
           q2 == [q EXCEPT ![l] = r, ![m] = << >>]
<1>1. /\ AreLinks(h) /\ a \in List /\ b \in List
      /\ s \in Seq(Iter) /\ t \in Seq(Iter)
      /\ Chain(h, a, s) /\ Chain(h, b, t) /\ IsInjective(s) /\ IsInjective(t)
      /\ ToSet(s) \cap ToSet(t) = {}
      /\ q \in [List -> Seq(Iter)]
      /\ \A k \in List : IsInjective(q[k])
      /\ \A k \in List : Chain(h, k, q[k])
      /\ \A j, k \in List : j # k => ToSet(q[j]) \cap ToSet(q[k]) = {}
  BY DEF Chains, Apart
<1> HIDE DEF s, t
<1>2. /\ AreLinks(g)
      /\ Chain(g, l, r)
      /\ Chain(g, m, << >>)
      /\ \A x \in Iter : x \notin ToSet(s) /\ x \notin ToSet(t) =>
           g.prev[x] = h.prev[x] /\ g.next[x] = h.next[x]
  <2>1. TwoChains(h, a, s, b, t)
    BY <1>1 DEF TwoChains
  <2>2. /\ AreLinks(g)
        /\ Chain(g, l, s \o t)
        /\ Chain(g, m, << >>)
        /\ \A x \in Iter : x \notin ToSet(s) /\ x \notin ToSet(t) =>
             g.prev[x] = h.prev[x] /\ g.next[x] = h.next[x]
    BY <2>1, JoinedChain
  <2> QED
    BY <2>2
<1>3. /\ r \in Seq(Iter) /\ ToSet(r) = ToSet(s) \cup ToSet(t)
      /\ IsInjective(r)
  BY <1>1, JoinedProperties
<1> HIDE DEF r
<1>4. /\ << >> \in Seq(Iter) /\ ToSet(<< >>) = {} /\ IsInjective(<< >>)
  BY DEF ToSet, IsInjective
<1>5. /\ q2 \in [List -> Seq(Iter)] /\ q2[l] = r /\ q2[m] = << >>
      /\ \A k \in List \ {l, m} : q2[k] = q[k]
  BY <1>1, <1>3, <1>4
<1> HIDE DEF q2
<1>6. ASSUME NEW k \in List \ {l, m}
      PROVE  ToSet(r) \cap ToSet(q[k]) = {} /\ ToSet(q[k]) \subseteq Iter
  <2>1. ToSet(s) \cap ToSet(q[k]) = {} /\ ToSet(t) \cap ToSet(q[k]) = {}
    BY <1>1 DEF s, t
  <2>2. ToSet(q[k]) \subseteq Iter
    BY <1>1 DEF ToSet
  <2> QED
    BY <1>3, <2>1, <2>2
<1>7. Apart(q2)
  <2>1. \A k \in List : IsInjective(q2[k])
    BY <1>1, <1>3, <1>4, <1>5
  <2>2. ASSUME NEW j \in List, NEW k \in List, j # k
        PROVE  ToSet(q2[j]) \cap ToSet(q2[k]) = {}
    <3>1. CASE j = m \/ k = m
      BY <1>4, <1>5, <3>1
    <3>2. CASE j = l /\ k # m
      BY <1>5, <1>6, <2>2, <3>2
    <3>3. CASE k = l /\ j # m
      BY <1>5, <1>6, <2>2, <3>3
    <3>4. CASE j \notin {l, m} /\ k \notin {l, m}
      BY <1>1, <1>5, <2>2, <3>4
    <3> QED
      BY <3>1, <3>2, <3>3, <3>4
  <2> QED
    BY <1>5, <2>1, <2>2 DEF Apart
<1>8. ASSUME NEW k \in List
      PROVE  Chain(g, k, q2[k])
  <2>1. CASE k \in {l, m}
    BY <1>2, <1>5, <2>1
  <2>2. CASE k \notin {l, m}
    <3>1. q2[k] = q[k] /\ Chain(h, k, q[k]) /\ q[k] \in Seq(Iter)
      BY <1>1, <1>5, <2>2
    <3>2. g.size[k] = h.size[k] /\ g.head[k] = h.head[k] /\ g.tail[k] = h.tail[k]
      <4>1. /\ h.head \in [List -> Pointer] /\ h.tail \in [List -> Pointer]
            /\ h.size \in [List -> Nat]
        BY <1>1 DEF AreLinks
      <4> QED
        BY <2>2, <4>1 DEF JoinedLinks
    <3>3. ASSUME NEW j \in 1..Len(q[k])
          PROVE  /\ g.prev[q[k][j]] = h.prev[q[k][j]]
                 /\ g.next[q[k][j]] = h.next[q[k][j]]
      <4>1. q[k][j] \in ToSet(q[k])
        BY <3>1, AtFacts
      <4>2. ToSet(r) \cap ToSet(q[k]) = {} /\ ToSet(q[k]) \subseteq Iter
        BY <1>6, <2>2
      <4> QED
        BY <1>2, <1>3, <4>1, <4>2
    <3>4. Chain(g, k, q[k])
      BY <3>1, <3>2, <3>3 DEF Chain
    <3> QED
      BY <3>1, <3>4
  <2> QED
    BY <2>1, <2>2
<1>9. Chains(g, q2)
  BY <1>2, <1>7, <1>8 DEF Chains
<1> QED
  BY <1>9 DEF q2, r, s, t

-----------------------------------------------------------------------------
(* cc_list_discard. *)

\* DiscardLinks, of any links and for any number of turns.
Emptied(h, l, n) ==
  LET after[k \in 0..n] ==
        IF k = 0 THEN h
        ELSE IterRemove(after[k - 1], after[k - 1].head[l], l)
  IN  after[n]

EmptyStep(h, l, after, k) ==
  IF k = 0 THEN h ELSE IterRemove(after[k - 1], after[k - 1].head[l], l)

Empties(h, l, n, after) == after = [k \in 0..n |-> EmptyStep(h, l, after, k)]

LEMMA EmptiesExists ==
  ASSUME NEW h, NEW l, NEW n \in Nat
  PROVE  \E after : Empties(h, l, n, after)
<1> DEFINE D == {k \in 0..n : \E f : Empties(h, l, k, f)}
<1>1. 0 \in D
  <2> DEFINE f == [k \in 0..0 |-> h]
  <2>1. [k \in 0..0 |-> EmptyStep(h, l, f, k)] = f
    BY DEF EmptyStep
  <2>2. Empties(h, l, 0, f) /\ 0 \in 0..n
    BY <2>1 DEF Empties
  <2> HIDE DEF f
  <2> QED
    BY <2>2
<1>2. ASSUME NEW k \in 0..(n - 1), k \in D
      PROVE  k + 1 \in D
  <2>1. PICK f : Empties(h, l, k, f)
    BY <1>2
  <2>2. k \in Nat /\ k + 1 \in 0..n /\ (k + 1) - 1 = k
    OBVIOUS
  <2> DEFINE g == [j \in 0..(k + 1) |->
                     IF j <= k THEN f[j] ELSE EmptyStep(h, l, f, k + 1)]
  <2>3. /\ \A j \in 0..k : g[j] = f[j]
        /\ g[k + 1] = EmptyStep(h, l, f, k + 1)
        /\ g = [j \in 0..(k + 1) |-> g[j]]
    BY <2>2
  <2> HIDE DEF g
  <2>4. \A j \in 0..k : f[j] = EmptyStep(h, l, f, j)
    BY <2>1, Zenon DEF Empties
  <2>5. ASSUME NEW j \in 0..(k + 1)
        PROVE  g[j] = EmptyStep(h, l, g, j)
    <3>1. CASE j = 0
      <4>1. 0 \in 0..k
        BY <2>2
      <4>2. g[0] = f[0] /\ f[0] = EmptyStep(h, l, f, 0)
        BY <2>3, <2>4, <4>1
      <4> QED
        BY <3>1, <4>2 DEF EmptyStep
    <3>2. CASE j # 0 /\ j <= k
      <4>1. j \in 0..k /\ j - 1 \in 0..k
        BY <2>2, <3>2
      <4>2. g[j] = f[j] /\ g[j - 1] = f[j - 1] /\ f[j] = EmptyStep(h, l, f, j)
        BY <2>3, <2>4, <4>1
      <4> QED
        BY <3>2, <4>2, Zenon DEF EmptyStep
    <3>3. CASE j = k + 1
      <4>1. j # 0 /\ j - 1 = k /\ k \in 0..k
        BY <2>2, <3>3
      <4>2. g[j] = EmptyStep(h, l, f, j) /\ g[k] = f[k]
        BY <2>3, <3>3, <4>1
      <4>3. g[j - 1] = f[j - 1]
        BY <4>1, <4>2
      <4> QED
        BY <4>1, <4>2, <4>3, Zenon DEF EmptyStep
    <3> QED
      BY <2>2, <3>1, <3>2, <3>3
  <2>6. [j \in 0..(k + 1) |-> g[j]] = [j \in 0..(k + 1) |-> EmptyStep(h, l, g, j)]
    BY <2>5
  <2>7. Empties(h, l, k + 1, g)
    BY <2>3, <2>6 DEF Empties
  <2> QED
    BY <2>2, <2>7
<1>3. 0..n \subseteq D
  <2> HIDE DEF D
  <2> QED
    BY <1>1, <1>2, InductionUpTo
<1> QED
  BY <1>3

\* The links after each turn.
Turns(h, l, n, f) ==
  /\ f[0] = h
  /\ \A k \in 0..(n - 1) : f[k + 1] = IterRemove(f[k], f[k].head[l], l)
  /\ Emptied(h, l, n) = f[n]

LEMMA EmptiedUnfolds ==
  ASSUME NEW h, NEW l, NEW n \in Nat
  PROVE  \E f : Turns(h, l, n, f)
<1> DEFINE f == CHOOSE g : g = [k \in 0..n |->
                  IF k = 0 THEN h
                  ELSE IterRemove(g[k - 1], g[k - 1].head[l], l)]
<1>1. Empties(h, l, n, f)
  <2>1. \E g : g = [k \in 0..n |->
                      IF k = 0 THEN h
                      ELSE IterRemove(g[k - 1], g[k - 1].head[l], l)]
    <3>1. \E g : Empties(h, l, n, g)
      BY EmptiesExists
    <3> QED
      BY <3>1, Zenon DEF Empties, EmptyStep
  <2>2. f = [k \in 0..n |-> IF k = 0 THEN h
                            ELSE IterRemove(f[k - 1], f[k - 1].head[l], l)]
    BY <2>1, Zenon
  <2> QED
    BY <2>2, Zenon DEF Empties, EmptyStep
<1>2. Emptied(h, l, n) = f[n]
  BY Zenon DEF Emptied
<1> HIDE DEF f
<1>3. \A k \in 0..n : f[k] = EmptyStep(h, l, f, k)
  BY <1>1, Zenon DEF Empties
<1>4. f[0] = h
  BY <1>3 DEF EmptyStep
<1>5. ASSUME NEW k \in 0..(n - 1)
      PROVE  f[k + 1] = IterRemove(f[k], f[k].head[l], l)
  <2> DEFINE j == k + 1
  <2>1. j \in 0..n /\ j # 0 /\ j - 1 = k
    OBVIOUS
  <2> HIDE DEF j
  <2>2. f[j] = EmptyStep(h, l, f, j)
    BY <1>3, <2>1
  <2>3. f[j] = IterRemove(f[j - 1], f[j - 1].head[l], l)
    BY <2>1, <2>2, Zenon DEF EmptyStep
  <2>4. f[j] = IterRemove(f[k], f[k].head[l], l)
    BY <2>1, <2>3
  <2> QED
    BY <2>4 DEF j
<1> QED
  BY <1>2, <1>4, <1>5 DEF Turns

\* What is left of a sequence without its first k members.
LEMMA TailsOf ==
  ASSUME NEW s \in Seq(Iter), NEW k \in 0..(Len(s) - 1)
  PROVE  LET t == SubSeq(s, k + 1, Len(s))
         IN  /\ t \in Seq(Iter) /\ 1 \in 1..Len(t)
             /\ RemoveAt(t, 1) = SubSeq(s, k + 2, Len(s))
<1> DEFINE t == SubSeq(s, k + 1, Len(s))
           u == SubSeq(s, k + 2, Len(s))
           r == RemoveAt(t, 1)
<1>1. Len(s) \in Nat /\ k \in Nat /\ k + 1 <= Len(s)
  OBVIOUS
<1>2. /\ t \in Seq(Iter) /\ Len(t) = Len(s) - k
      /\ \A j \in 1..(Len(s) - k) : t[j] = s[k + j]
  BY <1>1
<1>3. /\ u \in Seq(Iter) /\ Len(u) = Len(s) - k - 1
      /\ \A j \in 1..(Len(s) - k - 1) : u[j] = s[k + j + 1]
  BY <1>1
<1> HIDE DEF t, u
<1>4. 1 \in 1..Len(t)
  BY <1>1, <1>2
<1>5. /\ r \in Seq(Iter) /\ Len(r) = Len(t) - 1
      /\ \A j \in 1..(Len(t) - 1) : r[j] = IF j < 1 THEN t[j] ELSE t[j + 1]
  BY <1>2, <1>4, RemoveAtElements
<1> HIDE DEF r
<1>6. \A j \in 1..Len(r) : r[j] = u[j]
  <2> TAKE j \in 1..Len(r)
  <2>1. r[j] = t[j + 1]
    BY <1>1, <1>2, <1>5
  <2>2. t[j + 1] = s[k + (j + 1)] /\ u[j] = s[k + j + 1] /\ k + (j + 1) = k + j + 1
    BY <1>1, <1>2, <1>3, <1>5
  <2> QED
    BY <2>1, <2>2
<1>7. r = u
  BY <1>1, <1>2, <1>3, <1>5, <1>6
<1> QED
  BY <1>2, <1>4, <1>7 DEF r, t, u

LEMMA EmptiedChains ==
  ASSUME NEW h, NEW q, Chains(h, q), NEW l \in List
  PROVE  Chains(Emptied(h, l, Len(q[l])), [q EXCEPT ![l] = << >>])
<1> DEFINE s == q[l]
           n == Len(s)
           left(k) == [q EXCEPT ![l] = SubSeq(s, k + 1, n)]
<1>1. q \in [List -> Seq(Iter)] /\ s \in Seq(Iter) /\ n \in Nat
  BY DEF Chains, Apart
<1> HIDE DEF n
<1>9. PICK f : Turns(h, l, n, f)
  BY <1>1, EmptiedUnfolds
<1>2. /\ f[0] = h
      /\ \A k \in 0..(n - 1) : f[k + 1] = IterRemove(f[k], f[k].head[l], l)
      /\ Emptied(h, l, n) = f[n]
  BY <1>9 DEF Turns
<1> DEFINE D == {k \in 0..n : Chains(f[k], left(k))}
<1>3. 0 \in D
  <2>1. SubSeq(s, 0 + 1, n) = s
    BY <1>1 DEF n
  <2>2. [q EXCEPT ![l] = s] = q
    BY <1>1
  <2>3. left(0) = q
    BY <2>1, <2>2
  <2> HIDE DEF left
  <2>4. Chains(f[0], left(0)) /\ 0 \in 0..n
    BY <1>1, <1>2, <2>3
  <2> QED
    BY <2>4
<1>4. ASSUME NEW k \in 0..(n - 1), k \in D
      PROVE  k + 1 \in D
  <2> DEFINE t == SubSeq(s, k + 1, n)
             p == left(k)
  <2>1. k \in Nat /\ k + 1 \in 0..n
    BY <1>1
  <2>2. /\ t \in Seq(Iter) /\ 1 \in 1..Len(t)
        /\ RemoveAt(t, 1) = SubSeq(s, k + 2, n)
    BY <1>1, TailsOf DEF n
  <2>3. p[l] = t /\ Chains(f[k], p)
    BY <1>1, <1>4
  <2>4. left(k + 1) = [p EXCEPT ![l] = RemoveAt(t, 1)]
    <3>1. (k + 1) + 1 = k + 2
      BY <2>1
    <3> QED
      BY <1>1, <2>2, <3>1
  <2> HIDE DEF t, p, s, left
  <2>5. Chains(IterRemove(f[k], p[l][1], l), [p EXCEPT ![l] = RemoveAt(p[l], 1)])
    BY <2>2, <2>3, RemoveChains
  <2>6. f[k].head[l] = t[1]
    <3>1. Chain(f[k], l, t)
      BY <2>3 DEF Chains
    <3> QED
      BY <2>2, <3>1 DEF Chain, At
  <2>7. f[k + 1] = IterRemove(f[k], t[1], l)
    BY <1>2, <2>6
  <2>8. Chains(f[k + 1], left(k + 1))
    BY <2>3, <2>4, <2>5, <2>7
  <2> QED
    BY <2>1, <2>8
<1>5. 0..n \subseteq D
  <2> HIDE DEF D
  <2> QED
    BY <1>1, <1>3, <1>4, InductionUpTo
<1>6. SubSeq(s, n + 1, n) = << >>
  BY <1>1
<1>7. Chains(f[n], left(n))
  <2>1. n \in D
    <3> HIDE DEF D
    <3>1. n \in 0..n
      BY <1>1
    <3> QED
      BY <1>5, <3>1
  <2> QED
    BY <2>1
<1>8. left(n) = [q EXCEPT ![l] = << >>]
  BY <1>6
<1> QED
  BY <1>2, <1>7, <1>8 DEF n

-----------------------------------------------------------------------------
(* The stacks of free iterators. *)

\* A stack holds as many iterators as it is long.
LEMMA StackCardinality ==
  ASSUME NEW T, NEW s \in Seq(T), IsInjective(s)
  PROVE  IsFiniteSet(ToSet(s)) /\ Cardinality(ToSet(s)) = Len(s)
<1>1. Len(s) \in Nat /\ DOMAIN s = 1..Len(s) /\ s \in [1..Len(s) -> T]
  OBVIOUS
<1>2. s \in Surjection(1..Len(s), ToSet(s)) /\ s \in Injection(1..Len(s), ToSet(s))
  <2>1. s \in [1..Len(s) -> ToSet(s)]
    BY <1>1 DEF ToSet
  <2>2. \A x \in ToSet(s) : \E k \in 1..Len(s) : s[k] = x
    BY <1>1 DEF ToSet
  <2> QED
    BY <2>1, <2>2 DEF Surjection, Injection
<1>3. IsFiniteSet(1..Len(s)) /\ Cardinality(1..Len(s)) = Len(s)
  BY <1>1, FS_Interval
<1>4. /\ IsFiniteSet(ToSet(s))
      /\ Cardinality(ToSet(s)) = Cardinality(1..Len(s)) <=>
           s \in Injection(1..Len(s), ToSet(s))
  BY <1>2, <1>3, FS_Surjection
<1> QED
  BY <1>2, <1>3, <1>4

LEMMA IsSequence ==
  ASSUME NEW T, NEW n \in Nat, NEW f \in [1..n -> T]
  PROVE  f \in Seq(T) /\ Len(f) = n
OBVIOUS

\* The iterators of new blocks, as cc_listPool_get stacks them.
Fresh(more) ==
  [k \in 1..(BlockSize * Cardinality(more)) |->
     <<CHOOSE b \in more : TRUE, BlockSize + 1 - k>>]

ArrayOf(b) == {b} \X (1..BlockSize)

FreshIters(more) == UNION {ArrayOf(b) : b \in more}

LEMMA FreshFacts ==
  ASSUME NEW more \in Needed, count \in Nat
  PROVE  /\ Fresh(more) \in Seq(Iter)
         /\ IsInjective(Fresh(more))
         /\ ToSet(Fresh(more)) = FreshIters(more)
         /\ Len(Fresh(more)) = BlockSize * Cardinality(more)
         /\ BlockSize * Cardinality(more) \in Nat
         /\ count + BlockSize * Cardinality(more) >= SetSize
         /\ more \subseteq Block \ blocks
         /\ IsFiniteSet(more)
<1>0. BlockSize \in Nat /\ BlockSize # 0 /\ SetSize \in Nat /\ SetSize <= BlockSize
  BY CCListAssumption
<1>1. CASE more = {} /\ count >= SetSize
  <2>1. Cardinality(more) = 0 /\ IsFiniteSet(more)
    BY <1>1, FS_EmptySet
  <2>2. BlockSize * Cardinality(more) = 0 /\ 1..0 = {}
    BY <1>0, <2>1
  <2>3. Fresh(more) = << >>
    BY <2>2 DEF Fresh
  <2>4. FreshIters(more) = {}
    BY <1>1 DEF FreshIters
  <2>5. << >> \in Seq(Iter) /\ IsInjective(<< >>) /\ ToSet(<< >>) = {} /\ Len(<< >>) = 0
    BY DEF IsInjective, ToSet
  <2>6. count + 0 >= SetSize
    BY <1>0, <1>1
  <2> DEFINE n == BlockSize * Cardinality(more)
  <2>7. n = 0 /\ n \in Nat /\ Len(Fresh(more)) = n
    BY <2>2, <2>3, <2>5
  <2> HIDE DEF n
  <2>8. count + n >= SetSize
    BY <2>6, <2>7
  <2> QED
    BY <1>1, <2>1, <2>3, <2>4, <2>5, <2>7, <2>8 DEF n
<1>2. ASSUME NEW b \in Block \ blocks, more = {b}, count < SetSize
      PROVE  /\ Fresh(more) \in Seq(Iter)
             /\ IsInjective(Fresh(more))
             /\ ToSet(Fresh(more)) = FreshIters(more)
             /\ Len(Fresh(more)) = BlockSize * Cardinality(more)
             /\ BlockSize * Cardinality(more) \in Nat
             /\ count + BlockSize * Cardinality(more) >= SetSize
             /\ more \subseteq Block \ blocks
             /\ IsFiniteSet(more)
  <2>1. Cardinality(more) = 1 /\ IsFiniteSet(more)
    BY <1>2, FS_Singleton
  <2>2. BlockSize * Cardinality(more) = BlockSize
    BY <1>0, <2>1
  <2>3. (CHOOSE c \in more : TRUE) = b
    BY <1>2
  <2> DEFINE f == Fresh(more)
  <2>4. f = [k \in 1..BlockSize |-> <<b, BlockSize + 1 - k>>]
    BY <2>2, <2>3 DEF Fresh
  <2> HIDE DEF f
  <2>5. \A k \in 1..BlockSize : BlockSize + 1 - k \in 1..BlockSize
    BY <1>0
  <2>6. /\ f \in Seq(Iter) /\ Len(f) = BlockSize /\ DOMAIN f = 1..BlockSize
        /\ \A k \in 1..BlockSize : f[k] = <<b, BlockSize + 1 - k>>
    <3>1. f \in [1..BlockSize -> Iter]
      BY <1>2, <2>4, <2>5 DEF Iter
    <3>2. f \in Seq(Iter) /\ Len(f) = BlockSize
      BY <1>0, <3>1, IsSequence
    <3>3. DOMAIN f = 1..BlockSize
      BY <3>1
    <3> QED
      BY <2>4, <3>2, <3>3
  <2>7. IsInjective(f)
    <3> SUFFICES ASSUME NEW j \in 1..BlockSize, NEW k \in 1..BlockSize, f[j] = f[k]
                 PROVE  j = k
      BY <2>6 DEF IsInjective
    <3>1. BlockSize + 1 - j = BlockSize + 1 - k
      BY <2>6
    <3> QED
      BY <1>0, <3>1
  <2>8. ToSet(f) = ArrayOf(b)
    <3>1. ToSet(f) \subseteq ArrayOf(b)
      <4>1. ASSUME NEW k \in 1..BlockSize PROVE f[k] \in ArrayOf(b)
        <5> DEFINE j == BlockSize + 1 - k
        <5>1. j \in 1..BlockSize /\ f[k] = <<b, j>>
          BY <2>5, <2>6
        <5> HIDE DEF j
        <5> QED
          BY <5>1 DEF ArrayOf
      <4> QED
        BY <2>6, <4>1 DEF ToSet
    <3>2. ASSUME NEW k \in 1..BlockSize
          PROVE  <<b, k>> \in ToSet(f)
      <4>1. BlockSize + 1 - k \in 1..BlockSize
        BY <2>5
      <4>2. BlockSize + 1 - (BlockSize + 1 - k) = k
        BY <1>0
      <4>3. f[BlockSize + 1 - k] = <<b, k>>
        BY <2>6, <4>1, <4>2
      <4> QED
        BY <2>6, <4>1, <4>3 DEF ToSet
    <3> QED
      BY <3>1, <3>2 DEF ArrayOf
  <2>9. FreshIters(more) = ArrayOf(b)
    BY <1>2 DEF FreshIters
  <2>10. count + BlockSize >= SetSize
    BY <1>0
  <2> QED
    BY <1>0, <1>2, <2>1, <2>2, <2>6, <2>7, <2>8, <2>9, <2>10 DEF f
<1>3. \/ more = {} /\ count >= SetSize
      \/ \E b \in Block \ blocks : more = {b} /\ count < SetSize
  BY <1>0 DEF Needed
<1> QED
  BY <1>1, <1>2, <1>3

\* What the stacks are like.
Stacks(f, t) ==
  /\ f \in [List -> Seq(Iter)] /\ \A l \in List : IsInjective(f[l])
  /\ t \in Seq(Iter) /\ IsInjective(t)

\* A set taken off the stack: the first is used, the others are to spare.
TakenOff(more, set, rest) ==
  /\ set \in Seq(Iter) /\ IsInjective(set) /\ Cardinality(ToSet(set)) = SetSize
  /\ rest \in Seq(Iter) /\ IsInjective(rest)
  /\ ToSet(set) \subseteq ToSet(iters) \cup FreshIters(more)
  /\ ToSet(rest) = (ToSet(iters) \cup FreshIters(more)) \ ToSet(set)
  /\ Head(set) \in ToSet(set)
  /\ Reverse(Tail(set)) \in Seq(Iter) /\ IsInjective(Reverse(Tail(set)))
  /\ ToSet(Reverse(Tail(set))) = ToSet(set) \ {Head(set)}

LEMMA StockFacts ==
  ASSUME NEW more \in Needed, count \in Nat, count = Len(iters),
         iters \in Seq(Iter), IsInjective(iters),
         ToSet(iters) \cap FreshIters(more) = {}
  PROVE  TakenOff(more, SubSeq(Stock(more), 1, SetSize),
                        SubSeq(Stock(more), SetSize + 1, Len(Stock(more))))
<1> DEFINE s == Stock(more)
           set == SubSeq(s, 1, SetSize)
           rest == SubSeq(s, SetSize + 1, Len(s))
<1>1. /\ Fresh(more) \in Seq(Iter) /\ IsInjective(Fresh(more))
      /\ ToSet(Fresh(more)) = FreshIters(more)
      /\ Len(Fresh(more)) = BlockSize * Cardinality(more)
      /\ BlockSize * Cardinality(more) \in Nat
      /\ count + BlockSize * Cardinality(more) >= SetSize
  BY FreshFacts
<1>2. s = Fresh(more) \o iters
  BY DEF Stock, Fresh
<1> HIDE DEF s
<1>3. /\ s \in Seq(Iter) /\ IsInjective(s)
      /\ ToSet(s) = ToSet(iters) \cup FreshIters(more)
  <2>1. /\ Fresh(more) \o iters \in Seq(Iter)
        /\ ToSet(Fresh(more) \o iters) = ToSet(Fresh(more)) \cup ToSet(iters)
        /\ IsInjective(Fresh(more)) /\ IsInjective(iters)
             /\ ToSet(Fresh(more)) \cap ToSet(iters) = {}
             => IsInjective(Fresh(more) \o iters)
    BY <1>1, JoinedProperties
  <2> QED
    BY <1>1, <1>2, <2>1
<1>4. SetSize \in 0..Len(s) /\ SetSize # 0
  <2>1. Len(s) = Len(Fresh(more)) + Len(iters)
    BY <1>1, <1>2
  <2> DEFINE n == BlockSize * Cardinality(more)
  <2>2. n \in Nat /\ count + n >= SetSize /\ Len(s) = n + count
    BY <1>1, <2>1
  <2> HIDE DEF n
  <2> QED
    BY <2>2, CCListAssumption
<1>5. /\ set \in Seq(Iter) /\ IsInjective(set) /\ Len(set) = SetSize
      /\ rest \in Seq(Iter) /\ IsInjective(rest)
      /\ ToSet(set) \subseteq ToSet(s)
      /\ ToSet(rest) = ToSet(s) \ ToSet(set)
  BY <1>3, <1>4, SplitProperties
<1> HIDE DEF set, rest
<1>6. Cardinality(ToSet(set)) = SetSize
  BY <1>5, StackCardinality
<1>7. set # << >>
  BY <1>4, <1>5
<1>8. /\ Head(set) \in ToSet(set) /\ Tail(set) \in Seq(Iter)
      /\ ToSet(Tail(set)) = ToSet(set) \ {Head(set)}
      /\ IsInjective(Tail(set))
  BY <1>5, <1>7, HeadTailFacts
<1>9. /\ Reverse(Tail(set)) \in Seq(Iter) /\ IsInjective(Reverse(Tail(set)))
      /\ ToSet(Reverse(Tail(set))) = ToSet(Tail(set))
  BY <1>8, ReverseProperties
<1>10. TakenOff(more, set, rest)
  BY <1>3, <1>5, <1>6, <1>8, <1>9 DEF TakenOff
<1> QED
  BY <1>10 DEF set, rest, s

-----------------------------------------------------------------------------
(* The invariant: what is linked are sequences, what is stacked are stacks,
   and read so they have the invariant of ListPool. *)

Spares == [l \in List |-> ToSet(spare[l])]
Frees == ToSet(iters)

Abstract == INSTANCE ListPoolProofs WITH
    seq   <- Read,
    spare <- Spares,
    free  <- Frees

CInv == Chains(Links, Read) /\ Stacks(spare, iters) /\ Abstract!IInv

LEMMA AbstractAssumption == Abstract!ListPoolAssumption
BY CCListAssumption DEF Abstract!ListPoolAssumption

LEMMA AbstractInit == Abstract!Init => Abstract!IInv
BY AbstractAssumption, Abstract!InitKeeps

LEMMA AbstractNext ==
  Abstract!IInv /\ [Abstract!Next]_(Abstract!vars) => Abstract!IInv'
BY AbstractAssumption, Abstract!NextKeeps

\* The operators on data are those of this module.
LEMMA SameOperators ==
  /\ \A s : Abstract!ToSet(s) = ToSet(s)
  /\ \A s : Abstract!IsInjective(s) <=> IsInjective(s)
  /\ \A S : Abstract!Cardinality(S) = Cardinality(S)
  /\ \A s, p, x : Abstract!InsertAt(s, p, x) = InsertAt(s, p, x)
  /\ \A s, p : Abstract!RemoveAt(s, p) = RemoveAt(s, p)
  /\ \A s, p, j : Abstract!Move(s, p, j) = Move(s, p, j)
<1>1. \A s : Abstract!ToSet(s) = ToSet(s)
  BY DEF Abstract!ToSet, ToSet
<1>2. \A s : Abstract!IsInjective(s) <=> IsInjective(s)
  BY DEF Abstract!IsInjective, IsInjective
<1>3. \A S : Abstract!Cardinality(S) = Cardinality(S)
  BY DEF Abstract!Cardinality, Cardinality
<1>4. \A s, p, x : Abstract!InsertAt(s, p, x) = InsertAt(s, p, x)
  BY DEF Abstract!InsertAt, InsertAt
<1>5. \A s, p : Abstract!RemoveAt(s, p) = RemoveAt(s, p)
  BY DEF Abstract!RemoveAt, RemoveAt
<1>6. \A s, p, j : Abstract!Move(s, p, j) = Move(s, p, j)
  BY <1>4, <1>5 DEF Abstract!Move, Move
<1> QED
  BY <1>1, <1>2, <1>3, <1>4, <1>5, <1>6

\* All that list l has.
All(l) == ToSet(Read[l]) \cup ToSet(spare[l])

\* What the invariant of ListPool says of the stacks.
HomeFacts ==
  /\ live \in SUBSET List /\ count \in Nat /\ refcount \in Nat
  /\ blocks \in SUBSET Block
  /\ \A l \in List : ToSet(Read[l]) \cap ToSet(spare[l]) = {}
  /\ \A l, m \in List : l # m => All(l) \cap All(m) = {}
  /\ \A l \in List : ToSet(iters) \cap All(l) = {}
  /\ \A b \in Block \ blocks :
       ArrayOf(b) \cap ToSet(iters) = {} /\ \A l \in List : ArrayOf(b) \cap All(l) = {}
  /\ count = Len(iters)

LEMMA Homed == CInv => HomeFacts
<1> SUFFICES ASSUME CInv PROVE HomeFacts
  OBVIOUS
<1>1. /\ Abstract!TypeOK /\ Abstract!OneHome /\ Abstract!NoDangling
      /\ Abstract!CountsExact
  BY DEF CInv, Abstract!IInv
<1>2. /\ live \in SUBSET List /\ count \in Nat /\ refcount \in Nat
      /\ blocks \in SUBSET Block
  BY <1>1 DEF Abstract!TypeOK
<1>3. \A l \in List : Spares[l] = ToSet(spare[l])
  BY DEF Spares
<1>4. ASSUME NEW l \in List
      PROVE  Abstract!Held(l) = All(l)
  BY <1>3, SameOperators DEF Abstract!Held, All
<1>5. /\ \A l \in List : ToSet(Read[l]) \cap Spares[l] = {}
      /\ \A l, m \in List : l # m => Abstract!Held(l) \cap Abstract!Held(m) = {}
      /\ Frees \cap Abstract!InUse = {}
  BY <1>1, SameOperators DEF Abstract!OneHome
<1>6. Abstract!InUse = UNION {All(l) : l \in List}
  BY <1>4 DEF Abstract!InUse
<1>7. Frees \cup Abstract!InUse = Abstract!Allocated
  BY <1>1 DEF Abstract!NoDangling
<1>8. ASSUME NEW b \in Block \ blocks
      PROVE  ArrayOf(b) \cap Abstract!Allocated = {}
  BY DEF Abstract!Allocated, Abstract!Array, ArrayOf
<1>9. ASSUME NEW b \in Block \ blocks
      PROVE  /\ ArrayOf(b) \cap ToSet(iters) = {}
             /\ \A l \in List : ArrayOf(b) \cap All(l) = {}
  <2>1. ArrayOf(b) \cap Frees = {} /\ ArrayOf(b) \cap Abstract!InUse = {}
    BY <1>7, <1>8
  <2> QED
    BY <1>6, <2>1 DEF Frees
<1>10. ASSUME NEW l \in List
       PROVE  ToSet(iters) \cap All(l) = {}
  BY <1>5, <1>6 DEF Frees
<1>11. count = Len(iters)
  <2>1. count = Cardinality(Frees)
    BY <1>1, SameOperators DEF Abstract!CountsExact
  <2>2. iters \in Seq(Iter) /\ IsInjective(iters)
    BY DEF CInv, Stacks
  <2>3. Cardinality(ToSet(iters)) = Len(iters)
    BY <2>2, StackCardinality
  <2> QED
    BY <2>1, <2>3 DEF Frees
<1> QED
  BY <1>2, <1>3, <1>4, <1>5, <1>9, <1>10, <1>11 DEF HomeFacts

\* One list has another stack.
LEMMA SparesBut ==
  ASSUME spare \in [List -> Seq(Iter)], NEW l \in List, NEW t \in Seq(Iter),
         \A m \in List : IsInjective(spare[m]), IsInjective(t),
         spare' = [spare EXCEPT ![l] = t]
  PROVE  /\ Spares' = [Spares EXCEPT ![l] = ToSet(t)]
         /\ spare' \in [List -> Seq(Iter)]
         /\ \A m \in List : IsInjective(spare'[m])
<1>1. /\ spare' \in [List -> Seq(Iter)] /\ spare'[l] = t
      /\ \A m \in List \ {l} : spare'[m] = spare[m]
  OBVIOUS
<1>2. \A m \in List : IsInjective(spare'[m])
  BY <1>1
<1>3. Spares' = [m \in List |-> ToSet(spare'[m])]
  BY DEF Spares
<1>4. [Spares EXCEPT ![l] = ToSet(t)]
        = [m \in List |-> IF m = l THEN ToSet(t) ELSE ToSet(spare[m])]
  BY DEF Spares
<1>5. \A m \in List : ToSet(spare'[m])
                        = IF m = l THEN ToSet(t) ELSE ToSet(spare[m])
  BY <1>1
<1>6. Spares' = [Spares EXCEPT ![l] = ToSet(t)]
  BY <1>3, <1>4, <1>5
<1> QED
  BY <1>1, <1>2, <1>6

\* The links have become g.
LEMMA BecomeLinks ==
  ASSUME NEW g, Become(g), NEW q, Chains(g, q)
  PROVE  Chains(Links', q) /\ Read' = q
<1> DEFINE h == Links'
<1>1. /\ h.next = g.next /\ h.prev = g.prev /\ h.head = g.head
      /\ h.tail = g.tail /\ h.size = g.size
  BY DEF Links, Become
<1> HIDE DEF h
<1>2. Chains(h, q)
  <2>1. AreLinks(h)
    BY <1>1 DEF Chains, AreLinks
  <2>2. ASSUME NEW l \in List PROVE Chain(h, l, q[l])
    <3>1. Chain(g, l, q[l])
      BY DEF Chains
    <3> QED
      BY <1>1, <3>1 DEF Chain
  <2> QED
    BY <2>1, <2>2 DEF Chains
<1>3. Chains(Links', q)
  BY <1>2 DEF h
<1> QED
  BY <1>3, ChainsReadNext

LEMMA SameLinks ==
  ASSUME Chains(Links, Read), UNCHANGED links
  PROVE  Chains(Links', Read') /\ Read' = Read
<1>1. Become(Links)
  BY DEF Become, Links, links
<1> QED
  BY <1>1, BecomeLinks

\* The parts of the invariant that are not those of ListPool.
CParts == Chains(Links, Read) /\ Stacks(spare, iters)

-----------------------------------------------------------------------------
(* The calls, one after another: each does what ListPool says. *)

LEMMA InitImplements == Init => CParts /\ Abstract!Init
<1> SUFFICES ASSUME Init PROVE CParts /\ Abstract!Init
  OBVIOUS
<1> DEFINE q == [l \in List |-> << >>]
<1>1. << >> \in Seq(Iter) /\ ToSet(<< >>) = {} /\ IsInjective(<< >>)
  BY DEF ToSet, IsInjective
<1>2. Apart(q)
  BY <1>1 DEF Apart
<1>3. AreLinks(Links)
  BY DEF Init, AreLinks, Links, Pointer
<1>4. \A l \in List : Chain(Links, l, q[l])
  BY DEF Init, Chain, Links, At
<1>5. Read = q /\ Chains(Links, Read)
  <2>1. Chains(Links, q)
    BY <1>2, <1>3, <1>4 DEF Chains
  <2> QED
    BY <2>1, ChainsRead
<1>6. Stacks(spare, iters)
  BY <1>1 DEF Init, Stacks
<1>7. Spares = [l \in List |-> {}] /\ Frees = {}
  BY <1>1 DEF Init, Spares, Frees
<1>8. Abstract!Init
  BY <1>5, <1>7 DEF Init, Abstract!Init
<1> QED
  BY <1>5, <1>6, <1>8 DEF CParts

LEMMA NewImplements ==
  ASSUME CInv, NEW l \in List, New(l)
  PROVE  CParts' /\ Abstract!New(l)
<1>1. /\ l \in List \ live /\ live' = live \cup {l}
      /\ UNCHANGED links /\ UNCHANGED <<spare, pool>>
  BY DEF New
<1>2. Chains(Links', Read') /\ Read' = Read
  BY <1>1, SameLinks DEF CInv
<1>3. Stacks(spare', iters')
  BY <1>1 DEF CInv, pool
<1>4. Spares' = Spares /\ Frees' = Frees
  BY <1>1 DEF Spares, Frees, pool
<1>5. Abstract!New(l)
  BY <1>1, <1>2, <1>4 DEF Abstract!New, Abstract!pool, pool
<1> QED
  BY <1>2, <1>3, <1>5 DEF CParts

\* cc_listPool_get
LEMMA GetImplements ==
  ASSUME CInv, NEW more \in Needed, Get(more)
  PROVE  LET set == SubSeq(Stock(more), 1, SetSize)
         IN  /\ TakenOff(more, set, iters')
             /\ Abstract!Get(ToSet(set))
             /\ \A l \in List : ToSet(set) \cap All(l) = {}
<1> DEFINE set == SubSeq(Stock(more), 1, SetSize)
           S == ToSet(set)
<1>1. HomeFacts /\ iters \in Seq(Iter) /\ IsInjective(iters)
  BY Homed DEF CInv, Stacks
<1>2. /\ count \in Nat /\ count = Len(iters)
      /\ \A b \in Block \ blocks : /\ ArrayOf(b) \cap ToSet(iters) = {}
                                   /\ \A l \in List : ArrayOf(b) \cap All(l) = {}
      /\ \A l \in List : ToSet(iters) \cap All(l) = {}
  BY <1>1 DEF HomeFacts
<1>3. more \subseteq Block \ blocks
  BY <1>2, FreshFacts
<1>4. /\ ToSet(iters) \cap FreshIters(more) = {}
      /\ \A l \in List : FreshIters(more) \cap All(l) = {}
  BY <1>2, <1>3 DEF FreshIters
<1>5. /\ iters' = SubSeq(Stock(more), SetSize + 1, Len(Stock(more)))
      /\ blocks' = blocks \cup more
      /\ count' = count + BlockSize * Cardinality(more) - SetSize
      /\ refcount' = refcount + SetSize
  BY DEF Get
<1>6. TakenOff(more, set, iters')
  BY <1>1, <1>2, <1>4, <1>5, StockFacts
<1> HIDE DEF set
<1>7. /\ Cardinality(S) = SetSize
      /\ S \subseteq ToSet(iters) \cup FreshIters(more)
      /\ ToSet(iters') = (ToSet(iters) \cup FreshIters(more)) \ S
  BY <1>6 DEF TakenOff
<1> HIDE DEF S
<1>8. \A l \in List : S \cap All(l) = {}
  BY <1>2, <1>4, <1>7
<1>9. FreshIters(more) = UNION {Abstract!Array(b) : b \in more}
  BY DEF FreshIters, ArrayOf, Abstract!Array
<1>10. count' = count + Abstract!Cardinality(more) * BlockSize - SetSize
  <2>1. Abstract!Cardinality(more) = Cardinality(more)
    BY SameOperators
  <2>2. Cardinality(more) \in Nat /\ BlockSize \in Nat
    <3>1. IsFiniteSet(more)
      BY <1>2, FreshFacts
    <3> QED
      BY <3>1, FS_CardinalityType, CCListAssumption
  <2>3. BlockSize * Cardinality(more) = Cardinality(more) * BlockSize
    BY <2>2
  <2> QED
    BY <1>5, <2>1, <2>3
<1>11. more \in Abstract!Needed
  BY DEF Needed, Abstract!Needed
<1>12. Frees' = (Frees \cup UNION {Abstract!Array(b) : b \in more}) \ S
  BY <1>7, <1>9 DEF Frees
<1>13. S \subseteq Frees \cup UNION {Abstract!Array(b) : b \in more}
  BY <1>7, <1>9 DEF Frees
<1>14. Abstract!Cardinality(S) = SetSize
  BY <1>7, SameOperators
<1>15. Abstract!Get(S)
  BY <1>5, <1>10, <1>11, <1>12, <1>13, <1>14 DEF Abstract!Get
<1> QED
  BY <1>6, <1>8, <1>15 DEF S, set

\* cc_listIter_new at a place of the list
LEMMA IterNewImplements ==
  ASSUME CInv, NEW l \in List, l \in live, NEW p, NEW n, Place(Read[l], p, n),
         IterNew(l, p, n), live' = live
  PROVE  CParts' /\ Abstract!Add(l)
<1>1. HomeFacts /\ Chains(Links, Read) /\ Stacks(spare, iters)
  BY Homed DEF CInv
<1>2. /\ spare \in [List -> Seq(Iter)] /\ \A m \in List : IsInjective(spare[m])
      /\ iters \in Seq(Iter) /\ IsInjective(iters)
  BY <1>1 DEF Stacks
<1>3. \A m \in List : Spares[m] = ToSet(spare[m])
  BY DEF Spares
<1> DEFINE With(j, i) == [Read EXCEPT ![l] = InsertAt(Read[l], j, i)]
<1>4. ASSUME NEW i \in Iter, \A m \in List : i \notin ToSet(Read[m]),
             Become(IterAdd(Links, i, l, p, n))
      PROVE  \E j \in 1..(Len(Read[l]) + 1) :
               Chains(Links', Read') /\ Read' = With(j, i)
  <2> DEFINE g == IterAdd(Links, i, l, p, n)
  <2>1. PICK j \in 1..(Len(Read[l]) + 1) : Chains(g, With(j, i))
    BY <1>1, <1>4, AddChains
  <2> HIDE DEF With, g
  <2>2. Become(g)
    BY <1>4 DEF g
  <2>3. Chains(Links', With(j, i)) /\ Read' = With(j, i)
    BY <2>1, <2>2, BecomeLinks
  <2> QED
    BY <2>3
<1>5. ASSUME spare[l] # << >>,
             Become(IterAdd(Links, Head(spare[l]), l, p, n)),
             spare' = [spare EXCEPT ![l] = Tail(@)],
             UNCHANGED pool
      PROVE  CParts' /\ Abstract!Add(l)
  <2> DEFINE s == spare[l]
             i == Head(s)
             t == Tail(s)
  <2>1. /\ i \in Iter /\ i \in ToSet(s) /\ t \in Seq(Iter)
        /\ ToSet(t) = ToSet(s) \ {i} /\ IsInjective(t)
    <3>1. s \in Seq(Iter) /\ IsInjective(s) /\ s # << >>
      BY <1>2, <1>5
    <3> HIDE DEF s
    <3> QED
      BY <3>1, HeadTailFacts
  <2>2. spare' = [spare EXCEPT ![l] = t]
    BY <1>5
  <2> HIDE DEF t, i
  <2>3. \A m \in List : i \notin ToSet(Read[m])
    <3>1. /\ ToSet(Read[l]) \cap ToSet(s) = {}
          /\ \A m \in List : l # m => All(l) \cap All(m) = {}
      BY <1>1 DEF HomeFacts
    <3> QED
      BY <2>1, <3>1 DEF All
  <2>4. PICK j \in 1..(Len(Read[l]) + 1) :
          Chains(Links', Read') /\ Read' = With(j, i)
    BY <1>4, <1>5, <2>1, <2>3 DEF i
  <2>5. /\ Spares' = [Spares EXCEPT ![l] = ToSet(t)]
        /\ spare' \in [List -> Seq(Iter)]
        /\ \A m \in List : IsInjective(spare'[m])
    BY <1>2, <2>1, <2>2, SparesBut
  <2>6. Stacks(spare', iters')
    BY <1>2, <1>5, <2>5 DEF Stacks, pool
  <2>7. Abstract!AddSpare(l, j)
    <3>1. i \in Spares[l] /\ Spares' = [Spares EXCEPT ![l] = Spares[l] \ {i}]
      BY <1>3, <2>1, <2>5
    <3>2. Read' = [Read EXCEPT ![l] = Abstract!InsertAt(Read[l], j, i)]
      BY <2>4, SameOperators
    <3>3. UNCHANGED <<live, Abstract!pool>>
      BY <1>5 DEF Abstract!pool, pool, Frees
    <3> QED
      BY <3>1, <3>2, <3>3 DEF Abstract!AddSpare
  <2>8. Abstract!Add(l)
    BY <2>7 DEF Abstract!Add
  <2> QED
    BY <2>4, <2>6, <2>8 DEF CParts
<1>6. ASSUME spare[l] = << >>, NEW more \in Needed, Get(more),
             Become(IterAdd(Links, Head(SubSeq(Stock(more), 1, SetSize)), l, p, n)),
             spare' = [spare EXCEPT ![l] =
                         Reverse(Tail(SubSeq(Stock(more), 1, SetSize)))]
      PROVE  CParts' /\ Abstract!Add(l)
  <2> DEFINE set == SubSeq(Stock(more), 1, SetSize)
             i == Head(set)
             t == Reverse(Tail(set))
  <2>1. /\ TakenOff(more, set, iters') /\ Abstract!Get(ToSet(set))
        /\ \A m \in List : ToSet(set) \cap All(m) = {}
    BY <1>6, GetImplements
  <2> HIDE DEF set
  <2>2. /\ set \in Seq(Iter) /\ i \in ToSet(set)
        /\ t \in Seq(Iter) /\ IsInjective(t) /\ ToSet(t) = ToSet(set) \ {i}
        /\ iters' \in Seq(Iter) /\ IsInjective(iters')
    BY <2>1 DEF TakenOff
  <2>3. spare' = [spare EXCEPT ![l] = t] /\ Become(IterAdd(Links, i, l, p, n))
    BY <1>6 DEF set
  <2> HIDE DEF t, i
  <2>4. ToSet(set) \subseteq Iter /\ i \in Iter
    BY <2>2 DEF ToSet
  <2>5. \A m \in List : i \notin ToSet(Read[m])
    BY <2>1, <2>2 DEF All
  <2>6. PICK j \in 1..(Len(Read[l]) + 1) :
          Chains(Links', Read') /\ Read' = With(j, i)
    BY <1>4, <2>3, <2>4, <2>5
  <2>7. /\ Spares' = [Spares EXCEPT ![l] = ToSet(t)]
        /\ spare' \in [List -> Seq(Iter)]
        /\ \A m \in List : IsInjective(spare'[m])
    BY <1>2, <2>2, <2>3, SparesBut
  <2>8. Stacks(spare', iters')
    BY <2>2, <2>7 DEF Stacks
  <2>9. Abstract!AddRefill(l, j)
    <3>1. Spares[l] = {}
      BY <1>3, <1>6 DEF ToSet
    <3>2. Read' = [Read EXCEPT ![l] = Abstract!InsertAt(Read[l], j, i)]
      BY <2>6, SameOperators
    <3>3. Spares' = [Spares EXCEPT ![l] = ToSet(set) \ {i}]
      BY <2>2, <2>7
    <3>4. ToSet(set) \in SUBSET Abstract!Iter
      BY <2>4 DEF Abstract!Iter, Iter
    <3> HIDE DEF With
    <3> QED
      BY <2>1, <2>2, <3>1, <3>2, <3>3, <3>4 DEF Abstract!AddRefill
  <2>10. Abstract!Add(l)
    BY <2>9 DEF Abstract!Add
  <2> QED
    BY <2>6, <2>8, <2>10 DEF CParts
<1> QED
  BY <1>5, <1>6 DEF IterNew

\* What In and the fields of a list are, of the links.
LEMMA InRead ==
  ASSUME NEW l \in List
  PROVE  /\ In(l) = ToSet(Read[l])
         /\ Linked(l) = Read[l]
         /\ Links.head = head /\ Links.tail = tail /\ Links.size = size
         /\ Links.next = next /\ Links.prev = prev
BY DEF In, Read, Links

LEMMA InsertImplements ==
  ASSUME CInv, NEW l \in List, Insert(l) \/ AppendIter(l)
  PROVE  CParts' /\ Abstract!Add(l)
<1>1. Read[l] \in Seq(Iter) /\ Chain(Links, l, Read[l])
  BY DEF CInv, Chains, Apart
<1>2. /\ Place(Read[l], NULL, head[l])
      /\ Place(Read[l], tail[l], NULL)
      /\ \A x \in In(l) : Place(Read[l], prev[x], x) /\ Place(Read[l], x, next[x])
  <2>1. /\ Place(Read[l], NULL, Links.head[l])
        /\ Place(Read[l], Links.tail[l], NULL)
        /\ \A x \in ToSet(Read[l]) : /\ Place(Read[l], Links.prev[x], x)
                                     /\ Place(Read[l], x, Links.next[x])
    BY <1>1, Places
  <2> QED
    BY <2>1, InRead
<1>3. live' = live /\ l \in live
  BY DEF Insert, AppendIter
<1>4. \E p, n : Place(Read[l], p, n) /\ IterNew(l, p, n)
  BY <1>2 DEF Insert, AppendIter
<1> QED
  BY <1>3, <1>4, IterNewImplements

\* The spare iterators stay where they are.
LEMMA SameStacks ==
  ASSUME CInv, UNCHANGED <<live, spare, pool>>
  PROVE  /\ Stacks(spare', iters')
         /\ UNCHANGED <<live, Spares, Abstract!pool>>
<1>1. Stacks(spare, iters) /\ UNCHANGED <<live, spare, iters, count, refcount, blocks>>
  BY DEF CInv, pool
<1>2. Stacks(spare', iters')
  BY <1>1
<1>3. Spares' = Spares /\ Frees' = Frees
  BY <1>1 DEF Spares, Frees
<1> QED
  BY <1>1, <1>2, <1>3 DEF Abstract!pool

LEMMA RemoveIterImplements ==
  ASSUME CInv, NEW l \in List, RemoveIter(l)
  PROVE  CParts' /\ Abstract!RemoveIter(l)
<1>1. HomeFacts /\ Chains(Links, Read) /\ Stacks(spare, iters)
  BY Homed DEF CInv
<1>2. /\ spare \in [List -> Seq(Iter)] /\ \A m \in List : IsInjective(spare[m])
      /\ iters \in Seq(Iter) /\ IsInjective(iters)
      /\ Read[l] \in Seq(Iter)
  BY <1>1 DEF Stacks, Chains, Apart
<1>3. PICK i \in ToSet(Read[l]) : /\ Become(IterRemove(Links, i, l))
                                  /\ spare' = [spare EXCEPT ![l] = <<i>> \o @]
  BY InRead DEF RemoveIter
<1>4. PICK c \in 1..Len(Read[l]) : i = Read[l][c]
  BY <1>2, AtFacts
<1>5. i \in Iter /\ i \in ToSet(Read[l])
  BY <1>2 DEF ToSet
<1> DEFINE g == IterRemove(Links, Read[l][c], l)
           q == [Read EXCEPT ![l] = RemoveAt(Read[l], c)]
           t == <<i>> \o spare[l]
<1>6. Chains(Links', q) /\ Read' = q
  <2>1. Chains(g, q)
    BY <1>1, RemoveChains
  <2>2. Become(g)
    BY <1>3, <1>4
  <2> HIDE DEF g, q
  <2> QED
    BY <2>1, <2>2, BecomeLinks
<1>7. t \in Seq(Iter) /\ IsInjective(t) /\ ToSet(t) = ToSet(spare[l]) \cup {i}
  <2> DEFINE one == <<i>>
             s == spare[l]
  <2>1. /\ one \in Seq(Iter) /\ ToSet(one) = {i} /\ IsInjective(one)
    BY <1>5 DEF ToSet, IsInjective
  <2>2. ToSet(one) \cap ToSet(s) = {}
    BY <1>1, <1>5, <2>1 DEF HomeFacts
  <2>3. s \in Seq(Iter) /\ IsInjective(s)
    BY <1>2
  <2> HIDE DEF one, s
  <2>4. /\ one \o s \in Seq(Iter)
        /\ ToSet(one \o s) = ToSet(one) \cup ToSet(s)
        /\ IsInjective(one) /\ IsInjective(s) /\ ToSet(one) \cap ToSet(s) = {}
             => IsInjective(one \o s)
    BY <2>1, <2>3, JoinedProperties
  <2>5. t = one \o s
    BY DEF one, s
  <2> QED
    BY <2>1, <2>2, <2>3, <2>4, <2>5 DEF s
<1>8. spare' = [spare EXCEPT ![l] = t]
  BY <1>3
<1> HIDE DEF t
<1>9. /\ Spares' = [Spares EXCEPT ![l] = ToSet(t)]
      /\ spare' \in [List -> Seq(Iter)]
      /\ \A m \in List : IsInjective(spare'[m])
  BY <1>2, <1>7, <1>8, SparesBut
<1>10. /\ l \in live /\ UNCHANGED <<live, pool>>
  BY DEF RemoveIter
<1>11. Stacks(spare', iters')
  BY <1>2, <1>9, <1>10 DEF Stacks, pool
<1>12. Abstract!RemoveIter(l)
  <2>1. Read' = [Read EXCEPT ![l] = Abstract!RemoveAt(Read[l], c)]
    BY <1>6, SameOperators
  <2>2. Spares' = [Spares EXCEPT ![l] = Spares[l] \cup {Read[l][c]}]
    <3>1. Spares[l] = ToSet(spare[l])
      BY DEF Spares
    <3> QED
      BY <1>4, <1>7, <1>9, <3>1
  <2>3. UNCHANGED <<live, Abstract!pool>>
    BY <1>10 DEF Abstract!pool, pool, Frees
  <2> QED
    BY <1>10, <2>1, <2>2, <2>3 DEF Abstract!RemoveIter
<1> QED
  BY <1>6, <1>11, <1>12 DEF CParts

\* cc_list_move and cc_list_moven: what is there already does not move.
LEMMA MoveIterImplements ==
  ASSUME CInv, NEW l \in List, MoveIter(l)
  PROVE  CParts' /\ (Abstract!Reorder(l) \/ UNCHANGED Abstract!vars)
<1>1. /\ Chains(Links, Read) /\ Read[l] \in Seq(Iter) /\ Chain(Links, l, Read[l])
      /\ Len(Read[l]) \in Nat
  BY DEF CInv, Chains, Apart
<1>2. PICK i \in ToSet(Read[l]), to \in ToSet(Read[l]) \cup {NULL} :
        \/ Become(MovedBefore(Links, l, i, IF to = NULL THEN head[l] ELSE to))
        \/ Become(MovedAfter(Links, l, i, IF to = NULL THEN tail[l] ELSE to))
  BY InRead DEF MoveIter
<1>3. PICK c \in 1..Len(Read[l]) : i = Read[l][c]
  BY <1>1, AtFacts
<1>4. 1 \in 1..Len(Read[l]) /\ Len(Read[l]) \in 1..Len(Read[l])
  BY <1>1
<1>5. head[l] = Read[l][1] /\ tail[l] = Read[l][Len(Read[l])]
  BY <1>1, <1>4, InRead DEF Chain, At
<1>6. to # NULL => \E d \in 1..Len(Read[l]) : to = Read[l][d]
  BY <1>1, AtFacts
<1>7. PICK g : /\ Become(g)
               /\ \E d \in 1..Len(Read[l]) : Moved(Links, Read, l, c, d, g)
  <2>1. \E d \in 1..Len(Read[l]) : (IF to = NULL THEN head[l] ELSE to) = Read[l][d]
    BY <1>4, <1>5, <1>6
  <2>2. \E d \in 1..Len(Read[l]) : (IF to = NULL THEN tail[l] ELSE to) = Read[l][d]
    BY <1>4, <1>5, <1>6
  <2>3. CASE Become(MovedBefore(Links, l, i, IF to = NULL THEN head[l] ELSE to))
    BY <1>3, <2>1, <2>3 DEF Moved
  <2>4. CASE Become(MovedAfter(Links, l, i, IF to = NULL THEN tail[l] ELSE to))
    BY <1>3, <2>2, <2>4 DEF Moved
  <2> QED
    BY <1>2, <2>3, <2>4
<1>8. \/ g = Links
      \/ \E j \in 1..Len(Read[l]) :
           Chains(g, [Read EXCEPT ![l] = Move(Read[l], c, j)])
  <2>1. PICK d \in 1..Len(Read[l]) : Moved(Links, Read, l, c, d, g)
    BY <1>7
  <2>2. Chains(Links, Read)
    BY <1>1
  <2> QED
    BY <2>1, <2>2, MovedChains
<1>9. l \in live /\ UNCHANGED <<live, spare, pool>>
  BY DEF MoveIter
<1>10. Stacks(spare', iters') /\ UNCHANGED <<live, Spares, Abstract!pool>>
  BY <1>9, SameStacks
<1>11. CASE g = Links
  <2>1. Chains(Links', Read) /\ Read' = Read
    BY <1>1, <1>7, <1>11, BecomeLinks
  <2>2. UNCHANGED Abstract!vars
    BY <1>10, <2>1 DEF Abstract!vars, Abstract!lists
  <2> QED
    BY <1>10, <2>1, <2>2 DEF CParts
<1>12. ASSUME NEW j \in 1..Len(Read[l]),
              Chains(g, [Read EXCEPT ![l] = Move(Read[l], c, j)])
       PROVE  CParts' /\ Abstract!Reorder(l)
  <2> DEFINE q == [Read EXCEPT ![l] = Move(Read[l], c, j)]
  <2>1. Chains(Links', q) /\ Read' = q
    <3>1. Chains(g, q)
      BY <1>12
    <3> HIDE DEF q
    <3> QED
      BY <1>7, <3>1, BecomeLinks
  <2>2. Read' = [Read EXCEPT ![l] = Abstract!Move(Read[l], c, j)]
    BY <2>1, SameOperators
  <2>3. Abstract!Reorder(l)
    BY <1>9, <1>10, <2>2 DEF Abstract!Reorder
  <2> QED
    BY <1>10, <2>1, <2>3 DEF CParts
<1> QED
  BY <1>8, <1>11, <1>12

LEMMA SwapImplements ==
  ASSUME CInv, NEW l \in List, NEW m \in List, Swap(l, m)
  PROVE  CParts' /\ Abstract!Swap(l, m)
<1>1. /\ Chains(Links, Read) /\ Read \in [List -> Seq(Iter)]
      /\ l \in live /\ m \in live /\ l # m /\ UNCHANGED <<live, spare, pool>>
  BY DEF CInv, Chains, Apart, Swap
<1>2. PICK i \in ToSet(Read[l]), to \in ToSet(Read[m]) \cup {NULL} :
        LET removed == IterRemove(Links, i, l)
        IN  \/ Become(IterAdd(removed, i, m,
                              IF to = NULL THEN NULL ELSE removed.prev[to],
                              IF to = NULL THEN removed.head[m] ELSE to))
            \/ Become(IterAdd(removed, i, m,
                              IF to = NULL THEN removed.tail[m] ELSE to,
                              IF to = NULL THEN NULL ELSE removed.next[to]))
  BY InRead DEF Swap
<1>3. PICK c \in 1..Len(Read[l]) : i = Read[l][c]
  BY <1>1, AtFacts
<1>4. PICK g : Become(g) /\ SwapTo(Links, l, m, Read[l][c], to, g)
  BY <1>2, <1>3 DEF SwapTo
<1>5. PICK j \in 1..(Len(Read[m]) + 1) : Chains(g, Swapped(Read, l, m, c, j))
  BY <1>1, <1>4, SwapChains
<1>6. Chains(Links', Swapped(Read, l, m, c, j)) /\ Read' = Swapped(Read, l, m, c, j)
  BY <1>4, <1>5, BecomeLinks
<1>7. Stacks(spare', iters') /\ UNCHANGED <<live, Spares, Abstract!pool>>
  BY <1>1, SameStacks
<1>8. Abstract!Swap(l, m)
  <2>1. Read' = [Read EXCEPT ![l] = Abstract!RemoveAt(Read[l], c),
                             ![m] = Abstract!InsertAt(Read[m], j, Read[l][c])]
    BY <1>6, SameOperators DEF Swapped
  <2>2. [Read EXCEPT ![l] = Abstract!RemoveAt(@, c),
                     ![m] = Abstract!InsertAt(@, j, Read[l][c])]
          = [Read EXCEPT ![l] = Abstract!RemoveAt(Read[l], c),
                         ![m] = Abstract!InsertAt(Read[m], j, Read[l][c])]
    BY <1>1
  <2> QED
    BY <1>1, <1>7, <2>1, <2>2 DEF Abstract!Swap
<1> QED
  BY <1>6, <1>7, <1>8 DEF CParts

LEMMA ConcatImplements ==
  ASSUME CInv, NEW l \in List, NEW m \in List, Concat(l, m)
  PROVE  CParts' /\ Abstract!Concat(l, m)
<1>1. /\ Chains(Links, Read) /\ Read \in [List -> Seq(Iter)]
      /\ l \in live /\ m \in live /\ l # m /\ UNCHANGED <<live, spare, pool>>
  BY DEF CInv, Chains, Apart, Concat
<1>2. PICK a, b : /\ Joined(a, b, l, m)
                  /\ (a = l /\ b = m) \/ (a = m /\ b = l)
  BY DEF Concat
<1> DEFINE h == Links'
           q == [Read EXCEPT ![l] = Read[a] \o Read[b], ![m] = << >>]
<1>3. JoinedLinks(Links, h, a, b, l, m)
  <2>1. /\ Links.head = head /\ Links.tail = tail /\ Links.size = size
        /\ Links.next = next /\ Links.prev = prev
        /\ h.head = head' /\ h.tail = tail' /\ h.size = size'
        /\ h.next = next' /\ h.prev = prev'
    BY DEF Links
  <2> HIDE DEF h
  <2> QED
    BY <1>2, <2>1 DEF Joined, JoinedLinks
<1> HIDE DEF h
<1>4. Chains(h, q)
  BY <1>1, <1>2, <1>3, JoinedChains
<1> HIDE DEF q
<1>5. Chains(Links', q) /\ Read' = q
  BY <1>4, ChainsReadNext DEF h
<1>6. Stacks(spare', iters') /\ UNCHANGED <<live, Spares, Abstract!pool>>
  BY <1>1, SameStacks
<1>7. Abstract!Concat(l, m)
  <2>1. Read[a] \o Read[b] \in {Read[l] \o Read[m], Read[m] \o Read[l]}
    BY <1>2
  <2>2. \E joined \in {Read[l] \o Read[m], Read[m] \o Read[l]} :
          Read' = [Read EXCEPT ![l] = joined, ![m] = << >>]
    BY <1>5, <2>1 DEF q
  <2> QED
    BY <1>1, <1>6, <2>2 DEF Abstract!Concat
<1> QED
  BY <1>5, <1>6, <1>7 DEF CParts

\* cc_list_discard, and the part of cc_list_delete that is the same
LEMMA DiscardLinksReads ==
  ASSUME CInv, NEW l \in List, Become(DiscardLinks(l))
  PROVE  Chains(Links', Read') /\ Read' = [Read EXCEPT ![l] = << >>]
<1> DEFINE q == [Read EXCEPT ![l] = << >>]
           g == Emptied(Links, l, Len(Read[l]))
<1>1. Chains(Links, Read) /\ Chain(Links, l, Read[l])
  BY DEF CInv, Chains
<1>2. size[l] = Len(Read[l])
  BY <1>1, InRead DEF Chain
<1>3. DiscardLinks(l) = Emptied(Links, l, size[l])
  BY DEF DiscardLinks, Emptied
<1>4. Become(g)
  BY <1>2, <1>3
<1>5. Chains(g, q)
  BY <1>1, EmptiedChains
<1> HIDE DEF g, q
<1>6. Chains(Links', q) /\ Read' = q
  BY <1>4, <1>5, BecomeLinks
<1> QED
  BY <1>6 DEF q

\* What is discarded is all the list has, each iterator once.
LEMMA DiscardedFacts ==
  ASSUME CInv, NEW l \in List
  PROVE  /\ Discarded(l) \in Seq(Iter) /\ IsInjective(Discarded(l))
         /\ ToSet(Discarded(l)) = All(l)
<1> DEFINE s == Read[l]
           r == Reverse(s)
           t == spare[l]
<1>1. /\ s \in Seq(Iter) /\ IsInjective(s) /\ t \in Seq(Iter) /\ IsInjective(t)
      /\ ToSet(s) \cap ToSet(t) = {}
  BY Homed DEF CInv, Chains, Apart, Stacks, HomeFacts
<1>2. Discarded(l) = r \o t /\ All(l) = ToSet(s) \cup ToSet(t)
  BY InRead DEF Discarded, All
<1> HIDE DEF s, t
<1>3. r \in Seq(Iter) /\ ToSet(r) = ToSet(s) /\ IsInjective(r)
  BY <1>1, ReverseProperties
<1> HIDE DEF r
<1>4. /\ r \o t \in Seq(Iter)
      /\ ToSet(r \o t) = ToSet(r) \cup ToSet(t)
      /\ IsInjective(r) /\ IsInjective(t) /\ ToSet(r) \cap ToSet(t) = {}
           => IsInjective(r \o t)
  BY <1>1, <1>3, JoinedProperties
<1> QED
  BY <1>1, <1>2, <1>3, <1>4

\* The same, as ListPool has it.
LEMMA HeldIsAll ==
  ASSUME NEW l \in List
  PROVE  Abstract!Held(l) = All(l)
BY SameOperators DEF Abstract!Held, All, Spares

LEMMA DiscardImplements ==
  ASSUME CInv, NEW l \in List, Discard(l)
  PROVE  CParts' /\ Abstract!Discard(l)
<1>1. /\ l \in live /\ Become(DiscardLinks(l))
      /\ spare' = [spare EXCEPT ![l] = Discarded(l)] /\ UNCHANGED <<live, pool>>
  BY DEF Discard
<1>2. Chains(Links', Read') /\ Read' = [Read EXCEPT ![l] = << >>]
  BY <1>1, DiscardLinksReads
<1>3. /\ spare \in [List -> Seq(Iter)] /\ \A m \in List : IsInjective(spare[m])
      /\ iters \in Seq(Iter) /\ IsInjective(iters)
  BY DEF CInv, Stacks
<1>4. /\ Discarded(l) \in Seq(Iter) /\ IsInjective(Discarded(l))
      /\ ToSet(Discarded(l)) = All(l)
  BY DiscardedFacts
<1>5. /\ Spares' = [Spares EXCEPT ![l] = ToSet(Discarded(l))]
      /\ spare' \in [List -> Seq(Iter)]
      /\ \A m \in List : IsInjective(spare'[m])
  BY <1>1, <1>3, <1>4, SparesBut
<1>6. Stacks(spare', iters')
  BY <1>1, <1>3, <1>5 DEF Stacks, pool
<1>7. Spares' = [Spares EXCEPT ![l] = Abstract!Held(l)]
  BY <1>4, <1>5, HeldIsAll
<1>8. Abstract!Discard(l)
  BY <1>1, <1>2, <1>7 DEF Abstract!Discard, Abstract!pool, pool, Frees
<1> QED
  BY <1>2, <1>6, <1>8 DEF CParts

\* cc_listPool_put
LEMMA PutImplements ==
  ASSUME CInv, NEW l \in List, Put(Discarded(l))
  PROVE  /\ iters' \in Seq(Iter) /\ IsInjective(iters')
         /\ Abstract!Put(All(l))
<1> DEFINE s == Discarded(l)
           S == All(l)
<1>1. s \in Seq(Iter) /\ IsInjective(s) /\ ToSet(s) = S
  BY DiscardedFacts
<1>2. iters \in Seq(Iter) /\ IsInjective(iters) /\ ToSet(iters) \cap S = {}
  BY Homed DEF CInv, Stacks, HomeFacts
<1>3. Put(s)
  OBVIOUS
<1> HIDE DEF s, S
<1>4. Abstract!Cardinality(S) = Len(s)
  BY <1>1, StackCardinality, SameOperators
<1>5. S = {} <=> s = << >>
  <2>1. s = << >> => S = {}
    BY <1>1 DEF ToSet
  <2>2. s # << >> => Head(s) \in S
    BY <1>1, HeadTailFacts
  <2> QED
    BY <2>1, <2>2
<1>6. CASE s = << >>
  <2>1. UNCHANGED pool
    BY <1>3, <1>6 DEF Put
  <2>2. UNCHANGED Abstract!pool
    BY <2>1 DEF Abstract!pool, pool, Frees
  <2>3. Abstract!Put(S)
    BY <1>5, <1>6, <2>2 DEF Abstract!Put
  <2> QED
    BY <1>2, <2>1, <2>3 DEF S, pool
<1>7. CASE s # << >> /\ refcount = Len(s)
  <2>1. /\ refcount' = refcount - Len(s)
        /\ iters' = << >> /\ count' = 0 /\ blocks' = {}
    BY <1>3, <1>7 DEF Put
  <2>2. Frees' = {} /\ iters' \in Seq(Iter) /\ IsInjective(iters')
    BY <2>1 DEF Frees, ToSet, IsInjective
  <2>3. Abstract!Put(S)
    BY <1>4, <1>5, <1>7, <2>1, <2>2 DEF Abstract!Put
  <2> QED
    BY <2>2, <2>3 DEF S
<1>8. CASE s # << >> /\ refcount # Len(s)
  <2>1. /\ refcount' = refcount - Len(s)
        /\ iters' = s \o iters /\ count' = count + Len(s) /\ UNCHANGED blocks
    BY <1>3, <1>8 DEF Put
  <2>2. /\ s \o iters \in Seq(Iter)
        /\ ToSet(s \o iters) = ToSet(s) \cup ToSet(iters)
        /\ IsInjective(s) /\ IsInjective(iters) /\ ToSet(s) \cap ToSet(iters) = {}
             => IsInjective(s \o iters)
    BY <1>1, <1>2, JoinedProperties
  <2>3. iters' \in Seq(Iter) /\ IsInjective(iters') /\ Frees' = Frees \cup S
    BY <1>1, <1>2, <2>1, <2>2 DEF Frees
  <2>4. Abstract!Put(S)
    BY <1>4, <1>5, <1>8, <2>1, <2>3 DEF Abstract!Put
  <2> QED
    BY <2>3, <2>4 DEF S
<1> QED
  BY <1>6, <1>7, <1>8

LEMMA DeleteImplements ==
  ASSUME CInv, NEW l \in List, Delete(l)
  PROVE  CParts' /\ Abstract!Delete(l)
<1>1. /\ l \in live /\ live' = live \ {l} /\ Become(DiscardLinks(l))
      /\ spare' = [spare EXCEPT ![l] = << >>] /\ Put(Discarded(l))
  BY DEF Delete
<1>2. Chains(Links', Read') /\ Read' = [Read EXCEPT ![l] = << >>]
  BY <1>1, DiscardLinksReads
<1>3. /\ spare \in [List -> Seq(Iter)] /\ \A m \in List : IsInjective(spare[m])
  BY DEF CInv, Stacks
<1>4. << >> \in Seq(Iter) /\ ToSet(<< >>) = {} /\ IsInjective(<< >>)
  BY DEF ToSet, IsInjective
<1>5. /\ Spares' = [Spares EXCEPT ![l] = ToSet(<< >>)]
      /\ spare' \in [List -> Seq(Iter)]
      /\ \A m \in List : IsInjective(spare'[m])
  BY <1>1, <1>3, <1>4, SparesBut
<1>6. /\ iters' \in Seq(Iter) /\ IsInjective(iters')
      /\ Abstract!Put(All(l))
  BY <1>1, PutImplements
<1>7. Stacks(spare', iters')
  BY <1>5, <1>6 DEF Stacks
<1>8. Abstract!Put(Abstract!Held(l)) /\ Spares' = [Spares EXCEPT ![l] = {}]
  BY <1>4, <1>5, <1>6, HeldIsAll
<1>9. Abstract!Delete(l)
  BY <1>1, <1>2, <1>8 DEF Abstract!Delete
<1> QED
  BY <1>2, <1>7, <1>9 DEF CParts

-----------------------------------------------------------------------------
(* The theorems. *)

\* Sequences and Abstract are one specification.
LEMMA SameInit == Abstract!Init <=> Sequences!Init
BY DEF Abstract!Init, Sequences!Init, Read, Spares, Frees

LEMMA SameVars ==
  UNCHANGED Abstract!vars <=> UNCHANGED Sequences!vars
BY DEF Abstract!vars, Abstract!lists, Abstract!pool, Sequences!vars,
       Sequences!lists, Sequences!pool, Read, Spares, Frees

LEMMA SameAdd == ASSUME NEW l PROVE Abstract!Add(l) <=> Sequences!Add(l)
BY DEF Abstract!Add, Abstract!AddSpare, Abstract!AddRefill, Abstract!Get,
       Abstract!Needed, Abstract!Iter, Abstract!Array, Abstract!pool,
       Abstract!InsertAt, Abstract!Cardinality,
       Sequences!Add, Sequences!AddSpare, Sequences!AddRefill, Sequences!Get,
       Sequences!Needed, Sequences!Iter, Sequences!Array, Sequences!pool,
       Sequences!InsertAt, Sequences!Cardinality, Read, Spares, Frees

LEMMA SameNew == ASSUME NEW l PROVE Abstract!New(l) <=> Sequences!New(l)
BY DEF Abstract!New, Sequences!New, Abstract!pool, Sequences!pool,
       Read, Spares, Frees

LEMMA SameRemoveIter ==
  ASSUME NEW l PROVE Abstract!RemoveIter(l) <=> Sequences!RemoveIter(l)
BY DEF Abstract!RemoveIter, Sequences!RemoveIter, Abstract!pool,
       Sequences!pool, Abstract!RemoveAt, Sequences!RemoveAt,
       Read, Spares, Frees

LEMMA SameReorder ==
  ASSUME NEW l PROVE Abstract!Reorder(l) <=> Sequences!Reorder(l)
BY DEF Abstract!Reorder, Sequences!Reorder, Abstract!pool, Sequences!pool,
       Abstract!Move, Sequences!Move, Abstract!RemoveAt, Sequences!RemoveAt,
       Abstract!InsertAt, Sequences!InsertAt, Read, Spares, Frees

LEMMA SameSwap ==
  ASSUME NEW l, NEW m PROVE Abstract!Swap(l, m) <=> Sequences!Swap(l, m)
BY DEF Abstract!Swap, Sequences!Swap, Abstract!pool, Sequences!pool,
       Abstract!RemoveAt, Sequences!RemoveAt,
       Abstract!InsertAt, Sequences!InsertAt, Read, Spares, Frees

LEMMA SameConcat ==
  ASSUME NEW l, NEW m PROVE Abstract!Concat(l, m) <=> Sequences!Concat(l, m)
BY DEF Abstract!Concat, Sequences!Concat, Abstract!pool, Sequences!pool,
       Read, Spares, Frees

LEMMA SameDiscard ==
  ASSUME NEW l PROVE Abstract!Discard(l) <=> Sequences!Discard(l)
BY DEF Abstract!Discard, Sequences!Discard, Abstract!pool, Sequences!pool,
       Abstract!Held, Sequences!Held, Abstract!ToSet, Sequences!ToSet,
       Read, Spares, Frees

LEMMA SameDelete ==
  ASSUME NEW l PROVE Abstract!Delete(l) <=> Sequences!Delete(l)
BY DEF Abstract!Delete, Sequences!Delete, Abstract!pool, Sequences!pool,
       Abstract!Held, Sequences!Held, Abstract!ToSet, Sequences!ToSet,
       Abstract!Put, Sequences!Put, Abstract!Cardinality,
       Sequences!Cardinality, Read, Spares, Frees

LEMMA SameNext == Abstract!Next <=> Sequences!Next
BY SameNew, SameAdd, SameRemoveIter, SameReorder, SameDiscard, SameDelete,
   SameSwap, SameConcat DEF Abstract!Next, Sequences!Next

LEMMA NextImplements ==
  CInv /\ [Next]_vars => CParts' /\ [Abstract!Next]_(Abstract!vars)
<1> SUFFICES ASSUME CInv, [Next]_vars
             PROVE  CParts' /\ [Abstract!Next]_(Abstract!vars)
  OBVIOUS
<1>1. ASSUME NEW l \in List,
             \/ New(l) \/ Insert(l) \/ AppendIter(l) \/ RemoveIter(l)
             \/ MoveIter(l) \/ Discard(l) \/ Delete(l)
      PROVE  CParts' /\ [Abstract!Next]_(Abstract!vars)
  <2>1. CASE New(l)
    BY <2>1, NewImplements DEF Abstract!Next
  <2>2. CASE Insert(l) \/ AppendIter(l)
    BY <2>2, InsertImplements DEF Abstract!Next
  <2>3. CASE RemoveIter(l)
    BY <2>3, RemoveIterImplements DEF Abstract!Next
  <2>4. CASE MoveIter(l)
    BY <2>4, MoveIterImplements DEF Abstract!Next
  <2>5. CASE Discard(l)
    BY <2>5, DiscardImplements DEF Abstract!Next
  <2>6. CASE Delete(l)
    BY <2>6, DeleteImplements DEF Abstract!Next
  <2> QED
    BY <1>1, <2>1, <2>2, <2>3, <2>4, <2>5, <2>6
<1>2. ASSUME NEW l \in List, NEW m \in List, Swap(l, m) \/ Concat(l, m)
      PROVE  CParts' /\ [Abstract!Next]_(Abstract!vars)
  BY <1>2, SwapImplements, ConcatImplements DEF Abstract!Next
<1>3. CASE UNCHANGED vars
  <2>1. UNCHANGED links /\ UNCHANGED <<live, spare, pool>>
    BY <1>3 DEF vars
  <2>2. Chains(Links', Read') /\ Read' = Read
    BY <2>1, SameLinks DEF CInv
  <2>3. Stacks(spare', iters') /\ UNCHANGED <<live, Spares, Abstract!pool>>
    BY <2>1, SameStacks
  <2> QED
    BY <2>2, <2>3 DEF CParts, Abstract!vars, Abstract!lists
<1> QED
  BY <1>1, <1>2, <1>3 DEF Next

LEMMA CInvInit == Init => CInv /\ Sequences!Init
BY InitImplements, AbstractInit, SameInit DEF CInv, CParts

LEMMA CInvNext ==
  CInv /\ [Next]_vars => CInv' /\ [Sequences!Next]_(Sequences!vars)
<1> SUFFICES ASSUME CInv, [Next]_vars
             PROVE  CInv' /\ [Sequences!Next]_(Sequences!vars)
  OBVIOUS
<1>1. CParts' /\ [Abstract!Next]_(Abstract!vars)
  BY NextImplements
<1>2. Abstract!IInv
  BY DEF CInv
<1>3. Abstract!IInv'
  BY <1>1, <1>2, AbstractNext
<1>4. CInv'
  BY <1>1, <1>3 DEF CInv, CParts
<1>5. [Sequences!Next]_(Sequences!vars)
  BY <1>1, SameNext, SameVars
<1> QED
  BY <1>4, <1>5

(* What is linked and what is stacked stays as the pointers have it to be, in
   every reachable state. *)
THEOREM CCListInvariant == Spec => []CInv
<1>1. Init => CInv
  BY CInvInit
<1>2. CInv /\ [Next]_vars => CInv'
  BY CInvNext
<1> QED
  BY <1>1, <1>2, PTL DEF Spec

(* Every list reads the same from its head by next and from its tail by prev,
   through every insertion, removal, move, swap, join and discard: no pointer
   is left to an iterator that has gone. *)
THEOREM CCListLinksAgree == Spec => []LinksAgree
<1>1. CInv => LinksAgree
  <2> SUFFICES ASSUME CInv, NEW l \in List
               PROVE  LET s == Linked(l)
                      IN  /\ head[l] = IF s = << >> THEN NULL ELSE s[1]
                          /\ tail[l] = IF s = << >> THEN NULL ELSE Last(s)
                          /\ \A k \in DOMAIN s :
                               /\ s[k] \in Iter
                               /\ prev[s[k]] = IF k = 1 THEN NULL ELSE s[k - 1]
                               /\ next[s[k]] = IF k = Len(s) THEN NULL
                                               ELSE s[k + 1]
    BY DEF LinksAgree
  <2> DEFINE s == Linked(l)
  <2>1. s \in Seq(Iter) /\ Chain(Links, l, s)
    BY InRead DEF CInv, Chains, Apart
  <2> HIDE DEF s
  <2>2. /\ head[l] = At(s, 1) /\ tail[l] = At(s, Len(s))
        /\ \A k \in 1..Len(s) :
             prev[s[k]] = At(s, k - 1) /\ next[s[k]] = At(s, k + 1)
    BY <2>1, InRead DEF Chain
  <2>3. /\ DOMAIN s = 1..Len(s) /\ Len(s) \in Nat
        /\ s = << >> <=> Len(s) = 0
        /\ \A k \in 1..Len(s) : s[k] \in Iter
    BY <2>1
  <2>4. head[l] = IF s = << >> THEN NULL ELSE s[1]
    BY <2>2, <2>3 DEF At
  <2>5. tail[l] = IF s = << >> THEN NULL ELSE Last(s)
    BY <2>2, <2>3 DEF At, Last
  <2>6. ASSUME NEW k \in 1..Len(s)
        PROVE  /\ s[k] \in Iter
               /\ prev[s[k]] = IF k = 1 THEN NULL ELSE s[k - 1]
               /\ next[s[k]] = IF k = Len(s) THEN NULL ELSE s[k + 1]
    <3>1. s[k] \in Iter
      BY <2>3
    <3>2. At(s, k - 1) = IF k = 1 THEN NULL ELSE s[k - 1]
      BY <2>3 DEF At
    <3>3. At(s, k + 1) = IF k = Len(s) THEN NULL ELSE s[k + 1]
      <4> DEFINE n == Len(s)
      <4>1. n \in Nat /\ k \in 1..n
        BY <2>3
      <4> HIDE DEF n
      <4>2. k + 1 \in 1..n <=> k # n
        BY <4>1
      <4>3. At(s, k + 1) = IF k = n THEN NULL ELSE s[k + 1]
        BY <4>2 DEF At, n
      <4> QED
        BY <4>3 DEF n
    <3> QED
      BY <2>2, <3>1, <3>2, <3>3
  <2> QED
    BY <2>3, <2>4, <2>5, <2>6 DEF s
<1> QED
  BY <1>1, CCListInvariant, PTL

(* The pointers implement sequences and the stacks sets: each call of the list
   does what ListPool says it does, for any number of lists and any sizes of
   the blocks and of the sets taken from them. *)
THEOREM CCListImplementsListPool == Spec => ListPoolSpec
<1>1. Init => CInv /\ Sequences!Init
  BY CInvInit
<1>2. CInv /\ [Next]_vars => CInv' /\ [Sequences!Next]_(Sequences!vars)
  BY CInvNext
<1> QED
  BY <1>1, <1>2, PTL DEF Spec, ListPoolSpec, Sequences!Spec

=============================================================================
