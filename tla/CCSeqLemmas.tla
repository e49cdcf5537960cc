---------------------------- MODULE CCSeqLemmas ----------------------------
(***************************************************************************)
(* What the operators of CCSeq, and InsertAt, RemoveAt, Head and Tail,     *)
(* make of a queue: a sequence without repetitions is turned into another, *)
(* with exactly the members it should have.                                *)
(***************************************************************************)
EXTENDS CCSeq, SequenceTheorems, WellFoundedInduction, TLAPS

-----------------------------------------------------------------------------
(* Induction up to a bound, for a set instead of a predicate. *)

NatLess == {p \in Nat \X Nat : p[1] < p[2]}

LEMMA NatLessWellFounded == IsWellFoundedOn(NatLess, Nat)
<1>1. OpToRel(<, Nat) = NatLess
  BY Zenon DEF OpToRel, NatLess
<1> QED
  BY NatLessThanWellFounded, <1>1, Zenon DEF OpToRel

LEMMA LeastNat ==
  ASSUME NEW S \in SUBSET Nat, S # {}
  PROVE  \E m \in S : \A k \in S : m <= k
<1>1. PICK m \in S : \A k \in S : ~(<<k, m>> \in NatLess)
  BY NatLessWellFounded, WFMin, Zenon
<1>2. \A k \in S : ~(k < m)
  BY <1>1 DEF NatLess
<1> QED
  BY <1>2

LEMMA InductionUpTo ==
  ASSUME NEW n \in Nat, NEW S,
         0 \in S,
         \A i \in 0..(n - 1) : i \in S => i + 1 \in S
  PROVE  0..n \subseteq S
<1> DEFINE Missing == {i \in 0..n : i \notin S}
<1>1. SUFFICES ASSUME Missing # {} PROVE FALSE
  OBVIOUS
<1>2. PICK m \in Missing : \A k \in Missing : m <= k
  <2>1. Missing \in SUBSET Nat
    OBVIOUS
  <2> HIDE DEF Missing
  <2> QED
    BY <1>1, <2>1, LeastNat
<1>3. m # 0 /\ m \in 0..n
  OBVIOUS
<1>4. m - 1 \in 0..(n - 1) /\ m - 1 \notin Missing
  BY <1>2, <1>3
<1>5. m - 1 \in S
  BY <1>4
<1> QED
  BY <1>3, <1>4, <1>5

(* Recursion up to a bound, for a function instead of an operator. *)
IsStep(step, n, V) == step \in [(1..n) \X V -> V]

Unrolls(f, n, V, v, step) ==
  /\ f \in [0..n -> V]
  /\ f[0] = v
  /\ \A i \in 1..n : f[i] = step[<<i, f[i - 1]>>]

LEMMA RecursionUpTo ==
  ASSUME NEW n, n \in Nat, NEW V, NEW v, v \in V, NEW step, IsStep(step, n, V)
  PROVE  \E f : Unrolls(f, n, V, v, step)
<1> USE DEF IsStep
<1> DEFINE Upto(k, f) == f[0] = v /\ \A i \in 1..k : f[i] = step[<<i, f[i - 1]>>]
           D == {k \in 0..n : \E f \in [0..k -> V] : Upto(k, f)}
<1>1. 0 \in D
  <2> DEFINE g == [i \in 0..0 |-> v]
  <2>1. g \in [0..0 -> V] /\ Upto(0, g) /\ 0 \in 0..n
    OBVIOUS
  <2> HIDE DEF g
  <2> QED
    BY <2>1
<1>2. ASSUME NEW k \in 0..(n - 1), k \in D
      PROVE  k + 1 \in D
  <2>1. PICK f \in [0..k -> V] : Upto(k, f)
    BY <1>2
  <2>2. k \in Nat /\ k + 1 \in 1..n /\ k + 1 \in 0..n
    OBVIOUS
  <2> DEFINE w == step[<<k + 1, f[k]>>]
             g == [i \in 0..(k + 1) |-> IF i <= k THEN f[i] ELSE w]
  <2>3. w \in V
    <3>1. f[k] \in V /\ <<k + 1, f[k]>> \in (1..n) \X V
      BY <2>1, <2>2
    <3> QED
      BY <3>1
  <2>4. g \in [0..(k + 1) -> V] /\ \A i \in 0..k : g[i] = f[i]
    BY <2>2, <2>3
  <2>5. g[k + 1] = w
    BY <2>2
  <2> HIDE DEF g
  <2>6. g[0] = v
    BY <2>1, <2>2, <2>4
  <2>7. ASSUME NEW i \in 1..(k + 1)
        PROVE  g[i] = step[<<i, g[i - 1]>>]
    <3>1. CASE i <= k
      BY <2>1, <2>2, <2>4, <3>1
    <3>2. CASE i = k + 1
      BY <2>2, <2>4, <2>5, <3>2
    <3> QED
      BY <2>2, <3>1, <3>2
  <2>8. Upto(k + 1, g)
    BY <2>6, <2>7
  <2> QED
    BY <2>2, <2>4, <2>8
<1>3. 0..n \subseteq D
  <2> HIDE DEF D
  <2> QED
    BY <1>1, <1>2, InductionUpTo
<1>4. n \in D
  BY <1>3
<1> QED
  BY <1>4 DEF Unrolls

-----------------------------------------------------------------------------
(* The recursive function in Keep. *)

KeepStep(s, S, g, i) ==
  IF i = 0 THEN << >>
  ELSE IF s[i] \in S THEN Append(g[i - 1], s[i])
  ELSE g[i - 1]

\* The functions that do what Keep's function should do, up to n.
KeepUpTo(s, S, n) ==
  {g \in [0..n -> Seq(ToSet(s))] : \A i \in 0..n : g[i] = KeepStep(s, S, g, i)}

LEMMA KeepExists ==
  ASSUME NEW T, NEW s \in Seq(T), NEW S
  PROVE  \E g : g = [i \in 0..Len(s) |-> KeepStep(s, S, g, i)]
<1> DEFINE D == {n \in 0..Len(s) : KeepUpTo(s, S, n) # {}}
<1>1. Len(s) \in Nat
  OBVIOUS
<1>2. 0 \in D
  <2>1. [i \in 0..0 |-> << >>] \in KeepUpTo(s, S, 0)
    BY DEF KeepUpTo, KeepStep
  <2> QED
    BY <2>1, <1>1
<1>3. ASSUME NEW n \in 0..(Len(s) - 1), n \in D
      PROVE  n + 1 \in D
  <2>1. PICK g : g \in KeepUpTo(s, S, n)
    BY <1>3
  <2> DEFINE h == [i \in 0..(n + 1) |->
                     IF i <= n THEN g[i] ELSE KeepStep(s, S, g, n + 1)]
  <2>2. n + 1 \in 1..Len(s) /\ n + 1 \in 0..Len(s) /\ n \in Nat
    OBVIOUS
  <2>3. g \in [0..n -> Seq(ToSet(s))]
    BY <2>1 DEF KeepUpTo
  <2>4. KeepStep(s, S, g, n + 1) \in Seq(ToSet(s))
    BY <2>2, <2>3 DEF KeepStep, ToSet
  <2>5. h \in [0..(n + 1) -> Seq(ToSet(s))]
    BY <2>2, <2>3, <2>4
  <2>6. ASSUME NEW i \in 0..(n + 1)
        PROVE  h[i] = KeepStep(s, S, h, i)
    <3>1. CASE i <= n
      <4>1. h[i] = g[i] /\ g[i] = KeepStep(s, S, g, i)
        BY <3>1, <2>1 DEF KeepUpTo
      <4>2. i # 0 => h[i - 1] = g[i - 1]
        BY <3>1
      <4> HIDE DEF h
      <4> QED
        BY <4>1, <4>2 DEF KeepStep
    <3>2. CASE i = n + 1
      <4>1. h[n + 1] = KeepStep(s, S, g, n + 1) /\ h[n] = g[n]
        BY <2>2
      <4>2. n + 1 - 1 = n /\ n + 1 # 0
        BY <2>2
      <4> HIDE DEF h
      <4> QED
        BY <4>1, <4>2, <3>2 DEF KeepStep
    <3> QED
      BY <3>1, <3>2
  <2>7. h \in KeepUpTo(s, S, n + 1)
    BY <2>5, <2>6 DEF KeepUpTo
  <2> QED
    BY <2>7, <2>2
<1>4. 0..Len(s) \subseteq D
  <2> HIDE DEF D
  <2> QED
    BY <1>1, <1>2, <1>3, InductionUpTo
<1>5. PICK g : g \in KeepUpTo(s, S, Len(s))
  BY <1>4, <1>1
<1> QED
  BY <1>5 DEF KeepUpTo

\* r is what Keep should have kept of the first n members of s.
KeptOf(s, S, T, r, n) ==
  /\ r \in Seq(T)
  /\ ToSet(r) = {s[i] : i \in 1..n} \cap S
  /\ IsInjective(s) => IsInjective(r)
  /\ \A k, l \in DOMAIN r : k < l =>
       \E i, j \in 1..n : i < j /\ r[k] = s[i] /\ r[l] = s[j]

LEMMA AppendFacts ==
  ASSUME NEW T, NEW r \in Seq(T), NEW x \in T
  PROVE  /\ Append(r, x) \in Seq(T)
         /\ Len(r) \in Nat
         /\ DOMAIN r = 1..Len(r)
         /\ DOMAIN Append(r, x) = 1..(Len(r) + 1)
         /\ Len(Append(r, x)) = Len(r) + 1
         /\ \A k \in 1..Len(r) : Append(r, x)[k] = r[k]
         /\ Append(r, x)[Len(r) + 1] = x
         /\ ToSet(Append(r, x)) = ToSet(r) \cup {x}
         /\ IsInjective(r) /\ x \notin ToSet(r) => IsInjective(Append(r, x))
<1>1. /\ Append(r, x) \in Seq(T)
      /\ Len(r) \in Nat
      /\ DOMAIN r = 1..Len(r)
      /\ DOMAIN Append(r, x) = 1..(Len(r) + 1)
      /\ Len(Append(r, x)) = Len(r) + 1
      /\ \A k \in 1..Len(r) : Append(r, x)[k] = r[k]
      /\ Append(r, x)[Len(r) + 1] = x
  OBVIOUS
<1> HIDE <1>1
<1>2. ToSet(Append(r, x)) = ToSet(r) \cup {x}
  BY <1>1 DEF ToSet
<1>3. IsInjective(r) /\ x \notin ToSet(r) => IsInjective(Append(r, x))
  BY <1>1 DEF ToSet, IsInjective
<1> QED
  BY <1>1, <1>2, <1>3

\* One turn of Keep's loop.
LEMMA KeptOfNext ==
  ASSUME NEW T, NEW s \in Seq(T), NEW S, NEW r, NEW n \in 0..(Len(s) - 1),
         KeptOf(s, S, T, r, n)
  PROVE  KeptOf(s, S, T, IF s[n + 1] \in S THEN Append(r, s[n + 1]) ELSE r,
                n + 1)
<1> DEFINE x == s[n + 1]
<1>1. /\ n \in Nat /\ n + 1 \in DOMAIN s /\ 1..n \subseteq DOMAIN s
      /\ 1..(n + 1) = 1..n \cup {n + 1} /\ n + 1 \notin 1..n
      /\ \A i \in 1..n : i < n + 1
      /\ x \in T
  OBVIOUS
<1>2. {s[i] : i \in 1..(n + 1)} = {s[i] : i \in 1..n} \cup {x}
  BY <1>1
<1>3. /\ r \in Seq(T)
      /\ ToSet(r) = {s[i] : i \in 1..n} \cap S
      /\ IsInjective(s) => IsInjective(r)
      /\ \A k, l \in DOMAIN r : k < l =>
           \E i, j \in 1..n : i < j /\ r[k] = s[i] /\ r[l] = s[j]
  BY DEF KeptOf
<1> HIDE DEF x
<1>4. CASE x \notin S
  <2>1. ToSet(r) = {s[i] : i \in 1..(n + 1)} \cap S
    BY <1>2, <1>3, <1>4
  <2>2. ASSUME NEW k \in DOMAIN r, NEW l \in DOMAIN r, k < l
        PROVE  \E i, j \in 1..(n + 1) : i < j /\ r[k] = s[i] /\ r[l] = s[j]
    <3>1. PICK i \in 1..n, j \in 1..n : i < j /\ r[k] = s[i] /\ r[l] = s[j]
      BY <1>3, <2>2
    <3> QED
      BY <1>1, <3>1
  <2> QED
    BY <1>3, <1>4, <2>1, <2>2 DEF KeptOf, x
<1>5. CASE x \in S
  <2>1. /\ Append(r, x) \in Seq(T)
        /\ Len(r) \in Nat
        /\ DOMAIN r = 1..Len(r)
        /\ DOMAIN Append(r, x) = 1..(Len(r) + 1)
        /\ \A k \in 1..Len(r) : Append(r, x)[k] = r[k]
        /\ Append(r, x)[Len(r) + 1] = x
        /\ ToSet(Append(r, x)) = ToSet(r) \cup {x}
        /\ IsInjective(r) /\ x \notin ToSet(r) => IsInjective(Append(r, x))
    BY <1>1, <1>3, AppendFacts
  <2>2. ToSet(Append(r, x)) = {s[i] : i \in 1..(n + 1)} \cap S
    BY <1>2, <1>3, <1>5, <2>1
  <2>3. IsInjective(s) => IsInjective(Append(r, x))
    <3>1. IsInjective(s) => x \notin {s[i] : i \in 1..n}
      BY <1>1 DEF IsInjective, x
    <3> QED
      BY <3>1, <1>3, <2>1
  <2>4. ASSUME NEW k \in DOMAIN Append(r, x), NEW l \in DOMAIN Append(r, x),
               k < l
        PROVE  \E i, j \in 1..(n + 1) :
                 i < j /\ Append(r, x)[k] = s[i] /\ Append(r, x)[l] = s[j]
    <3>1. k \in 1..Len(r)
      BY <2>1, <2>4
    <3>2. CASE l \in 1..Len(r)
      <4>1. PICK i \in 1..n, j \in 1..n : i < j /\ r[k] = s[i] /\ r[l] = s[j]
        BY <1>3, <2>1, <2>4, <3>1, <3>2
      <4> QED
        BY <1>1, <2>1, <3>1, <3>2, <4>1
    <3>3. CASE l = Len(r) + 1
      <4>1. r[k] \in ToSet(r)
        BY <3>1, <2>1 DEF ToSet
      <4>2. PICK i \in 1..n : r[k] = s[i]
        BY <4>1, <1>3
      <4> QED
        BY <1>1, <2>1, <3>1, <3>3, <4>2 DEF x
    <3> QED
      BY <3>2, <3>3, <2>1
  <2> QED
    BY <1>5, <2>1, <2>2, <2>3, <2>4 DEF KeptOf, x
<1> QED
  BY <1>4, <1>5

\* Keep returns the members of s that lie in S, in their order in s.
\* What Keep returns, one member of s at a time.
KeepSteps(s, S, f) ==
  /\ f[0] = << >>
  /\ \A n \in 0..(Len(s) - 1) :
       f[n + 1] = IF s[n + 1] \in S THEN Append(f[n], s[n + 1]) ELSE f[n]
  /\ Keep(s, S) = f[Len(s)]

LEMMA KeepUnfolds ==
  ASSUME NEW T, NEW s \in Seq(T), NEW S
  PROVE  \E f : KeepSteps(s, S, f)
<1> DEFINE f == CHOOSE g : g = [i \in 0..Len(s) |->
                  IF i = 0 THEN << >>
                  ELSE IF s[i] \in S THEN Append(g[i - 1], s[i])
                  ELSE g[i - 1]]
<1>1. f = [i \in 0..Len(s) |-> KeepStep(s, S, f, i)]
  <2>1. \E g : g = [i \in 0..Len(s) |->
                      IF i = 0 THEN << >>
                      ELSE IF s[i] \in S THEN Append(g[i - 1], s[i])
                      ELSE g[i - 1]]
    BY KeepExists, Zenon DEF KeepStep
  <2>2. f = [i \in 0..Len(s) |->
               IF i = 0 THEN << >>
               ELSE IF s[i] \in S THEN Append(f[i - 1], s[i])
               ELSE f[i - 1]]
    BY <2>1, Zenon
  <2> QED
    BY <2>2, Zenon DEF KeepStep
<1>2. Keep(s, S) = f[Len(s)]
  BY Zenon DEF Keep
<1>3. Len(s) \in Nat /\ DOMAIN s = 1..Len(s)
  OBVIOUS
<1> HIDE DEF f
<1>4. \A i \in 0..Len(s) : f[i] = KeepStep(s, S, f, i)
  BY <1>1, Zenon
<1>5. f[0] = << >>
  BY <1>3, <1>4 DEF KeepStep
<1>6. ASSUME NEW n \in 0..(Len(s) - 1)
      PROVE  f[n + 1] = IF s[n + 1] \in S THEN Append(f[n], s[n + 1]) ELSE f[n]
  <2>1. n + 1 \in 0..Len(s) /\ n + 1 # 0 /\ n + 1 - 1 = n
    BY <1>3
  <2>2. f[n + 1] = IF s[n + 1] \in S THEN Append(f[n], s[n + 1]) ELSE f[n]
    <3>1. f[n + 1] = KeepStep(s, S, f, n + 1)
      BY <1>4, <2>1, Zenon
    <3> DEFINE m == n + 1
    <3>2. f[m] = KeepStep(s, S, f, m) /\ m # 0 /\ m - 1 = n
      BY <3>1, <2>1
    <3> HIDE DEF m
    <3>3. f[m] = IF s[m] \in S THEN Append(f[n], s[m]) ELSE f[n]
      BY <3>2, Zenon DEF KeepStep
    <3> QED
      BY <3>3, Zenon DEF m
  <2> QED
    BY <2>2
<1> QED
  BY <1>2, <1>5, <1>6 DEF KeepSteps

LEMMA KeepProperties ==
  ASSUME NEW T, NEW s \in Seq(T), NEW S
  PROVE  /\ Keep(s, S) \in Seq(T)
         /\ ToSet(Keep(s, S)) = ToSet(s) \cap S
         /\ IsInjective(s) => IsInjective(Keep(s, S))
         /\ \A k, l \in DOMAIN Keep(s, S) : k < l =>
              \E i, j \in 1..Len(s) :
                i < j /\ Keep(s, S)[k] = s[i] /\ Keep(s, S)[l] = s[j]
<1>1. PICK f : KeepSteps(s, S, f)
  BY KeepUnfolds
<1>2. Keep(s, S) = f[Len(s)] /\ f[0] = << >>
  BY <1>1 DEF KeepSteps
<1> DEFINE D == {i \in 0..Len(s) : KeptOf(s, S, T, f[i], i)}
<1>3. Len(s) \in Nat /\ DOMAIN s = 1..Len(s)
  OBVIOUS
<1>5. 0 \in D
  <2>1. f[0] = << >> /\ 0 \in 0..Len(s)
    BY <1>2, <1>3
  <2>2. KeptOf(s, S, T, << >>, 0)
    BY DEF KeptOf, ToSet, IsInjective
  <2> QED
    BY <2>1, <2>2
<1>6. ASSUME NEW n \in 0..(Len(s) - 1), n \in D
      PROVE  n + 1 \in D
  <2>1. n + 1 \in 0..Len(s) /\ n + 1 # 0 /\ n + 1 - 1 = n
    BY <1>3
  <2>2. f[n + 1] = IF s[n + 1] \in S THEN Append(f[n], s[n + 1]) ELSE f[n]
    BY <1>1 DEF KeepSteps
  <2>3. KeptOf(s, S, T, f[n + 1], n + 1)
    BY <1>6, <2>2, KeptOfNext
  <2> QED
    BY <2>1, <2>3
<1>7. 0..Len(s) \subseteq D
  <2> HIDE DEF D
  <2> QED
    BY <1>3, <1>5, <1>6, InductionUpTo
<1>8. Len(s) \in 0..Len(s)
  BY <1>3
<1>9. KeptOf(s, S, T, Keep(s, S), Len(s))
  BY <1>2, <1>7, <1>8
<1>10. ToSet(s) = {s[i] : i \in 1..Len(s)}
  BY <1>3, Zenon DEF ToSet
<1>11. /\ Keep(s, S) \in Seq(T)
       /\ ToSet(Keep(s, S)) = ToSet(s) \cap S
       /\ IsInjective(s) => IsInjective(Keep(s, S))
  BY <1>9, <1>10, Zenon DEF KeptOf
<1>12. \A k, l \in DOMAIN Keep(s, S) : k < l =>
         \E i, j \in 1..Len(s) :
           i < j /\ Keep(s, S)[k] = s[i] /\ Keep(s, S)[l] = s[j]
  BY <1>9, Zenon DEF KeptOf
<1> QED
  BY <1>11, <1>12

-----------------------------------------------------------------------------
(* One member goes in, or out. *)

LEMMA InToSet ==
  ASSUME NEW T, NEW s \in Seq(T), NEW x
  PROVE  x \in ToSet(s) <=> \E i \in 1..Len(s) : s[i] = x
<1>1. DOMAIN s = 1..Len(s)
  OBVIOUS
<1> QED
  BY <1>1 DEF ToSet

LEMMA InsertAtElements ==
  ASSUME NEW T, NEW s \in Seq(T), NEW x \in T, NEW i \in 1..(Len(s) + 1)
  PROVE  /\ InsertAt(s, i, x) \in Seq(T)
         /\ Len(InsertAt(s, i, x)) = Len(s) + 1
         /\ \A j \in 1..(Len(s) + 1) :
              InsertAt(s, i, x)[j] =
                IF j < i THEN s[j] ELSE IF j = i THEN x ELSE s[j - 1]
<1> DEFINE a == SubSeq(s, 1, i - 1)
           b == SubSeq(s, i, Len(s))
           c == a \o <<x>>
           d == c \o b
<1>1. /\ a \in Seq(T) /\ Len(a) = i - 1
      /\ \A j \in 1..(i - 1) : a[j] = s[j]
  OBVIOUS
<1>2. /\ b \in Seq(T) /\ Len(b) = Len(s) - i + 1
      /\ \A j \in 1..(Len(s) - i + 1) : b[j] = s[i + j - 1]
  OBVIOUS
<1>3. Len(s) \in Nat /\ i \in 1..(Len(s) + 1)
  OBVIOUS
<1>4. InsertAt(s, i, x) = d
  BY DEF InsertAt
<1> HIDE DEF a, b
<1>5. /\ c \in Seq(T)
      /\ Len(c) = i
      /\ \A j \in 1..i : c[j] = IF j < i THEN s[j] ELSE x
  BY <1>1, <1>3
<1> HIDE DEF c
<1>6. /\ d \in Seq(T)
      /\ Len(d) = Len(c) + Len(b)
      /\ \A j \in 1..(Len(c) + Len(b)) :
           d[j] = IF j <= Len(c) THEN c[j] ELSE b[j - Len(c)]
  BY <1>2, <1>5, ConcatProperties, Zenon
<1> HIDE DEF d
<1>7. Len(d) = Len(s) + 1
  BY <1>2, <1>3, <1>5, <1>6
<1>8. ASSUME NEW j \in 1..(Len(s) + 1)
      PROVE  d[j] = IF j < i THEN s[j] ELSE IF j = i THEN x ELSE s[j - 1]
  <2>1. d[j] = IF j <= i THEN c[j] ELSE b[j - i]
    BY <1>2, <1>3, <1>5, <1>6
  <2>2. CASE j <= i
    BY <1>3, <1>5, <2>1, <2>2
  <2>3. CASE j > i
    <3>1. j - i \in 1..(Len(s) - i + 1) /\ i + (j - i) - 1 = j - 1
      BY <1>3, <2>3
    <3>2. b[j - i] = s[j - 1]
      BY <1>2, <3>1
    <3> QED
      BY <1>3, <2>1, <2>3, <3>2
  <2> QED
    BY <1>3, <2>2, <2>3
<1> QED
  BY <1>4, <1>6, <1>7, <1>8

LEMMA InsertAtProperties ==
  ASSUME NEW T, NEW s \in Seq(T), NEW x \in T, NEW i \in 1..(Len(s) + 1)
  PROVE  /\ InsertAt(s, i, x) \in Seq(T)
         /\ ToSet(InsertAt(s, i, x)) = ToSet(s) \cup {x}
         /\ IsInjective(s) /\ x \notin ToSet(s)
              => IsInjective(InsertAt(s, i, x))
<1> DEFINE r == InsertAt(s, i, x)
<1>1. /\ r \in Seq(T) /\ Len(r) = Len(s) + 1
      /\ \A j \in 1..(Len(s) + 1) :
           r[j] = IF j < i THEN s[j] ELSE IF j = i THEN x ELSE s[j - 1]
  BY InsertAtElements
<1> HIDE DEF r
<1>2. /\ Len(s) \in Nat /\ DOMAIN s = 1..Len(s) /\ DOMAIN r = 1..(Len(s) + 1)
      /\ i \in 1..(Len(s) + 1)
  BY <1>1
<1>3. \A j \in 1..Len(s) : \E k \in 1..(Len(s) + 1) : r[k] = s[j]
  <2> TAKE j \in 1..Len(s)
  <2>1. CASE j < i
    BY <1>1, <1>2, <2>1
  <2>2. CASE j >= i
    <3>1. j + 1 \in 1..(Len(s) + 1) /\ ~(j + 1 < i) /\ j + 1 # i
          /\ (j + 1) - 1 = j
      BY <1>2, <2>2
    <3> QED
      BY <1>1, <3>1
  <2> QED
    BY <2>1, <2>2, <1>2
<1>4. \A k \in 1..(Len(s) + 1) : r[k] = x \/ \E j \in 1..Len(s) : r[k] = s[j]
  BY <1>1, <1>2
<1>5. r[i] = x
  BY <1>1, <1>2
<1>6. ToSet(r) = ToSet(s) \cup {x}
  <2>1. \A y : y \in ToSet(r) <=> \E k \in 1..(Len(s) + 1) : r[k] = y
    BY <1>1, InToSet
  <2>2. \A y : y \in ToSet(s) <=> \E j \in 1..Len(s) : s[j] = y
    BY InToSet
  <2> QED
    BY <1>2, <1>3, <1>4, <1>5, <2>1, <2>2
<1>7. ASSUME IsInjective(s), x \notin ToSet(s)
      PROVE  IsInjective(r)
  <2>1. \A j \in 1..Len(s) : s[j] # x
    BY <1>2, <1>7 DEF ToSet
  <2>2. \A j, k \in 1..Len(s) : s[j] = s[k] => j = k
    BY <1>2, <1>7 DEF IsInjective
  <2>3. \A j, k \in 1..(Len(s) + 1) : r[j] = r[k] => j = k
    BY <1>1, <1>2, <2>1, <2>2
  <2> QED
    BY <1>2, <2>3 DEF IsInjective
<1> QED
  BY <1>1, <1>6, <1>7 DEF r

LEMMA RemoveAtElements ==
  ASSUME NEW T, NEW s \in Seq(T), NEW i \in 1..Len(s)
  PROVE  /\ RemoveAt(s, i) \in Seq(T)
         /\ Len(RemoveAt(s, i)) = Len(s) - 1
         /\ \A j \in 1..(Len(s) - 1) :
              RemoveAt(s, i)[j] = IF j < i THEN s[j] ELSE s[j + 1]
<1> DEFINE a == SubSeq(s, 1, i - 1)
           b == SubSeq(s, i + 1, Len(s))
           d == a \o b
<1>1. /\ a \in Seq(T) /\ Len(a) = i - 1
      /\ \A j \in 1..(i - 1) : a[j] = s[j]
  OBVIOUS
<1>2. /\ b \in Seq(T) /\ Len(b) = Len(s) - i
      /\ \A j \in 1..(Len(s) - i) : b[j] = s[i + j]
  OBVIOUS
<1>3. Len(s) \in Nat /\ i \in 1..Len(s)
  OBVIOUS
<1>4. RemoveAt(s, i) = d
  BY DEF RemoveAt
<1> HIDE DEF a, b
<1>5. /\ d \in Seq(T)
      /\ Len(d) = Len(a) + Len(b)
      /\ \A j \in 1..(Len(a) + Len(b)) :
           d[j] = IF j <= Len(a) THEN a[j] ELSE b[j - Len(a)]
  BY <1>1, <1>2, ConcatProperties, Zenon
<1> HIDE DEF d
<1>6. Len(d) = Len(s) - 1
  BY <1>1, <1>2, <1>3, <1>5
<1>7. ASSUME NEW j \in 1..(Len(s) - 1)
      PROVE  d[j] = IF j < i THEN s[j] ELSE s[j + 1]
  <2>1. d[j] = IF j <= i - 1 THEN a[j] ELSE b[j - (i - 1)]
    <3>1. Len(a) + Len(b) = Len(s) - 1
      BY <1>1, <1>2, <1>3
    <3> QED
      BY <1>1, <1>5, <3>1
  <2>2. CASE j < i
    BY <1>1, <1>3, <2>1, <2>2
  <2>3. CASE j >= i
    <3>1. j - (i - 1) \in 1..(Len(s) - i) /\ i + (j - (i - 1)) = j + 1
      BY <1>3, <2>3
    <3>2. b[j - (i - 1)] = s[j + 1]
      BY <1>2, <3>1
    <3> QED
      BY <1>3, <2>1, <2>3, <3>2
  <2> QED
    BY <1>3, <2>2, <2>3
<1> QED
  BY <1>4, <1>5, <1>6, <1>7

LEMMA RemoveAtProperties ==
  ASSUME NEW T, NEW s \in Seq(T), NEW i \in 1..Len(s), IsInjective(s)
  PROVE  /\ RemoveAt(s, i) \in Seq(T)
         /\ Len(RemoveAt(s, i)) = Len(s) - 1
         /\ ToSet(RemoveAt(s, i)) = ToSet(s) \ {s[i]}
         /\ IsInjective(RemoveAt(s, i))
<1> DEFINE r == RemoveAt(s, i)
<1>1. /\ r \in Seq(T) /\ Len(r) = Len(s) - 1
      /\ \A j \in 1..(Len(s) - 1) : r[j] = IF j < i THEN s[j] ELSE s[j + 1]
  BY RemoveAtElements
<1> HIDE DEF r
<1>2. /\ Len(s) \in Nat /\ DOMAIN s = 1..Len(s) /\ DOMAIN r = 1..(Len(s) - 1)
      /\ i \in 1..Len(s)
  BY <1>1
<1>3. \A j, k \in 1..Len(s) : s[j] = s[k] => j = k
  BY <1>2 DEF IsInjective
<1>4. \A j \in 1..Len(s) : j # i => \E k \in 1..(Len(s) - 1) : r[k] = s[j]
  <2> TAKE j \in 1..Len(s)
  <2>1. CASE j < i
    BY <1>1, <1>2, <2>1
  <2>2. CASE j > i
    <3>1. j - 1 \in 1..(Len(s) - 1) /\ ~(j - 1 < i) /\ (j - 1) + 1 = j
      BY <1>2, <2>2
    <3> QED
      BY <1>1, <3>1
  <2> QED
    BY <2>1, <2>2, <1>2
<1>5. \A k \in 1..(Len(s) - 1) : \E j \in 1..Len(s) : j # i /\ r[k] = s[j]
  BY <1>1, <1>2
<1>6. ToSet(r) = ToSet(s) \ {s[i]}
  <2>1. \A y : y \in ToSet(r) <=> \E k \in 1..(Len(s) - 1) : r[k] = y
    BY <1>1, InToSet
  <2>2. \A y : y \in ToSet(s) <=> \E j \in 1..Len(s) : s[j] = y
    BY InToSet
  <2> QED
    BY <1>2, <1>3, <1>4, <1>5, <2>1, <2>2
<1>7. IsInjective(r)
  BY <1>1, <1>2, <1>3 DEF IsInjective
<1> QED
  BY <1>1, <1>6, <1>7 DEF r

\* What Keep has made of the first n members of s when it leaves out s[i].
AllBut(s, T, i, r, n) ==
  /\ r \in Seq(T)
  /\ Len(r) = IF n < i THEN n ELSE n - 1
  /\ \A j \in 1..Len(r) : r[j] = IF j < i THEN s[j] ELSE s[j + 1]

LEMMA AllButNext ==
  ASSUME NEW T, NEW s \in Seq(T), NEW i \in 1..Len(s), IsInjective(s),
         NEW n \in 0..(Len(s) - 1), NEW r, AllBut(s, T, i, r, n)
  PROVE  AllBut(s, T, i, IF s[n + 1] \in T \ {s[i]} THEN Append(r, s[n + 1]) ELSE r,
                n + 1)
<1>1. /\ Len(s) \in Nat /\ DOMAIN s = 1..Len(s) /\ n + 1 \in 1..Len(s)
      /\ s[n + 1] \in T /\ n \in Nat /\ i \in Nat
  OBVIOUS
<1>2. /\ r \in Seq(T) /\ Len(r) = IF n < i THEN n ELSE n - 1
      /\ \A j \in 1..Len(r) : r[j] = IF j < i THEN s[j] ELSE s[j + 1]
  BY DEF AllBut
<1>3. CASE n + 1 = i
  <2>1. ~(s[n + 1] \in T \ {s[i]}) /\ Len(r) = n
    BY <1>1, <1>2, <1>3
  <2>2. AllBut(s, T, i, r, n + 1)
    BY <1>1, <1>2, <1>3, <2>1 DEF AllBut
  <2> QED
    BY <2>1, <2>2
<1>4. CASE n + 1 # i
  <2>1. s[n + 1] \in T \ {s[i]}
    BY <1>1, <1>4 DEF IsInjective
  <2> DEFINE a == Append(r, s[n + 1])
  <2>2. /\ a \in Seq(T) /\ Len(a) = Len(r) + 1
        /\ \A k \in 1..Len(r) : a[k] = r[k]
        /\ a[Len(r) + 1] = s[n + 1]
    BY <1>1, <1>2, AppendFacts
  <2> HIDE DEF a
  <2>3. Len(a) = IF n + 1 < i THEN n + 1 ELSE n + 1 - 1
    BY <1>1, <1>2, <1>4, <2>2
  <2>4. ASSUME NEW j \in 1..Len(a)
        PROVE  a[j] = IF j < i THEN s[j] ELSE s[j + 1]
    <3>1. CASE j <= Len(r)
      BY <1>2, <2>2, <3>1
    <3>2. CASE j = Len(r) + 1
      <4>1. n < i => j = n + 1 /\ j < i
        BY <1>1, <1>2, <1>4, <3>2
      <4>2. ~(n < i) => j + 1 = n + 1 /\ ~(j < i)
        BY <1>1, <1>2, <1>4, <3>2
      <4> QED
        BY <2>2, <3>2, <4>1, <4>2
    <3> QED
      BY <1>2, <2>2, <3>1, <3>2
  <2>5. AllBut(s, T, i, a, n + 1)
    BY <2>2, <2>3, <2>4 DEF AllBut
  <2> QED
    BY <2>1, <2>5 DEF a
<1> QED
  BY <1>3, <1>4

(* A loop that takes one member out of a list takes it out where it is. *)
LEMMA KeepAllButOne ==
  ASSUME NEW T, NEW s \in Seq(T), NEW i \in 1..Len(s), IsInjective(s)
  PROVE  Keep(s, T \ {s[i]}) = RemoveAt(s, i)
<1> DEFINE S == T \ {s[i]}
<1>1. PICK f : KeepSteps(s, S, f)
  BY KeepUnfolds
<1> DEFINE D == {n \in 0..Len(s) : AllBut(s, T, i, f[n], n)}
<1>2. Len(s) \in Nat /\ DOMAIN s = 1..Len(s) /\ i \in Nat /\ 0 < i
  OBVIOUS
<1>3. 0 \in D
  <2>1. f[0] = << >> /\ 0 \in 0..Len(s)
    BY <1>1, <1>2 DEF KeepSteps
  <2>2. AllBut(s, T, i, << >>, 0)
    BY <1>2 DEF AllBut
  <2> QED
    BY <2>1, <2>2
<1>4. ASSUME NEW n \in 0..(Len(s) - 1), n \in D
      PROVE  n + 1 \in D
  <2>1. n + 1 \in 0..Len(s)
    BY <1>2
  <2>2. f[n + 1] = IF s[n + 1] \in S THEN Append(f[n], s[n + 1]) ELSE f[n]
    BY <1>1 DEF KeepSteps
  <2>3. AllBut(s, T, i, f[n + 1], n + 1)
    BY <1>4, <2>2, AllButNext
  <2> QED
    BY <2>1, <2>3
<1>5. 0..Len(s) \subseteq D
  <2> HIDE DEF D
  <2> QED
    BY <1>2, <1>3, <1>4, InductionUpTo
<1> DEFINE k == Keep(s, S)
           r == RemoveAt(s, i)
<1>6. AllBut(s, T, i, k, Len(s))
  BY <1>1, <1>2, <1>5 DEF KeepSteps
<1>7. /\ r \in Seq(T) /\ Len(r) = Len(s) - 1
      /\ \A j \in 1..(Len(s) - 1) : r[j] = IF j < i THEN s[j] ELSE s[j + 1]
  BY RemoveAtElements
<1> HIDE DEF k, r
<1>8. /\ k \in Seq(T) /\ Len(k) = Len(s) - 1
      /\ \A j \in 1..Len(k) : k[j] = IF j < i THEN s[j] ELSE s[j + 1]
  <2>1. ~(Len(s) < i)
    BY <1>2
  <2>2. /\ k \in Seq(T) /\ Len(k) = IF Len(s) < i THEN Len(s) ELSE Len(s) - 1
        /\ \A j \in 1..Len(k) : k[j] = IF j < i THEN s[j] ELSE s[j + 1]
    BY <1>6, Zenon DEF AllBut
  <2> QED
    BY <2>1, <2>2
<1>9. k = r
  <2>1. DOMAIN k = 1..Len(k) /\ DOMAIN r = 1..Len(r) /\ Len(k) = Len(r)
    BY <1>7, <1>8
  <2>2. \A j \in DOMAIN k : k[j] = r[j]
    BY <1>7, <1>8, <2>1
  <2> QED
    BY <1>7, <1>8, <2>1, <2>2
<1> QED
  BY <1>9 DEF k, r

LEMMA MoveProperties ==
  ASSUME NEW T, NEW s \in Seq(T), IsInjective(s),
         NEW i \in 1..Len(s), NEW j \in 1..Len(s)
  PROVE  /\ Move(s, i, j) \in Seq(T)
         /\ ToSet(Move(s, i, j)) = ToSet(s)
         /\ IsInjective(Move(s, i, j))
<1> DEFINE r == RemoveAt(s, i)
           x == s[i]
<1>1. /\ r \in Seq(T) /\ Len(r) = Len(s) - 1
      /\ ToSet(r) = ToSet(s) \ {x} /\ IsInjective(r)
  BY RemoveAtProperties
<1>2. x \in T /\ x \in ToSet(s) /\ j \in 1..(Len(r) + 1) /\ x \notin ToSet(r)
  <2>1. x \in T /\ x \in ToSet(s)
    BY InToSet
  <2>2. j \in 1..(Len(r) + 1)
    <3> HIDE DEF r
    <3> QED
      BY <1>1
  <2> QED
    BY <1>1, <2>1, <2>2
<1>3. Move(s, i, j) = InsertAt(r, j, x)
  BY DEF Move
<1> HIDE DEF r, x
<1>4. /\ InsertAt(r, j, x) \in Seq(T)
      /\ ToSet(InsertAt(r, j, x)) = ToSet(r) \cup {x}
      /\ IsInjective(InsertAt(r, j, x))
  BY <1>1, <1>2, InsertAtProperties
<1> QED
  BY <1>1, <1>2, <1>3, <1>4

LEMMA HeadTailFacts ==
  ASSUME NEW T, NEW s \in Seq(T), s # << >>
  PROVE  /\ Head(s) \in T
         /\ Head(s) \in ToSet(s)
         /\ Tail(s) \in Seq(T)
         /\ IsInjective(s) => /\ ToSet(Tail(s)) = ToSet(s) \ {Head(s)}
                              /\ IsInjective(Tail(s))
<1> DEFINE r == Tail(s)
           x == Head(s)
<1>1. /\ Len(s) \in Nat /\ Len(s) # 0 /\ DOMAIN s = 1..Len(s)
      /\ r \in Seq(T) /\ DOMAIN r = 1..(Len(s) - 1)
      /\ \A j \in 1..(Len(s) - 1) : r[j] = s[j + 1]
      /\ x = s[1] /\ x \in T
  OBVIOUS
<1> HIDE DEF r, x
<1>2. x \in ToSet(s)
  BY <1>1 DEF ToSet
<1>3. ASSUME IsInjective(s)
      PROVE  ToSet(r) = ToSet(s) \ {x} /\ IsInjective(r)
  <2>1. \A j, k \in 1..Len(s) : s[j] = s[k] => j = k
    BY <1>1, <1>3 DEF IsInjective
  <2>2. \A j \in 1..Len(s) : j # 1 => \E k \in 1..(Len(s) - 1) : r[k] = s[j]
    <3> TAKE j \in 1..Len(s)
    <3> HAVE j # 1
    <3>1. j - 1 \in 1..(Len(s) - 1) /\ (j - 1) + 1 = j
      BY <1>1
    <3> QED
      BY <1>1, <3>1
  <2>3. \A k \in 1..(Len(s) - 1) : \E j \in 1..Len(s) : j # 1 /\ r[k] = s[j]
    BY <1>1
  <2>4. ToSet(r) = ToSet(s) \ {x}
    <3>1. \A y : y \in ToSet(r) <=> \E k \in 1..(Len(s) - 1) : r[k] = y
      BY <1>1, InToSet
    <3>2. \A y : y \in ToSet(s) <=> \E j \in 1..Len(s) : s[j] = y
      BY InToSet
    <3>3. 1 \in 1..Len(s)
      BY <1>1
    <3> QED
      BY <1>1, <2>1, <2>2, <2>3, <3>1, <3>2, <3>3
  <2>5. IsInjective(r)
    BY <1>1, <2>1 DEF IsInjective
  <2> QED
    BY <2>4, <2>5
<1> QED
  BY <1>1, <1>2, <1>3 DEF r, x

\* One behind the other.
LEMMA JoinedProperties ==
  ASSUME NEW T, NEW s \in Seq(T), NEW t \in Seq(T)
  PROVE  /\ s \o t \in Seq(T)
         /\ ToSet(s \o t) = ToSet(s) \cup ToSet(t)
         /\ IsInjective(s) /\ IsInjective(t) /\ ToSet(s) \cap ToSet(t) = {}
              => IsInjective(s \o t)
<1> DEFINE r == s \o t
<1>1. /\ r \in Seq(T)
      /\ Len(s) \in Nat /\ Len(t) \in Nat /\ Len(r) = Len(s) + Len(t)
      /\ DOMAIN s = 1..Len(s) /\ DOMAIN t = 1..Len(t) /\ DOMAIN r = 1..Len(r)
      /\ \A j \in 1..Len(s) : r[j] = s[j]
      /\ \A j \in 1..Len(t) : r[Len(s) + j] = t[j]
  OBVIOUS
<1>2. \A j \in 1..Len(r) : j \notin 1..Len(s) =>
        j - Len(s) \in 1..Len(t) /\ r[j] = t[j - Len(s)]
  BY <1>1
<1> HIDE DEF r
<1>3. ToSet(r) \subseteq ToSet(s) \cup ToSet(t)
  BY <1>1, <1>2 DEF ToSet
<1>4. ToSet(s) \subseteq ToSet(r)
  BY <1>1 DEF ToSet
<1>5. ToSet(t) \subseteq ToSet(r)
  <2> SUFFICES ASSUME NEW j \in 1..Len(t) PROVE t[j] \in ToSet(r)
    BY <1>1 DEF ToSet
  <2>1. Len(s) + j \in 1..Len(r) /\ r[Len(s) + j] = t[j]
    BY <1>1
  <2> QED
    BY <1>1, <2>1 DEF ToSet
<1>6. ASSUME IsInjective(s), IsInjective(t), ToSet(s) \cap ToSet(t) = {}
      PROVE  IsInjective(r)
  <2> SUFFICES ASSUME NEW a \in 1..Len(r), NEW b \in 1..Len(r), r[a] = r[b]
               PROVE  a = b
    BY <1>1 DEF IsInjective
  <2>1. /\ \A j \in 1..Len(s) : s[j] \in ToSet(s)
        /\ \A j \in 1..Len(t) : t[j] \in ToSet(t)
    BY <1>1 DEF ToSet
  <2>2. CASE a \in 1..Len(s) /\ b \in 1..Len(s)
    BY <2>2, <1>1, <1>6 DEF IsInjective
  <2>3. CASE a \notin 1..Len(s) /\ b \notin 1..Len(s)
    <3>1. \A c, d \in 1..Len(t) : t[c] = t[d] => c = d
      BY <1>1, <1>6 DEF IsInjective
    <3>2. /\ a - Len(s) \in 1..Len(t) /\ r[a] = t[a - Len(s)]
          /\ b - Len(s) \in 1..Len(t) /\ r[b] = t[b - Len(s)]
      BY <2>3, <1>2
    <3>3. a - Len(s) = b - Len(s)
      BY <3>1, <3>2
    <3> QED
      BY <3>3, <1>1
  <2>4. CASE a \in 1..Len(s) /\ b \notin 1..Len(s)
    BY <2>4, <2>1, <1>1, <1>2, <1>6
  <2>5. CASE a \notin 1..Len(s) /\ b \in 1..Len(s)
    BY <2>5, <2>1, <1>1, <1>2, <1>6
  <2> QED
    BY <2>2, <2>3, <2>4, <2>5
<1>7. /\ r \in Seq(T)
      /\ ToSet(r) = ToSet(s) \cup ToSet(t)
  BY <1>1, <1>3, <1>4, <1>5
<1> QED
  BY <1>6, <1>7 DEF r

\* Reverse keeps the members.
LEMMA ReverseProperties ==
  ASSUME NEW T, NEW s \in Seq(T)
  PROVE  /\ Reverse(s) \in Seq(T)
         /\ Len(Reverse(s)) = Len(s)
         /\ ToSet(Reverse(s)) = ToSet(s)
         /\ IsInjective(s) => IsInjective(Reverse(s))
<1> DEFINE r == Reverse(s)
           n == Len(s)
<1>1. n \in Nat /\ DOMAIN s = 1..n /\ \A j \in 1..n : s[j] \in T
  OBVIOUS
<1>2. /\ r = [j \in 1..n |-> s[(n - j) + 1]]
      /\ \A j \in 1..n : (n - j) + 1 \in 1..n /\ (n - ((n - j) + 1)) + 1 = j
  BY <1>1 DEF Reverse
<1> HIDE DEF r, n
<1>3. /\ r \in Seq(T) /\ Len(r) = n /\ DOMAIN r = 1..n
      /\ \A j \in 1..n : r[j] = s[(n - j) + 1]
  BY <1>1, <1>2
<1>4. ToSet(r) \subseteq ToSet(s)
  BY <1>1, <1>2, <1>3 DEF ToSet
<1>5. ToSet(s) \subseteq ToSet(r)
  <2> SUFFICES ASSUME NEW j \in 1..n PROVE s[j] \in ToSet(r)
    BY <1>1 DEF ToSet
  <2> DEFINE k == (n - j) + 1
  <2>1. k \in 1..n /\ (n - k) + 1 = j
    BY <1>2
  <2> HIDE DEF k
  <2>2. r[k] = s[j]
    BY <1>3, <2>1
  <2> QED
    BY <1>3, <2>1, <2>2 DEF ToSet
<1>6. ASSUME IsInjective(s)
      PROVE  IsInjective(r)
  <2> SUFFICES ASSUME NEW a \in 1..n, NEW b \in 1..n, r[a] = r[b]
               PROVE  a = b
    BY <1>3 DEF IsInjective
  <2>1. /\ (n - a) + 1 \in 1..n /\ (n - b) + 1 \in 1..n
        /\ s[(n - a) + 1] = s[(n - b) + 1]
    BY <1>2, <1>3
  <2>2. (n - a) + 1 = (n - b) + 1
    BY <1>1, <1>6, <2>1 DEF IsInjective
  <2> QED
    BY <1>1, <2>2
<1> QED
  BY <1>3, <1>4, <1>5, <1>6 DEF r, n

\* A sequence without repetitions in two parts.
LEMMA SplitProperties ==
  ASSUME NEW T, NEW s \in Seq(T), IsInjective(s), NEW k \in 0..Len(s)
  PROVE  LET a == SubSeq(s, 1, k)
             b == SubSeq(s, k + 1, Len(s))
         IN  /\ a \in Seq(T) /\ IsInjective(a) /\ Len(a) = k
             /\ b \in Seq(T) /\ IsInjective(b) /\ Len(b) = Len(s) - k
             /\ ToSet(a) \subseteq ToSet(s)
             /\ ToSet(b) = ToSet(s) \ ToSet(a)
<1> DEFINE n == Len(s)
           a == SubSeq(s, 1, k)
           b == SubSeq(s, k + 1, n)
<1>1. /\ n \in Nat /\ k \in Nat /\ k <= n /\ DOMAIN s = 1..n
      /\ a \in Seq(T) /\ Len(a) = k /\ DOMAIN a = 1..k
      /\ \A j \in 1..k : a[j] = s[j]
      /\ b \in Seq(T) /\ Len(b) = n - k /\ DOMAIN b = 1..(n - k)
      /\ \A j \in 1..(n - k) : b[j] = s[k + j]
  OBVIOUS
<1> HIDE DEF a, b, n
<1>2. \A i, j \in 1..n : s[i] = s[j] => i = j
  BY <1>1 DEF IsInjective
<1>3. IsInjective(a)
  BY <1>1, <1>2 DEF IsInjective
<1>4. IsInjective(b)
  <2> SUFFICES ASSUME NEW i \in 1..(n - k), NEW j \in 1..(n - k), b[i] = b[j]
               PROVE  i = j
    BY <1>1 DEF IsInjective
  <2>1. k + i \in 1..n /\ k + j \in 1..n /\ s[k + i] = s[k + j]
    BY <1>1
  <2>2. k + i = k + j
    BY <1>2, <2>1
  <2> QED
    BY <1>1, <2>2
<1>5. ToSet(a) \subseteq ToSet(s)
  BY <1>1 DEF ToSet
<1>6. ToSet(b) \subseteq ToSet(s) \ ToSet(a)
  <2> SUFFICES ASSUME NEW j \in 1..(n - k)
               PROVE  b[j] \in ToSet(s) /\ b[j] \notin ToSet(a)
    BY <1>1 DEF ToSet
  <2>1. k + j \in 1..n /\ b[j] = s[k + j]
    BY <1>1
  <2>2. ASSUME NEW i \in 1..k PROVE a[i] # b[j]
    <3>1. i \in 1..n /\ i # k + j
      BY <1>1
    <3> QED
      BY <1>1, <1>2, <2>1, <3>1
  <2> QED
    BY <1>1, <2>1, <2>2 DEF ToSet
<1>7. ToSet(s) \ ToSet(a) \subseteq ToSet(b)
  <2> SUFFICES ASSUME NEW j \in 1..n, s[j] \notin ToSet(a)
               PROVE  s[j] \in ToSet(b)
    BY <1>1 DEF ToSet
  <2>1. ~(j <= k)
    BY <1>1 DEF ToSet
  <2>2. j - k \in 1..(n - k) /\ k + (j - k) = j
    BY <1>1, <2>1
  <2>3. b[j - k] = s[j]
    BY <1>1, <2>2
  <2> QED
    BY <1>1, <2>2, <2>3 DEF ToSet
<1> QED
  BY <1>1, <1>3, <1>4, <1>5, <1>6, <1>7 DEF a, b, n

\* Image(a, b): b is a with h applied to its members.
Image(a, b, h, T, U) ==
  /\ a \in Seq(T) /\ b \in Seq(U) /\ Len(b) = Len(a)
  /\ \A i \in 1..Len(a) : b[i] = h[a[i]]

LEMMA ImageAppend ==
  ASSUME NEW T, NEW U, NEW h \in [T -> U], NEW a, NEW b, Image(a, b, h, T, U),
         NEW x \in T
  PROVE  Image(Append(a, x), Append(b, h[x]), h, T, U)
<1> DEFINE c == Append(a, x)
           y == h[x]
           d == Append(b, y)
<1>1. /\ a \in Seq(T) /\ b \in Seq(U) /\ Len(b) = Len(a) /\ y \in U
      /\ \A i \in 1..Len(a) : b[i] = h[a[i]]
  BY DEF Image
<1>2. /\ c \in Seq(T) /\ Len(a) \in Nat /\ Len(c) = Len(a) + 1
      /\ \A i \in 1..Len(a) : c[i] = a[i]
      /\ c[Len(a) + 1] = x
  BY <1>1, AppendFacts
<1> HIDE DEF y
<1>3. /\ d \in Seq(U) /\ Len(d) = Len(b) + 1
      /\ \A i \in 1..Len(b) : d[i] = b[i]
      /\ d[Len(b) + 1] = y
  BY <1>1, AppendFacts
<1> HIDE DEF c, d
<1>4. ASSUME NEW i \in 1..Len(c) PROVE d[i] = h[c[i]]
  <2>1. CASE i = Len(a) + 1
    BY <1>1, <1>2, <1>3, <2>1 DEF y
  <2>2. CASE i \in 1..Len(a)
    BY <1>1, <1>2, <1>3, <2>2
  <2> QED
    BY <1>2, <2>1, <2>2
<1>5. Image(c, d, h, T, U)
  BY <1>1, <1>2, <1>3, <1>4 DEF Image
<1> QED
  BY <1>5 DEF c, d, y

\* Keep goes through the image of a sequence as through the sequence.
LEMMA KeepImage ==
  ASSUME NEW T, NEW U, NEW h \in [T -> U], NEW s, NEW u, Image(s, u, h, T, U),
         NEW S, NEW R, \A i \in 1..Len(s) : u[i] \in R <=> s[i] \in S
  PROVE  Image(Keep(s, S), Keep(u, R), h, T, U)
<1>0. /\ s \in Seq(T) /\ u \in Seq(U) /\ Len(u) = Len(s) /\ Len(s) \in Nat
      /\ \A i \in 1..Len(s) : u[i] = h[s[i]] /\ s[i] \in T
  BY DEF Image
<1>1. PICK f : KeepSteps(s, S, f)
  BY <1>0, KeepUnfolds
<1>2. PICK g : KeepSteps(u, R, g)
  BY <1>0, KeepUnfolds
<1> DEFINE D == {n \in 0..Len(s) : Image(f[n], g[n], h, T, U)}
<1>3. 0 \in D
  <2>1. f[0] = << >> /\ g[0] = << >> /\ 0 \in 0..Len(s)
    BY <1>0, <1>1, <1>2 DEF KeepSteps
  <2> DEFINE e == << >>
  <2>2. e \in Seq(T) /\ e \in Seq(U) /\ Len(e) = 0 /\ 1..0 = {}
    OBVIOUS
  <2> HIDE DEF e
  <2>3. Image(e, e, h, T, U)
    BY <2>2 DEF Image
  <2> QED
    BY <2>1, <2>3 DEF e
<1>4. ASSUME NEW n \in 0..(Len(s) - 1), n \in D
      PROVE  n + 1 \in D
  <2>1. n + 1 \in 0..Len(s) /\ n + 1 \in 1..Len(s) /\ n \in 0..(Len(u) - 1)
    BY <1>0
  <2>2. /\ f[n + 1] = IF s[n + 1] \in S THEN Append(f[n], s[n + 1]) ELSE f[n]
        /\ g[n + 1] = IF u[n + 1] \in R THEN Append(g[n], u[n + 1]) ELSE g[n]
    BY <1>1, <1>2, <2>1 DEF KeepSteps
  <2>3. /\ u[n + 1] = h[s[n + 1]] /\ s[n + 1] \in T
        /\ u[n + 1] \in R <=> s[n + 1] \in S
    BY <1>0, <2>1
  <2>4. Image(f[n], g[n], h, T, U)
    BY <1>4
  <2>5. Image(Append(f[n], s[n + 1]), Append(g[n], h[s[n + 1]]), h, T, U)
    BY <2>3, <2>4, ImageAppend
  <2>6. Image(f[n + 1], g[n + 1], h, T, U)
    BY <2>2, <2>3, <2>4, <2>5
  <2> QED
    BY <2>1, <2>6
<1>5. 0..Len(s) \subseteq D
  <2> HIDE DEF D
  <2> QED
    BY <1>0, <1>3, <1>4, InductionUpTo
<1>6. Image(f[Len(s)], g[Len(s)], h, T, U)
  BY <1>0, <1>5
<1>7. Keep(s, S) = f[Len(s)] /\ Keep(u, R) = g[Len(s)]
  BY <1>0, <1>1, <1>2 DEF KeepSteps
<1> QED
  BY <1>6, <1>7

\* Nothing goes when all members may stay.
LEMMA KeepAll ==
  ASSUME NEW T, NEW s \in Seq(T), NEW S, \A i \in 1..Len(s) : s[i] \in S
  PROVE  Keep(s, S) = s
<1>1. PICK f : KeepSteps(s, S, f)
  BY KeepUnfolds
<1>2. Len(s) \in Nat
  OBVIOUS
<1> DEFINE Same(n) == /\ f[n] \in Seq(T) /\ Len(f[n]) = n
                      /\ \A i \in 1..n : f[n][i] = s[i]
           D == {n \in 0..Len(s) : Same(n)}
<1>3. 0 \in D
  <2> DEFINE e == << >>
  <2>1. e \in Seq(T) /\ Len(e) = 0
    OBVIOUS
  <2>2. f[0] = e
    BY <1>1 DEF KeepSteps
  <2> HIDE DEF e
  <2>3. Same(0)
    BY <2>1, <2>2
  <2> QED
    BY <1>2, <2>3
<1>4. ASSUME NEW n \in 0..(Len(s) - 1), n \in D
      PROVE  n + 1 \in D
  <2> DEFINE a == f[n]
             x == s[n + 1]
  <2>0. x \in S
    BY <1>2
  <2>1. f[n + 1] = Append(a, x)
    <3>1. f[n + 1] = IF x \in S THEN Append(a, x) ELSE a
      BY <1>1 DEF KeepSteps
    <3> HIDE DEF a, x
    <3> QED
      BY <2>0, <3>1
  <2>2. a \in Seq(T) /\ Len(a) = n /\ \A i \in 1..n : a[i] = s[i]
    BY <1>4
  <2>3. x \in T
    BY <1>2
  <2> DEFINE b == Append(a, x)
  <2> HIDE DEF a, x
  <2>4. /\ b \in Seq(T) /\ Len(b) = n + 1
        /\ \A i \in 1..n : b[i] = a[i]
        /\ b[n + 1] = x
    BY <2>2, <2>3, AppendFacts
  <2> HIDE DEF b
  <2>5. \A i \in 1..(n + 1) : b[i] = s[i]
    BY <2>2, <2>4 DEF x
  <2>6. Same(n + 1)
    BY <2>1, <2>4, <2>5 DEF b
  <2> QED
    BY <1>2, <2>6
<1>5. 0..Len(s) \subseteq D
  <2> HIDE DEF D
  <2> QED
    BY <1>2, <1>3, <1>4, InductionUpTo
<1>6. Same(Len(s)) /\ Keep(s, S) = f[Len(s)]
  BY <1>1, <1>2, <1>5 DEF KeepSteps
<1> DEFINE k == Keep(s, S)
<1>7. k \in Seq(T) /\ Len(k) = Len(s) /\ \A i \in 1..Len(s) : k[i] = s[i]
  BY <1>6
<1> HIDE DEF k
<1>8. k = s
  BY <1>7
<1> QED
  BY <1>8 DEF k

=============================================================================
