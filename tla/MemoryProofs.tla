---------------------------- MODULE MemoryProofs ----------------------------
(***************************************************************************)
(* That the tracker of cc_memory knows every block its clients have, that  *)
(* its two maps agree, sums included, and that the counters are exact, for *)
(* any threads, addresses, sizes and sites.                                *)
(***************************************************************************)
EXTENDS Memory, CCSeqLemmas, FiniteSetTheorems

InCall(t) == call[t].at # "idle"

\* A block that a call has in hand is no client's and no other call's.
Owners ==
  /\ \A t \in Thread : InCall(t) => call[t].ptr \in DOMAIN block \ held
  /\ \A t, u \in Thread :
       t # u /\ InCall(t) /\ InCall(u) => call[t].ptr # call[u].ptr
  /\ \A t \in Thread : call[t].at = "add" => call[t].size = block[call[t].ptr]

Types ==
  /\ DOMAIN block \subseteq Addr
  /\ call = [t \in Thread |-> call[t]]
  /\ missed \subseteq held

IInv == Types /\ Owners /\ HeldTracked /\ SitesAgree /\ CountExact

-----------------------------------------------------------------------------
(* The tracker. *)

LEMMA AddTracks ==
  ASSUME NEW s, NEW p, NEW n, SitesAgree, p \notin DOMAIN pinfo,
         MeminfoAdd(s, p, n)
  PROVE  /\ SitesAgree'
         /\ DOMAIN pinfo \subseteq DOMAIN pinfo'
         /\ DOMAIN pinfo' \subseteq DOMAIN pinfo \cup {p}
         /\ \A q \in DOMAIN pinfo : pinfo'[q] = pinfo[q]
         /\ p \in DOMAIN pinfo' => pinfo'[p].size = n
<1> DEFINE entry == With(pinfo, p, [site |-> s, size |-> n])
<1>1. /\ DOMAIN entry = DOMAIN pinfo \cup {p}
      /\ entry[p] = [site |-> s, size |-> n]
      /\ \A q \in DOMAIN pinfo : entry[q] = pinfo[q]
  BY DEF With
<1>2. /\ DOMAIN Undone(entry, p) = DOMAIN pinfo
      /\ \A q \in DOMAIN pinfo : Undone(entry, p)[q] = pinfo[q]
  BY <1>1 DEF Undone, Without
<1>3. CASE /\ pinfo' = entry
           /\ ators' = With(ators, s, [ptrs |-> SiteOf(s).ptrs \cup {p},
                                       size |-> SiteOf(s).size + n])
  <2>1. /\ DOMAIN ators' = DOMAIN ators \cup {s}
        /\ ators'[s].ptrs = SiteOf(s).ptrs \cup {p}
        /\ \A r \in DOMAIN ators \ {s} : ators'[r] = ators[r]
    BY <1>3 DEF With
  <2>2. SiteOf(s).ptrs = {q \in DOMAIN pinfo : pinfo[q].site = s}
    BY DEF SiteOf, SitesAgree
  <2> HIDE DEF entry
  <2>3. \A q \in DOMAIN pinfo' : pinfo'[q].site \in DOMAIN ators'
    BY <1>1, <1>3, <2>1 DEF SitesAgree
  <2>4. \A r \in DOMAIN ators' : ators'[r].ptrs = {q \in DOMAIN pinfo' : pinfo'[q].site = r}
    <3> TAKE r \in DOMAIN ators'
    <3>1. CASE r = s
      BY <3>1, <1>1, <1>3, <2>1, <2>2
    <3>2. CASE r # s
      <4>1. {q \in DOMAIN pinfo' : pinfo'[q].site = r} = {q \in DOMAIN pinfo : pinfo[q].site = r}
        BY <3>2, <1>1, <1>3
      <4> QED
        BY <3>2, <4>1, <2>1 DEF SitesAgree
    <3> QED
      BY <3>1, <3>2
  <2>5. SitesAgree'
    BY <2>3, <2>4 DEF SitesAgree
  <2>6. DOMAIN pinfo' = DOMAIN pinfo \cup {p} /\ \A q \in DOMAIN pinfo : pinfo'[q] = pinfo[q]
    BY <1>1, <1>3
  <2>7. pinfo'[p].size = n
    BY <1>1, <1>3
  <2> QED
    BY <2>5, <2>6, <2>7
<1>4. CASE UNCHANGED tracker
  BY <1>4 DEF tracker, SitesAgree
<1>5. CASE ators' = With(ators, s, SiteOf(s)) /\ pinfo' \in {pinfo, Undone(entry, p)}
  <2>1. /\ DOMAIN ators' = DOMAIN ators \cup {s}
        /\ ators'[s] = SiteOf(s)
        /\ \A r \in DOMAIN ators \ {s} : ators'[r] = ators[r]
    BY <1>5 DEF With
  <2>2. SiteOf(s).ptrs = {q \in DOMAIN pinfo : pinfo[q].site = s}
    BY DEF SiteOf, SitesAgree
  <2>3. DOMAIN pinfo' = DOMAIN pinfo /\ \A q \in DOMAIN pinfo : pinfo'[q] = pinfo[q]
    BY <1>2, <1>5
  <2>4. \A r \in DOMAIN ators' : ators'[r].ptrs = {q \in DOMAIN pinfo : pinfo[q].site = r}
    BY <2>1, <2>2 DEF SitesAgree
  <2>5. \A r : {q \in DOMAIN pinfo : pinfo[q].site = r} = {q \in DOMAIN pinfo' : pinfo'[q].site = r}
    BY <2>3
  <2>6. \A q \in DOMAIN pinfo' : pinfo'[q].site \in DOMAIN ators'
    BY <2>1, <2>3 DEF SitesAgree
  <2>7. SitesAgree'
    BY <2>4, <2>5, <2>6 DEF SitesAgree
  <2> QED
    BY <2>3, <2>7
<1> HIDE DEF entry
<1> QED
  BY <1>3, <1>4, <1>5 DEF MeminfoAdd, entry

LEMMA RemTracks ==
  ASSUME NEW p, SitesAgree, MeminfoRem(p)
  PROVE  /\ SitesAgree'
         /\ DOMAIN pinfo' = DOMAIN pinfo \ {p}
         /\ \A q \in DOMAIN pinfo' : pinfo'[q] = pinfo[q]
<1>1. CASE p \notin DOMAIN pinfo
  BY <1>1 DEF MeminfoRem, tracker, SitesAgree
<1>2. CASE p \in DOMAIN pinfo
  <2> DEFINE s == pinfo[p].site
  <2>1. s \in DOMAIN ators /\ p \in ators[s].ptrs
    BY <1>2 DEF SitesAgree
  <2>2. /\ pinfo' = Without(pinfo, p)
        /\ ators' = [ators EXCEPT ![s] = [ptrs |-> @.ptrs \ {p},
                                          size |-> @.size - pinfo[p].size]]
    BY <1>2, <2>1 DEF MeminfoRem
  <2>3. /\ DOMAIN pinfo' = DOMAIN pinfo \ {p}
        /\ \A q \in DOMAIN pinfo' : pinfo'[q] = pinfo[q]
    BY <2>2 DEF Without
  <2>4. /\ DOMAIN ators' = DOMAIN ators
        /\ ators'[s].ptrs = ators[s].ptrs \ {p}
        /\ \A r \in DOMAIN ators \ {s} : ators'[r] = ators[r]
    BY <2>1, <2>2
  <2>5. ASSUME NEW r \in DOMAIN ators'
        PROVE  ators'[r].ptrs = {q \in DOMAIN pinfo' : pinfo'[q].site = r}
    <3>1. {q \in DOMAIN pinfo' : pinfo'[q].site = r}
            = {q \in DOMAIN pinfo : pinfo[q].site = r} \ {p}
      BY <2>3
    <3>2. ators[r].ptrs = {q \in DOMAIN pinfo : pinfo[q].site = r}
      BY <2>4 DEF SitesAgree
    <3>3. CASE r = s
      BY <3>1, <3>2, <3>3, <2>4
    <3>4. CASE r # s
      BY <3>1, <3>2, <3>4, <2>4
    <3> QED
      BY <3>3, <3>4
  <2>6. \A q \in DOMAIN pinfo' : pinfo'[q].site \in DOMAIN ators'
    BY <2>3, <2>4 DEF SitesAgree
  <2> QED
    BY <2>3, <2>5, <2>6 DEF SitesAgree
<1> QED
  BY <1>1, <1>2

-----------------------------------------------------------------------------
(* The blocks and the count. *)

LEMMA GoesTo ==
  ASSUME Types, NEW t \in Thread, NEW c, Goes(t, c)
  PROVE  /\ call'[t] = c
         /\ \A u \in Thread \ {t} : call'[u] = call[u]
         /\ call' = [u \in Thread |-> call'[u]]
BY DEF Types, Goes

LEMMA PutBlock ==
  ASSUME NEW p, NEW n, block' = With(block, p, n)
  PROVE  /\ DOMAIN block' = DOMAIN block \cup {p}
         /\ block'[p] = n
         /\ \A q \in DOMAIN block \ {p} : block'[q] = block[q]
BY DEF With

LEMMA DropBlock ==
  ASSUME NEW p, block' = Without(block, p)
  PROVE  /\ DOMAIN block' = DOMAIN block \ {p}
         /\ \A q \in DOMAIN block \ {p} : block'[q] = block[q]
BY DEF Without

LEMMA MoveBlock ==
  ASSUME NEW p, NEW q, NEW n, block' = With(Without(block, p), q, n)
  PROVE  /\ DOMAIN block' = (DOMAIN block \ {p}) \cup {q}
         /\ block'[q] = n
         /\ \A r \in DOMAIN block \ {p, q} : block'[r] = block[r]
BY DEF With, Without

Uncounted(q) ==
  \E u \in Thread : call[u].at \in {"malloc", "freed"} /\ call[u].ptr = q

LEMMA CountedIs == Counted = {q \in DOMAIN block : ~Uncounted(q)}
BY DEF Counted, PtrsIn, Calling, Uncounted

LEMMA CountedIsNext == Counted' = {q \in DOMAIN block' : ~Uncounted(q)'}
BY DEF Counted, PtrsIn, Calling, Uncounted

LEMMA CountedFinite ==
  ASSUME Types
  PROVE  IsFiniteSet(Counted) /\ Cardinality(Counted) \in Nat
<1>1. Counted \subseteq Addr
  BY DEF Types, Counted
<1>2. IsFiniteSet(Counted)
  BY <1>1, MemoryAssumption, FS_Subset
<1> QED
  BY <1>2, FS_CardinalityType

\* The clients and the tracker are left alone.
LEMMA TrackerKept ==
  ASSUME HeldTracked, SitesAgree, missed \subseteq held,
         UNCHANGED <<tracker, clients>>,
         \A p \in held : p \in DOMAIN block' /\ block'[p] = block[p]
  PROVE  HeldTracked' /\ SitesAgree' /\ missed' \subseteq held'
BY DEF HeldTracked, SitesAgree, tracker, clients

(* Which blocks each step counts. *)

LEMMA MallocBlockCounts ==
  ASSUME IInv, NEW t \in Thread, NEW s, NEW n, MallocBlock(t, s, n)
  PROVE  /\ \A u \in Thread \ {t} : call'[u] = call[u]
         /\ call[t].at = "idle" /\ call'[t].at = "malloc"
         /\ Counted' = Counted
         /\ \A p \in Counted : block'[p] = block[p]
<1>1. PICK p \in Addr \ DOMAIN block :
        /\ block' = With(block, p, n)
        /\ Goes(t, [at |-> "malloc", ptr |-> p, site |-> s])
  BY DEF MallocBlock
<1> DEFINE c == [at |-> "malloc", ptr |-> p, site |-> s]
<1>2. Types /\ Owners /\ call[t].at = "idle"
  BY DEF MallocBlock, IInv, Idle
<1>3. call'[t] = c /\ \A u \in Thread \ {t} : call'[u] = call[u]
  BY <1>1, <1>2, GoesTo
<1>4. /\ DOMAIN block' = DOMAIN block \cup {p}
      /\ \A q \in DOMAIN block : block'[q] = block[q]
  BY <1>1, PutBlock
<1>5. c.at = "malloc" /\ c.ptr = p
  OBVIOUS
<1> HIDE DEF c
<1>6. Counted' = Counted
  BY <1>2, <1>3, <1>4, <1>5, CountedIs, CountedIsNext DEF Uncounted, Owners, InCall
<1>7. Counted \subseteq DOMAIN block
  BY DEF Counted
<1> QED
  BY <1>2, <1>3, <1>4, <1>5, <1>6, <1>7

LEMMA MallocCountCounts ==
  ASSUME IInv, NEW t \in Thread, MallocCount(t)
  PROVE  /\ \A u \in Thread \ {t} : call'[u] = call[u]
         /\ call'[t].at = "add" /\ call'[t].ptr = call[t].ptr
         /\ call[t].ptr \in DOMAIN block \ Counted
         /\ Counted' = Counted \cup {call[t].ptr}
<1> DEFINE p == call[t].ptr
           c == [at |-> "add", ptr |-> p, site |-> call[t].site, size |-> block[p]]
<1>1. /\ InCall(t) /\ call[t].at = "malloc" /\ Goes(t, c) /\ block' = block
      /\ Types /\ Owners
  BY DEF MallocCount, IInv, InCall
<1>2. call'[t] = c /\ \A u \in Thread \ {t} : call'[u] = call[u]
  BY <1>1, GoesTo
<1>3. c.at = "add" /\ c.ptr = p
  OBVIOUS
<1> HIDE DEF c
<1>4. Uncounted(p) /\ p \in DOMAIN block
  BY <1>1 DEF Uncounted, Owners
<1>5. Counted' = Counted \cup {p} /\ p \notin Counted
  BY <1>1, <1>2, <1>3, <1>4, CountedIs, CountedIsNext DEF Uncounted, Owners, InCall
<1> QED
  BY <1>2, <1>3, <1>4, <1>5

LEMMA FreeCountCounts ==
  ASSUME IInv, NEW t \in Thread, FreeCount(t)
  PROVE  /\ \A u \in Thread \ {t} : call'[u] = call[u]
         /\ call'[t].at = "freed" /\ call'[t].ptr = call[t].ptr
         /\ Counted' = Counted \ {call[t].ptr}
         /\ call[t].ptr \in Counted
<1> DEFINE p == call[t].ptr
           c == [at |-> "freed", ptr |-> p]
<1>1. /\ InCall(t) /\ call[t].at = "free" /\ Goes(t, c) /\ block' = block
      /\ Types /\ Owners
  BY DEF FreeCount, IInv, InCall
<1>2. call'[t] = c /\ \A u \in Thread \ {t} : call'[u] = call[u]
  BY <1>1, GoesTo
<1>3. c.at = "freed" /\ c.ptr = p
  OBVIOUS
<1> HIDE DEF c
<1>4. ~Uncounted(p) /\ p \in DOMAIN block
  BY <1>1 DEF Uncounted, Owners, InCall
<1>5. Counted' = Counted \ {p} /\ p \in Counted
  BY <1>1, <1>2, <1>3, <1>4, CountedIs, CountedIsNext DEF Uncounted, Owners, InCall
<1> QED
  BY <1>2, <1>3, <1>5

LEMMA FreeBlockCounts ==
  ASSUME IInv, NEW t \in Thread, FreeBlock(t)
  PROVE  /\ \A u \in Thread \ {t} : call'[u] = call[u]
         /\ call[t].at = "freed" /\ call'[t].at = "idle"
         /\ Counted' = Counted
         /\ \A p \in Counted : block'[p] = block[p]
<1> DEFINE p == call[t].ptr
<1>1. /\ call[t].at = "freed" /\ Goes(t, Idle) /\ Idle.at = "idle"
      /\ block' = Without(block, p) /\ Types
  BY DEF FreeBlock, IInv, Idle
<1>2. call'[t] = Idle /\ \A u \in Thread \ {t} : call'[u] = call[u]
  BY <1>1, GoesTo
<1>3. /\ DOMAIN block' = DOMAIN block \ {p}
      /\ \A q \in DOMAIN block \ {p} : block'[q] = block[q]
  BY <1>1, DropBlock
<1>4. Uncounted(p)
  BY <1>1 DEF Uncounted
<1>5. \A q \in DOMAIN block \ {p} : Uncounted(q)' <=> Uncounted(q)
  BY <1>1, <1>2 DEF Uncounted
<1>6. Counted' = Counted /\ Counted \subseteq DOMAIN block \ {p}
  BY <1>3, <1>4, <1>5, CountedIs, CountedIsNext
<1> QED
  BY <1>1, <1>2, <1>3, <1>6

LEMMA ReallocBlockCounts ==
  ASSUME IInv, NEW t \in Thread, ReallocBlock(t)
  PROVE  \E q : /\ \A u \in Thread \ {t} : call'[u] = call[u]
                /\ call[t].at = "realloc"
                /\ call'[t].at = "recount" /\ call'[t].ptr = q
                /\ call'[t].size1 = block[call[t].ptr]
                /\ Counted' = (Counted \ {call[t].ptr}) \cup {q}
                /\ call[t].ptr \in Counted
                /\ q \notin Counted \ {call[t].ptr}
                /\ \A r \in Counted \ {call[t].ptr} : block'[r] = block[r]
<1> DEFINE p == call[t].ptr
<1>1. PICK q \in {p} \cup (Addr \ DOMAIN block) :
        /\ block' = With(Without(block, p), q, call[t].size)
        /\ Goes(t, [at |-> "recount", ptr |-> q, site |-> call[t].site,
                    size1 |-> block[p]])
  BY DEF ReallocBlock
<1> DEFINE c == [at |-> "recount", ptr |-> q, site |-> call[t].site,
                 size1 |-> block[p]]
<1>2. c.at = "recount" /\ c.ptr = q /\ c.size1 = block[p] /\ Goes(t, c)
  BY <1>1
<1> HIDE DEF c
<1>3. call[t].at = "realloc" /\ InCall(t) /\ Types /\ Owners
  BY DEF ReallocBlock, IInv, InCall
<1>4. call'[t] = c /\ \A u \in Thread \ {t} : call'[u] = call[u]
  BY <1>2, <1>3, GoesTo
<1>5. /\ DOMAIN block' = (DOMAIN block \ {p}) \cup {q}
      /\ \A r \in DOMAIN block \ {p, q} : block'[r] = block[r]
  BY <1>1, MoveBlock
<1>6. p \in DOMAIN block
  BY <1>3 DEF Owners
<1>7. q = p \/ q \notin DOMAIN block
  BY <1>1
<1>8. \A u \in Thread \ {t} : InCall(u) => call[u].ptr \in DOMAIN block \ {p, q}
  BY <1>3, <1>7 DEF Owners
<1>9. \A r \in DOMAIN block \ {p, q} : Uncounted(r)' <=> Uncounted(r)
  BY <1>2, <1>3, <1>4 DEF Uncounted
<1>10. ~Uncounted(q)' /\ ~Uncounted(p)
  BY <1>2, <1>3, <1>4, <1>6, <1>8 DEF Uncounted, Owners, InCall
<1>11. Counted' = (Counted \ {p}) \cup {q} /\ p \in Counted
  BY <1>5, <1>6, <1>7, <1>9, <1>10, CountedIs, CountedIsNext
<1>12. q \notin Counted \ {p}
  BY <1>7, CountedIs
<1>13. \A r \in Counted \ {p} : block'[r] = block[r]
  BY <1>5, <1>12, CountedIs
<1> QED
  BY <1>2, <1>3, <1>4, <1>11, <1>12, <1>13

\* A step that moves a call on and counts as before.
LEMMA MovesOnCounts ==
  ASSUME IInv, NEW t \in Thread, NEW c, Goes(t, c),
         c.at \notin {"malloc", "freed"}, call[t].at \notin {"malloc", "freed"},
         UNCHANGED block
  PROVE  /\ call'[t] = c
         /\ \A u \in Thread \ {t} : call'[u] = call[u]
         /\ Counted' = Counted
<1>1. Types
  BY DEF IInv
<1>2. call'[t] = c /\ \A u \in Thread \ {t} : call'[u] = call[u]
  BY <1>1, GoesTo
<1>3. \A q : Uncounted(q)' <=> Uncounted(q)
  BY <1>2 DEF Uncounted
<1> QED
  BY <1>2, <1>3, CountedIs, CountedIsNext

LEMMA MallocBlockKeeps ==
  ASSUME IInv, NEW t \in Thread, NEW s, NEW n, MallocBlock(t, s, n)
  PROVE  IInv'
<1>1. PICK p \in Addr \ DOMAIN block :
        /\ block' = With(block, p, n)
        /\ Goes(t, [at |-> "malloc", ptr |-> p, site |-> s])
  BY DEF MallocBlock
<1> DEFINE c == [at |-> "malloc", ptr |-> p, site |-> s]
<1>2. /\ ~InCall(t)
      /\ UNCHANGED <<counters, tracker, clients>>
      /\ Types /\ Owners /\ HeldTracked /\ SitesAgree /\ CountExact
  BY DEF MallocBlock, IInv, InCall, Idle
<1>3. /\ call'[t] = c
      /\ \A u \in Thread \ {t} : call'[u] = call[u]
      /\ call' = [u \in Thread |-> call'[u]]
  BY <1>1, <1>2, GoesTo
<1>4. /\ DOMAIN block' = DOMAIN block \cup {p}
      /\ \A q \in DOMAIN block : block'[q] = block[q]
  BY <1>1, PutBlock
<1>5. c.at = "malloc" /\ c.ptr = p
  OBVIOUS
<1> HIDE DEF c
<1>6. HeldTracked' /\ SitesAgree' /\ missed' \subseteq held'
  <2>1. \A q \in held : q \in DOMAIN block' /\ block'[q] = block[q]
    BY <1>2, <1>4 DEF HeldTracked
  <2> QED
    BY <1>2, <2>1, TrackerKept DEF Types
<1>7. Types'
  BY <1>2, <1>3, <1>4, <1>6 DEF Types
<1>8. Owners'
  <2>1. held' = held /\ p \notin held
    BY <1>2 DEF clients, HeldTracked
  <2> QED
    BY <1>2, <1>3, <1>4, <1>5, <2>1 DEF Owners, InCall
<1>9. CountExact'
  <2>1. Counted' = Counted
    BY MallocBlockCounts
  <2> QED
    BY <1>2, <2>1 DEF CountExact, counters
<1> QED
  BY <1>6, <1>7, <1>8, <1>9 DEF IInv

LEMMA MallocCountKeeps ==
  ASSUME IInv, NEW t \in Thread, MallocCount(t)
  PROVE  IInv'
<1> DEFINE p == call[t].ptr
           c == [at |-> "add", ptr |-> p, site |-> call[t].site, size |-> block[p]]
<1>1. /\ InCall(t) /\ call[t].at = "malloc" /\ Goes(t, c)
      /\ memory_count' = memory_count + 1
      /\ UNCHANGED <<block, tracker, clients>>
      /\ Types /\ Owners /\ HeldTracked /\ SitesAgree /\ CountExact
  BY DEF MallocCount, IInv, InCall
<1>2. /\ call'[t] = c
      /\ \A u \in Thread \ {t} : call'[u] = call[u]
      /\ call' = [u \in Thread |-> call'[u]]
  BY <1>1, GoesTo
<1>3. c.at = "add" /\ c.ptr = p /\ c.size = block[p]
  OBVIOUS
<1> HIDE DEF c
<1>4. HeldTracked' /\ SitesAgree' /\ missed' \subseteq held'
  <2>1. \A q \in held : q \in DOMAIN block' /\ block'[q] = block[q]
    BY <1>1 DEF HeldTracked
  <2> QED
    BY <1>1, <2>1, TrackerKept DEF Types
<1>5. Types'
  BY <1>1, <1>2, <1>4 DEF Types
<1>6. Owners'
  <2>1. held' = held /\ block' = block
    BY <1>1 DEF clients
  <2> QED
    BY <1>1, <1>2, <1>3, <2>1 DEF Owners, InCall
<1>7. CountExact'
  <2>2. Counted' = Counted \cup {p} /\ p \notin Counted
    BY MallocCountCounts
  <2>3. IsFiniteSet(Counted) /\ Cardinality(Counted) \in Nat
    BY <1>1, CountedFinite
  <2>4. Cardinality(Counted') = Cardinality(Counted) + 1
    BY <2>2, <2>3, FS_AddElement
  <2> QED
    BY <1>1, <2>4 DEF CountExact
<1> QED
  BY <1>4, <1>5, <1>6, <1>7 DEF IInv

(* A step that only moves the call on: the block in hand stays the same, and
   is counted as it was. *)
LEMMA MovesOn ==
  ASSUME IInv, NEW t \in Thread, NEW c, Goes(t, c), InCall(t),
         c.at # "idle", c.ptr = call[t].ptr,
         c.at \notin {"malloc", "freed"}, call[t].at \notin {"malloc", "freed"},
         c.at = "add" => c.size = block[call[t].ptr],
         UNCHANGED <<block, memory_count, tracker, clients>>
  PROVE  IInv'
<1>1. Types /\ Owners /\ HeldTracked /\ SitesAgree /\ CountExact
  BY DEF IInv
<1>2. /\ call'[t] = c
      /\ \A u \in Thread \ {t} : call'[u] = call[u]
      /\ call' = [u \in Thread |-> call'[u]]
  BY <1>1, GoesTo
<1>3. HeldTracked' /\ SitesAgree' /\ missed' \subseteq held'
  <2>1. \A q \in held : q \in DOMAIN block' /\ block'[q] = block[q]
    BY <1>1 DEF HeldTracked
  <2> QED
    BY <1>1, <2>1, TrackerKept DEF Types
<1>4. Types'
  BY <1>1, <1>2, <1>3 DEF Types
<1>5. Owners'
  <2>1. held' = held
    BY DEF clients
  <2> QED
    BY <1>1, <1>2, <2>1 DEF Owners, InCall
<1>6. CountExact'
  <2>1. Counted' = Counted
    BY MovesOnCounts
  <2> QED
    BY <1>1, <2>1 DEF CountExact
<1> QED
  BY <1>3, <1>4, <1>5, <1>6 DEF IInv

LEMMA ReallocCountKeeps ==
  ASSUME IInv, NEW t \in Thread, ReallocCount(t)
  PROVE  IInv'
<1> DEFINE p == call[t].ptr
           c == [at |-> "add", ptr |-> p, site |-> call[t].site, size |-> block[p]]
<1>1. /\ call[t].at = "recount" /\ Goes(t, c)
      /\ UNCHANGED <<block, memory_count, tracker, clients>>
  BY DEF ReallocCount
<1>2. c.at = "add" /\ c.ptr = p /\ c.size = block[p]
  OBVIOUS
<1> HIDE DEF c
<1> QED
  BY <1>1, <1>2, MovesOn DEF InCall

LEMMA ReallocFailsKeeps ==
  ASSUME IInv, NEW t \in Thread, ReallocFails(t)
  PROVE  IInv'
<1> DEFINE c == [at |-> "failed", ptr |-> call[t].ptr, site |-> call[t].site,
                 size |-> call[t].size]
<1>1. /\ call[t].at = "realloc" /\ Goes(t, c)
      /\ UNCHANGED <<block, memory_count, tracker, clients>>
  BY DEF ReallocFails, counters
<1>2. c.at = "failed" /\ c.ptr = call[t].ptr
  OBVIOUS
<1> HIDE DEF c
<1> QED
  BY <1>1, <1>2, MovesOn DEF InCall

-----------------------------------------------------------------------------
(* The steps that take a block from its client, and give it back. *)

LEMMA TakenKeeps ==
  ASSUME IInv, NEW t \in Thread, NEW p \in held, NEW c, call[t] = Idle,
         MeminfoRem(p), held' = held \ {p}, missed' = missed \ {p},
         Goes(t, c), c.at \in {"realloc", "free"}, c.ptr = p,
         UNCHANGED <<block, memory_count>>
  PROVE  IInv'
<1>1. /\ Types /\ Owners /\ HeldTracked /\ SitesAgree /\ CountExact
      /\ call[t].at = "idle"
  BY DEF IInv, Idle
<1>2. /\ call'[t] = c
      /\ \A u \in Thread \ {t} : call'[u] = call[u]
      /\ call' = [u \in Thread |-> call'[u]]
  BY <1>1, GoesTo
<1>3. /\ SitesAgree'
      /\ DOMAIN pinfo' = DOMAIN pinfo \ {p}
      /\ \A q \in DOMAIN pinfo' : pinfo'[q] = pinfo[q]
  BY <1>1, RemTracks
<1>4. HeldTracked'
  BY <1>1, <1>3 DEF HeldTracked
<1>5. Types'
  BY <1>1, <1>2 DEF Types
<1>6. Owners'
  BY <1>1, <1>2 DEF Owners, InCall, HeldTracked
<1>7. CountExact'
  <2>1. Counted' = Counted
    BY <1>1, MovesOnCounts
  <2> QED
    BY <1>1, <2>1 DEF CountExact
<1> QED
  BY <1>3, <1>4, <1>5, <1>6, <1>7 DEF IInv

LEMMA ReallocRemKeeps ==
  ASSUME IInv, NEW t \in Thread, NEW s, NEW n, ReallocRem(t, s, n)
  PROVE  IInv'
<1>1. PICK p \in held :
        /\ call[t] = Idle /\ MeminfoRem(p)
        /\ held' = held \ {p} /\ missed' = missed \ {p}
        /\ Goes(t, [at |-> "realloc", ptr |-> p, site |-> s, size |-> n])
        /\ UNCHANGED <<block, memory_count>>
  BY DEF ReallocRem, Forget, counters
<1> DEFINE c == [at |-> "realloc", ptr |-> p, site |-> s, size |-> n]
<1>2. c.at = "realloc" /\ c.ptr = p /\ Goes(t, c)
  BY <1>1
<1> HIDE DEF c
<1> QED
  BY <1>1, <1>2, TakenKeeps

LEMMA FreeRemKeeps ==
  ASSUME IInv, NEW t \in Thread, FreeRem(t)
  PROVE  IInv'
<1>1. PICK p \in held :
        /\ call[t] = Idle /\ MeminfoRem(p)
        /\ held' = held \ {p} /\ missed' = missed \ {p}
        /\ Goes(t, [at |-> "free", ptr |-> p])
        /\ UNCHANGED <<block, memory_count>>
  BY DEF FreeRem, counters
<1> DEFINE c == [at |-> "free", ptr |-> p]
<1>2. c.at = "free" /\ c.ptr = p /\ Goes(t, c)
  BY <1>1
<1> HIDE DEF c
<1> QED
  BY <1>1, <1>2, TakenKeeps

LEMMA ReturnedKeeps ==
  ASSUME IInv, NEW t \in Thread, NEW s, NEW n,
         call[t].at \in {"add", "failed"}, MeminfoAdd(s, call[t].ptr, n),
         held' = held \cup {call[t].ptr}, Goes(t, Idle),
         UNCHANGED <<block, memory_count>>,
         \/ missed' = missed \cup {call[t].ptr}
         \/ /\ n = block[call[t].ptr]
            /\ missed' = missed \cup ({call[t].ptr} \ DOMAIN pinfo')
  PROVE  IInv'
<1> DEFINE p == call[t].ptr
<1>1. /\ Types /\ Owners /\ HeldTracked /\ SitesAgree /\ CountExact
      /\ InCall(t) /\ Idle.at = "idle"
  BY DEF IInv, Idle, InCall
<1>2. /\ call'[t] = Idle
      /\ \A u \in Thread \ {t} : call'[u] = call[u]
      /\ call' = [u \in Thread |-> call'[u]]
  BY <1>1, GoesTo
<1>3. p \in DOMAIN block \ held /\ p \notin DOMAIN pinfo
  BY <1>1 DEF Owners, HeldTracked
<1>4. /\ SitesAgree'
      /\ DOMAIN pinfo \subseteq DOMAIN pinfo'
      /\ DOMAIN pinfo' \subseteq DOMAIN pinfo \cup {p}
      /\ \A q \in DOMAIN pinfo : pinfo'[q] = pinfo[q]
      /\ p \in DOMAIN pinfo' => pinfo'[p].size = n
  BY <1>1, <1>3, AddTracks
<1> HIDE DEF p
<1>5. /\ held' = held \cup {p}
      /\ \/ missed' = missed \cup {p}
         \/ n = block[p] /\ missed' = missed \cup ({p} \ DOMAIN pinfo')
  BY DEF p
<1>6. HeldTracked'
  <2>1. held' \subseteq DOMAIN block' /\ DOMAIN pinfo' \subseteq held'
    BY <1>1, <1>3, <1>4, <1>5 DEF HeldTracked
  <2>2. ASSUME NEW q \in held' \ missed'
        PROVE  q \in DOMAIN pinfo' /\ pinfo'[q].size = block'[q]
    <3>1. CASE q = p
      BY <1>4, <1>5, <3>1
    <3>2. CASE q # p
      BY <1>1, <1>4, <1>5, <3>2 DEF HeldTracked
    <3> QED
      BY <3>1, <3>2
  <2> QED
    BY <2>1, <2>2 DEF HeldTracked
<1>7. Types'
  BY <1>1, <1>2, <1>5 DEF Types
<1>8. Owners'
  BY <1>1, <1>2, <1>5 DEF Owners, InCall, p
<1>9. CountExact'
  <2>1. Counted' = Counted
    BY <1>1, MovesOnCounts
  <2> QED
    BY <1>1, <2>1 DEF CountExact
<1> QED
  BY <1>4, <1>6, <1>7, <1>8, <1>9 DEF IInv

LEMMA MemoryAddKeeps ==
  ASSUME IInv, NEW t \in Thread, MemoryAdd(t)
  PROVE  IInv'
<1>1. call[t].size = block[call[t].ptr]
  BY DEF MemoryAdd, IInv, Owners
<1> QED
  BY <1>1, ReturnedKeeps DEF MemoryAdd, counters

LEMMA ReallocRestoreKeeps ==
  ASSUME IInv, NEW t \in Thread, ReallocRestore(t)
  PROVE  IInv'
BY ReturnedKeeps DEF ReallocRestore, counters

-----------------------------------------------------------------------------
(* The steps at the heap, and free's count. *)

LEMMA ReallocBlockKeeps ==
  ASSUME IInv, NEW t \in Thread, ReallocBlock(t)
  PROVE  IInv'
<1> DEFINE p == call[t].ptr
<1>1. PICK q \in {p} \cup (Addr \ DOMAIN block) :
        /\ block' = With(Without(block, p), q, call[t].size)
        /\ Goes(t, [at |-> "recount", ptr |-> q, site |-> call[t].site,
                    size1 |-> block[p]])
  BY DEF ReallocBlock
<1> DEFINE c == [at |-> "recount", ptr |-> q, site |-> call[t].site,
                 size1 |-> block[p]]
<1>2. c.at = "recount" /\ c.ptr = q /\ Goes(t, c)
  BY <1>1
<1> HIDE DEF c
<1>3. /\ call[t].at = "realloc" /\ InCall(t)
      /\ UNCHANGED <<memory_count, tracker, clients>>
      /\ Types /\ Owners /\ HeldTracked /\ SitesAgree /\ CountExact
  BY DEF ReallocBlock, IInv, InCall, counters
<1>4. /\ call'[t] = c
      /\ \A u \in Thread \ {t} : call'[u] = call[u]
      /\ call' = [u \in Thread |-> call'[u]]
  BY <1>2, <1>3, GoesTo
<1>5. /\ DOMAIN block' = (DOMAIN block \ {p}) \cup {q}
      /\ \A r \in DOMAIN block \ {p, q} : block'[r] = block[r]
  BY <1>1, MoveBlock
<1>6. p \in DOMAIN block \ held
  BY <1>3 DEF Owners
<1>7. q \notin held /\ q \in Addr /\ (q = p \/ q \notin DOMAIN block)
  BY <1>1, <1>3, <1>6 DEF HeldTracked, Types
<1>8. \A u \in Thread \ {t} : InCall(u) => call[u].ptr \in DOMAIN block \ {p, q}
  BY <1>3, <1>7 DEF Owners
<1>9. HeldTracked' /\ SitesAgree' /\ missed' \subseteq held'
  <2>1. \A r \in held : r \in DOMAIN block' /\ block'[r] = block[r]
    BY <1>3, <1>5, <1>6, <1>7 DEF HeldTracked
  <2> QED
    BY <1>3, <2>1, TrackerKept DEF Types
<1>10. Types'
  BY <1>3, <1>4, <1>5, <1>7, <1>9 DEF Types
<1>11. Owners'
  <2>1. held' = held
    BY <1>3 DEF clients
  <2>2. \A u \in Thread : InCall(u)' =>
           call'[u].ptr \in DOMAIN block' \ held'
    BY <2>1, <1>2, <1>3, <1>4, <1>5, <1>7, <1>8 DEF Owners, InCall
  <2>3. \A u, v \in Thread :
           u # v /\ InCall(u)' /\ InCall(v)' => call'[u].ptr # call'[v].ptr
    BY <1>2, <1>3, <1>4, <1>8 DEF Owners, InCall
  <2>4. \A u \in Thread :
           call'[u].at = "add" => call'[u].size = block'[call'[u].ptr]
    BY <1>2, <1>3, <1>4, <1>5, <1>8 DEF Owners, InCall
  <2> QED
    BY <2>2, <2>3, <2>4 DEF Owners, InCall
<1>12. CountExact'
  <2>1. PICK r : /\ Counted' = (Counted \ {p}) \cup {r}
                 /\ p \in Counted /\ r \notin Counted \ {p}
    BY ReallocBlockCounts
  <2>5. IsFiniteSet(Counted) /\ Cardinality(Counted) \in Nat
    BY <1>3, CountedFinite
  <2>6. Cardinality(Counted') = Cardinality(Counted)
    <3>1. /\ IsFiniteSet(Counted \ {p})
          /\ Cardinality(Counted \ {p}) = Cardinality(Counted) - 1
      BY <2>1, <2>5, FS_RemoveElement
    <3>2. r \notin Counted \ {p}
      BY <2>1
    <3>3. Cardinality((Counted \ {p}) \cup {r}) = Cardinality(Counted \ {p}) + 1
      BY <3>1, <3>2, FS_AddElement
    <3> QED
      BY <2>1, <2>5, <3>1, <3>3
  <2> QED
    BY <1>3, <2>6 DEF CountExact
<1> QED
  BY <1>9, <1>10, <1>11, <1>12 DEF IInv

LEMMA FreeCountKeeps ==
  ASSUME IInv, NEW t \in Thread, FreeCount(t)
  PROVE  IInv'
<1> DEFINE p == call[t].ptr
           c == [at |-> "freed", ptr |-> p]
<1>1. /\ InCall(t) /\ call[t].at = "free" /\ Goes(t, c)
      /\ memory_count' = memory_count - 1
      /\ UNCHANGED <<block, tracker, clients>>
      /\ Types /\ Owners /\ HeldTracked /\ SitesAgree /\ CountExact
  BY DEF FreeCount, IInv, InCall
<1>2. /\ call'[t] = c
      /\ \A u \in Thread \ {t} : call'[u] = call[u]
      /\ call' = [u \in Thread |-> call'[u]]
  BY <1>1, GoesTo
<1>3. c.at = "freed" /\ c.ptr = p
  OBVIOUS
<1> HIDE DEF c
<1>4. HeldTracked' /\ SitesAgree' /\ missed' \subseteq held'
  <2>1. \A q \in held : q \in DOMAIN block' /\ block'[q] = block[q]
    BY <1>1 DEF HeldTracked
  <2> QED
    BY <1>1, <2>1, TrackerKept DEF Types
<1>5. Types'
  BY <1>1, <1>2, <1>4 DEF Types
<1>6. Owners'
  <2>1. held' = held /\ block' = block
    BY <1>1 DEF clients
  <2> QED
    BY <1>1, <1>2, <1>3, <2>1 DEF Owners, InCall
<1>7. CountExact'
  <2>2. Counted' = Counted \ {p} /\ p \in Counted
    BY FreeCountCounts
  <2>3. IsFiniteSet(Counted) /\ Cardinality(Counted) \in Nat
    BY <1>1, CountedFinite
  <2>4. Cardinality(Counted') = Cardinality(Counted) - 1
    BY <2>2, <2>3, FS_RemoveElement
  <2> QED
    BY <1>1, <2>4 DEF CountExact
<1> QED
  BY <1>4, <1>5, <1>6, <1>7 DEF IInv

LEMMA FreeBlockKeeps ==
  ASSUME IInv, NEW t \in Thread, FreeBlock(t)
  PROVE  IInv'
<1> DEFINE p == call[t].ptr
<1>1. /\ InCall(t) /\ call[t].at = "freed" /\ Goes(t, Idle) /\ Idle.at = "idle"
      /\ block' = Without(block, p)
      /\ UNCHANGED <<memory_count, tracker, clients>>
      /\ Types /\ Owners /\ HeldTracked /\ SitesAgree /\ CountExact
  BY DEF FreeBlock, IInv, InCall, counters, Idle
<1>2. /\ call'[t] = Idle
      /\ \A u \in Thread \ {t} : call'[u] = call[u]
      /\ call' = [u \in Thread |-> call'[u]]
  BY <1>1, GoesTo
<1>3. /\ DOMAIN block' = DOMAIN block \ {p}
      /\ \A q \in DOMAIN block \ {p} : block'[q] = block[q]
  BY <1>1, DropBlock
<1>4. HeldTracked' /\ SitesAgree' /\ missed' \subseteq held'
  <2>1. \A q \in held : q \in DOMAIN block' /\ block'[q] = block[q]
    BY <1>1, <1>3 DEF HeldTracked, Owners
  <2> QED
    BY <1>1, <2>1, TrackerKept DEF Types
<1>5. Types'
  BY <1>1, <1>2, <1>3, <1>4 DEF Types
<1>6. Owners'
  <2>1. held' = held
    BY <1>1 DEF clients
  <2>2. \A u \in Thread \ {t} : InCall(u) => call[u].ptr \in DOMAIN block \ {p}
    BY <1>1 DEF Owners
  <2> QED
    BY <1>1, <1>2, <1>3, <2>1, <2>2 DEF Owners, InCall
<1>7. CountExact'
  <2>1. Counted' = Counted
    BY FreeBlockCounts
  <2> QED
    BY <1>1, <2>1 DEF CountExact
<1> QED
  BY <1>4, <1>5, <1>6, <1>7 DEF IInv

-----------------------------------------------------------------------------
(* The invariant, and what follows from it. *)

LEMMA InitHolds == Init => IInv
<1> SUFFICES ASSUME Init PROVE IInv
  OBVIOUS
<1>1. DOMAIN block = {} /\ DOMAIN pinfo = {} /\ DOMAIN ators = {}
  BY DEF Init, None
<1>2. \A t \in Thread : call[t].at = "idle"
  BY DEF Init, Idle
<1>3. Types /\ Owners
  BY <1>1, <1>2 DEF Types, Owners, InCall, Init
<1>4. HeldTracked /\ SitesAgree
  BY <1>1 DEF HeldTracked, SitesAgree, Init
<1>5. CountExact
  <2>1. Counted = {}
    BY <1>1 DEF Counted
  <2> QED
    BY <2>1, FS_EmptySet DEF CountExact, Init
<1> QED
  BY <1>3, <1>4, <1>5 DEF IInv

LEMMA StutterKeeps ==
  ASSUME IInv, UNCHANGED vars
  PROVE  IInv'
<1>1. UNCHANGED <<block, memory_count, ators, pinfo, call, held, missed>>
  BY DEF vars, counters, tracker, clients
<1> QED
  BY <1>1 DEF IInv, Types, Owners, InCall, HeldTracked, SitesAgree, CountExact,
              Counted, PtrsIn, Calling

LEMMA NextKeeps ==
  ASSUME IInv, [Next]_vars
  PROVE  IInv'
<1>1. CASE Next
  <2>1. PICK t \in Thread :
          \/ \E s \in Site, n \in Size : MallocBlock(t, s, n) \/ ReallocRem(t, s, n)
          \/ MallocCount(t) \/ MemoryAdd(t) \/ ReallocBlock(t)
          \/ ReallocCount(t) \/ ReallocFails(t) \/ ReallocRestore(t)
          \/ FreeRem(t) \/ FreeCount(t) \/ FreeBlock(t)
    BY <1>1 DEF Next
  <2> QED
    BY <2>1, MallocBlockKeeps, ReallocRemKeeps, MallocCountKeeps, MemoryAddKeeps,
       ReallocBlockKeeps, ReallocCountKeeps, ReallocFailsKeeps,
       ReallocRestoreKeeps, FreeRemKeeps, FreeCountKeeps, FreeBlockKeeps
<1>2. CASE UNCHANGED vars
  BY <1>2, StutterKeeps
<1> QED
  BY <1>1, <1>2

(* A block in a call belongs to that call, and every other to its client; the
   two maps of the tracker and the count are about these blocks only. *)
THEOREM MemoryInvariant == Spec => []IInv
<1>1. IInv /\ [Next]_vars => IInv'
  BY NextKeeps
<1> QED
  BY InitHolds, <1>1, PTL DEF Spec

(* The tracker knows the block of every client with its size, but for those it
   had no memory for or whose realloc failed, and knows no other
   (cc_memory.c:291, :495, :510). *)
THEOREM MemoryHeldTracked == Spec => []HeldTracked
<1>1. IInv => HeldTracked
  BY DEF IInv
<1> QED
  BY <1>1, MemoryInvariant, PTL

-----------------------------------------------------------------------------
(* Sums.  SumFunction adds the values of a function in the order of CHOOSE;
   for a finite domain this gives the sum, in whatever order it is taken. *)

Some(T) == CHOOSE x \in T : TRUE

SumStep(f, h, T) == IF T = {} THEN 0 ELSE f[Some(T)] + h[T \ {Some(T)}]

\* h has the sums over all subsets of S, those of up to n members at least.
SumsUpTo(f, S, h, n) ==
  /\ h \in [SUBSET S -> Int]
  /\ \A T \in SUBSET S : Cardinality(T) <= n => h[T] = SumStep(f, h, T)

SumSteps(f, S, h) ==
  /\ h \in [SUBSET S -> Int]
  /\ \A T \in SUBSET S : h[T] = SumStep(f, h, T)
  /\ SumFunction(f) = h[S]

LEMMA SomeOf ==
  ASSUME NEW T, T # {}, IsFiniteSet(T)
  PROVE  /\ Some(T) \in T
         /\ IsFiniteSet(T \ {Some(T)})
         /\ Cardinality(T) \in Nat
         /\ Cardinality(T \ {Some(T)}) = Cardinality(T) - 1
<1>1. Some(T) \in T
  BY DEF Some
<1> QED
  BY <1>1, FS_RemoveElement, FS_CardinalityType

LEMMA SumsExist ==
  ASSUME NEW S, IsFiniteSet(S), NEW f \in [S -> Int]
  PROVE  \E h : h \in [SUBSET S -> Int] /\ \A T \in SUBSET S : h[T] = SumStep(f, h, T)
<1> DEFINE N == Cardinality(S)
           D == {n \in 0..N : \E h : SumsUpTo(f, S, h, n)}
<1>0. /\ N \in Nat
      /\ \A T \in SUBSET S : /\ IsFiniteSet(T) /\ Cardinality(T) \in Nat
                             /\ Cardinality(T) <= N
  BY FS_CardinalityType, FS_Subset
<1>1. 0 \in D
  <2> DEFINE h == [T \in SUBSET S |-> 0]
  <2>1. \A T \in SUBSET S : Cardinality(T) <= 0 => T = {}
    BY <1>0, FS_EmptySet
  <2>2. h \in [SUBSET S -> Int]
    OBVIOUS
  <2>3. ASSUME NEW T \in SUBSET S, Cardinality(T) <= 0 PROVE h[T] = SumStep(f, h, T)
    BY <2>1, <2>3 DEF SumStep
  <2> HIDE DEF h
  <2>4. SumsUpTo(f, S, h, 0)
    BY <2>2, <2>3 DEF SumsUpTo
  <2> QED
    BY <1>0, <2>4
<1>2. ASSUME NEW n \in 0..(N - 1), n \in D
      PROVE  n + 1 \in D
  <2>1. PICK h : SumsUpTo(f, S, h, n)
    BY <1>2
  <2> DEFINE g == [T \in SUBSET S |-> IF Cardinality(T) <= n THEN h[T]
                                      ELSE SumStep(f, h, T)]
  <2>2. ASSUME NEW T \in SUBSET S PROVE SumStep(f, h, T) \in Int
    <3>1. CASE T = {}
      BY <3>1 DEF SumStep
    <3>2. CASE T # {}
      <4>1. Some(T) \in S /\ T \ {Some(T)} \in SUBSET S
        BY <1>0, <3>2, SomeOf
      <4> QED
        BY <2>1, <3>2, <4>1 DEF SumStep, SumsUpTo
    <3> QED
      BY <3>1, <3>2
  <2>3. g \in [SUBSET S -> Int]
    BY <2>1, <2>2 DEF SumsUpTo
  <2>4. \A T \in SUBSET S : Cardinality(T) <= n => g[T] = h[T]
    OBVIOUS
  <2>5. \A T \in SUBSET S : g[T] = SumStep(f, h, T)
    BY <2>1 DEF SumsUpTo
  <2> HIDE DEF g
  <2>6. ASSUME NEW T \in SUBSET S, Cardinality(T) <= n + 1
        PROVE  g[T] = SumStep(f, g, T)
    <3>1. CASE T = {}
      BY <2>5, <3>1 DEF SumStep
    <3>2. CASE T # {}
      <4> DEFINE U == T \ {Some(T)}
      <4>1. Cardinality(U) = Cardinality(T) - 1 /\ Cardinality(T) \in Nat
        BY <1>0, <3>2, SomeOf
      <4>2. U \in SUBSET S
        OBVIOUS
      <4> HIDE DEF U
      <4>3. Cardinality(U) <= n
        BY <2>6, <4>1
      <4>4. g[U] = h[U]
        BY <2>4, <4>2, <4>3
      <4> QED
        BY <2>5, <3>2, <4>4 DEF SumStep, U
    <3> QED
      BY <3>1, <3>2
  <2>7. SumsUpTo(f, S, g, n + 1)
    BY <2>3, <2>6 DEF SumsUpTo
  <2> QED
    BY <1>0, <2>7
<1>3. N \in D
  <2> HIDE DEF D, N
  <2>1. 0..N \subseteq D
    BY <1>0, <1>1, <1>2, InductionUpTo
  <2> QED
    BY <1>0, <2>1
<1>4. PICK h : SumsUpTo(f, S, h, N)
  BY <1>3
<1>5. \A T \in SUBSET S : h[T] = SumStep(f, h, T)
  BY <1>0, <1>4 DEF SumsUpTo
<1> QED
  BY <1>4, <1>5 DEF SumsUpTo

\* The same values give the same sums.
LEMMA SumsSame ==
  ASSUME NEW T, IsFiniteSet(T), NEW f, NEW h, NEW e, NEW g,
         \A V \in SUBSET T : h[V] = SumStep(f, h, V) /\ g[V] = SumStep(e, g, V),
         \A x \in T : f[x] = e[x]
  PROVE  h[T] = g[T]
<1> DEFINE N == Cardinality(T)
           D == {n \in 0..N : \A V \in SUBSET T : Cardinality(V) <= n => h[V] = g[V]}
<1>0. /\ N \in Nat
      /\ \A V \in SUBSET T : IsFiniteSet(V) /\ Cardinality(V) \in Nat
  BY FS_CardinalityType, FS_Subset
<1>1. 0 \in D
  <2>1. ASSUME NEW V \in SUBSET T, Cardinality(V) <= 0 PROVE h[V] = g[V]
    <3>1. V = {}
      BY <1>0, <2>1, FS_EmptySet
    <3> QED
      BY <3>1 DEF SumStep
  <2> QED
    BY <1>0, <2>1
<1>2. ASSUME NEW n \in 0..(N - 1), n \in D
      PROVE  n + 1 \in D
  <2>1. ASSUME NEW V \in SUBSET T, Cardinality(V) <= n + 1 PROVE h[V] = g[V]
    <3>1. CASE V = {}
      BY <3>1 DEF SumStep
    <3>2. CASE V # {}
      <4> DEFINE U == V \ {Some(V)}
      <4>1. /\ Cardinality(U) = Cardinality(V) - 1 /\ Cardinality(V) \in Nat
            /\ Some(V) \in V
        BY <1>0, <3>2, SomeOf
      <4>2. U \in SUBSET T
        OBVIOUS
      <4> HIDE DEF U
      <4>3. h[U] = g[U]
        BY <1>2, <2>1, <4>1, <4>2
      <4>4. f[Some(V)] = e[Some(V)]
        BY <4>1
      <4> QED
        BY <3>2, <4>3, <4>4 DEF SumStep, U
    <3> QED
      BY <3>1, <3>2
  <2> QED
    BY <1>0, <2>1
<1>3. 0..N \subseteq D
  <2> HIDE DEF D, N
  <2> QED
    BY <1>0, <1>1, <1>2, InductionUpTo
<1>4. N \in D
  BY <1>0, <1>3
<1> QED
  BY <1>0, <1>4

LEMMA SumUnfolds ==
  ASSUME NEW S, IsFiniteSet(S), NEW f \in [S -> Int]
  PROVE  \E h : SumSteps(f, S, h)
<1> DEFINE h == CHOOSE sum : sum = [T \in SUBSET DOMAIN f |->
                  IF T = {} THEN 0 ELSE f[Some(T)] + sum[T \ {Some(T)}]]
<1>1. SumFunction(f) = h[DOMAIN f]
  BY Zenon DEF SumFunction, SumFunctionOnSet, FoldFunctionOnSet,
               MapThenFoldSet, Some
<1>2. DOMAIN f = S
  OBVIOUS
<1>3. PICK g : g \in [SUBSET S -> Int] /\ \A T \in SUBSET S : g[T] = SumStep(f, g, T)
  BY SumsExist
<1>4. g = [T \in SUBSET DOMAIN f |->
             IF T = {} THEN 0 ELSE f[Some(T)] + g[T \ {Some(T)}]]
  BY <1>2, <1>3 DEF SumStep
<1>5. h = [T \in SUBSET DOMAIN f |->
             IF T = {} THEN 0 ELSE f[Some(T)] + h[T \ {Some(T)}]]
  BY <1>4, Zenon
<1> HIDE DEF h
<1>6. \A T \in SUBSET S : h[T] = SumStep(f, h, T)
  BY <1>2, <1>5 DEF SumStep
<1>7. DOMAIN h = SUBSET S
  BY <1>2, <1>5
<1>8. \A T \in SUBSET S : h[T] = g[T]
  <2> TAKE T \in SUBSET S
  <2>1. IsFiniteSet(T)
    BY FS_Subset
  <2>2. \A V \in SUBSET T : h[V] = SumStep(f, h, V) /\ g[V] = SumStep(f, g, V)
    BY <1>3, <1>6
  <2> QED
    BY <2>1, <2>2, SumsSame
<1>9. h \in [SUBSET S -> Int]
  <2>1. h = [T \in SUBSET S |-> g[T]]
    BY <1>2, <1>5, <1>7, <1>8
  <2> QED
    BY <1>3, <2>1
<1>10. SumSteps(f, S, h)
  BY <1>1, <1>2, <1>6, <1>9 DEF SumSteps, h
<1> QED
  BY <1>10

\* Any member may be taken first.
TakesAny(f, S, h) ==
  \A T \in SUBSET S : \A x \in T : h[T] = f[x] + h[T \ {x}]

LEMMA SumTakesAny ==
  ASSUME NEW S, IsFiniteSet(S), NEW f \in [S -> Int], NEW h, SumSteps(f, S, h)
  PROVE  TakesAny(f, S, h)
<1> DEFINE N == Cardinality(S)
           Takes(T) == \A x \in T : h[T] = f[x] + h[T \ {x}]
           D == {n \in 0..N : \A T \in SUBSET S : Cardinality(T) <= n => Takes(T)}
<1>0. /\ N \in Nat
      /\ \A T \in SUBSET S : /\ IsFiniteSet(T) /\ Cardinality(T) \in Nat
                             /\ Cardinality(T) <= N
      /\ h \in [SUBSET S -> Int]
      /\ \A T \in SUBSET S : h[T] = SumStep(f, h, T)
  BY FS_CardinalityType, FS_Subset DEF SumSteps
<1>1. 0 \in D
  <2>1. \A T \in SUBSET S : Cardinality(T) <= 0 => T = {}
    BY <1>0, FS_EmptySet
  <2> QED
    BY <1>0, <2>1
<1>2. ASSUME NEW n \in 0..(N - 1), n \in D
      PROVE  n + 1 \in D
  <2>1. ASSUME NEW T \in SUBSET S, Cardinality(T) <= n + 1, NEW x \in T
        PROVE  h[T] = f[x] + h[T \ {x}]
    <3> DEFINE y == Some(T)
               U == T \ {y}
               V == T \ {x}
               W == U \ {x}
    <3>1. /\ Cardinality(U) = Cardinality(T) - 1 /\ Cardinality(T) \in Nat
          /\ y \in T
      BY <1>0, SomeOf
    <3>2. h[T] = f[y] + h[U]
      BY <1>0 DEF SumStep
    <3>3. CASE x = y
      BY <3>2, <3>3
    <3>4. CASE x # y
      <4>1. /\ U \in SUBSET S /\ V \in SUBSET S /\ W \in SUBSET S
            /\ x \in U /\ y \in V /\ V \ {y} = W /\ x \in S /\ y \in S
        BY <3>1, <3>4
      <4>2. Cardinality(V) = Cardinality(T) - 1
        BY <1>0, FS_RemoveElement
      <4> HIDE DEF y, U, V, W
      <4>3. \A X \in SUBSET S : Cardinality(X) <= n => Takes(X)
        BY <1>2
      <4>4. h[U] = f[x] + h[W]
        <5>1. Takes(U)
          BY <2>1, <3>1, <4>1, <4>3
        <5> QED
          BY <4>1, <5>1 DEF W
      <4>5. h[V] = f[y] + h[W]
        <5>1. Takes(V)
          BY <2>1, <3>1, <4>1, <4>2, <4>3
        <5> QED
          BY <4>1, <5>1
      <4>6. f[x] \in Int /\ f[y] \in Int /\ h[W] \in Int
        BY <1>0, <4>1
      <4>7. h[T] = f[x] + h[V]
        BY <3>2, <4>4, <4>5, <4>6
      <4> QED
        BY <4>7 DEF V
    <3> QED
      BY <3>3, <3>4
  <2>2. \A T \in SUBSET S : Cardinality(T) <= n + 1 => Takes(T)
    BY <2>1
  <2> HIDE DEF Takes
  <2> QED
    BY <1>0, <2>2
<1>3. 0..N \subseteq D
  <2> HIDE DEF D, N
  <2> QED
    BY <1>0, <1>1, <1>2, InductionUpTo
<1>4. N \in D
  BY <1>0, <1>3
<1> QED
  BY <1>0, <1>4 DEF TakesAny

LEMMA SumOfNone ==
  ASSUME NEW f, DOMAIN f = {}, f = [x \in DOMAIN f |-> f[x]]
  PROVE  SumFunction(f) = 0
<1>1. f \in [{} -> Int]
  OBVIOUS
<1>2. PICK h : SumSteps(f, {}, h)
  BY <1>1, SumUnfolds, FS_EmptySet
<1> QED
  BY <1>2 DEF SumSteps, SumStep

LEMMA SumIsInt ==
  ASSUME NEW S, IsFiniteSet(S), NEW f \in [S -> Int]
  PROVE  SumFunction(f) \in Int
<1>1. PICK h : SumSteps(f, S, h)
  BY SumUnfolds
<1> QED
  BY <1>1 DEF SumSteps

\* g is f with one more place.
LEMMA SumOfMore ==
  ASSUME NEW S, IsFiniteSet(S), NEW f \in [S -> Int], NEW x, x \notin S,
         NEW g \in [S \cup {x} -> Int], \A y \in S : g[y] = f[y]
  PROVE  SumFunction(g) = SumFunction(f) + g[x]
<1> DEFINE X == S \cup {x}
<1>1. IsFiniteSet(X)
  BY FS_AddElement
<1>2. PICK h : SumSteps(f, S, h)
  BY SumUnfolds
<1>3. PICK e : SumSteps(g, X, e)
  BY <1>1, SumUnfolds
<1>4. e[X] = g[x] + e[X \ {x}]
  <2>1. x \in X /\ X \in SUBSET X
    OBVIOUS
  <2> HIDE DEF X
  <2>2. g \in [X -> Int]
    BY DEF X
  <2>3. TakesAny(g, X, e)
    BY <1>1, <1>3, <2>2, SumTakesAny
  <2> QED
    BY <2>1, <2>3 DEF TakesAny
<1>5. X \ {x} = S
  OBVIOUS
<1>6. e[S] = h[S]
  <2>1. \A V \in SUBSET S : e[V] = SumStep(g, e, V) /\ h[V] = SumStep(f, h, V)
    BY <1>2, <1>3 DEF SumSteps
  <2> QED
    BY <2>1, SumsSame
<1>7. SumFunction(g) = e[X] /\ SumFunction(f) = h[S] /\ h[S] \in Int
  BY <1>2, <1>3 DEF SumSteps
<1>8. g[x] \in Int
  OBVIOUS
<1> HIDE DEF X
<1> DEFINE a == g[x]
           b == h[S]
<1>9. e[X] = a + b
  BY <1>4, <1>5, <1>6
<1>10. a \in Int /\ b \in Int
  BY <1>7, <1>8
<1> HIDE DEF a, b
<1>11. a + b = b + a
  BY <1>10
<1>12. SumFunction(g) = b + a
  BY <1>7, <1>9, <1>11
<1>13. b = SumFunction(f)
  BY <1>7 DEF b
<1> QED
  BY <1>12, <1>13 DEF a

(* g is f with one more place: in one word, for the provers. *)
OneMore(S, f, x, g) ==
  /\ IsFiniteSet(S) /\ f \in [S -> Int] /\ x \notin S
  /\ g \in [S \cup {x} -> Int]
  /\ \A y \in S : g[y] = f[y]

LEMMA SumOfOneMore ==
  ASSUME NEW S, NEW f, NEW x, NEW g, OneMore(S, f, x, g)
  PROVE  SumFunction(g) = SumFunction(f) + g[x]
<1> DEFINE a == SumFunction(f) + g[x]
<1>1. IsFiniteSet(S) /\ f \in [S -> Int] /\ x \notin S
  BY DEF OneMore
<1>2. g \in [S \cup {x} -> Int]
  BY DEF OneMore
<1>3. \A y \in S : g[y] = f[y]
  BY DEF OneMore
<1> QED
  BY <1>1, <1>2, <1>3, SumOfMore

\* f and g agree but for one place each, which may be the same.
OneMoved(S, p, q, f, g) ==
  /\ IsFiniteSet(S) /\ p \notin S /\ q \notin S
  /\ f \in [S \cup {p} -> Int] /\ g \in [S \cup {q} -> Int]
  /\ \A y \in S : g[y] = f[y]

LEMMA SumOfOneMoved ==
  ASSUME NEW S, NEW p, NEW q, NEW f, NEW g, OneMoved(S, p, q, f, g)
  PROVE  SumFunction(g) = SumFunction(f) - f[p] + g[q]
<1>0. /\ IsFiniteSet(S) /\ p \notin S /\ q \notin S
      /\ f \in [S \cup {p} -> Int] /\ g \in [S \cup {q} -> Int]
      /\ \A y \in S : g[y] = f[y]
  BY DEF OneMoved
<1>1. PICK r \in [S -> Int] : \A y \in S : f[y] = r[y]
  <2>1. [y \in S |-> f[y]] \in [S -> Int]
    BY <1>0
  <2>2. \A y \in S : f[y] = [z \in S |-> f[z]][y]
    OBVIOUS
  <2> QED
    BY <2>1, <2>2
<1>2. r \in [S -> Int]
  OBVIOUS
<1>3. \A y \in S : f[y] = r[y]
  BY <1>1
<1>4. \A y \in S : g[y] = r[y]
  BY <1>0, <1>1
<1>5. SumFunction(f) = SumFunction(r) + f[p]
  <2>1. OneMore(S, r, p, f)
    BY <1>0, <1>2, <1>3 DEF OneMore
  <2> QED
    BY <2>1, SumOfOneMore
<1>6. SumFunction(g) = SumFunction(r) + g[q]
  <2>1. OneMore(S, r, q, g)
    BY <1>0, <1>2, <1>4 DEF OneMore
  <2> QED
    BY <2>1, SumOfOneMore
<1>7. SumFunction(r) \in Int /\ f[p] \in Int /\ g[q] \in Int
  BY <1>0, <1>2, SumIsInt
<1> DEFINE a == SumFunction(r)
           b == f[p]
           c == g[q]
<1> HIDE DEF a, b, c
<1>8. a \in Int /\ b \in Int /\ c \in Int
  BY <1>7 DEF a, b, c
<1>9. a + c = (a + b) - b + c
  BY <1>8
<1> QED
  BY <1>5, <1>6, <1>9 DEF a, b, c

LEMMA SumIsNat ==
  ASSUME NEW S, IsFiniteSet(S), NEW f \in [S -> Nat]
  PROVE  SumFunction(f) \in Nat
<1> DEFINE N == Cardinality(S)
<1>0. f \in [S -> Int]
  OBVIOUS
<1>1. PICK h : SumSteps(f, S, h)
  BY <1>0, SumUnfolds
<1> DEFINE D == {n \in 0..N : \A T \in SUBSET S : Cardinality(T) <= n => h[T] \in Nat}
<1>2. /\ N \in Nat
      /\ \A T \in SUBSET S : IsFiniteSet(T) /\ Cardinality(T) \in Nat
      /\ \A T \in SUBSET S : h[T] = SumStep(f, h, T)
      /\ SumFunction(f) = h[S]
  BY <1>1, FS_CardinalityType, FS_Subset DEF SumSteps
<1>3. 0 \in D
  <2>1. ASSUME NEW T \in SUBSET S, Cardinality(T) <= 0 PROVE h[T] \in Nat
    <3>1. T = {}
      BY <1>2, <2>1, FS_EmptySet
    <3>2. h[T] = SumStep(f, h, T)
      BY <1>2
    <3>3. SumStep(f, h, T) = 0
      BY <3>1 DEF SumStep
    <3> QED
      BY <3>2, <3>3
  <2> QED
    BY <1>2, <2>1
<1>4. ASSUME NEW n \in 0..(N - 1), n \in D
      PROVE  n + 1 \in D
  <2>1. ASSUME NEW T \in SUBSET S, Cardinality(T) <= n + 1 PROVE h[T] \in Nat
    <3>1. CASE T = {}
      <4>1. h[T] = SumStep(f, h, T)
        BY <1>2
      <4>2. SumStep(f, h, T) = 0
        BY <3>1 DEF SumStep
      <4> QED
        BY <4>1, <4>2
    <3>2. CASE T # {}
      <4> DEFINE U == T \ {Some(T)}
      <4>1. /\ Cardinality(U) = Cardinality(T) - 1 /\ Cardinality(T) \in Nat
            /\ Some(T) \in T
        BY <1>2, <3>2, SomeOf
      <4>2. U \in SUBSET S /\ f[Some(T)] \in Nat
        BY <4>1
      <4>3. h[T] = f[Some(T)] + h[U]
        BY <1>2, <3>2 DEF SumStep
      <4> HIDE DEF U
      <4>4. h[U] \in Nat
        BY <1>4, <2>1, <4>1, <4>2
      <4> QED
        BY <4>2, <4>3, <4>4
    <3> QED
      BY <3>1, <3>2
  <2> QED
    BY <1>2, <2>1
<1>5. 0..N \subseteq D
  <2> HIDE DEF D, N
  <2> QED
    BY <1>2, <1>3, <1>4, InductionUpTo
<1>6. N \in D
  BY <1>2, <1>5
<1> QED
  BY <1>2, <1>6

-----------------------------------------------------------------------------
(* Types. *)

BlocksTyped ==
  /\ block \in [DOMAIN block -> Size]
  /\ held \subseteq Addr
  /\ call \in [Thread -> Call]

TrackerTyped ==
  /\ DOMAIN pinfo \subseteq Addr
  /\ pinfo \in [DOMAIN pinfo -> [site : Site, size : Size]]
  /\ DOMAIN ators \subseteq Site
  /\ ators \in [DOMAIN ators -> [ptrs : SUBSET Addr, size : Int]]

Typed == BlocksTyped /\ TrackerTyped

LEMMA CallFields ==
  ASSUME NEW c \in Call
  PROVE  /\ c.at \in {"idle", "malloc", "add", "realloc", "failed", "recount",
                      "free", "freed"}
         /\ c.at # "idle" => c.ptr \in Addr
         /\ c.at \in {"malloc", "add", "realloc", "failed", "recount"} => c.site \in Site
         /\ c.at \in {"add", "realloc", "failed"} => c.size \in Size
         /\ c.at = "recount" => c.size1 \in Size
BY DEF Call, Idle

LEMMA CallKinds ==
  ASSUME NEW p \in Addr, NEW s \in Site, NEW n \in Size
  PROVE  /\ Idle \in Call
         /\ [at |-> "malloc", ptr |-> p, site |-> s] \in Call
         /\ [at |-> "add", ptr |-> p, site |-> s, size |-> n] \in Call
         /\ [at |-> "realloc", ptr |-> p, site |-> s, size |-> n] \in Call
         /\ [at |-> "failed", ptr |-> p, site |-> s, size |-> n] \in Call
         /\ [at |-> "recount", ptr |-> p, site |-> s, size1 |-> n] \in Call
         /\ [at |-> "free", ptr |-> p] \in Call
         /\ [at |-> "freed", ptr |-> p] \in Call
BY DEF Call

LEMMA CallsTyped ==
  ASSUME call \in [Thread -> Call], NEW t \in Thread, NEW c \in Call, Goes(t, c)
  PROVE  call' \in [Thread -> Call]
BY DEF Goes

LEMMA WithTyped ==
  ASSUME NEW f, NEW x, NEW y, NEW R, f \in [DOMAIN f -> R], y \in R
  PROVE  /\ With(f, x, y) \in [DOMAIN With(f, x, y) -> R]
         /\ DOMAIN With(f, x, y) = DOMAIN f \cup {x}
BY DEF With

LEMMA WithoutTyped ==
  ASSUME NEW f, NEW x, NEW R, f \in [DOMAIN f -> R]
  PROVE  /\ Without(f, x) \in [DOMAIN Without(f, x) -> R]
         /\ DOMAIN Without(f, x) = DOMAIN f \ {x}
BY DEF Without

LEMMA AddTyped ==
  ASSUME TrackerTyped, NEW s \in Site, NEW p \in Addr, NEW n \in Size,
         MeminfoAdd(s, p, n)
  PROVE  TrackerTyped'
<1> DEFINE R == [site : Site, size : Size]
           A == [ptrs : SUBSET Addr, size : Int]
           entry == With(pinfo, p, [site |-> s, size |-> n])
           more == [ptrs |-> SiteOf(s).ptrs \cup {p}, size |-> SiteOf(s).size + n]
<1>1. n \in Int
  BY MemoryAssumption
<1>2. SiteOf(s) \in A /\ more \in A
  <2>1. SiteOf(s) \in A
    BY DEF SiteOf, TrackerTyped
  <2> QED
    BY <1>1, <2>1
<1>3. [site |-> s, size |-> n] \in R
  OBVIOUS
<1>4. /\ pinfo \in [DOMAIN pinfo -> R] /\ ators \in [DOMAIN ators -> A]
      /\ DOMAIN pinfo \subseteq Addr /\ DOMAIN ators \subseteq Site
  BY DEF TrackerTyped
<1> HIDE DEF R, A, more
<1>5. entry \in [DOMAIN entry -> R] /\ DOMAIN entry = DOMAIN pinfo \cup {p}
  BY <1>3, <1>4, WithTyped
<1>6. \A a \in A : /\ With(ators, s, a) \in [DOMAIN With(ators, s, a) -> A]
                   /\ DOMAIN With(ators, s, a) = DOMAIN ators \cup {s}
  BY <1>4, WithTyped
<1>7. /\ Undone(entry, p) \in [DOMAIN Undone(entry, p) -> R]
      /\ DOMAIN Undone(entry, p) = DOMAIN entry \ {p}
  BY <1>5, WithoutTyped DEF Undone
<1> HIDE DEF entry
<1>8. \/ pinfo' = entry /\ ators' = With(ators, s, more)
      \/ pinfo' = pinfo /\ ators' = ators
      \/ pinfo' \in {pinfo, Undone(entry, p)} /\ ators' = With(ators, s, SiteOf(s))
  BY DEF MeminfoAdd, entry, more, tracker
<1>9. pinfo' \in [DOMAIN pinfo' -> R] /\ DOMAIN pinfo' \subseteq Addr
  BY <1>4, <1>5, <1>7, <1>8
<1>10. ators' \in [DOMAIN ators' -> A] /\ DOMAIN ators' \subseteq Site
  BY <1>2, <1>4, <1>6, <1>8
<1> QED
  BY <1>9, <1>10 DEF TrackerTyped, R, A

LEMMA RemTyped ==
  ASSUME TrackerTyped, SitesAgree, NEW p, MeminfoRem(p)
  PROVE  TrackerTyped'
<1>1. CASE p \notin DOMAIN pinfo
  BY <1>1 DEF MeminfoRem, tracker, TrackerTyped
<1>2. CASE p \in DOMAIN pinfo
  <2> DEFINE R == [site : Site, size : Size]
             A == [ptrs : SUBSET Addr, size : Int]
             s == pinfo[p].site
             less == [ptrs |-> ators[s].ptrs \ {p}, size |-> ators[s].size - pinfo[p].size]
  <2>1. /\ pinfo \in [DOMAIN pinfo -> R] /\ ators \in [DOMAIN ators -> A]
        /\ DOMAIN pinfo \subseteq Addr /\ DOMAIN ators \subseteq Site
    BY DEF TrackerTyped
  <2>2. s \in DOMAIN ators
    BY <1>2 DEF SitesAgree
  <2>3. pinfo[p].size \in Int
    BY <1>2, <2>1, MemoryAssumption
  <2>4. less \in A
    BY <2>1, <2>2, <2>3
  <2>5. pinfo' = Without(pinfo, p)
    BY <1>2 DEF MeminfoRem
  <2>6. ators' = ators \/ ators' = [ators EXCEPT ![s] = less]
    BY <1>2 DEF MeminfoRem
  <2> HIDE DEF R, A, s, less
  <2>7. pinfo' \in [DOMAIN pinfo' -> R] /\ DOMAIN pinfo' \subseteq Addr
    BY <2>1, <2>5, WithoutTyped
  <2>8. ators' \in [DOMAIN ators' -> A] /\ DOMAIN ators' \subseteq Site
    BY <2>1, <2>2, <2>4, <2>6
  <2> QED
    BY <2>7, <2>8 DEF TrackerTyped, R, A
<1> QED
  BY <1>1, <1>2

LEMMA BlockSize ==
  ASSUME IInv, Typed, NEW t \in Thread, InCall(t)
  PROVE  /\ call[t] \in Call
         /\ call[t].ptr \in DOMAIN block \ held
         /\ call[t].ptr \in Addr
         /\ block[call[t].ptr] \in Size
<1>1. call[t] \in Call
  BY DEF Typed, BlocksTyped
<1>2. call[t].ptr \in DOMAIN block \ held
  BY DEF IInv, Owners
<1>3. DOMAIN block \subseteq Addr /\ block \in [DOMAIN block -> Size]
  BY DEF IInv, Types, Typed, BlocksTyped
<1> QED
  BY <1>1, <1>2, <1>3

\* A step that leaves the blocks, the tracker and the clients alone.
LEMMA QuietTyped ==
  ASSUME Typed, NEW t \in Thread, NEW c \in Call, Goes(t, c),
         UNCHANGED <<block, tracker, clients>>
  PROVE  Typed'
<1>1. call' \in [Thread -> Call]
  BY CallsTyped DEF Typed, BlocksTyped
<1> QED
  BY <1>1 DEF Typed, BlocksTyped, TrackerTyped, tracker, clients

LEMMA MallocBlockTyped ==
  ASSUME IInv, Typed, NEW t \in Thread, NEW s \in Site, NEW n \in Size,
         MallocBlock(t, s, n)
  PROVE  Typed'
<1>1. PICK p \in Addr \ DOMAIN block :
        /\ block' = With(block, p, n)
        /\ Goes(t, [at |-> "malloc", ptr |-> p, site |-> s])
  BY DEF MallocBlock
<1>2. call' \in [Thread -> Call]
  BY <1>1, CallKinds, CallsTyped DEF Typed, BlocksTyped
<1>3. block' \in [DOMAIN block' -> Size]
  BY <1>1, WithTyped DEF Typed, BlocksTyped
<1>4. UNCHANGED <<tracker, clients>>
  BY DEF MallocBlock
<1> QED
  BY <1>2, <1>3, <1>4 DEF Typed, BlocksTyped, TrackerTyped, tracker, clients

LEMMA MallocCountTyped ==
  ASSUME IInv, Typed, NEW t \in Thread, MallocCount(t)
  PROVE  Typed'
<1>1. call[t].at = "malloc" /\ InCall(t)
  BY DEF MallocCount, InCall
<1>2. call[t].ptr \in Addr /\ call[t].site \in Site /\ block[call[t].ptr] \in Size
  BY <1>1, BlockSize, CallFields
<1>3. [at |-> "add", ptr |-> call[t].ptr, site |-> call[t].site,
       size |-> block[call[t].ptr]] \in Call
  BY <1>2, CallKinds
<1> QED
  BY <1>3, QuietTyped DEF MallocCount

LEMMA ReallocCountTyped ==
  ASSUME IInv, Typed, NEW t \in Thread, ReallocCount(t)
  PROVE  Typed'
<1>1. call[t].at = "recount" /\ InCall(t)
  BY DEF ReallocCount, InCall
<1>2. call[t].ptr \in Addr /\ call[t].site \in Site /\ block[call[t].ptr] \in Size
  BY <1>1, BlockSize, CallFields
<1>3. [at |-> "add", ptr |-> call[t].ptr, site |-> call[t].site,
       size |-> block[call[t].ptr]] \in Call
  BY <1>2, CallKinds
<1> QED
  BY <1>3, QuietTyped DEF ReallocCount

LEMMA ReallocFailsTyped ==
  ASSUME IInv, Typed, NEW t \in Thread, ReallocFails(t)
  PROVE  Typed'
<1>1. call[t].at = "realloc" /\ InCall(t)
  BY DEF ReallocFails, InCall
<1>2. call[t].ptr \in Addr /\ call[t].site \in Site /\ call[t].size \in Size
  BY <1>1, BlockSize, CallFields
<1>3. [at |-> "failed", ptr |-> call[t].ptr, site |-> call[t].site,
       size |-> call[t].size] \in Call
  BY <1>2, CallKinds
<1> QED
  BY <1>3, QuietTyped DEF ReallocFails

LEMMA FreeCountTyped ==
  ASSUME IInv, Typed, NEW t \in Thread, FreeCount(t)
  PROVE  Typed'
<1>1. call[t].at = "free" /\ InCall(t)
  BY DEF FreeCount, InCall
<1>2. [at |-> "freed", ptr |-> call[t].ptr] \in Call
  <2>1. call[t].ptr \in Addr
    BY <1>1, BlockSize
  <2> QED
    BY <2>1 DEF Call
<1> QED
  BY <1>2, QuietTyped DEF FreeCount

LEMMA FreeBlockTyped ==
  ASSUME IInv, Typed, NEW t \in Thread, FreeBlock(t)
  PROVE  Typed'
<1>1. call' \in [Thread -> Call]
  <2>1. Idle \in Call
    BY DEF Call
  <2> QED
    BY <2>1, CallsTyped DEF FreeBlock, Typed, BlocksTyped
<1>2. block' \in [DOMAIN block' -> Size]
  BY WithoutTyped DEF FreeBlock, Typed, BlocksTyped
<1>3. UNCHANGED <<tracker, clients>>
  BY DEF FreeBlock
<1> QED
  BY <1>1, <1>2, <1>3 DEF Typed, BlocksTyped, TrackerTyped, tracker, clients

LEMMA ReallocBlockTyped ==
  ASSUME IInv, Typed, NEW t \in Thread, ReallocBlock(t)
  PROVE  Typed'
<1> DEFINE p == call[t].ptr
           n == call[t].size
<1>1. call[t].at = "realloc" /\ InCall(t)
  BY DEF ReallocBlock, InCall
<1>2. p \in Addr /\ call[t].site \in Site /\ n \in Size /\ block[p] \in Size
  BY <1>1, BlockSize, CallFields
<1>3. PICK q \in {p} \cup (Addr \ DOMAIN block) :
        /\ block' = With(Without(block, p), q, n)
        /\ Goes(t, [at |-> "recount", ptr |-> q, site |-> call[t].site,
                    size1 |-> block[p]])
  BY DEF ReallocBlock
<1>4. call' \in [Thread -> Call]
  <2>1. q \in Addr
    BY <1>2, <1>3
  <2>2. [at |-> "recount", ptr |-> q, site |-> call[t].site, size1 |-> block[p]] \in Call
    BY <1>2, <2>1, CallKinds
  <2> QED
    BY <1>3, <2>2, CallsTyped DEF Typed, BlocksTyped
<1>5. block' \in [DOMAIN block' -> Size]
  <2>1. Without(block, p) \in [DOMAIN Without(block, p) -> Size]
    BY WithoutTyped DEF Typed, BlocksTyped
  <2> HIDE DEF n
  <2> QED
    BY <1>2, <1>3, <2>1, WithTyped
<1>6. UNCHANGED <<tracker, clients>>
  BY DEF ReallocBlock
<1> QED
  BY <1>4, <1>5, <1>6 DEF Typed, BlocksTyped, TrackerTyped, tracker, clients

LEMMA TakenTyped ==
  ASSUME IInv, Typed, NEW t \in Thread, NEW p \in held, NEW c \in Call,
         MeminfoRem(p), held' = held \ {p}, Goes(t, c), UNCHANGED block
  PROVE  Typed'
<1>1. call' \in [Thread -> Call]
  BY CallsTyped DEF Typed, BlocksTyped
<1>2. TrackerTyped'
  BY RemTyped DEF IInv, Typed
<1> QED
  BY <1>1, <1>2 DEF Typed, BlocksTyped

LEMMA ReallocRemTyped ==
  ASSUME IInv, Typed, NEW t \in Thread, NEW s \in Site, NEW n \in Size,
         ReallocRem(t, s, n)
  PROVE  Typed'
<1>1. PICK p \in held :
        /\ MeminfoRem(p) /\ held' = held \ {p}
        /\ Goes(t, [at |-> "realloc", ptr |-> p, site |-> s, size |-> n])
        /\ UNCHANGED block
  BY DEF ReallocRem, Forget
<1>2. p \in Addr
  BY DEF Typed, BlocksTyped
<1>3. [at |-> "realloc", ptr |-> p, site |-> s, size |-> n] \in Call
  BY <1>2, CallKinds
<1> QED
  BY <1>1, <1>3, TakenTyped

LEMMA FreeRemTyped ==
  ASSUME IInv, Typed, NEW t \in Thread, FreeRem(t)
  PROVE  Typed'
<1>1. PICK p \in held :
        /\ MeminfoRem(p) /\ held' = held \ {p}
        /\ Goes(t, [at |-> "free", ptr |-> p])
        /\ UNCHANGED block
  BY DEF FreeRem
<1>2. p \in Addr
  BY DEF Typed, BlocksTyped
<1>3. [at |-> "free", ptr |-> p] \in Call
  BY <1>2 DEF Call
<1> QED
  BY <1>1, <1>3, TakenTyped

LEMMA ReturnedTyped ==
  ASSUME IInv, Typed, NEW t \in Thread, call[t].at \in {"add", "failed"},
         MeminfoAdd(call[t].site, call[t].ptr, call[t].size),
         held' = held \cup {call[t].ptr}, Goes(t, Idle), UNCHANGED block
  PROVE  Typed'
<1>1. InCall(t)
  BY DEF InCall
<1>2. call[t].ptr \in Addr /\ call[t].site \in Site /\ call[t].size \in Size
  BY <1>1, BlockSize, CallFields
<1>3. TrackerTyped'
  BY <1>2, AddTyped DEF Typed
<1>4. call' \in [Thread -> Call]
  <2>1. Idle \in Call
    BY DEF Call
  <2> QED
    BY <2>1, CallsTyped DEF Typed, BlocksTyped
<1> QED
  BY <1>2, <1>3, <1>4 DEF Typed, BlocksTyped

LEMMA NextTyped ==
  ASSUME IInv, Typed, [Next]_vars
  PROVE  Typed'
<1>1. CASE Next
  <2>1. PICK t \in Thread :
          \/ \E s \in Site, n \in Size : MallocBlock(t, s, n) \/ ReallocRem(t, s, n)
          \/ MallocCount(t) \/ MemoryAdd(t) \/ ReallocBlock(t)
          \/ ReallocCount(t) \/ ReallocFails(t) \/ ReallocRestore(t)
          \/ FreeRem(t) \/ FreeCount(t) \/ FreeBlock(t)
    BY <1>1 DEF Next
  <2>2. MemoryAdd(t) \/ ReallocRestore(t) => Typed'
    BY ReturnedTyped DEF MemoryAdd, ReallocRestore
  <2> QED
    BY <2>1, <2>2, MallocBlockTyped, ReallocRemTyped, MallocCountTyped,
       ReallocBlockTyped, ReallocCountTyped, ReallocFailsTyped, FreeRemTyped,
       FreeCountTyped, FreeBlockTyped
<1>2. CASE UNCHANGED vars
  BY <1>2 DEF vars, tracker, clients, Typed, BlocksTyped, TrackerTyped
<1> QED
  BY <1>1, <1>2

-----------------------------------------------------------------------------
(* The sum of the sizes.  What a counted block weighs, as an operator of the
   blocks and the calls, to speak of it before and after a step. *)

InHand(c, p) == \E u \in Thread : c[u].at = "recount" /\ c[u].ptr = p

Weight(b, k, p) ==
  IF InHand(k, p)
  THEN (CHOOSE c \in Range(k) : c.at = "recount" /\ c.ptr = p).size1
  ELSE b[p]

Weights(b, c, T) == [p \in T |-> Weight(b, c, p)]

\* No two calls have one block in hand.
Lone(c) ==
  /\ c = [u \in Thread |-> c[u]]
  /\ \A u, v \in Thread :
       u # v /\ c[u].at = "recount" /\ c[v].at = "recount" => c[u].ptr # c[v].ptr

SizeExact == memory_size = SumFunction(Weights(block, call, Counted))

LEMMA InHandIs ==
  ASSUME NEW p
  PROVE  /\ p \in PtrsIn({"recount"}) <=> InHand(call, p)
         /\ (p \in PtrsIn({"recount"}))' <=> InHand(call', p)
BY DEF PtrsIn, Calling, InHand

LEMMA SizeExactIs == SizeExact <=> memory_size = SumFunction([p \in Counted |-> SizeCounted(p)])
<1>1. \A p : SizeCounted(p) = Weight(block, call, p)
  <2> TAKE p
  <2>1. CASE InHand(call, p)
    <3> DEFINE k == CHOOSE c \in Range(call) : c.at = "recount" /\ c.ptr = p
    <3>1. p \in PtrsIn({"recount"})
      BY <2>1, InHandIs
    <3>2. SizeCounted(p) = k.size1
      BY <3>1, Zenon DEF SizeCounted
    <3>3. Weight(block, call, p) = k.size1
      BY <2>1, Zenon DEF Weight
    <3> HIDE DEF k
    <3> QED
      BY <3>2, <3>3, Zenon
  <2>2. CASE ~InHand(call, p)
    BY <2>2, InHandIs, Zenon DEF SizeCounted, Weight
  <2> QED
    BY <2>1, <2>2
<1>2. [p \in Counted |-> SizeCounted(p)] = Weights(block, call, Counted)
  BY <1>1, Zenon DEF Weights
<1> QED
  BY <1>2, Zenon DEF SizeExact

LEMMA LoneCalls == ASSUME IInv PROVE Lone(call)
BY DEF IInv, Types, Owners, InCall, Lone

LEMMA LoneCallsNext == ASSUME IInv' PROVE Lone(call')
BY DEF IInv, Types, Owners, InCall, Lone

LEMMA WeightInHand ==
  ASSUME NEW b, NEW c, Lone(c), NEW t \in Thread, c[t].at = "recount"
  PROVE  Weight(b, c, c[t].ptr) = c[t].size1
<1> DEFINE p == c[t].ptr
           K(k) == k.at = "recount" /\ k.ptr = p
<1>1. InHand(c, p)
  BY DEF InHand
<1>2. c[t] \in Range(c) /\ K(c[t])
  BY DEF Lone, Range
<1>3. \A k \in Range(c) : K(k) => k = c[t]
  BY DEF Lone, Range
<1>4. (CHOOSE k \in Range(c) : K(k)) = c[t]
  <2> HIDE DEF K
  <2> QED
    BY <1>2, <1>3
<1> QED
  BY <1>1, <1>4 DEF Weight

LEMMA WeightAtRest ==
  ASSUME NEW b, NEW c, NEW p, ~InHand(c, p)
  PROVE  Weight(b, c, p) = b[p]
BY DEF Weight

LEMMA WeightsTyped ==
  ASSUME NEW b, NEW c, b \in [DOMAIN b -> Size], c \in [Thread -> Call],
         NEW T, T \subseteq DOMAIN b
  PROVE  Weights(b, c, T) \in [T -> Nat]
<1>1. ASSUME NEW p \in T PROVE Weight(b, c, p) \in Nat
  <2>1. CASE InHand(c, p)
    <3> DEFINE k == CHOOSE k \in Range(c) : k.at = "recount" /\ k.ptr = p
    <3>1. \E j \in Range(c) : j.at = "recount" /\ j.ptr = p
      BY <2>1 DEF InHand, Range
    <3>2. k \in Range(c) /\ k.at = "recount"
      BY <3>1
    <3>3. k \in Call
      BY <3>2 DEF Range
    <3> HIDE DEF k
    <3>4. k.size1 \in Size
      BY <3>2, <3>3, CallFields
    <3>5. Weight(b, c, p) = k.size1
      BY <2>1 DEF Weight, k
    <3> QED
      BY <3>4, <3>5, MemoryAssumption
  <2>2. CASE ~InHand(c, p)
    BY <2>2, WeightAtRest, MemoryAssumption
  <2> QED
    BY <2>1, <2>2
<1> QED
  BY <1>1 DEF Weights

\* A block that t has in hand neither before nor after keeps its weight.
LEMMA WeightOfOther ==
  ASSUME NEW b, NEW c, NEW d, NEW e, Lone(c), Lone(e), NEW t \in Thread,
         \A u \in Thread \ {t} : e[u] = c[u],
         NEW p, c[t].at # "recount" \/ c[t].ptr # p,
         e[t].at # "recount" \/ e[t].ptr # p, d[p] = b[p]
  PROVE  Weight(d, e, p) = Weight(b, c, p)
<1>1. CASE InHand(c, p)
  <2>1. PICK u \in Thread : c[u].at = "recount" /\ c[u].ptr = p
    BY <1>1 DEF InHand
  <2>2. e[u] = c[u]
    BY <2>1
  <2>3. Weight(b, c, p) = c[u].size1
    BY <2>1, WeightInHand
  <2>4. Weight(d, e, p) = e[u].size1
    BY <2>1, <2>2, WeightInHand
  <2> QED
    BY <2>2, <2>3, <2>4
<1>2. CASE ~InHand(c, p)
  <2>1. ~InHand(e, p)
    BY <1>2 DEF InHand
  <2> QED
    BY <1>2, <2>1, WeightAtRest
<1> QED
  BY <1>1, <1>2

LEMMA OthersWeigh ==
  ASSUME IInv, IInv', NEW t \in Thread,
         \A u \in Thread \ {t} : call'[u] = call[u],
         NEW p, call[t].at # "recount" \/ call[t].ptr # p,
         call'[t].at # "recount" \/ call'[t].ptr # p, block'[p] = block[p]
  PROVE  Weight(block', call', p) = Weight(block, call, p)
<1>1. Lone(call) /\ Lone(call')
  BY LoneCalls, LoneCallsNext
<1> QED
  BY <1>1, WeightOfOther

\* A step that counts the same blocks with the same sizes.
LEMMA SameSizes ==
  ASSUME IInv, IInv', SizeExact, NEW t \in Thread,
         \A u \in Thread \ {t} : call'[u] = call[u],
         call[t].at # "recount", call'[t].at # "recount",
         Counted' = Counted, \A p \in Counted : block'[p] = block[p],
         memory_size' = memory_size
  PROVE  SizeExact'
<1>1. \A p \in Counted : Weight(block', call', p) = Weight(block, call, p)
  BY OthersWeigh
<1>2. Weights(block', call', Counted) = Weights(block, call, Counted)
  BY <1>1 DEF Weights
<1>3. Weights(block', call', Counted') = Weights(block, call, Counted)
  BY <1>2
<1> QED
  BY <1>3 DEF SizeExact

LEMMA CountedTyped ==
  ASSUME IInv, Typed
  PROVE  /\ IsFiniteSet(Counted)
         /\ Weights(block, call, Counted) \in [Counted -> Nat]
<1>1. IsFiniteSet(Counted)
  BY CountedFinite DEF IInv
<1>2. Counted \subseteq DOMAIN block
  BY DEF Counted
<1>3. block \in [DOMAIN block -> Size] /\ call \in [Thread -> Call]
  BY DEF Typed, BlocksTyped
<1> QED
  BY <1>1, <1>2, <1>3, WeightsTyped

LEMMA CountedTypedNext ==
  ASSUME Typed'
  PROVE  Weights(block', call', Counted') \in [Counted' -> Nat]
<1>1. Counted' \subseteq DOMAIN block'
  BY DEF Counted
<1>2. block' \in [DOMAIN block' -> Size] /\ call' \in [Thread -> Call]
  BY DEF Typed, BlocksTyped
<1> QED
  BY <1>1, <1>2, WeightsTyped

(* What each step makes of the sum. *)

LEMMA NotInHand ==
  ASSUME IInv, NEW t \in Thread, InCall(t), call[t].at # "recount"
  PROVE  Weight(block, call, call[t].ptr) = block[call[t].ptr]
<1>1. ~InHand(call, call[t].ptr)
  BY DEF InHand, IInv, Owners, InCall
<1> QED
  BY <1>1, WeightAtRest

LEMMA NotInHandNext ==
  ASSUME IInv', NEW t \in Thread, InCall(t)', call'[t].at # "recount"
  PROVE  Weight(block', call', call'[t].ptr) = block'[call'[t].ptr]
<1>1. ~InHand(call', call'[t].ptr)
  BY DEF InHand, IInv, Owners, InCall
<1> QED
  BY <1>1, WeightAtRest

LEMMA MallocBlockSums ==
  ASSUME IInv, IInv', SizeExact, NEW t \in Thread, NEW s, NEW n, MallocBlock(t, s, n)
  PROVE  SizeExact'
<1>1. memory_size' = memory_size
  BY DEF MallocBlock, counters
<1> QED
  BY <1>1, MallocBlockCounts, SameSizes

LEMMA FreeBlockSums ==
  ASSUME IInv, IInv', SizeExact, NEW t \in Thread, FreeBlock(t)
  PROVE  SizeExact'
<1>1. memory_size' = memory_size
  BY DEF FreeBlock, counters
<1> QED
  BY <1>1, FreeBlockCounts, SameSizes

LEMMA MovesOnSums ==
  ASSUME IInv, IInv', SizeExact, NEW t \in Thread, NEW c, Goes(t, c),
         c.at \notin {"malloc", "freed", "recount"},
         call[t].at \notin {"malloc", "freed", "recount"},
         UNCHANGED <<block, memory_size>>
  PROVE  SizeExact'
<1>1. /\ call'[t] = c
      /\ \A u \in Thread \ {t} : call'[u] = call[u]
      /\ Counted' = Counted
  BY MovesOnCounts
<1> QED
  BY <1>1, SameSizes

LEMMA ReallocFailsSums ==
  ASSUME IInv, IInv', SizeExact, NEW t \in Thread, ReallocFails(t)
  PROVE  SizeExact'
<1> DEFINE c == [at |-> "failed", ptr |-> call[t].ptr, site |-> call[t].site,
                 size |-> call[t].size]
<1>1. call[t].at = "realloc" /\ Goes(t, c) /\ UNCHANGED <<block, memory_size>>
  BY DEF ReallocFails, counters
<1>2. c.at = "failed"
  OBVIOUS
<1> HIDE DEF c
<1> QED
  BY <1>1, <1>2, MovesOnSums

LEMMA ReallocRemSums ==
  ASSUME IInv, IInv', SizeExact, NEW t \in Thread, NEW s, NEW n, ReallocRem(t, s, n)
  PROVE  SizeExact'
<1>1. PICK p \in held :
        Goes(t, [at |-> "realloc", ptr |-> p, site |-> s, size |-> n])
  BY DEF ReallocRem
<1> DEFINE c == [at |-> "realloc", ptr |-> p, site |-> s, size |-> n]
<1>2. c.at = "realloc" /\ Goes(t, c)
  BY <1>1
<1>3. call[t].at = "idle" /\ UNCHANGED <<block, memory_size>>
  BY DEF ReallocRem, counters, Idle
<1> HIDE DEF c
<1> QED
  BY <1>2, <1>3, MovesOnSums

LEMMA FreeRemSums ==
  ASSUME IInv, IInv', SizeExact, NEW t \in Thread, FreeRem(t)
  PROVE  SizeExact'
<1>1. PICK p \in held : Goes(t, [at |-> "free", ptr |-> p])
  BY DEF FreeRem
<1> DEFINE c == [at |-> "free", ptr |-> p]
<1>2. c.at = "free" /\ Goes(t, c)
  BY <1>1
<1>3. call[t].at = "idle" /\ UNCHANGED <<block, memory_size>>
  BY DEF FreeRem, counters, Idle
<1> HIDE DEF c
<1> QED
  BY <1>2, <1>3, MovesOnSums

LEMMA ReturnedSums ==
  ASSUME IInv, IInv', SizeExact, NEW t \in Thread, MemoryAdd(t) \/ ReallocRestore(t)
  PROVE  SizeExact'
<1>1. /\ call[t].at \in {"add", "failed"} /\ Goes(t, Idle)
      /\ UNCHANGED <<block, memory_size>> /\ Idle.at = "idle"
  BY DEF MemoryAdd, ReallocRestore, counters, Idle
<1> QED
  BY <1>1, MovesOnSums

LEMMA MallocCountSums ==
  ASSUME IInv, IInv', Typed, Typed', SizeExact, NEW t \in Thread, MallocCount(t)
  PROVE  SizeExact'
<1> DEFINE p == call[t].ptr
           f == Weights(block, call, Counted)
           g == Weights(block', call', Counted')
<1>1. /\ \A u \in Thread \ {t} : call'[u] = call[u]
      /\ call[t].at = "malloc" /\ call'[t].at = "add" /\ call'[t].ptr = p
      /\ p \in DOMAIN block \ Counted
      /\ Counted' = Counted \cup {p}
  BY MallocCountCounts DEF MallocCount
<1>2. block' = block /\ memory_size' = memory_size + block[p]
  BY DEF MallocCount
<1>3. \A q \in Counted : Weight(block', call', q) = Weight(block, call, q)
  BY <1>1, <1>2, OthersWeigh
<1>4. Weight(block', call', p) = block[p]
  BY <1>1, <1>2, NotInHandNext DEF InCall
<1>5. (\A q \in Counted : g[q] = f[q]) /\ g[p] = block[p]
  BY <1>1, <1>3, <1>4 DEF Weights
<1>6. /\ IsFiniteSet(Counted) /\ f \in [Counted -> Nat]
      /\ g \in [Counted' -> Nat]
  BY CountedTyped, CountedTypedNext
<1> HIDE DEF f, g, p
<1>7. OneMore(Counted, f, p, g)
  BY <1>1, <1>5, <1>6 DEF OneMore
<1>8. SumFunction(g) = SumFunction(f) + g[p]
  BY <1>7, SumOfOneMore
<1>9. memory_size = SumFunction(f)
  BY DEF SizeExact, f
<1>10. memory_size' = SumFunction(g)
  BY <1>2, <1>5, <1>8, <1>9
<1> QED
  BY <1>10 DEF SizeExact, g

LEMMA FreeCountSums ==
  ASSUME IInv, IInv', Typed, Typed', SizeExact, NEW t \in Thread, FreeCount(t)
  PROVE  SizeExact'
<1> DEFINE p == call[t].ptr
           f == Weights(block, call, Counted)
           g == Weights(block', call', Counted')
<1>1. /\ \A u \in Thread \ {t} : call'[u] = call[u]
      /\ call[t].at = "free" /\ call'[t].at = "freed"
      /\ Counted' = Counted \ {p} /\ p \in Counted
  BY FreeCountCounts DEF FreeCount
<1>2. block' = block /\ memory_size' = memory_size - block[p]
  BY DEF FreeCount
<1>3. \A q \in Counted : Weight(block', call', q) = Weight(block, call, q)
  BY <1>1, <1>2, OthersWeigh
<1>4. Weight(block, call, p) = block[p]
  BY <1>1, NotInHand DEF InCall
<1>5. (\A q \in Counted' : g[q] = f[q]) /\ f[p] = block[p]
  BY <1>1, <1>3, <1>4 DEF Weights
<1>6. /\ IsFiniteSet(Counted) /\ f \in [Counted -> Nat]
      /\ g \in [Counted' -> Nat]
  BY CountedTyped, CountedTypedNext
<1>7. IsFiniteSet(Counted')
  BY <1>1, <1>6, FS_Subset
<1> HIDE DEF f, g, p
<1>8. OneMore(Counted', g, p, f)
  <2>1. Counted = Counted' \cup {p} /\ p \notin Counted'
    BY <1>1
  <2> QED
    BY <2>1, <1>5, <1>6, <1>7 DEF OneMore
<1>9. SumFunction(f) = SumFunction(g) + f[p]
  BY <1>8, SumOfOneMore
<1>10. SumFunction(g) \in Int /\ f[p] \in Int
  <2>1. g \in [Counted' -> Int]
    BY <1>6
  <2>2. SumFunction(g) \in Int
    BY <2>1, <1>7, SumIsInt
  <2> QED
    BY <2>2, <1>1, <1>6
<1>11. memory_size = SumFunction(f)
  BY DEF SizeExact, f
<1>12. memory_size' = memory_size - f[p]
  BY <1>2, <1>5
<1> DEFINE a == SumFunction(g)
           b == f[p]
<1> HIDE DEF a, b
<1>13. a \in Int /\ b \in Int
  BY <1>10 DEF a, b
<1>14. memory_size = a + b
  BY <1>9, <1>11 DEF a, b
<1>15. memory_size' = memory_size - b
  BY <1>12 DEF b
<1>16. memory_size' = a
  BY <1>13, <1>14, <1>15
<1> QED
  BY <1>16 DEF SizeExact, g, a

LEMMA ReallocBlockSums ==
  ASSUME IInv, IInv', Typed, Typed', SizeExact, NEW t \in Thread, ReallocBlock(t)
  PROVE  SizeExact'
<1> DEFINE p == call[t].ptr
           S == Counted \ {p}
           f == Weights(block, call, Counted)
           g == Weights(block', call', Counted')
<1>1. PICK q : /\ \A u \in Thread \ {t} : call'[u] = call[u]
               /\ call[t].at = "realloc"
               /\ call'[t].at = "recount" /\ call'[t].ptr = q
               /\ call'[t].size1 = block[p]
               /\ Counted' = S \cup {q} /\ p \in Counted /\ q \notin S
               /\ \A r \in S : block'[r] = block[r]
  BY ReallocBlockCounts
<1>2. memory_size' = memory_size
  BY DEF ReallocBlock, counters
<1>3. \A r \in S : Weight(block', call', r) = Weight(block, call, r)
  BY <1>1, OthersWeigh
<1>4. Weight(block, call, p) = block[p]
  BY <1>1, NotInHand DEF InCall
<1>5. Weight(block', call', q) = block[p]
  <2>1. Lone(call')
    BY LoneCallsNext
  <2>2. Weight(block', call', call'[t].ptr) = call'[t].size1
    BY <1>1, <2>1, WeightInHand
  <2> QED
    BY <1>1, <2>2
<1>6. (\A r \in S : g[r] = f[r]) /\ f[p] = block[p] /\ g[q] = block[p]
  BY <1>1, <1>3, <1>4, <1>5 DEF Weights
<1>7. /\ IsFiniteSet(Counted) /\ f \in [Counted -> Nat]
      /\ g \in [Counted' -> Nat]
  BY CountedTyped, CountedTypedNext
<1>8. IsFiniteSet(S) /\ Counted = S \cup {p} /\ p \notin S
  BY <1>1, <1>7, FS_Subset
<1> HIDE DEF f, g, p, S
<1>9. OneMoved(S, p, q, f, g)
  BY <1>1, <1>6, <1>7, <1>8 DEF OneMoved
<1>10. SumFunction(g) = SumFunction(f) - f[p] + g[q]
  BY <1>9, SumOfOneMoved
<1>11. SumFunction(f) \in Int /\ f[p] \in Int /\ g[q] = f[p]
  <2>1. f \in [Counted -> Int]
    BY <1>7
  <2>2. SumFunction(f) \in Int
    BY <2>1, <1>7, SumIsInt
  <2> QED
    BY <2>2, <1>1, <1>6, <1>7
<1> DEFINE a == SumFunction(f)
           b == f[p]
<1> HIDE DEF a, b
<1>12. a \in Int /\ b \in Int
  BY <1>11 DEF a, b
<1>13. SumFunction(g) = a - b + b
  BY <1>10, <1>11 DEF a, b
<1>14. SumFunction(g) = a
  BY <1>12, <1>13
<1>15. memory_size' = a
  BY <1>2 DEF SizeExact, f, a
<1> QED
  BY <1>14, <1>15 DEF SizeExact, g

LEMMA ReallocCountSums ==
  ASSUME IInv, IInv', Typed, Typed', SizeExact, NEW t \in Thread, ReallocCount(t)
  PROVE  SizeExact'
<1> DEFINE p == call[t].ptr
           c == [at |-> "add", ptr |-> p, site |-> call[t].site, size |-> block[p]]
           S == Counted \ {p}
           f == Weights(block, call, Counted)
           g == Weights(block', call', Counted')
<1>1. /\ call[t].at = "recount" /\ InCall(t) /\ Goes(t, c)
      /\ UNCHANGED block
      /\ memory_size' = memory_size + (block[p] - call[t].size1)
  BY DEF ReallocCount, Resized, InCall
<1>2. c.at = "add" /\ c.ptr = p
  OBVIOUS
<1> HIDE DEF c
<1>3. /\ call'[t] = c
      /\ \A u \in Thread \ {t} : call'[u] = call[u]
      /\ Counted' = Counted
  BY <1>1, <1>2, MovesOnCounts
<1>4. p \in Counted
  <2>1. p \in DOMAIN block /\ ~Uncounted(p)
    BY <1>1 DEF IInv, Owners, Uncounted, InCall
  <2> QED
    BY <2>1, CountedIs
<1>5. \A r \in S : Weight(block', call', r) = Weight(block, call, r)
  BY <1>1, <1>2, <1>3, OthersWeigh
<1>6. Weight(block, call, p) = call[t].size1
  BY <1>1, LoneCalls, WeightInHand
<1>7. Weight(block', call', p) = block[p]
  BY <1>1, <1>2, <1>3, NotInHandNext DEF InCall
<1>8. (\A r \in S : g[r] = f[r]) /\ f[p] = call[t].size1 /\ g[p] = block[p]
  BY <1>3, <1>4, <1>5, <1>6, <1>7 DEF Weights
<1>9. /\ IsFiniteSet(Counted) /\ f \in [Counted -> Nat]
      /\ g \in [Counted' -> Nat]
  BY CountedTyped, CountedTypedNext
<1>10. IsFiniteSet(S) /\ Counted = S \cup {p} /\ p \notin S
  BY <1>4, <1>9, FS_Subset
<1>11. memory_size' = memory_size + (g[p] - f[p])
  BY <1>1, <1>8
<1> HIDE DEF f, g, p, S
<1>12. OneMoved(S, p, p, f, g)
  BY <1>3, <1>8, <1>9, <1>10 DEF OneMoved
<1>13. SumFunction(g) = SumFunction(f) - f[p] + g[p]
  BY <1>12, SumOfOneMoved
<1>14. SumFunction(f) \in Int /\ f[p] \in Int /\ g[p] \in Int
  <2>1. f \in [Counted -> Int]
    BY <1>9
  <2>2. SumFunction(f) \in Int
    BY <2>1, <1>9, SumIsInt
  <2> QED
    BY <2>2, <1>3, <1>4, <1>9
<1> DEFINE a == SumFunction(f)
           b == f[p]
           d == g[p]
<1> HIDE DEF a, b, d
<1>15. a \in Int /\ b \in Int /\ d \in Int
  BY <1>14 DEF a, b, d
<1>16. SumFunction(g) = a - b + d
  BY <1>13 DEF a, b, d
<1>17. memory_size = a
  BY DEF SizeExact, f, a
<1>18. memory_size' = memory_size + (d - b)
  BY <1>11 DEF b, d
<1>19. memory_size' = a - b + d
  BY <1>15, <1>17, <1>18
<1> QED
  BY <1>16, <1>19 DEF SizeExact, g

LEMMA NextSums ==
  ASSUME IInv, IInv', Typed, Typed', SizeExact, [Next]_vars
  PROVE  SizeExact'
<1>1. CASE Next
  <2>1. PICK t \in Thread :
          \/ \E s \in Site, n \in Size : MallocBlock(t, s, n) \/ ReallocRem(t, s, n)
          \/ MallocCount(t) \/ MemoryAdd(t) \/ ReallocBlock(t)
          \/ ReallocCount(t) \/ ReallocFails(t) \/ ReallocRestore(t)
          \/ FreeRem(t) \/ FreeCount(t) \/ FreeBlock(t)
    BY <1>1 DEF Next
  <2> QED
    BY <2>1, MallocBlockSums, ReallocRemSums, MallocCountSums, ReturnedSums,
       ReallocBlockSums, ReallocCountSums, ReallocFailsSums, FreeRemSums,
       FreeCountSums, FreeBlockSums
<1>2. CASE UNCHANGED vars
  <2>1. UNCHANGED <<block, memory_size, call>>
    BY <1>2 DEF vars, counters
  <2>2. Counted' = Counted
    BY <2>1 DEF Counted, PtrsIn, Calling
  <2> QED
    BY <2>1, <2>2 DEF SizeExact
<1> QED
  BY <1>1, <1>2

-----------------------------------------------------------------------------
(* The sums of the sites. *)

PtrSizes(info, T) == [p \in T |-> info[p].size]

SiteSums ==
  \A s \in DOMAIN ators : ators[s].size = SumFunction(PtrSizes(pinfo, ators[s].ptrs))

LEMMA SamePtrSizes ==
  ASSUME NEW f, NEW g, NEW T, \A q \in T : g[q] = f[q]
  PROVE  PtrSizes(g, T) = PtrSizes(f, T)
BY DEF PtrSizes

\* The addresses of a site are tracked, and so are a finite set with sizes.
LEMMA PtrsTracked ==
  ASSUME TrackerTyped, SitesAgree, NEW T, T \subseteq DOMAIN pinfo
  PROVE  /\ IsFiniteSet(T)
         /\ PtrSizes(pinfo, T) \in [T -> Nat]
<1>1. T \subseteq Addr
  BY DEF TrackerTyped
<1>2. IsFiniteSet(T)
  BY <1>1, MemoryAssumption, FS_Subset
<1>3. \A q \in T : pinfo[q].size \in Nat
  BY MemoryAssumption DEF TrackerTyped
<1> QED
  BY <1>2, <1>3 DEF PtrSizes

LEMMA SiteOfSums ==
  ASSUME SitesAgree, SiteSums, NEW s
  PROVE  /\ SiteOf(s).ptrs = {q \in DOMAIN pinfo : pinfo[q].site = s}
         /\ SiteOf(s).size = SumFunction(PtrSizes(pinfo, SiteOf(s).ptrs))
<1>1. SiteOf(s).ptrs = {q \in DOMAIN pinfo : pinfo[q].site = s}
  BY DEF SiteOf, SitesAgree
<1>2. CASE s \in DOMAIN ators
  BY <1>1, <1>2 DEF SiteOf, SiteSums
<1>3. CASE s \notin DOMAIN ators
  <2>1. SiteOf(s).ptrs = {} /\ SiteOf(s).size = 0
    BY <1>3 DEF SiteOf
  <2> DEFINE f == PtrSizes(pinfo, {})
  <2>2. DOMAIN f = {} /\ f = [q \in DOMAIN f |-> f[q]]
    BY DEF PtrSizes
  <2> HIDE DEF f
  <2>3. SumFunction(f) = 0
    BY <2>2, SumOfNone
  <2>4. SiteOf(s).size = SumFunction(PtrSizes(pinfo, SiteOf(s).ptrs))
    BY <2>1, <2>3 DEF f
  <2> QED
    BY <1>1, <2>4
<1> QED
  BY <1>2, <1>3

LEMMA AddSums ==
  ASSUME TrackerTyped, SitesAgree, SiteSums, NEW s, NEW p \in Addr, NEW n \in Size,
         p \notin DOMAIN pinfo, MeminfoAdd(s, p, n)
  PROVE  SiteSums'
<1> DEFINE old == SiteOf(s)
           more == [ptrs |-> old.ptrs \cup {p}, size |-> old.size + n]
<1>1. /\ \A q \in DOMAIN pinfo : pinfo'[q] = pinfo[q]
      /\ p \in DOMAIN pinfo' => pinfo'[p].size = n
  BY AddTracks
<1>2. /\ old.ptrs = {q \in DOMAIN pinfo : pinfo[q].site = s}
      /\ old.size = SumFunction(PtrSizes(pinfo, old.ptrs))
  BY SiteOfSums
<1>3. /\ more.ptrs = old.ptrs \cup {p} /\ more.size = old.size + n
  OBVIOUS
<1>4. \/ p \in DOMAIN pinfo' /\ ators' = With(ators, s, more)
      \/ ators' = ators
      \/ ators' = With(ators, s, old)
  BY DEF MeminfoAdd, With, tracker
<1> HIDE DEF old, more
<1>5. ASSUME NEW T, T \subseteq DOMAIN pinfo
      PROVE  PtrSizes(pinfo', T) = PtrSizes(pinfo, T)
  BY <1>1, <1>5, SamePtrSizes
<1>6. ASSUME NEW r \in DOMAIN ators
      PROVE  ators[r].size = SumFunction(PtrSizes(pinfo', ators[r].ptrs))
  <2>1. ators[r].ptrs \subseteq DOMAIN pinfo
    BY DEF SitesAgree
  <2> QED
    BY <1>5, <2>1 DEF SiteSums
<1>7. old.size = SumFunction(PtrSizes(pinfo', old.ptrs))
  <2>1. old.ptrs \subseteq DOMAIN pinfo
    BY <1>2
  <2> QED
    BY <1>2, <1>5, <2>1
<1>8. CASE p \in DOMAIN pinfo' /\ ators' = With(ators, s, more)
  <2> DEFINE f == PtrSizes(pinfo, old.ptrs)
             g == PtrSizes(pinfo', more.ptrs)
  <2>1. more.size = SumFunction(g)
    <3>1. old.ptrs \subseteq DOMAIN pinfo
      BY <1>2
    <3>2. IsFiniteSet(old.ptrs) /\ f \in [old.ptrs -> Nat]
      BY <3>1, PtrsTracked
    <3>3. p \notin old.ptrs
      BY <3>1
    <3>4. /\ g \in [old.ptrs \cup {p} -> Int] /\ g[p] = n
          /\ \A q \in old.ptrs : g[q] = f[q]
      <4>1. \A q \in old.ptrs : g[q] = f[q]
        BY <1>1, <1>3, <3>1 DEF PtrSizes
      <4>2. g[p] = n
        BY <1>1, <1>3, <1>8 DEF PtrSizes
      <4>3. n \in Int
        BY MemoryAssumption
      <4>4. g = [q \in old.ptrs \cup {p} |-> g[q]]
        BY <1>3 DEF PtrSizes
      <4> HIDE DEF f, g
      <4>5. \A q \in old.ptrs \cup {p} : g[q] \in Int
        BY <3>2, <4>1, <4>2, <4>3
      <4> QED
        BY <4>1, <4>2, <4>4, <4>5
    <3> HIDE DEF g
    <3>5. OneMore(old.ptrs, f, p, g)
      <4> HIDE DEF f
      <4> QED
        BY <3>2, <3>3, <3>4 DEF OneMore
    <3>6. SumFunction(g) = SumFunction(f) + g[p]
      <4> HIDE DEF f
      <4> QED
        BY <3>5, SumOfOneMore
    <3> QED
      BY <1>2, <1>3, <3>4, <3>6
  <2>2. /\ DOMAIN ators' = DOMAIN ators \cup {s}
        /\ ators'[s] = more
        /\ \A r \in DOMAIN ators \ {s} : ators'[r] = ators[r]
    BY <1>8 DEF With
  <2> QED
    BY <1>6, <2>1, <2>2 DEF SiteSums
<1>9. CASE ators' = ators
  BY <1>6, <1>9 DEF SiteSums
<1>10. CASE ators' = With(ators, s, old)
  <2>1. /\ DOMAIN ators' = DOMAIN ators \cup {s}
        /\ ators'[s] = old
        /\ \A r \in DOMAIN ators \ {s} : ators'[r] = ators[r]
    BY <1>10 DEF With
  <2> QED
    BY <1>6, <1>7, <2>1 DEF SiteSums
<1> QED
  BY <1>4, <1>8, <1>9, <1>10

LEMMA RemSums ==
  ASSUME TrackerTyped, SitesAgree, SiteSums, NEW p, MeminfoRem(p)
  PROVE  SiteSums'
<1>1. CASE p \notin DOMAIN pinfo
  BY <1>1 DEF MeminfoRem, tracker, SiteSums
<1>2. CASE p \in DOMAIN pinfo
  <2> DEFINE s == pinfo[p].site
             T == ators[s].ptrs \ {p}
             f == PtrSizes(pinfo, ators[s].ptrs)
             g == PtrSizes(pinfo', T)
  <2>1. s \in DOMAIN ators /\ p \in ators[s].ptrs /\ ators[s].ptrs \subseteq DOMAIN pinfo
    BY <1>2 DEF SitesAgree
  <2>2. /\ DOMAIN ators' = DOMAIN ators
        /\ ators'[s].ptrs = T
        /\ ators'[s].size = ators[s].size - pinfo[p].size
        /\ \A r \in DOMAIN ators \ {s} : ators'[r] = ators[r]
    BY <1>2, <2>1 DEF MeminfoRem
  <2>3. \A q \in DOMAIN pinfo \ {p} : pinfo'[q] = pinfo[q]
    BY RemTracks
  <2>4. ASSUME NEW r \in DOMAIN ators, r # s
        PROVE  ators'[r].size = SumFunction(PtrSizes(pinfo', ators'[r].ptrs))
    <3>1. ators[r].ptrs \subseteq DOMAIN pinfo \ {p}
      BY <2>4 DEF SitesAgree
    <3>2. PtrSizes(pinfo', ators[r].ptrs) = PtrSizes(pinfo, ators[r].ptrs)
      BY <2>3, <3>1, SamePtrSizes
    <3>3. ators[r].size = SumFunction(PtrSizes(pinfo, ators[r].ptrs))
      BY DEF SiteSums
    <3> QED
      BY <2>2, <2>4, <3>2, <3>3
  <2>5. ators'[s].size = SumFunction(g)
    <3>1. /\ IsFiniteSet(ators[s].ptrs) /\ f \in [ators[s].ptrs -> Nat]
      BY <2>1, PtrsTracked
    <3>2. IsFiniteSet(T) /\ ators[s].ptrs = T \cup {p} /\ p \notin T
      BY <2>1, <3>1, FS_Subset
    <3>3. (\A q \in T : g[q] = f[q]) /\ g = [q \in T |-> g[q]]
      BY <2>1, <2>3 DEF PtrSizes
    <3>4. f[p] = pinfo[p].size
      BY <2>1 DEF PtrSizes
    <3>5. ators[s].size = SumFunction(f)
      BY <2>1 DEF SiteSums
    <3>6. ators'[s].size = SumFunction(f) - f[p]
      BY <2>2, <3>4, <3>5
    <3> HIDE DEF f, g, T
    <3>7. g \in [T -> Int]
      BY <3>1, <3>2, <3>3
    <3>8. f \in [T \cup {p} -> Int]
      BY <3>1, <3>2
    <3>9. OneMore(T, g, p, f)
      BY <3>2, <3>3, <3>7, <3>8 DEF OneMore
    <3>10. SumFunction(f) = SumFunction(g) + f[p]
      BY <3>9, SumOfOneMore
    <3>11. SumFunction(g) \in Int
      BY <3>2, <3>7, SumIsInt
    <3>12. f[p] \in Int
      BY <3>8
    <3> DEFINE a == SumFunction(g)
               b == f[p]
               d == ators'[s].size
    <3>13. d = SumFunction(f) - b /\ SumFunction(f) = a + b
      BY <3>6, <3>10
    <3>14. a \in Int /\ b \in Int
      BY <3>11, <3>12
    <3> HIDE DEF a, b, d
    <3>15. d = a
      BY <3>13, <3>14
    <3> QED
      BY <3>15 DEF a, d
  <2>6. ASSUME NEW r \in DOMAIN ators'
        PROVE  ators'[r].size = SumFunction(PtrSizes(pinfo', ators'[r].ptrs))
    BY <2>2, <2>4, <2>5
  <2> QED
    BY <2>6 DEF SiteSums
<1> QED
  BY <1>1, <1>2

LEMMA NextSiteSums ==
  ASSUME IInv, Typed, SiteSums, [Next]_vars
  PROVE  SiteSums'
<1>0. TrackerTyped /\ SitesAgree /\ HeldTracked /\ Owners
  BY DEF Typed, IInv
<1>1. ASSUME UNCHANGED tracker PROVE SiteSums'
  BY <1>1 DEF tracker, SiteSums
<1>2. ASSUME NEW t \in Thread, MemoryAdd(t) \/ ReallocRestore(t) PROVE SiteSums'
  <2>1. /\ call[t].at \in {"add", "failed"}
        /\ MeminfoAdd(call[t].site, call[t].ptr, call[t].size)
    BY <1>2 DEF MemoryAdd, ReallocRestore
  <2>2. call[t].ptr \in Addr /\ call[t].size \in Size /\ call[t].ptr \notin held
    BY <2>1, BlockSize, CallFields DEF InCall
  <2>3. call[t].ptr \notin DOMAIN pinfo
    BY <1>0, <2>2 DEF HeldTracked
  <2> QED
    BY <1>0, <2>1, <2>2, <2>3, AddSums
<1>3. ASSUME NEW t \in Thread, NEW s, NEW n, ReallocRem(t, s, n) PROVE SiteSums'
  BY <1>0, <1>3, RemSums DEF ReallocRem, Forget
<1>4. ASSUME NEW t \in Thread, FreeRem(t) PROVE SiteSums'
  BY <1>0, <1>4, RemSums DEF FreeRem
<1>5. CASE Next
  <2>1. PICK t \in Thread :
          \/ \E s \in Site, n \in Size : MallocBlock(t, s, n) \/ ReallocRem(t, s, n)
          \/ MallocCount(t) \/ MemoryAdd(t) \/ ReallocBlock(t)
          \/ ReallocCount(t) \/ ReallocFails(t) \/ ReallocRestore(t)
          \/ FreeRem(t) \/ FreeCount(t) \/ FreeBlock(t)
    BY <1>5 DEF Next
  <2>2. \/ UNCHANGED tracker
        \/ MemoryAdd(t) \/ ReallocRestore(t) \/ FreeRem(t)
        \/ \E s \in Site, n \in Size : ReallocRem(t, s, n)
    BY <2>1 DEF MallocBlock, MallocCount, ReallocBlock, ReallocCount,
                ReallocFails, FreeCount, FreeBlock
  <2> QED
    BY <2>2, <1>1, <1>2, <1>3, <1>4
<1>6. CASE UNCHANGED vars
  BY <1>1, <1>6 DEF vars
<1> QED
  BY <1>5, <1>6

-----------------------------------------------------------------------------
(* The invariant with the sums, which needs the other one before and after a
   step; and what follows from the two. *)

SInv == Typed /\ SizeExact /\ SiteSums

LEMMA InitSums == Init => SInv
<1> SUFFICES ASSUME Init PROVE SInv
  OBVIOUS
<1>1. /\ DOMAIN block = {} /\ DOMAIN pinfo = {} /\ DOMAIN ators = {}
      /\ block = None /\ pinfo = None /\ ators = None
      /\ held = {} /\ memory_size = 0
      /\ call = [t \in Thread |-> Idle]
  BY DEF Init, None
<1>2. Typed
  <2>1. Idle \in Call
    BY DEF Call
  <2>2. BlocksTyped
    BY <1>1, <2>1 DEF BlocksTyped, None
  <2>3. TrackerTyped
    BY <1>1 DEF TrackerTyped, None
  <2> QED
    BY <2>2, <2>3 DEF Typed
<1>3. SizeExact
  <2> DEFINE f == Weights(block, call, Counted)
  <2>1. Counted = {}
    BY <1>1 DEF Counted
  <2>2. DOMAIN f = {} /\ f = [q \in DOMAIN f |-> f[q]]
    BY <2>1 DEF Weights
  <2> HIDE DEF f
  <2>3. SumFunction(f) = 0
    BY <2>2, SumOfNone
  <2> QED
    BY <1>1, <2>3 DEF SizeExact, f
<1>4. SiteSums
  BY <1>1 DEF SiteSums
<1> QED
  BY <1>2, <1>3, <1>4 DEF SInv

LEMMA StepKeepsSums ==
  ASSUME IInv, IInv', SInv, [Next]_vars
  PROVE  SInv'
<1>1. Typed /\ SizeExact /\ SiteSums
  BY DEF SInv
<1>2. Typed'
  BY <1>1, NextTyped
<1>3. SizeExact'
  BY <1>1, <1>2, NextSums
<1>4. SiteSums'
  BY <1>1, NextSiteSums
<1> QED
  BY <1>2, <1>3, <1>4 DEF SInv

LEMMA SumsInvariant == Spec => []SInv
<1>1. IInv /\ IInv' /\ SInv /\ [Next]_vars => SInv'
  BY StepKeepsSums
<1> QED
  BY InitSums, MemoryInvariant, <1>1, PTL DEF Spec

(* memory_count and memory_size are the number and the sizes of the blocks, but
   for the steps the threads are between: whoever overtakes whom, nothing is
   counted twice or forgotten (cc_memory.c:543, :594, :609). *)
THEOREM MemoryCountersExact == Spec => []CountersExact
<1>1. IInv /\ SInv => CountersExact
  BY SizeExactIs DEF IInv, SInv, CountersExact
<1> QED
  BY <1>1, MemoryInvariant, SumsInvariant, PTL

(* The size of a site is the sum of the sizes of the addresses tracked for it,
   and the two maps have the same addresses with the same sites, also when the
   tracker has run out of memory on the way (cc_memory.c:308, :332). *)
THEOREM MemoryTrackerAgrees == Spec => []TrackerAgrees
<1>1. IInv /\ SInv => TrackerAgrees
  BY DEF IInv, SInv, TrackerAgrees, SiteSums, PtrSizes
<1> QED
  BY <1>1, MemoryInvariant, SumsInvariant, PTL

(* Every variable keeps its type; what is not plain to see of it is that no
   counter and no size of a site ever goes below zero
   (cc_memory.c:332, :594, :609). *)
THEOREM MemoryTypeOK == Spec => []TypeOK
<1>1. ASSUME IInv, SInv PROVE TypeOK
  <2>1. Typed /\ SizeExact /\ SiteSums /\ Types /\ CountExact /\ SitesAgree
    BY <1>1 DEF IInv, SInv
  <2>2. memory_count \in Nat
    BY <2>1, CountedFinite DEF CountExact
  <2>3. memory_size \in Nat
    BY <1>1, <2>1, CountedTyped, SumIsNat DEF SizeExact
  <2>4. ASSUME NEW s \in DOMAIN ators PROVE ators[s].size \in Nat
    <3>1. ators[s].ptrs \subseteq DOMAIN pinfo
      BY <2>1 DEF SitesAgree
    <3>2. /\ IsFiniteSet(ators[s].ptrs)
          /\ PtrSizes(pinfo, ators[s].ptrs) \in [ators[s].ptrs -> Nat]
      BY <2>1, <3>1, PtrsTracked DEF Typed
    <3>3. SumFunction(PtrSizes(pinfo, ators[s].ptrs)) \in Nat
      BY <3>2, SumIsNat
    <3> QED
      BY <2>1, <3>3 DEF SiteSums
  <2>5. ators \in [DOMAIN ators -> [ptrs : SUBSET Addr, size : Nat]]
    BY <2>1, <2>4 DEF Typed, TrackerTyped
  <2> QED
    BY <2>1, <2>2, <2>3, <2>5 DEF TypeOK, Types, Typed, TrackerTyped, BlocksTyped
<1>2. IInv /\ SInv => TypeOK
  BY <1>1
<1> QED
  BY <1>2, MemoryInvariant, SumsInvariant, PTL

=============================================================================
