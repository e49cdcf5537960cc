------------------------------- MODULE Memory -------------------------------
(***************************************************************************)
(* cc_memory as a build with MEMORY_DEBUG has it: malloc, realloc and free *)
(* of several threads, the counters, and the tracker that knows every      *)
(* block by its address and the place in the code that asked for it.       *)
(*                                                                         *)
(* The C library's allocator and memory_mutex are taken one at a time: a   *)
(* call is a chain of actions, each with one access to the heap or one     *)
(* section of the mutex, and another thread may come between any two.      *)
(***************************************************************************)
EXTENDS Integers, FiniteSets, Functions

CONSTANTS
  Thread,  \* the threads that allocate
  Addr,    \* the addresses the heap gives out
  Size,    \* the sizes asked for
  Site     \* the places func@line that call MALLOC, REALLOC and FREE

ASSUME MemoryAssumption == Size \subseteq Nat /\ IsFiniteSet(Addr)

VARIABLES
  block,         \* the allocated blocks, and mem->size of each
  memory_count,
  memory_size,
  ators,         \* map_ator: for each site seen, its addresses and their size
  pinfo,         \* map_pinfo: for each address tracked, its site and size
  call,          \* the call each thread is in
  held,          \* ghost: the addresses the clients have
  missed         \* ghost: those of them that the tracker had no memory for, or
                 \* whose realloc failed

counters == <<memory_count, memory_size>>
tracker  == <<ators, pinfo>>
clients  == <<held, missed>>
vars     == <<block, counters, tracker, call, clients>>

Idle == [at |-> "idle"]

\* Partial functions: f with x |-> y, and f without x.
With(f, x, y) == [z \in DOMAIN f \cup {x} |-> IF z = x THEN y ELSE f[z]]
Without(f, x) == [z \in DOMAIN f \ {x} |-> f[z]]
None == [x \in {} |-> x]

Init ==
  /\ block = None
  /\ memory_count = 0
  /\ memory_size = 0
  /\ ators = None
  /\ pinfo = None
  /\ call = [t \in Thread |-> Idle]
  /\ held = {}
  /\ missed = {}

-----------------------------------------------------------------------------
(* cc_meminfo_add.  What comes of it when memory runs out: nothing is kept;
   a new site is kept without the address; the address too, which then has
   been taken out of map_pinfo again (fail_ator_add).  memory_meminfo itself,
   if it cannot be had, is the first case.
   Mutant: the address stays in map_pinfo. *)
SiteOf(s) == IF s \in DOMAIN ators THEN ators[s] ELSE [ptrs |-> {}, size |-> 0]

MutantUndone(f, p) == f
Undone(f, p) == Without(f, p)

MeminfoAdd(s, p, n) ==
  LET entry == With(pinfo, p, [site |-> s, size |-> n])
  IN  \/ /\ p \notin DOMAIN pinfo
         /\ pinfo' = entry
         /\ ators' = With(ators, s, [ptrs |-> SiteOf(s).ptrs \cup {p},
                                     size |-> SiteOf(s).size + n])
      \/ UNCHANGED tracker
      \/ /\ ators' = With(ators, s, SiteOf(s))
         /\ pinfo' \in IF p \in DOMAIN pinfo THEN {pinfo}
                       ELSE {pinfo, Undone(entry, p)}

\* cc_meminfo_rem, with cc_ator_rem; an unknown address gets a warning.
MeminfoRem(p) ==
  IF p \notin DOMAIN pinfo THEN UNCHANGED tracker
  ELSE LET s == pinfo[p].site
       IN  /\ pinfo' = Without(pinfo, p)
           /\ ators' = IF p \notin ators[s].ptrs THEN ators
                       ELSE [ators EXCEPT ![s] = [ptrs |-> @.ptrs \ {p},
                                                  size |-> @.size - pinfo[p].size]]

-----------------------------------------------------------------------------
Goes(t, c) == call' = [call EXCEPT ![t] = c]

(* malloc and calloc; and realloc of NULL, which is malloc.  A malloc that
   fails returns NULL and changes nothing. *)
MallocBlock(t, s, n) ==
  /\ call[t] = Idle
  /\ \E p \in Addr \ DOMAIN block :
       /\ block' = With(block, p, n)
       /\ Goes(t, [at |-> "malloc", ptr |-> p, site |-> s])
  /\ UNCHANGED <<counters, tracker, clients>>

MallocCount(t) ==
  /\ call[t].at = "malloc"
  /\ memory_count' = memory_count + 1
  /\ memory_size' = memory_size + block[call[t].ptr]
  /\ Goes(t, [at |-> "add", ptr |-> call[t].ptr, site |-> call[t].site,
              size |-> block[call[t].ptr]])
  /\ UNCHANGED <<block, tracker, clients>>

\* cc_memory_add, the end of each call but free's
MemoryAdd(t) ==
  /\ call[t].at = "add"
  /\ MeminfoAdd(call[t].site, call[t].ptr, call[t].size)
  /\ held' = held \cup {call[t].ptr}
  /\ missed' = missed \cup ({call[t].ptr} \ DOMAIN pinfo')
  /\ Goes(t, Idle)
  /\ UNCHANGED <<block, counters>>

(* realloc: out of the tracker first, so that the address may be used again as
   soon as realloc gives it up.  The client has no pointer meanwhile.
   Mutant: only free takes an address out of the tracker. *)
MutantForget(p) == UNCHANGED tracker
Forget(p) == MeminfoRem(p)

ReallocRem(t, s, n) ==
  \E p \in held :
    /\ call[t] = Idle
    /\ Forget(p)
    /\ held' = held \ {p}
    /\ missed' = missed \ {p}
    /\ Goes(t, [at |-> "realloc", ptr |-> p, site |-> s, size |-> n])
    /\ UNCHANGED <<block, counters>>

ReallocBlock(t) ==
  LET p == call[t].ptr
  IN  /\ call[t].at = "realloc"
      /\ \E q \in {p} \cup (Addr \ DOMAIN block) :
           /\ block' = With(Without(block, p), q, call[t].size)
           /\ Goes(t, [at |-> "recount", ptr |-> q, site |-> call[t].site,
                       size1 |-> block[p]])
      /\ UNCHANGED <<counters, tracker, clients>>

\* Mutant: the size before is that of the block now.
MutantResized(c) == block[c.ptr] - block[c.ptr]
Resized(c) == block[c.ptr] - c.size1

ReallocCount(t) ==
  /\ call[t].at = "recount"
  /\ memory_size' = memory_size + Resized(call[t])
  /\ Goes(t, [at |-> "add", ptr |-> call[t].ptr, site |-> call[t].site,
              size |-> block[call[t].ptr]])
  /\ UNCHANGED <<block, memory_count, tracker, clients>>

(* realloc fails: the old block is put back, with the size that was asked
   for. *)
ReallocFails(t) ==
  /\ call[t].at = "realloc"
  /\ Goes(t, [at |-> "failed", ptr |-> call[t].ptr, site |-> call[t].site,
              size |-> call[t].size])
  /\ UNCHANGED <<block, counters, tracker, clients>>

ReallocRestore(t) ==
  /\ call[t].at = "failed"
  /\ MeminfoAdd(call[t].site, call[t].ptr, call[t].size)
  /\ held' = held \cup {call[t].ptr}
  /\ missed' = missed \cup {call[t].ptr}
  /\ Goes(t, Idle)
  /\ UNCHANGED <<block, counters>>

-----------------------------------------------------------------------------
\* free: out of the tracker, out of the counters, and then given up.
FreeRem(t) ==
  \E p \in held :
    /\ call[t] = Idle
    /\ MeminfoRem(p)
    /\ held' = held \ {p}
    /\ missed' = missed \ {p}
    /\ Goes(t, [at |-> "free", ptr |-> p])
    /\ UNCHANGED <<block, counters>>

FreeCount(t) ==
  /\ call[t].at = "free"
  /\ memory_count' = memory_count - 1
  /\ memory_size' = memory_size - block[call[t].ptr]
  /\ Goes(t, [at |-> "freed", ptr |-> call[t].ptr])
  /\ UNCHANGED <<block, tracker, clients>>

FreeBlock(t) ==
  /\ call[t].at = "freed"
  /\ block' = Without(block, call[t].ptr)
  /\ Goes(t, Idle)
  /\ UNCHANGED <<counters, tracker, clients>>

Next ==
  \E t \in Thread :
    \/ \E s \in Site, n \in Size : MallocBlock(t, s, n) \/ ReallocRem(t, s, n)
    \/ MallocCount(t)
    \/ MemoryAdd(t)
    \/ ReallocBlock(t)
    \/ ReallocCount(t)
    \/ ReallocFails(t)
    \/ ReallocRestore(t)
    \/ FreeRem(t)
    \/ FreeCount(t)
    \/ FreeBlock(t)

Spec == Init /\ [][Next]_vars

-----------------------------------------------------------------------------
(* What a call has in hand at each of its steps. *)
Call ==
  {Idle}
  \cup [at : {"malloc"}, ptr : Addr, site : Site]
  \cup [at : {"add", "realloc", "failed"}, ptr : Addr, site : Site, size : Size]
  \cup [at : {"recount"}, ptr : Addr, site : Site, size1 : Size]
  \cup [at : {"free", "freed"}, ptr : Addr]

TypeOK ==
  /\ DOMAIN block \subseteq Addr /\ block \in [DOMAIN block -> Size]
  /\ memory_count \in Nat /\ memory_size \in Nat
  /\ DOMAIN pinfo \subseteq Addr
  /\ pinfo \in [DOMAIN pinfo -> [site : Site, size : Size]]
  /\ DOMAIN ators \subseteq Site
  /\ ators \in [DOMAIN ators -> [ptrs : SUBSET Addr, size : Nat]]
  /\ missed \subseteq held /\ held \subseteq Addr
  /\ call \in [Thread -> Call]

Calling(phases) == {t \in Thread : call[t].at \in phases}
PtrsIn(phases) == {call[t].ptr : t \in Calling(phases)}

(* The counters are the number and the sizes of the blocks, but for the steps
   the threads are between: a new block not counted yet, a freed one counted
   no more, a resized one with its old size.  So they never go below zero,
   whoever overtakes whom (cc_memory.c:543, :594, :609). *)
Counted == DOMAIN block \ PtrsIn({"malloc", "freed"})
SizeCounted(p) ==
  IF p \in PtrsIn({"recount"})
  THEN (CHOOSE c \in Range(call) : c.at = "recount" /\ c.ptr = p).size1
  ELSE block[p]

CountExact == memory_count = Cardinality(Counted)

CountersExact ==
  /\ CountExact
  /\ memory_size = SumFunction([p \in Counted |-> SizeCounted(p)])

(* The two maps of the tracker tell one story: an address is with the site it
   was tracked for and with no other, and the site's size is the sum of theirs
   (cc_memory.c:308, :332). *)
SitesAgree ==
  /\ \A p \in DOMAIN pinfo : pinfo[p].site \in DOMAIN ators
  /\ \A s \in DOMAIN ators :
       ators[s].ptrs = {p \in DOMAIN pinfo : pinfo[p].site = s}

TrackerAgrees ==
  /\ SitesAgree
  /\ \A s \in DOMAIN ators :
       ators[s].size = SumFunction([p \in ators[s].ptrs |-> pinfo[p].size])

(* The tracker knows the address of every block a client has, with its size,
   unless it had no memory for it or its last realloc failed; and it knows no
   other.  Addresses are used again, and between the steps of one call other
   threads get and give up theirs (cc_memory.c:291, :495, :510). *)
HeldTracked ==
  /\ held \subseteq DOMAIN block
  /\ DOMAIN pinfo \subseteq held
  /\ \A p \in held \ missed : p \in DOMAIN pinfo /\ pinfo[p].size = block[p]

=============================================================================
