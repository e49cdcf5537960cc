-------------------------------- MODULE JobQ --------------------------------
(***************************************************************************)
(* cc_jobq: a pool of worker threads that run jobs first come first served *)
(* and forget each one when it was run.  The queue can be paused.          *)
(*                                                                         *)
(* Every section of the code that holds self->mutex is one action, as in   *)
(* WorkQ.  A job is the list iterator cc_jobq_run allocates for a task:    *)
(* the same task may be in the queue several times, as different jobs, and *)
(* a job that was run may be allocated again.                              *)
(***************************************************************************)
EXTENDS CCSeq

CONSTANTS
  Job,     \* addresses of the list iterators
  Client,  \* threads that call the jobq
  Main,    \* the client that creates and deletes it
  Worker,  \* the jobq's threads
  Calls    \* Calls[p]: the functions thread p calls

Thread == Client \cup Worker

Function == {"run", "pause", "resume", "finish", "delete"}

\* A run_fn may submit more jobs: it is called without the mutex.
ASSUME JobQAssumption ==
  /\ Main \in Client
  /\ Client \cap Worker = {}
  /\ Calls \in [Thread -> SUBSET Function]
  /\ \A w \in Worker : Calls[w] \subseteq {"run"}
  /\ \A c \in Client \ {Main} : "delete" \notin Calls[c]
  /\ IsFiniteSet(Worker)

VARIABLES
  state,          \* "NONE" while no jobq exists, else self->state
  next_tid,
  queue_pending,  \* a sequence of jobs, head first
  queue_active,   \* a set: only its size is looked at
  wait_pending,   \* workers asleep on cond_pending
  wait_complete,  \* clients asleep on cond_complete
  pc,             \* where each thread is
  cur,            \* cur[w]: the jobs in worker w's hands, at most one
  tid,            \* a worker's thread id; 0 before it has one
  owed            \* ghost: jobs accepted by run whose run_fn has not returned

vars == <<state, next_tid, queue_pending, queue_active, wait_pending,
          wait_complete, pc, cur, tid, owed>>

Queued  == ToSet(queue_pending) \cup queue_active
Running == {w \in Worker : pc[w] = "run"}

\* cc_jobq_pending
Pending == Len(queue_pending) + Cardinality(queue_active)

ClientPC == {"idle", "new_join", "finish", "delete_finish", "delete_stop",
             "delete_join"}
WorkerPC == {"none", "start", "loop", "run", "exit"}

Init ==
  /\ state = "NONE"
  /\ next_tid = 0
  /\ queue_pending = << >>
  /\ queue_active = {}
  /\ wait_pending = {}
  /\ wait_complete = {}
  /\ pc = [p \in Thread |-> IF p \in Client THEN "idle" ELSE "none"]
  /\ cur = [w \in Worker |-> {}]
  /\ tid = [w \in Worker |-> 0]
  /\ owed = {}

Goto(p, l) == pc' = [pc EXCEPT ![p] = l]

-----------------------------------------------------------------------------
(* pthread_cond_broadcast on cond_pending.  A definition that begins with
   "Mutant" is a mistake the code does not make, as in WorkQ. *)
MutantWakeOneWorker ==
  \E w \in Worker : /\ wait_pending # {} => w \in wait_pending
                    /\ wait_pending' = wait_pending \ {w}
MutantWakeNoWorker == UNCHANGED wait_pending
WakeWorkers == wait_pending' = {}

MutantNew ==
  /\ state = "NONE"
  /\ pc[Main] = "idle"
  /\ state' = "RUNNING"
  /\ pc' = [p \in Thread |-> IF p \in Worker THEN "start" ELSE pc[p]]
  /\ UNCHANGED <<next_tid, queue_pending, queue_active, wait_pending,
                 wait_complete, cur, tid, owed>>

\* The threads are created with the mutex held; the queue runs if all of
\* them could be created.
New ==
  /\ state = "NONE"
  /\ pc[Main] = "idle"
  /\ \E created \in SUBSET Worker :
       /\ state' = IF created = Worker THEN "RUNNING" ELSE "STOP"
       /\ pc' = [p \in Thread |->
                   IF p \in created THEN "start"
                   ELSE IF p = Main /\ created # Worker THEN "new_join"
                   ELSE pc[p]]
  /\ next_tid' = 0
  /\ UNCHANGED <<queue_pending, queue_active, wait_pending, wait_complete,
                 cur, tid, owed>>

\* Join every thread there is and free the jobq, at the end of a failed new
\* or of delete; the lists discard the jobs they still hold.
Join ==
  /\ pc[Main] \in {"new_join", "delete_join"}
  /\ \A w \in Worker : pc[w] \in {"none", "exit"}
  /\ state' = "NONE"
  /\ queue_pending' = << >>
  /\ queue_active' = {}
  /\ pc' = [p \in Thread |-> IF p \in Worker THEN "none"
                             ELSE IF p = Main THEN "idle" ELSE pc[p]]
  /\ tid' = [w \in Worker |-> 0]
  /\ UNCHANGED <<next_tid, wait_pending, wait_complete, cur, owed>>

-----------------------------------------------------------------------------
\* A new thread takes its id.
TakeTid(w) ==
  /\ tid' = [tid EXCEPT ![w] = next_tid]
  /\ next_tid' = next_tid + 1

\* The condition a worker sleeps on until it is false.
MutantNothingToBegin == queue_pending = << >>
NothingToBegin == state = "PAUSED" \/ queue_pending = << >>

\* The head of the pending queue becomes active in the hands of w.
MutantBegin(w, active) ==
  /\ Goto(w, "run")
  /\ cur' = [cur EXCEPT ![w] = {Head(queue_pending)}]
  /\ queue_active' = active \cup {Head(queue_pending)}
  /\ UNCHANGED <<queue_pending, wait_pending>>
Begin(w, active) ==
  /\ Goto(w, "run")
  /\ cur' = [cur EXCEPT ![w] = {Head(queue_pending)}]
  /\ queue_active' = active \cup {Head(queue_pending)}
  /\ queue_pending' = Tail(queue_pending)
  /\ UNCHANGED wait_pending

(* One pass through the loop of cc_jobq_thread up to its next wait or
   unlock.  active is the active queue left by the part of the critical
   section before it. *)
LoopTop(w, active) ==
  IF state = "STOP"
  THEN /\ Goto(w, "exit")
       /\ cur' = [cur EXCEPT ![w] = {}]
       /\ queue_active' = active
       /\ UNCHANGED <<queue_pending, wait_pending>>
  ELSE IF NothingToBegin
  THEN /\ Goto(w, "loop")
       /\ cur' = [cur EXCEPT ![w] = {}]
       /\ queue_active' = active
       /\ wait_pending' = wait_pending \cup {w}
       /\ UNCHANGED queue_pending
  ELSE Begin(w, active)

WorkerStart(w) ==
  /\ pc[w] = "start"
  /\ TakeTid(w)
  /\ LoopTop(w, queue_active)
  /\ UNCHANGED <<state, wait_complete, owed>>

WorkerWake(w) ==
  /\ pc[w] = "loop"
  /\ w \notin wait_pending
  /\ LoopTop(w, queue_active)
  /\ UNCHANGED <<state, next_tid, wait_complete, tid, owed>>

\* The job w has run was the last one: nothing else is pending or active.
MutantLastOne(w) == queue_pending = << >> /\ queue_active = {}
LastOne(w) == queue_pending = << >> /\ queue_active = cur[w]

\* run_fn returns: the job is removed, and the clients that wait are woken
\* if it was the last one.
WorkerDone(w) ==
  /\ pc[w] = "run"
  /\ wait_complete' = IF LastOne(w) THEN {} ELSE wait_complete
  /\ owed' = owed \ cur[w]
  /\ LoopTop(w, queue_active \ cur[w])
  /\ UNCHANGED <<state, next_tid, tid>>

-----------------------------------------------------------------------------
\* Thread p may call f now: no client calls while main creates or deletes.
MayCall(p, f) ==
  /\ f \in Calls[p]
  /\ IF p \in Worker THEN pc[p] = "run"
     ELSE /\ pc[p] = "idle"
          /\ state \in {"RUNNING", "PAUSED"}
          /\ pc[Main] \notin {"delete_finish", "delete_stop"}

\* When the iterator cannot be allocated, run returns 0 and changes nothing.
Run(p) ==
  /\ MayCall(p, "run")
  /\ \E j \in Job \ Queued :
       /\ queue_pending' = Append(queue_pending, j)
       /\ owed' = owed \cup {j}
  /\ IF state = "RUNNING" THEN WakeWorkers ELSE UNCHANGED wait_pending
  /\ UNCHANGED <<state, next_tid, queue_active, wait_complete, pc, cur, tid>>

Pause(c) ==
  /\ MayCall(c, "pause")
  /\ state' = "PAUSED"
  /\ UNCHANGED <<next_tid, queue_pending, queue_active, wait_pending,
                 wait_complete, pc, cur, tid, owed>>

Resume(c) ==
  /\ MayCall(c, "resume")
  /\ state' = "RUNNING"
  /\ WakeWorkers
  /\ UNCHANGED <<next_tid, queue_pending, queue_active, wait_complete, pc,
                 cur, tid, owed>>

\* cc_jobq_finish waits for this.
MutantAllDone == queue_active = {}
AllDone == queue_pending = << >> /\ queue_active = {}

\* The end of cc_jobq_finish: sleep at l, or return to next.
FinishLoop(c, l, next) ==
  /\ IF AllDone
     THEN /\ Goto(c, next)
          /\ UNCHANGED wait_complete
     ELSE /\ Goto(c, l)
          /\ wait_complete' = wait_complete \cup {c}
  /\ UNCHANGED <<next_tid, queue_pending, queue_active, cur, tid, owed>>

\* cc_jobq_finish up to its first sleep: a paused queue is resumed.
FinishBegin(c, l, next) ==
  /\ state' = IF state = "PAUSED" THEN "RUNNING" ELSE state
  /\ IF state = "PAUSED" THEN WakeWorkers ELSE UNCHANGED wait_pending
  /\ FinishLoop(c, l, next)

FinishWake(c, l, next) ==
  /\ pc[c] = l
  /\ c \notin wait_complete
  /\ FinishLoop(c, l, next)
  /\ UNCHANGED <<state, wait_pending>>

Finish(c)       == MayCall(c, "finish") /\ FinishBegin(c, "finish", "idle")
FinishResume(c) == FinishWake(c, "finish", "idle")

\* delete is a finish, a stop and a join; no other client is in a call, or
\* calls again.
Delete ==
  /\ MayCall(Main, "delete")
  /\ \A c \in Client : pc[c] = "idle"
  /\ FinishBegin(Main, "delete_finish", "delete_stop")

DeleteResume == FinishWake(Main, "delete_finish", "delete_stop")

DeleteStop ==
  /\ pc[Main] = "delete_stop"
  /\ state' = "STOP"
  /\ WakeWorkers
  /\ Goto(Main, "delete_join")
  /\ UNCHANGED <<next_tid, queue_pending, queue_active, wait_complete, cur,
                 tid, owed>>

\* pthread_cond_wait may return without a broadcast.
Spurious(p) ==
  /\ p \in wait_pending \cup wait_complete
  /\ wait_pending' = wait_pending \ {p}
  /\ wait_complete' = wait_complete \ {p}
  /\ UNCHANGED <<state, next_tid, queue_pending, queue_active, pc, cur, tid,
                 owed>>

WorkerStep(w) == WorkerStart(w) \/ WorkerWake(w) \/ WorkerDone(w)

\* Main's and the other clients' steps inside a call.
MainContinue == Join \/ DeleteResume \/ DeleteStop

Next ==
  \/ \E w \in Worker : WorkerStep(w)
  \/ \E p \in Thread : Run(p) \/ Spurious(p)
  \/ \E c \in Client : Pause(c) \/ Resume(c) \/ Finish(c) \/ FinishResume(c)
  \/ New \/ Delete \/ MainContinue

Spec == Init /\ [][Next]_vars

\* The fairness of WorkQ.
Fairness ==
  /\ \A w \in Worker : WF_vars(WorkerStep(w))
  /\ \A c \in Client : WF_vars(FinishResume(c))
  /\ WF_vars(MainContinue)

FairSpec == Spec /\ Fairness

-----------------------------------------------------------------------------
(* Properties *)

(* Every variable has the type its C declaration and its use give it; a
   jobq gives out no more thread ids than it has threads. *)
TypeOK ==
  /\ state \in {"NONE", "RUNNING", "PAUSED", "STOP"}
  /\ next_tid \in 0..Cardinality(Worker)
  /\ queue_pending \in Seq(Job)
  /\ queue_active \in SUBSET Job
  /\ wait_pending \in SUBSET Worker
  /\ wait_complete \in SUBSET Client
  /\ pc \in [Thread -> ClientPC \cup WorkerPC]
  /\ \A p \in Thread : pc[p] \in IF p \in Client THEN ClientPC ELSE WorkerPC
  /\ cur \in [Worker -> SUBSET Job]
  /\ tid \in [Worker -> 0..Cardinality(Worker)]
  /\ owed \in SUBSET Job

(* A job is in one place: once in the pending queue, or on the active queue
   and in the hands of one running worker (cc_jobq.c:79, 91). *)
OneWorkerPerJob ==
  /\ IsInjective(queue_pending)
  /\ ToSet(queue_pending) \cap queue_active = {}
  /\ queue_active = UNION {cur[w] : w \in Running}
  /\ \A v, w \in Running : v # w => cur[v] \cap cur[w] = {}
  /\ \A w \in Running : cur[w] # {}

(* Every job run has accepted is run to its end, once, before delete
   returns: what is owed is what the queue holds, and a queue that is gone
   owes nothing, whatever its jobs submitted while delete was waiting. *)
NoJobLost == owed = Queued

(* Nobody sleeps through the event it waits for: no worker is asleep while
   there is a job it may begin or while it should exit, and no client is
   asleep in finish once everything is done (cc_jobq.c:60, 286). *)
NoLostWakeup ==
  /\ wait_pending # {} => /\ state # "STOP"
                          /\ state = "RUNNING" => queue_pending = << >>
  /\ wait_complete # {} => Queued # {}

\* While the queue stays paused no job is begun; those being run go on.
PausedBeginsNothing ==
  [][state = "PAUSED" /\ state' = "PAUSED" =>
       queue_active' \subseteq queue_active]_vars

(* A call that was begun returns, once the others leave the queue unpaused
   and submit no more: finish resumes a paused queue only before its first
   sleep (cc_jobq.c:278), and waits for all jobs, those of others too. *)
EveryCallReturns ==
  <>[](state # "PAUSED") /\ <>[][owed' \subseteq owed]_owed =>
    \A c \in Client : pc[c] # "idle" ~> pc[c] = "idle"

\* A job that was accepted is begun, unless the queue is paused again.
EveryJobBegun ==
  \A j \in Job : j \in ToSet(queue_pending) ~>
    j \notin ToSet(queue_pending) \/ state = "PAUSED"

=============================================================================
