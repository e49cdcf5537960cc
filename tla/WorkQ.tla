------------------------------- MODULE WorkQ -------------------------------
(***************************************************************************)
(* cc_workq: a pool of worker threads that run tasks in priority order and *)
(* keep each one, once run, until a client takes it back.                  *)
(*                                                                         *)
(* Every section of the code that holds self->mutex from its lock (or the  *)
(* return of pthread_cond_wait) to its unlock (or the next                 *)
(* pthread_cond_wait) is one action.  The three places that touch shared   *)
(* state without the mutex are steps of their own: reset's writes of       *)
(* purge_id, delete's, and the read of node->status after the unlock in    *)
(* the non-blocking wait and cancel.                                       *)
(*                                                                         *)
(* A cc_workqNode_t and the list iterator that holds it are one identity   *)
(* of Node, which may be allocated again after it was freed.               *)
(***************************************************************************)
EXTENDS CCSeq

CONSTANTS
  Node,       \* addresses of cc_workqNode_t
  Task,       \* the task pointers clients submit
  Client,     \* threads that call the workq
  Main,       \* the client that creates, resets, finishes and deletes it
  Worker,     \* the workq's threads
  NULL,
  Calls,      \* Calls[p]: the functions thread p calls
  Tasks,      \* Tasks[p]: the tasks p passes to them
  Priorities  \* Priorities[t]: the priorities task t is submitted with

Thread == Client \cup Worker

\* The functions of cc_workq.h; "try" marks a call with blocking == 0.
Function == {"run", "wait", "trywait", "cancel", "trycancel", "purge",
             "flush", "finish", "reset", "tryreset", "delete"}

(* A run_fn may submit more tasks (it is called without the mutex); all
   other calls are made by clients, and those that free the workq's tasks
   wholesale by the main thread alone (cc_workq.h:47). *)
ASSUME WorkQAssumption ==
  /\ Main \in Client
  /\ Client \cap Worker = {}
  /\ IsFiniteSet(Worker)
  /\ NULL \notin Node \cup Task \cup Nat
  /\ Calls \in [Thread -> SUBSET Function]
  /\ Tasks \in [Thread -> SUBSET Task]
  /\ Priorities \in [Task -> SUBSET Int]
  /\ \A w \in Worker : Calls[w] \subseteq {"run"}
  /\ \A c \in Client \ {Main} :
       Calls[c] \subseteq {"run", "wait", "trywait", "cancel", "trycancel"}

(* What theorems assume of the clients beyond that.  Nobody submits a task
   while the main thread resets. *)
ResetsAlone ==
  Calls[Main] \cap {"reset", "tryreset"} # {} =>
    \A p \in Thread \ {Main} : "run" \notin Calls[p]

\* Nobody uses the non-blocking forms of wait and cancel.
NeverPolls ==
  \A c \in Client : Calls[c] \cap {"trywait", "trycancel"} = {}

\* A task is always submitted with the same priority.
OnePriority == \A t \in Task : \A p, q \in Priorities[t] : p = q

(* Nobody takes away a pending task that a client sleeps for in wait: other
   clients do not cancel the tasks it may wait for, and the main thread does
   not purge or reset while others wait. *)
KeepsAwaited ==
  \A c \in Client : "wait" \in Calls[c] =>
    /\ \A p \in Client \ {c} : Calls[p] \cap {"cancel", "trycancel"} # {} =>
                               Tasks[c] \cap Tasks[p] = {}
    /\ c # Main => Calls[Main] \cap {"purge", "reset", "tryreset"} = {}

\* Nobody cancels while the main thread waits for all tasks to be done.
FinishesAlone ==
  "finish" \in Calls[Main] =>
    \A c \in Client \ {Main} : Calls[c] \cap {"cancel", "trycancel"} = {}

PURGE == -1                              \* CC_WORKQ_PURGE

Settled == {"COMPLETE", "FAILURE"}
Status  == {"PENDING", "ACTIVE"} \cup Settled

FreeNode == [status |-> "FREE", priority |-> 0, purge_id |-> 0,
             task |-> NULL]

-----------------------------------------------------------------------------
VARIABLES
  state,           \* "NONE" while no workq exists, else self->state
  purge_id,
  next_tid,
  node,            \* the memory of the nodes
  map_task,        \* from a task to the node that holds it, or NULL
  queue_pending,   \* a sequence of nodes, head first
  queue_active,    \* a set: only its size and its members matter
  queue_complete,  \* a set: its order is that of the finish_fn calls alone
  wait_pending,    \* workers asleep on cond_pending
  wait_complete,   \* clients asleep on cond_complete
  pc,              \* where each thread is
  cur,             \* the node a thread holds across an unlock, or NULL
  want,            \* the task of a client's wait or cancel in progress
  tid,             \* a worker's thread id
  reset,           \* the locals of cc_workq_reset
  lent,            \* ghost: tasks submitted and not yet given back, as far
                   \*   as return values and finish_fn calls have told
  fresh            \* ghost: tasks in the workq that were passed to run since
                   \*   the last purge or reset

queues == <<node, map_task, queue_pending, queue_active, queue_complete>>
vars == <<state, purge_id, next_tid, queues, wait_pending, wait_complete,
          pc, cur, want, tid, reset, lent, fresh>>

Mapped     == {t \in Task : map_task[t] # NULL}
Running    == {w \in Worker : pc[w] = "run"}
NoReset    == [blocking |-> FALSE, purge_id |-> 0]
InReset    == {"reset_purge", "reset_wait", "reset_purge_complete",
               "reset_restore"}
InDelete   == {"delete_join", "delete_purge", "delete_free"}
Holding    == {"wait_block", "cancel_block", "read_status"}
ClientPC   == {"idle", "new_join", "finish", "undefined"}
                \cup Holding \cup InReset \cup InDelete
WorkerPC   == {"none", "start", "loop", "run", "exit"}

\* cc_workq_status; "ERROR" for a task that is not in the workq.
StatusOf(t) == IF map_task[t] = NULL THEN "ERROR" ELSE node[map_task[t]].status

\* cc_workq_pending
Pending == Len(queue_pending) + Cardinality(queue_active)

Init ==
  /\ state = "NONE"
  /\ purge_id = 0
  /\ next_tid = 0
  /\ node = [n \in Node |-> FreeNode]
  /\ map_task = [t \in Task |-> NULL]
  /\ queue_pending = << >>
  /\ queue_active = {}
  /\ queue_complete = {}
  /\ wait_pending = {}
  /\ wait_complete = {}
  /\ pc = [p \in Thread |-> IF p \in Client THEN "idle" ELSE "none"]
  /\ cur = [p \in Thread |-> NULL]
  /\ want = [c \in Client |-> NULL]
  /\ tid = [w \in Worker |-> NULL]
  /\ reset = NoReset
  /\ lent = {}
  /\ fresh = {}

-----------------------------------------------------------------------------
(* Creation.  The threads are created with the mutex held, so none of them
   passes its pthread_mutex_lock before all exist or the creation of one has
   failed; an allocation that fails leaves no workq and changes nothing. *)

New ==
  /\ state = "NONE"
  /\ pc[Main] = "idle"
  /\ \E created \in SUBSET Worker :
       /\ state' = IF created = Worker THEN "RUNNING" ELSE "STOP"
       /\ pc' = [p \in Thread |->
                   IF p \in created THEN "start"
                   ELSE IF p = Main /\ created # Worker THEN "new_join"
                   ELSE pc[p]]
  /\ purge_id' = 0
  /\ next_tid' = 0
  /\ UNCHANGED <<queues, wait_pending, wait_complete, cur, want, tid, reset,
                 lent, fresh>>

\* fail_pthread_create: join the threads that were created, free the rest.
NewJoin ==
  /\ pc[Main] = "new_join"
  /\ \A w \in Worker : pc[w] \in {"none", "exit"}
  /\ state' = "NONE"
  /\ pc' = [p \in Thread |-> IF p \in Worker THEN "none"
                             ELSE IF p = Main THEN "idle" ELSE pc[p]]
  /\ tid' = [w \in Worker |-> NULL]
  /\ UNCHANGED <<purge_id, next_tid, queues, wait_pending, wait_complete, cur,
                 want, reset, lent, fresh>>

-----------------------------------------------------------------------------
(* The worker threads. *)

(* pthread_cond_broadcast on cond_pending and on cond_complete.  Here and
   below a definition that begins with "Mutant" is a mistake the code does
   not make, which a run must notice in the place of the definition after
   it. *)
MutantWakeOneWorker ==
  \E w \in Worker : /\ wait_pending # {} => w \in wait_pending
                    /\ wait_pending' = wait_pending \ {w}
MutantWakeNoWorker == UNCHANGED wait_pending
WakeWorkers == wait_pending' = {}

MutantWakeOneClient ==
  \E c \in Client : /\ wait_complete # {} => c \in wait_complete
                    /\ wait_complete' = wait_complete \ {c}
MutantWakeNoClient == UNCHANGED wait_complete
WakeClients == wait_complete' = {}

\* A new thread takes its id.
TakeTid(w) ==
  /\ tid' = [tid EXCEPT ![w] = next_tid]
  /\ next_tid' = next_tid + 1

\* The head of the pending queue becomes active in the hands of w.
MutantBeginKeepsHead(w, nd, active) ==
  /\ pc' = [pc EXCEPT ![w] = "run"]
  /\ cur' = [cur EXCEPT ![w] = Head(queue_pending)]
  /\ node' = [nd EXCEPT ![Head(queue_pending)].status = "ACTIVE"]
  /\ queue_active' = active \cup {Head(queue_pending)}
  /\ UNCHANGED <<queue_pending, wait_pending>>
MutantBeginLast(w, nd, active) ==
  /\ pc' = [pc EXCEPT ![w] = "run"]
  /\ cur' = [cur EXCEPT ![w] = Last(queue_pending)]
  /\ node' = [nd EXCEPT ![Last(queue_pending)].status = "ACTIVE"]
  /\ queue_active' = active \cup {Last(queue_pending)}
  /\ queue_pending' = Front(queue_pending)
  /\ UNCHANGED wait_pending
Begin(w, nd, active) ==
  /\ pc' = [pc EXCEPT ![w] = "run"]
  /\ cur' = [cur EXCEPT ![w] = Head(queue_pending)]
  /\ node' = [nd EXCEPT ![Head(queue_pending)].status = "ACTIVE"]
  /\ queue_active' = active \cup {Head(queue_pending)}
  /\ queue_pending' = Tail(queue_pending)
  /\ UNCHANGED wait_pending

(* One pass through the loop of cc_workq_thread up to its next wait or
   unlock: exit, sleep on cond_pending, or take the head of the pending
   queue.  nd and active are the nodes and the active queue left by the
   part of the critical section that came before. *)
LoopTop(w, nd, active) ==
  IF state = "STOP"
  THEN /\ pc' = [pc EXCEPT ![w] = "exit"]
       /\ cur' = [cur EXCEPT ![w] = NULL]
       /\ node' = nd
       /\ queue_active' = active
       /\ UNCHANGED <<queue_pending, wait_pending>>
  ELSE IF queue_pending = << >>
  THEN /\ pc' = [pc EXCEPT ![w] = "loop"]
       /\ cur' = [cur EXCEPT ![w] = NULL]
       /\ node' = nd
       /\ queue_active' = active
       /\ wait_pending' = wait_pending \cup {w}
       /\ UNCHANGED queue_pending
  ELSE Begin(w, nd, active)

\* A new thread gets the mutex, takes its thread id and enters the loop.
WorkerStart(w) ==
  /\ pc[w] = "start"
  /\ TakeTid(w)
  /\ LoopTop(w, node, queue_active)
  /\ UNCHANGED <<state, purge_id, map_task, queue_complete, wait_complete,
                 want, reset, lent, fresh>>

\* A thread that was woken gets the mutex back and tests its condition again.
WorkerWake(w) ==
  /\ pc[w] = "loop"
  /\ w \notin wait_pending
  /\ LoopTop(w, node, queue_active)
  /\ UNCHANGED <<state, purge_id, next_tid, map_task, queue_complete,
                 wait_complete, want, tid, reset, lent, fresh>>

\* run_fn returns: the task is filed and the thread goes straight on.
WorkerDone(w) ==
  /\ pc[w] = "run"
  /\ \E status \in Settled :
       LoopTop(w, [node EXCEPT ![cur[w]].status = status],
               queue_active \ {cur[w]})
  /\ queue_complete' = queue_complete \cup {cur[w]}
  /\ WakeClients
  /\ UNCHANGED <<state, purge_id, next_tid, map_task, want, tid, reset, lent,
                 fresh>>

-----------------------------------------------------------------------------
(* Calls of clients, and of run_fn on a worker. *)

\* Thread p may call f now: no client calls while main creates or deletes.
MayCall(p, f) ==
  /\ f \in Calls[p]
  /\ IF p \in Worker THEN pc[p] = "run"
     ELSE pc[p] = "idle" /\ state = "RUNNING"

Goto(p, l) == pc' = [pc EXCEPT ![p] = l]

(* cc_workq_removeLocked for every node of P, on the pending queue, and of C,
   on the complete queue.  Each goes back to its owner: through finish_fn or
   as the status the caller returns. *)
MutantRemoveLocked(P, C, nd) ==
  LET gone == {node[n].task : n \in P \cup C}
  IN  /\ queue_pending' = Keep(queue_pending, Node \ P)
      /\ queue_complete' = queue_complete \ C
      /\ node' = [n \in Node |-> IF n \in P \cup C THEN FreeNode ELSE nd[n]]
      /\ lent' = lent \ gone
      /\ UNCHANGED map_task
RemoveLocked(P, C, nd) ==
  LET gone == {node[n].task : n \in P \cup C}
  IN  /\ queue_pending' = Keep(queue_pending, Node \ P)
      /\ queue_complete' = queue_complete \ C
      /\ map_task' = [t \in Task |-> IF t \in gone THEN NULL ELSE map_task[t]]
      /\ node' = [n \in Node |-> IF n \in P \cup C THEN FreeNode ELSE nd[n]]
      /\ lent' = lent \ gone

InQueue(n) == {i \in DOMAIN queue_pending : queue_pending[i] = n}

MutantInsertAtTail(priority) == 1 + Len(queue_pending)
MutantInsertBeforeEquals(priority) ==
  1 + Max({0} \cup {i \in DOMAIN queue_pending :
                      node[queue_pending[i]].priority > priority})

\* The position in front of which a pending task of this priority belongs.
InsertPos(priority) ==
  1 + Max({0} \cup {i \in DOMAIN queue_pending :
                      node[queue_pending[i]].priority >= priority})

(* A task that is not in the workq gets a node.  When an allocation fails
   the code undoes its changes and returns CC_WORKQ_STATUS_ERROR. *)
RunNew(p, t, priority) ==
  /\ MayCall(p, "run")
  /\ map_task[t] = NULL
  /\ \E n \in Node :
       /\ node[n] = FreeNode
       /\ node' = [node EXCEPT ![n] =
                     [status |-> "PENDING", priority |-> priority,
                      purge_id |-> purge_id, task |-> t]]
       /\ queue_pending' = InsertAt(queue_pending, InsertPos(priority), n)
       /\ map_task' = [map_task EXCEPT ![t] = n]
  /\ WakeWorkers
  /\ lent' = lent \cup {t}
  /\ fresh' = fresh \cup {t}
  /\ UNCHANGED <<state, purge_id, next_tid, queue_active, queue_complete,
                 wait_complete, pc, cur, want, tid, reset>>

\* The position the node at k moves to when its priority changes: the scan
\* compares with the priority the node still has.
MovePos(k, priority) ==
  LET old == node[queue_pending[k]].priority
      len == Len(queue_pending)
  IN  IF priority > old
      THEN 1 + Max({0} \cup {i \in 1..(k - 1) :
                               node[queue_pending[i]].priority >= old})
      ELSE IF priority < old
      THEN Min({len + 1} \cup {i \in (k + 1)..len :
                                 node[queue_pending[i]].priority < old}) - 1
      ELSE k

\* A pending task is kept from the next purge and takes the new priority.
RunPending(p, t, priority) ==
  /\ MayCall(p, "run")
  /\ StatusOf(t) = "PENDING"
  /\ \E k \in InQueue(map_task[t]) :
       queue_pending' = Move(queue_pending, k, MovePos(k, priority))
  /\ node' = [node EXCEPT ![map_task[t]].purge_id = purge_id,
                          ![map_task[t]].priority = priority]
  /\ fresh' = fresh \cup {t}
  /\ UNCHANGED <<state, purge_id, next_tid, map_task, queue_active,
                 queue_complete, wait_pending, wait_complete, pc, cur, want,
                 tid, reset, lent>>

MutantRunActive(p, t) ==
  /\ MayCall(p, "run")
  /\ StatusOf(t) = "ACTIVE"
  /\ fresh' = fresh \cup {t}
  /\ UNCHANGED <<state, purge_id, next_tid, queues, wait_pending,
                 wait_complete, pc, cur, want, tid, reset, lent>>

\* An active task is kept from the next purge, and is not run again.
RunActive(p, t) ==
  /\ MayCall(p, "run")
  /\ StatusOf(t) = "ACTIVE"
  /\ node' = [node EXCEPT ![map_task[t]].purge_id = purge_id]
  /\ fresh' = fresh \cup {t}
  /\ UNCHANGED <<state, purge_id, next_tid, map_task, queue_pending,
                 queue_active, queue_complete, wait_pending, wait_complete,
                 pc, cur, want, tid, reset, lent>>

MutantRunSettledKeeps(p, t) ==
  /\ MayCall(p, "run")
  /\ StatusOf(t) \in Settled
  /\ lent' = lent \ {t}
  /\ fresh' = fresh \ {t}
  /\ UNCHANGED <<state, purge_id, next_tid, queues, wait_pending,
                 wait_complete, pc, cur, want, tid, reset>>

\* A settled task goes back to the caller with its status.
RunSettled(p, t) ==
  /\ MayCall(p, "run")
  /\ StatusOf(t) \in Settled
  /\ RemoveLocked({}, {map_task[t]}, node)
  /\ fresh' = fresh \ {t}
  /\ UNCHANGED <<state, purge_id, next_tid, queue_active, wait_pending,
                 wait_complete, pc, cur, want, tid, reset>>

-----------------------------------------------------------------------------
(* cc_workq_wait and cc_workq_cancel differ in what they wait for: wait also
   waits for a pending task, cancel takes it off the pending queue. *)

Awaited(f) == IF f = "wait" THEN {"PENDING", "ACTIVE"} ELSE {"ACTIVE"}
Asleep(f)  == IF f = "wait" THEN "wait_block" ELSE "cancel_block"

(* The locked part of the call: n is the node found in the map.  While it is
   pending (wait) or active, a blocking call sleeps with n in hand, and a
   non-blocking one unlocks and only then reads the status it returns. *)
Settle(c, f, t, n, blocking) ==
  IF node[n].status \in Awaited(f)
  THEN /\ Goto(c, IF blocking THEN Asleep(f) ELSE "read_status")
       /\ cur' = [cur EXCEPT ![c] = n]
       /\ want' = [want EXCEPT ![c] = t]
       /\ wait_complete' = IF blocking THEN wait_complete \cup {c}
                                       ELSE wait_complete
       /\ UNCHANGED <<node, map_task, queue_pending, queue_complete, lent,
                      fresh>>
  ELSE /\ IF node[n].status = "PENDING" THEN RemoveLocked({n}, {}, node)
                                        ELSE RemoveLocked({}, {n}, node)
       /\ fresh' = fresh \ {t}
       /\ Goto(c, "idle")
       /\ cur' = [cur EXCEPT ![c] = NULL]
       /\ want' = [want EXCEPT ![c] = NULL]
       /\ UNCHANGED wait_complete

Calling(c, call, f, t, blocking) ==
  /\ MayCall(c, call)
  /\ map_task[t] # NULL
  /\ Settle(c, f, t, map_task[t], blocking)
  /\ UNCHANGED <<state, purge_id, next_tid, queue_active, wait_pending, tid,
                 reset>>

Wait(c, t)      == Calling(c, "wait", "wait", t, TRUE)
TryWait(c, t)   == Calling(c, "trywait", "wait", t, FALSE)
Cancel(c, t)    == Calling(c, "cancel", "cancel", t, TRUE)
TryCancel(c, t) == Calling(c, "trycancel", "cancel", t, FALSE)

\* The node in c's hand was freed, and perhaps given to another task.
Stale(c) == node[cur[c]].task # want[c]

Undefined(c) ==
  /\ Goto(c, "undefined")
  /\ cur' = [cur EXCEPT ![c] = NULL]
  /\ want' = [want EXCEPT ![c] = NULL]
  /\ UNCHANGED <<node, map_task, queue_pending, queue_complete, wait_complete,
                 lent, fresh>>

(* A sleeper is woken, gets the mutex back and tests the node it holds.
   Nothing is defined about a client that reads a freed node: it is left
   where it is. *)
Resume(c, f) ==
  /\ pc[c] = Asleep(f)
  /\ c \notin wait_complete
  /\ IF Stale(c) THEN Undefined(c) ELSE Settle(c, f, want[c], cur[c], TRUE)
  /\ UNCHANGED <<state, purge_id, next_tid, queue_active, wait_pending, tid,
                 reset>>

WaitResume(c)   == Resume(c, "wait")
CancelResume(c) == Resume(c, "cancel")

(* return node->status, after the unlock.  A caller told COMPLETE or FAILURE
   has its task back as far as it can know. *)
ReadStatus(c) ==
  /\ pc[c] = "read_status"
  /\ IF Stale(c) THEN Undefined(c)
     ELSE /\ lent' = IF node[cur[c]].status \in Settled
                     THEN lent \ {want[c]} ELSE lent
          /\ Goto(c, "idle")
          /\ cur' = [cur EXCEPT ![c] = NULL]
          /\ want' = [want EXCEPT ![c] = NULL]
          /\ UNCHANGED <<node, map_task, queue_pending, queue_complete,
                         wait_complete, fresh>>
  /\ UNCHANGED <<state, purge_id, next_tid, queue_active, wait_pending, tid,
                 reset>>

-----------------------------------------------------------------------------
(* Calls of the main thread. *)

\* The nodes a purge takes off the pending queue, or marks if active ...
Outdated == {n \in Node : node[n].purge_id # purge_id}

\* ... those it takes off the complete queue ...
MutantCondemned == Outdated
Condemned == Outdated \cup {n \in Node : node[n].purge_id = PURGE}

\* ... and the purge_id it leaves behind.
MutantNextEpoch == 1 - purge_id
NextEpoch == IF purge_id = PURGE THEN PURGE ELSE 1 - purge_id

(* cc_workq_purge: stale pending and complete tasks go, stale active ones
   are marked to go when they are complete, and the epoch flips. *)
PurgeLocked ==
  /\ RemoveLocked(ToSet(queue_pending) \cap Outdated,
                  queue_complete \cap Condemned,
                  [n \in Node |-> IF n \in queue_active \cap Outdated
                                 THEN [node[n] EXCEPT !.purge_id = PURGE]
                                 ELSE node[n]])
  /\ purge_id' = NextEpoch
  /\ fresh' = {}

Purge ==
  /\ MayCall(Main, "purge")
  /\ PurgeLocked
  /\ UNCHANGED <<state, next_tid, queue_active, wait_pending, wait_complete,
                 pc, cur, want, tid, reset>>

FlushLocked ==
  /\ RemoveLocked({}, queue_complete, node)
  /\ fresh' = fresh \ {node[n].task : n \in queue_complete}

Flush ==
  /\ MayCall(Main, "flush")
  /\ FlushLocked
  /\ UNCHANGED <<state, purge_id, next_tid, queue_active, wait_pending,
                 wait_complete, pc, cur, want, tid, reset>>

\* Each turn of finish's loop flushes, then sleeps unless all is done.
Finish ==
  /\ \/ MayCall(Main, "finish")
     \/ pc[Main] = "finish" /\ Main \notin wait_complete
  /\ FlushLocked
  /\ IF queue_pending = << >> /\ queue_active = {}
     THEN /\ Goto(Main, "idle")
          /\ UNCHANGED wait_complete
     ELSE /\ Goto(Main, "finish")
          /\ wait_complete' = wait_complete \cup {Main}
  /\ UNCHANGED <<state, purge_id, next_tid, queue_active, wait_pending, cur,
                 want, tid, reset>>

\* purge_id is saved and overwritten without the mutex.
ResetBegin(blocking) ==
  /\ MayCall(Main, IF blocking THEN "reset" ELSE "tryreset")
  /\ reset' = [blocking |-> blocking, purge_id |-> purge_id]
  /\ purge_id' = PURGE
  /\ Goto(Main, "reset_purge")
  /\ UNCHANGED <<state, next_tid, queues, wait_pending, wait_complete, cur,
                 want, tid, lent, fresh>>

MutantAfterResetPurge == "reset_restore"
AfterResetPurge ==
  IF pc[Main] = "reset_purge" /\ reset.blocking THEN "reset_wait"
                                               ELSE "reset_restore"

ResetPurge ==
  /\ pc[Main] \in {"reset_purge", "reset_purge_complete"}
  /\ Goto(Main, AfterResetPurge)
  /\ PurgeLocked
  /\ UNCHANGED <<state, next_tid, queue_active, wait_pending, wait_complete,
                 cur, want, tid, reset>>

ResetWait ==
  /\ pc[Main] = "reset_wait"
  /\ Main \notin wait_complete
  /\ IF queue_active = {}
     THEN /\ Goto(Main, "reset_purge_complete")
          /\ UNCHANGED wait_complete
     ELSE /\ wait_complete' = wait_complete \cup {Main}
          /\ UNCHANGED pc
  /\ UNCHANGED <<state, purge_id, next_tid, queues, wait_pending, cur, want,
                 tid, reset, lent, fresh>>

ResetRestore ==
  /\ pc[Main] = "reset_restore"
  /\ purge_id' = reset.purge_id
  /\ reset' = NoReset
  /\ Goto(Main, "idle")
  /\ UNCHANGED <<state, next_tid, queues, wait_pending, wait_complete, cur,
                 want, tid, lent, fresh>>

MutantDeleteStop ==
  /\ MayCall(Main, "delete")
  /\ \A c \in Client : pc[c] = "idle"
  /\ state' = "STOP"
  /\ purge_id' = PURGE
  /\ WakeWorkers
  /\ Goto(Main, "delete_join")
  /\ UNCHANGED <<next_tid, queues, wait_complete, cur, want, tid, reset, lent,
                 fresh>>

\* No client may be inside a call, or call again, once the workq is deleted.
DeleteStop ==
  /\ MayCall(Main, "delete")
  /\ \A c \in Client : pc[c] = "idle"
  /\ state' = "STOP"
  /\ WakeWorkers
  /\ Goto(Main, "delete_join")
  /\ UNCHANGED <<purge_id, next_tid, queues, wait_complete, cur, want, tid,
                 reset, lent, fresh>>

DeleteJoin ==
  /\ pc[Main] = "delete_join"
  /\ \A w \in Worker : pc[w] = "exit"
  /\ purge_id' = PURGE
  /\ pc' = [p \in Thread |-> IF p \in Worker THEN "none"
                             ELSE IF p = Main THEN "delete_purge" ELSE pc[p]]
  /\ tid' = [w \in Worker |-> NULL]
  /\ UNCHANGED <<state, next_tid, queues, wait_pending, wait_complete, cur,
                 want, reset, lent, fresh>>

DeletePurge ==
  /\ pc[Main] = "delete_purge"
  /\ PurgeLocked
  /\ Goto(Main, "delete_free")
  /\ UNCHANGED <<state, next_tid, queue_active, wait_pending, wait_complete,
                 cur, want, tid, reset>>

\* cc_list_delete and cc_map_delete discard what is left, nodes included.
DeleteFree ==
  /\ pc[Main] = "delete_free"
  /\ state' = "NONE"
  /\ map_task' = [t \in Task |-> NULL]
  /\ queue_pending' = << >>
  /\ queue_active' = {}
  /\ queue_complete' = {}
  /\ Goto(Main, "idle")
  /\ UNCHANGED <<purge_id, next_tid, node, wait_pending, wait_complete, cur,
                 want, tid, reset, lent, fresh>>

-----------------------------------------------------------------------------
\* pthread_cond_wait may return without a broadcast.
Spurious(p) ==
  /\ p \in wait_pending \cup wait_complete
  /\ wait_pending' = wait_pending \ {p}
  /\ wait_complete' = wait_complete \ {p}
  /\ UNCHANGED <<state, purge_id, next_tid, queues, pc, cur, want, tid, reset,
                 lent, fresh>>

WorkerStep(w) == WorkerStart(w) \/ WorkerWake(w) \/ WorkerDone(w)

Submit(p) ==
  \E t \in Tasks[p] :
     \/ \E priority \in Priorities[t] :
          RunNew(p, t, priority) \/ RunPending(p, t, priority)
     \/ RunActive(p, t)
     \/ RunSettled(p, t)

TakeBack(c) ==
  \E t \in Tasks[c] :
     Wait(c, t) \/ TryWait(c, t) \/ Cancel(c, t) \/ TryCancel(c, t)

\* A client goes on with the call it has begun.
Continue(c) == WaitResume(c) \/ CancelResume(c) \/ ReadStatus(c)

MainCall ==
  \/ New \/ Purge \/ Flush
  \/ \E blocking \in BOOLEAN : ResetBegin(blocking)
  \/ DeleteStop

MainContinue ==
  \/ NewJoin
  \/ ResetPurge \/ ResetWait \/ ResetRestore
  \/ DeleteJoin \/ DeletePurge \/ DeleteFree

Next ==
  \/ \E w \in Worker : WorkerStep(w)
  \/ \E p \in Thread : Submit(p)
  \/ \E c \in Client : TakeBack(c) \/ Continue(c)
  \/ MainCall \/ Finish \/ MainContinue
  \/ \E p \in Thread : Spurious(p)

Spec == Init /\ [][Next]_vars

(* Every thread that can take its next step, because the mutex is free or
   its run_fn has returned, eventually takes it.  Nobody is obliged to start
   a call, and no wakeup comes without a broadcast. *)
Fairness ==
  /\ \A w \in Worker : WF_vars(WorkerStep(w))
  /\ \A c \in Client : WF_vars(Continue(c))
  /\ WF_vars(MainContinue)
  /\ WF_vars(pc[Main] = "finish" /\ Finish)

FairSpec == Spec /\ Fairness

-----------------------------------------------------------------------------
(* Properties *)

NodeRecord ==
  [status : Status \cup {"FREE"}, priority : Int, purge_id : {0, 1, PURGE},
   task : Task \cup {NULL}]

(* Every variable has the type its C declaration and its use give it, and
   the nodes that threads hold are nodes. *)
TypeOK ==
  /\ state \in {"NONE", "RUNNING", "STOP"}
  /\ purge_id \in {0, 1, PURGE}
  /\ next_tid \in Nat
  /\ node \in [Node -> NodeRecord]
  /\ map_task \in [Task -> Node \cup {NULL}]
  /\ queue_pending \in Seq(Node)
  /\ queue_active \in SUBSET Node
  /\ queue_complete \in SUBSET Node
  /\ wait_pending \in SUBSET Worker
  /\ wait_complete \in SUBSET Client
  /\ pc \in [Thread -> ClientPC \cup WorkerPC]
  /\ \A p \in Thread : pc[p] \in IF p \in Client THEN ClientPC ELSE WorkerPC
  /\ cur \in [Thread -> Node \cup {NULL}]
  /\ want \in [Client -> Task \cup {NULL}]
  /\ tid \in [Worker -> Nat \cup {NULL}]
  /\ reset \in [blocking : BOOLEAN, purge_id : {0, 1, PURGE}]
  /\ lent \in SUBSET Task
  /\ fresh \in SUBSET Task

(* The status field of a node, the queue it is on and the map tell the same
   story: a node is on exactly one queue, the one of its status, at most
   once, and it is the one node the map finds for its task.  cancel and run
   remove a node from the queue its status names (cc_workq.c:632, 731, 737);
   on the wrong one cc_list_remove would corrupt both. *)
QueuesAgree ==
  /\ IsInjective(queue_pending)
  /\ \A n \in Node :
       /\ n \in ToSet(queue_pending) <=> node[n].status = "PENDING"
       /\ n \in queue_active         <=> node[n].status = "ACTIVE"
       /\ n \in queue_complete       <=> node[n].status \in Settled
  /\ \A t \in Mapped : node[map_task[t]].task = t
  /\ \A n \in Node : node[n].status # "FREE" =>
       node[n].task \in Task /\ map_task[node[n].task] = n

(* A task is run by one worker at a time, its node is not freed while that
   worker runs it without the mutex (cc_workq.c:143), and a node is on the
   active queue only while a worker runs its task. *)
OneWorkerPerActive ==
  /\ queue_active = {cur[w] : w \in Running}
  /\ \A v, w \in Running : cur[v] = cur[w] => v = w

(* A task is given back to its owner exactly once per submission: the tasks
   the workq still holds, and may still run or pass to finish_fn, are those
   whose owner has not been told COMPLETE or FAILURE, nor got them back from
   a cancel or a finish_fn. *)
SettledOnce == lent = Mapped

(* A client inside a blocking wait or cancel holds the node of its task until
   it has the mutex again: having slept for "pending/active task to complete"
   it takes the node it holds for the completed task (cc_workq.c:684, 690).
   It does not hold once another thread may give the task back between the
   broadcast and the wakeup. *)
HeldNodeLives ==
  \A c \in Client : pc[c] \in {"wait_block", "cancel_block"} =>
    node[cur[c]].task = want[c]

(* Until a broadcast wakes it, a client asleep in a blocking wait or cancel
   holds the node of its own task, and that task is still to be waited for:
   whoever submits or waits for the same task, flushes or finishes meanwhile
   frees no node a client sleeps on (cc_workq.c:685, 730), provided clients
   respect KeepsAwaited.  Once woken, it has no such promise. *)
SleeperWatches ==
  \A c \in wait_complete :
    LET held == node[cur[c]]
    IN  /\ pc[c] = "wait_block"   => held.task = want[c]
                                     /\ held.status \in {"PENDING", "ACTIVE"}
        /\ pc[c] = "cancel_block" => held.task = want[c]
                                     /\ held.status = "ACTIVE"

(* Tasks wait in the order of their priorities, the highest first: "first
   item or highest priority" goes to the head (cc_workq.c:533). *)
PendingSorted ==
  \A i, j \in DOMAIN queue_pending : i < j =>
    node[queue_pending[i]].priority >= node[queue_pending[j]].priority

(* The purge_id a node is created with is an epoch: the assertion of
   cc_workqNode_new (cc_workq.c:48). *)
NoForcedPurge ==
  \A n \in Node : node[n].status = "PENDING" => node[n].purge_id \in {0, 1}

(* When reset returns, no task of before is left: none at all if it blocked,
   and only tasks that a worker had begun, marked for the next purge, if it
   did not. *)
ResetDrains ==
  pc[Main] = "reset_restore" =>
    \A t \in Mapped : /\ ~reset.blocking
                      /\ node[map_task[t]].purge_id = PURGE
                      /\ StatusOf(t) # "PENDING"

(* "queue_active will be empty since the threads are stopped"
   (cc_workq.c:327), and once delete has purged, every task has gone back to
   its owner and no node is left to leak. *)
DeleteSettlesAll ==
  /\ pc[Main] = "delete_purge" => queue_active = {}
  /\ pc[Main] = "delete_free" =>
       lent = {} /\ \A n \in Node : node[n] = FreeNode

(* A purge gives back exactly the pending and settled tasks that were not
   passed to run since the purge before; it keeps every task that was, and
   never touches one that is being run.  Two values of purge_id must be
   enough to tell, however long a task stays active. *)
PurgeDropsStale ==
  [][purge_id' = 1 - purge_id =>
       \A t \in Mapped :
         map_task'[t] = IF t \in fresh \/ StatusOf(t) = "ACTIVE"
                        THEN map_task[t] ELSE NULL]_vars

(* No task overtakes another: two that stay pending keep their order, and a
   new one goes behind those of its own priority and higher. *)
FirstComeFirstServed ==
  [][\A i, j \in DOMAIN queue_pending' :
       LET x == queue_pending'[i]
           y == queue_pending'[j]
           was == ToSet(queue_pending)
           at(n) == CHOOSE k \in DOMAIN queue_pending : queue_pending[k] = n
       IN  i < j =>
             /\ x \in was /\ y \in was => at(x) < at(y)
             /\ x \notin was /\ y \in was =>
                  node'[x].priority > node[y].priority]_vars

(* Nobody sleeps through the event it waits for: no worker is asleep while a
   task is pending or while it should exit, and no client is asleep when what
   it waits for has happened (cc_workq.c:116, 362, 470, 684, 729). *)
NoLostWakeup ==
  /\ wait_pending # {} => state # "STOP" /\ queue_pending = << >>
  /\ \A c \in wait_complete :
       \/ pc[c] = "finish"     /\ (queue_pending # << >> \/ queue_active # {})
       \/ pc[c] = "reset_wait" /\ queue_active # {}
       \/ pc[c] = "wait_block" /\ StatusOf(want[c]) \in {"PENDING", "ACTIVE"}
       \/ pc[c] = "cancel_block" /\ StatusOf(want[c]) = "ACTIVE"

\* The tasks that may be submitted with a higher priority than t.
Above(t) ==
  {u \in Task : \E p \in Priorities[t], q \in Priorities[u] : q > p}

\* A call that was begun returns, whatever it has to wait for.
EveryCallReturns ==
  \A c \in Client : pc[c] # "idle" ~> pc[c] = "idle"

(* A task leaves the pending queue, begun or taken back, unless tasks of
   higher priority are pending again and again: those of its own priority and
   lower cannot keep it waiting, however often they are submitted, nor can a
   wakeup that is lost (cc_workq.c:514, 552). *)
EveryTaskServed ==
  \A t \in Task :
    <>[](\A u \in Above(t) : StatusOf(u) # "PENDING") =>
      (StatusOf(t) = "PENDING" ~> StatusOf(t) # "PENDING")

(* The workq implements its abstract specification, for clients that submit
   each task with one priority. *)
Lifecycle == INSTANCE TaskQueue WITH
    Priority <- [t \in Task |-> CHOOSE p \in Priorities[t] : TRUE],
    Capacity <- Cardinality(Worker),
    status   <- [t \in Task |-> StatusOf(t)],
    line     <- [i \in DOMAIN queue_pending |-> node[queue_pending[i]].task]

\* Each step of WorkQ is one that TaskQueue allows.
TaskQueueSafety == Lifecycle!Safety

\* And its workers make progress as long as there is work.
TaskQueueSpec == Lifecycle!Spec

=============================================================================
