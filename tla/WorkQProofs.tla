---------------------------- MODULE WorkQProofs ----------------------------
(***************************************************************************)
(* Theorems about WorkQ, for any number of threads, tasks and nodes.       *)
(***************************************************************************)
EXTENDS WorkQ, CCSeqLemmas, FiniteSetTheorems

-----------------------------------------------------------------------------
(* The agreement of nodes, map and queues, as a predicate of their values:
   what each operation of cc_workq does to it is a fact about values. *)

Blank(nd) == \A n \in Node : nd[n].status = "FREE" => nd[n] = FreeNode

Agree(nd, map, pending, active, complete) ==
  /\ nd \in [Node -> NodeRecord]
  /\ map \in [Task -> Node \cup {NULL}]
  /\ pending \in Seq(Node)
  /\ active \in SUBSET Node
  /\ complete \in SUBSET Node
  /\ IsInjective(pending)
  /\ \A n \in Node :
       /\ n \in ToSet(pending) <=> nd[n].status = "PENDING"
       /\ n \in active         <=> nd[n].status = "ACTIVE"
       /\ n \in complete       <=> nd[n].status \in Settled
  /\ \A t \in Task : map[t] # NULL => nd[map[t]].task = t
  /\ \A n \in Node : nd[n].status # "FREE" =>
       nd[n].task \in Task /\ map[nd[n].task] = n

\* A worker takes the head of the pending queue.
LEMMA AgreeTake ==
  ASSUME NEW nd, NEW map, NEW pending, NEW active, NEW complete,
         Agree(nd, map, pending, active, complete), Blank(nd),
         pending # << >>
  PROVE  LET n == Head(pending)
             after == [nd EXCEPT ![n].status = "ACTIVE"]
         IN  /\ n \in Node /\ n \notin active
             /\ Blank(after)
             /\ Agree(after, map, Tail(pending), active \cup {n}, complete)
<1> DEFINE n == Head(pending)
           after == [nd EXCEPT ![n].status = "ACTIVE"]
<1>1. /\ nd \in [Node -> NodeRecord] /\ pending \in Seq(Node)
      /\ IsInjective(pending)
      /\ active \in SUBSET Node /\ complete \in SUBSET Node
  BY DEF Agree
<1>2. /\ n \in Node /\ n \in ToSet(pending)
      /\ Tail(pending) \in Seq(Node)
      /\ ToSet(Tail(pending)) = ToSet(pending) \ {n}
      /\ IsInjective(Tail(pending))
  BY <1>1, HeadTailFacts
<1> HIDE DEF n
<1>3. nd[n].status = "PENDING" /\ n \notin active /\ n \notin complete
  BY <1>2 DEF Agree, Settled
<1>4. /\ after \in [Node -> NodeRecord]
      /\ \A m \in Node : /\ after[m].task = nd[m].task
                         /\ after[m].status = IF m = n THEN "ACTIVE"
                                              ELSE nd[m].status
                         /\ m # n => after[m] = nd[m]
  BY <1>1, <1>2 DEF NodeRecord, Status
<1> HIDE DEF after
<1>5. Blank(after)
  BY <1>4 DEF Blank
<1>6. Agree(after, map, Tail(pending), active \cup {n}, complete)
  BY <1>1, <1>2, <1>3, <1>4 DEF Agree, Settled
<1> QED
  BY <1>2, <1>3, <1>5, <1>6 DEF n, after

\* A worker files the task it has run.
LEMMA AgreeDone ==
  ASSUME NEW nd, NEW map, NEW pending, NEW active, NEW complete,
         Agree(nd, map, pending, active, complete), Blank(nd),
         NEW n \in active, NEW status \in Settled
  PROVE  LET after == [nd EXCEPT ![n].status = status]
         IN  /\ Blank(after)
             /\ Agree(after, map, pending, active \ {n}, complete \cup {n})
<1> DEFINE after == [nd EXCEPT ![n].status = status]
<1>1. /\ nd \in [Node -> NodeRecord] /\ pending \in Seq(Node)
      /\ active \in SUBSET Node /\ complete \in SUBSET Node
      /\ n \in Node /\ nd[n].status = "ACTIVE"
  BY DEF Agree
<1>2. /\ after \in [Node -> NodeRecord]
      /\ \A m \in Node : /\ after[m].task = nd[m].task
                         /\ after[m].status = IF m = n THEN status
                                              ELSE nd[m].status
                         /\ m # n => after[m] = nd[m]
  BY <1>1 DEF NodeRecord, Status, Settled
<1> HIDE DEF after
<1>3. Blank(after)
  BY <1>2 DEF Blank, Settled
<1>4. Agree(after, map, pending, active \ {n}, complete \cup {n})
  BY <1>1, <1>2 DEF Agree, Settled
<1> QED
  BY <1>3, <1>4 DEF after

\* A node is changed, but for its task and its status.
LEMMA AgreeMark ==
  ASSUME NEW nd, NEW map, NEW pending, NEW active, NEW complete,
         Agree(nd, map, pending, active, complete), Blank(nd),
         NEW after \in [Node -> NodeRecord],
         \A m \in Node : /\ after[m].task = nd[m].task
                         /\ after[m].status = nd[m].status
                         /\ nd[m].status = "FREE" => after[m] = nd[m]
  PROVE  Blank(after) /\ Agree(after, map, pending, active, complete)
<1>1. Blank(after)
  BY DEF Blank
<1>2. Agree(after, map, pending, active, complete)
  BY DEF Agree
<1> QED
  BY <1>1, <1>2

\* The pending queue is put in another order.
LEMMA AgreeReorder ==
  ASSUME NEW nd, NEW map, NEW pending, NEW active, NEW complete,
         Agree(nd, map, pending, active, complete),
         NEW other \in Seq(Node), IsInjective(other),
         ToSet(other) = ToSet(pending)
  PROVE  Agree(nd, map, other, active, complete)
BY DEF Agree

\* cc_workq_run takes a free node for a task that is not in the workq.
LEMMA AgreeAdd ==
  ASSUME NEW nd, NEW map, NEW pending, NEW active, NEW complete,
         Agree(nd, map, pending, active, complete), Blank(nd),
         NULL \notin Node,
         NEW n \in Node, nd[n].status = "FREE",
         NEW t \in Task, map[t] = NULL,
         NEW rec \in NodeRecord, rec.status = "PENDING", rec.task = t,
         NEW i \in 1..(Len(pending) + 1)
  PROVE  LET after == [nd EXCEPT ![n] = rec]
         IN  /\ Blank(after)
             /\ Agree(after, [map EXCEPT ![t] = n], InsertAt(pending, i, n),
                      active, complete)
<1> DEFINE after == [nd EXCEPT ![n] = rec]
           found == [map EXCEPT ![t] = n]
           longer == InsertAt(pending, i, n)
<1>1. /\ nd \in [Node -> NodeRecord] /\ pending \in Seq(Node)
      /\ IsInjective(pending)
      /\ map \in [Task -> Node \cup {NULL}]
      /\ active \in SUBSET Node /\ complete \in SUBSET Node
  BY DEF Agree
<1>2. n \notin ToSet(pending) /\ n \notin active /\ n \notin complete
  BY DEF Agree, Settled
<1>3. /\ longer \in Seq(Node)
      /\ ToSet(longer) = ToSet(pending) \cup {n}
      /\ IsInjective(longer)
  BY <1>1, <1>2, InsertAtProperties
<1>4. /\ after \in [Node -> NodeRecord]
      /\ \A m \in Node : after[m] = IF m = n THEN rec ELSE nd[m]
  BY <1>1
<1>5. /\ found \in [Task -> Node \cup {NULL}]
      /\ \A u \in Task : found[u] = IF u = t THEN n ELSE map[u]
  BY <1>1
<1> HIDE DEF after, found, longer
<1>6. Blank(after)
  BY <1>4 DEF Blank
<1>7. \A u \in Task : map[u] # n
  <2> SUFFICES ASSUME NEW u \in Task, map[u] = n PROVE FALSE
    OBVIOUS
  <2>1. nd[n].task = u
    BY DEF Agree
  <2>2. nd[n].task = NULL
    BY DEF Blank, FreeNode
  <2> QED
    BY <2>1, <2>2, WorkQAssumption
<1>8. \A m \in Node : nd[m].status # "FREE" => nd[m].task # t
  BY DEF Agree
<1>9. \A m \in Node :
        /\ m \in ToSet(longer) <=> after[m].status = "PENDING"
        /\ m \in active        <=> after[m].status = "ACTIVE"
        /\ m \in complete      <=> after[m].status \in Settled
  BY <1>2, <1>3, <1>4 DEF Agree, Settled
<1>10. \A u \in Task : found[u] # NULL => after[found[u]].task = u
  BY <1>1, <1>4, <1>5, <1>7 DEF Agree
<1>11. \A m \in Node : after[m].status # "FREE" =>
         after[m].task \in Task /\ found[after[m].task] = m
  BY <1>4, <1>5, <1>8 DEF Agree
<1>12. Agree(after, found, longer, active, complete)
  BY <1>1, <1>3, <1>4, <1>5, <1>9, <1>10, <1>11 DEF Agree
<1> QED
  BY <1>6, <1>12 DEF after, found, longer

(* cc_workq_removeLocked takes the nodes P off the pending queue and C off
   the complete queue: after and left are the nodes and the map then, gone
   the tasks that were in those nodes. *)
Removes(nd, map, pending, complete, P, C, gone, after, left) ==
  /\ P \subseteq ToSet(pending)
  /\ C \subseteq complete
  /\ \A t \in gone : \E n \in P \cup C : nd[n].task = t
  /\ \A n \in P \cup C : nd[n].task \in gone
  /\ after \in [Node -> NodeRecord]
  /\ \A n \in Node : after[n] = IF n \in P \cup C THEN FreeNode ELSE nd[n]
  /\ left \in [Task -> Node \cup {NULL}]
  /\ \A t \in Task : left[t] = IF t \in gone THEN NULL ELSE map[t]

LEMMA AgreeRemove ==
  ASSUME NEW nd, NEW map, NEW pending, NEW active, NEW complete,
         Agree(nd, map, pending, active, complete), Blank(nd),
         NEW P, NEW C, NEW gone, NEW after, NEW left,
         Removes(nd, map, pending, complete, P, C, gone, after, left)
  PROVE  /\ Blank(after)
         /\ Agree(after, left, Keep(pending, Node \ P), active, complete \ C)
<1> USE DEF Removes
<1> DEFINE rest == Keep(pending, Node \ P)
<1>1. /\ nd \in [Node -> NodeRecord] /\ pending \in Seq(Node)
      /\ IsInjective(pending)
      /\ map \in [Task -> Node \cup {NULL}]
      /\ active \in SUBSET Node /\ complete \in SUBSET Node
  BY DEF Agree
<1>2. \A n \in Node : n \in ToSet(pending) => n \notin active
  BY DEF Agree
<1>3. ToSet(pending) \subseteq Node /\ P \subseteq Node /\ C \subseteq Node
  BY <1>1, InToSet
<1>4. /\ rest \in Seq(Node)
      /\ ToSet(rest) = ToSet(pending) \cap (Node \ P)
      /\ IsInjective(rest)
  BY <1>1, KeepProperties
<1>5. FreeNode \in NodeRecord /\ FreeNode.status = "FREE"
  BY DEF FreeNode, NodeRecord
<1>8. \A n \in Node : nd[n].status # "FREE" =>
        (nd[n].task \in gone <=> n \in P \cup C)
  <2> SUFFICES ASSUME NEW n \in Node, nd[n].status # "FREE",
                      nd[n].task \in gone
               PROVE  n \in P \cup C
    OBVIOUS
  <2>1. PICK m \in P \cup C : nd[m].task = nd[n].task
    OBVIOUS
  <2>2. m \in Node /\ nd[m].status # "FREE"
    BY <1>3 DEF Agree, Settled
  <2> QED
    BY <2>1, <2>2 DEF Agree
<1> HIDE DEF rest
<1>9. Blank(after)
  BY DEF Blank
<1>10. \A n \in Node :
        /\ n \in ToSet(rest)     <=> after[n].status = "PENDING"
        /\ n \in active          <=> after[n].status = "ACTIVE"
        /\ n \in complete \ C    <=> after[n].status \in Settled
  <2> TAKE n \in Node
  <2>1. CASE n \in P \cup C
    BY <2>1, <1>3, <1>4, <1>5 DEF Agree, Settled
  <2>2. CASE n \notin P \cup C
    BY <2>2, <1>4 DEF Agree
  <2> QED
    BY <2>1, <2>2
<1>11. \A t \in Task : left[t] # NULL => after[left[t]].task = t
  <2> SUFFICES ASSUME NEW t \in Task, left[t] # NULL
               PROVE  after[left[t]].task = t
    OBVIOUS
  <2>1. t \notin gone /\ left[t] = map[t] /\ map[t] \in Node
    BY <1>1
  <2>2. nd[map[t]].task = t
    BY <2>1 DEF Agree
  <2>3. nd[map[t]].status # "FREE"
    BY <2>1, <2>2, WorkQAssumption DEF Blank, FreeNode
  <2> QED
    BY <1>8, <2>1, <2>2, <2>3
<1>12. \A n \in Node : after[n].status # "FREE" =>
         after[n].task \in Task /\ left[after[n].task] = n
  BY <1>5, <1>8 DEF Agree
<1>13. Agree(after, left, rest, active, complete \ C)
  BY <1>1, <1>4, <1>10, <1>11, <1>12 DEF Agree
<1> QED
  BY <1>9, <1>13 DEF rest

-----------------------------------------------------------------------------
(* The inductive invariant. *)

Types ==
  /\ state \in {"NONE", "RUNNING", "STOP"}
  /\ purge_id \in {0, 1, PURGE}
  /\ next_tid \in Nat
  /\ wait_pending \in SUBSET Worker
  /\ wait_complete \in SUBSET Client
  /\ pc \in [Thread -> ClientPC \cup WorkerPC]
  /\ \A c \in Client : pc[c] \in ClientPC
  /\ \A w \in Worker : pc[w] \in WorkerPC
  /\ cur \in [Thread -> Node \cup {NULL}]
  /\ want \in [Client -> Task \cup {NULL}]
  /\ tid \in [Worker -> Nat \cup {NULL}]
  /\ reset \in [blocking : BOOLEAN, purge_id : {0, 1, PURGE}]
  /\ lent \in SUBSET Task
  /\ fresh \in SUBSET Task

\* A client inside wait or cancel holds a node; only a poll reads it unlocked.
Held ==
  \A c \in Client : pc[c] \in Holding =>
    /\ cur[c] \in Node /\ want[c] \in Task
    /\ pc[c] = "read_status" => Calls[c] \cap {"trywait", "trycancel"} # {}

(* Where the main thread is tells the state, what the workers can be doing
   and whether purge_id is an epoch. *)
Phases ==
  /\ state = "NONE" => pc[Main] = "idle" /\ \A w \in Worker : pc[w] = "none"
  /\ pc[Main] \in InDelete \cup {"new_join"} <=> state = "STOP"
  /\ pc[Main] \in {"delete_purge", "delete_free"} =>
       \A w \in Worker : pc[w] = "none"
  /\ pc[Main] = "delete_purge" => purge_id = PURGE
  /\ pc[Main] \in InReset =>
       /\ Calls[Main] \cap {"reset", "tryreset"} # {}
       /\ reset.purge_id \in {0, 1}
  /\ state # "NONE"
     /\ pc[Main] \notin InReset \cup {"delete_purge", "delete_free"} =>
       purge_id \in {0, 1}

\* Delete has emptied the workq before it frees it.
Emptied == pc[Main] = "delete_free" => \A n \in Node : node[n] = FreeNode

Queues == Agree(node, map_task, queue_pending, queue_active, queue_complete)

IInv ==
  /\ Types
  /\ Queues
  /\ Blank(node)
  /\ OneWorkerPerActive
  /\ Held
  /\ Phases
  /\ NoForcedPurge
  /\ Emptied

LEMMA InitIInv == Init => IInv
<1> SUFFICES ASSUME Init PROVE IInv
  OBVIOUS
<1> USE DEF Init
<1>1. Types
  BY WorkQAssumption DEF Types, Thread, ClientPC, WorkerPC, NoReset
<1>2. Queues
  <2>1. FreeNode \in NodeRecord /\ FreeNode.status = "FREE"
    BY DEF FreeNode, NodeRecord
  <2>2. queue_pending \in Seq(Node) /\ ToSet(queue_pending) = {}
        /\ IsInjective(queue_pending)
    BY DEF ToSet, IsInjective
  <2> QED
    BY <2>1, <2>2 DEF Queues, Agree, Settled
<1>3. Blank(node)
  BY DEF Blank
<1>4. Running = {}
  BY WorkQAssumption DEF Running, Thread
<1>5. OneWorkerPerActive
  BY <1>4 DEF OneWorkerPerActive
<1>6. Held
  BY WorkQAssumption DEF Held, Holding, Thread
<1>7. Phases
  BY WorkQAssumption DEF Phases, InDelete, InReset, Thread
<1>8. NoForcedPurge
  BY DEF NoForcedPurge, FreeNode
<1>9. Emptied
  BY DEF Emptied
<1> QED
  BY <1>1, <1>2, <1>3, <1>5, <1>6, <1>7, <1>8, <1>9 DEF IInv

-----------------------------------------------------------------------------
(* The worker threads. *)

(* What a pass through the loop does, given that what came before in the
   critical section left the worker without an active node. *)
LEMMA LoopTopKeeps ==
  ASSUME Types, Phases, NEW w \in Worker, pc[w] # "none",
         NEW nd, NEW active, NEW complete,
         Agree(nd, map_task, queue_pending, active, complete), Blank(nd),
         active = {cur[v] : v \in Running \ {w}},
         \A u, v \in Running \ {w} : cur[u] = cur[v] => u = v,
         \A n \in Node : nd[n].status = "PENDING" => nd[n].purge_id \in {0, 1},
         LoopTop(w, nd, active),
         map_task' = map_task, queue_complete' = complete
  PROVE  /\ Queues' /\ Blank(node)' /\ OneWorkerPerActive' /\ NoForcedPurge'
         /\ \E l \in {"exit", "loop", "run"} : pc' = [pc EXCEPT ![w] = l]
         /\ wait_pending' \in SUBSET Worker
         /\ \E n \in Node \cup {NULL} : cur' = [cur EXCEPT ![w] = n]
<1> USE DEF LoopTop, Begin
<1>0. /\ w \in Thread /\ Worker \subseteq Thread
      /\ pc \in [Thread -> ClientPC \cup WorkerPC]
      /\ cur \in [Thread -> Node \cup {NULL}]
      /\ wait_pending \in SUBSET Worker
  BY DEF Types, Thread
<1>1. CASE state = "STOP" \/ queue_pending = << >>
  <2>1. /\ node' = nd /\ queue_active' = active
        /\ queue_pending' = queue_pending
        /\ cur' = [cur EXCEPT ![w] = NULL]
        /\ wait_pending' \in SUBSET Worker
    BY <1>0, <1>1
  <2>2. PICK l \in {"exit", "loop"} : pc' = [pc EXCEPT ![w] = l]
    BY <1>1
  <2>3. Running' = Running \ {w}
    BY <1>0, <2>2 DEF Running
  <2>4. \A v \in Running' : cur'[v] = cur[v]
    BY <1>0, <2>1, <2>3
  <2>5. OneWorkerPerActive'
    BY <2>1, <2>3, <2>4 DEF OneWorkerPerActive
  <2>6. Queues' /\ Blank(node)' /\ NoForcedPurge'
    BY <2>1 DEF Queues, Blank, NoForcedPurge
  <2> QED
    BY <2>1, <2>2, <2>5, <2>6
<1>2. CASE state # "STOP" /\ queue_pending # << >>
  <2> DEFINE n == Head(queue_pending)
  <2>1. /\ n \in Node /\ n \notin active
        /\ Blank([nd EXCEPT ![n].status = "ACTIVE"])
        /\ Agree([nd EXCEPT ![n].status = "ACTIVE"], map_task,
                 Tail(queue_pending), active \cup {n}, complete)
    BY <1>2, AgreeTake
  <2>2. /\ pc' = [pc EXCEPT ![w] = "run"]
        /\ cur' = [cur EXCEPT ![w] = n]
        /\ node' = [nd EXCEPT ![n].status = "ACTIVE"]
        /\ queue_active' = active \cup {n}
        /\ queue_pending' = Tail(queue_pending)
        /\ wait_pending' = wait_pending
    BY <1>2
  <2> HIDE DEF n
  <2>3. Running' = (Running \ {w}) \cup {w}
    BY <1>0, <2>2 DEF Running
  <2>4. /\ cur'[w] = n
        /\ \A v \in Running \ {w} : v \in Thread /\ cur'[v] = cur[v]
    BY <1>0, <2>2 DEF Running
  <2>5. OneWorkerPerActive'
    BY <2>1, <2>2, <2>3, <2>4 DEF OneWorkerPerActive
  <2>6. nd \in [Node -> NodeRecord]
    BY DEF Agree
  <2>7. NoForcedPurge'
    BY <2>1, <2>2, <2>6 DEF NoForcedPurge, NodeRecord
  <2>8. Queues' /\ Blank(node)'
    BY <2>1, <2>2 DEF Queues, Blank
  <2> QED
    BY <1>0, <2>1, <2>2, <2>5, <2>7, <2>8
<1> QED
  BY <1>1, <1>2

\* The rest of the invariant does not depend on what a worker takes.
LEMMA WorkerKeeps ==
  ASSUME IInv, NEW w \in Worker, pc[w] # "none",
         \E l \in {"exit", "loop", "run"} : pc' = [pc EXCEPT ![w] = l],
         \E n \in Node \cup {NULL} : cur' = [cur EXCEPT ![w] = n],
         wait_pending' \in SUBSET Worker,
         wait_complete' \in SUBSET Client,
         next_tid' \in Nat,
         tid' \in [Worker -> Nat \cup {NULL}],
         UNCHANGED <<state, purge_id, want, reset, lent, fresh>>
  PROVE  Types' /\ Held' /\ Phases' /\ Emptied'
<1>1. PICK l \in {"exit", "loop", "run"} : pc' = [pc EXCEPT ![w] = l]
  OBVIOUS
<1>2. PICK n \in Node \cup {NULL} : cur' = [cur EXCEPT ![w] = n]
  OBVIOUS
<1>3. /\ w \in Thread /\ w \notin Client /\ Main \in Client
      /\ Worker \subseteq Thread /\ Client \subseteq Thread
  BY WorkQAssumption DEF Thread
<1>4. Types /\ Held /\ Phases /\ Emptied
  BY DEF IInv
<1>5. /\ pc \in [Thread -> ClientPC \cup WorkerPC]
      /\ cur \in [Thread -> Node \cup {NULL}]
  BY <1>4 DEF Types
<1>6. /\ \A c \in Client : pc'[c] = pc[c] /\ cur'[c] = cur[c]
      /\ \A v \in Worker : pc'[v] = IF v = w THEN l ELSE pc[v]
  BY <1>1, <1>2, <1>3, <1>5
<1>7. /\ pc' \in [Thread -> ClientPC \cup WorkerPC]
      /\ cur' \in [Thread -> Node \cup {NULL}]
  BY <1>1, <1>2, <1>5 DEF WorkerPC
<1>8. Types'
  BY <1>4, <1>6, <1>7 DEF Types, WorkerPC
<1>9. Held'
  BY <1>4, <1>6 DEF Held
<1>10. pc'[Main] = pc[Main]
  BY <1>3, <1>6
<1>11. pc[Main] \notin {"delete_purge", "delete_free"}
  BY <1>4 DEF Phases
<1>12. Phases'
  <2>1. state # "NONE"
    BY <1>4 DEF Phases
  <2> QED
    BY <1>4, <1>10, <1>11, <2>1 DEF Phases
<1>13. Emptied'
  BY <1>10, <1>11 DEF Emptied
<1> QED
  BY <1>8, <1>9, <1>12, <1>13

LEMMA WorkerIInv ==
  ASSUME IInv, NEW w \in Worker, WorkerStep(w)
  PROVE  IInv'
<1> USE DEF IInv
<1>0. /\ cur \in [Thread -> Node \cup {NULL}] /\ Worker \subseteq Thread
      /\ node \in [Node -> NodeRecord]
      /\ Agree(node, map_task, queue_pending, queue_active, queue_complete)
  BY DEF Types, Thread, Queues, Agree
<1>1. CASE WorkerStart(w) \/ WorkerWake(w)
  <2>1. w \notin Running /\ pc[w] # "none"
    BY <1>1 DEF WorkerStart, WorkerWake, Running
  <2>2. /\ queue_active = {cur[v] : v \in Running \ {w}}
        /\ \A u, v \in Running \ {w} : cur[u] = cur[v] => u = v
    BY <2>1 DEF OneWorkerPerActive
  <2>3. /\ LoopTop(w, node, queue_active)
        /\ map_task' = map_task /\ queue_complete' = queue_complete
    BY <1>1 DEF WorkerStart, WorkerWake
  <2>4. /\ Queues' /\ Blank(node)' /\ OneWorkerPerActive' /\ NoForcedPurge'
        /\ \E l \in {"exit", "loop", "run"} : pc' = [pc EXCEPT ![w] = l]
        /\ wait_pending' \in SUBSET Worker
        /\ \E n \in Node \cup {NULL} : cur' = [cur EXCEPT ![w] = n]
    BY <1>0, <2>1, <2>2, <2>3, LoopTopKeeps DEF NoForcedPurge
  <2>5. /\ next_tid' \in Nat /\ tid' \in [Worker -> Nat \cup {NULL}]
        /\ wait_complete' \in SUBSET Client
        /\ UNCHANGED <<state, purge_id, want, reset, lent, fresh>>
    BY <1>1 DEF WorkerStart, WorkerWake, TakeTid, Types
  <2>6. Types' /\ Held' /\ Phases' /\ Emptied'
    BY <2>1, <2>4, <2>5, WorkerKeeps
  <2> QED
    BY <2>4, <2>6
<1>2. CASE WorkerDone(w)
  <2>1. PICK status \in Settled :
          LoopTop(w, [node EXCEPT ![cur[w]].status = status],
                  queue_active \ {cur[w]})
    BY <1>2 DEF WorkerDone
  <2> DEFINE nd == [node EXCEPT ![cur[w]].status = status]
             active == queue_active \ {cur[w]}
  <2>2. w \in Running /\ pc[w] # "none"
    BY <1>2 DEF WorkerDone, Running
  <2>3. cur[w] \in queue_active
    BY <2>2 DEF OneWorkerPerActive
  <2>4. /\ Blank(nd)
        /\ Agree(nd, map_task, queue_pending, active,
                 queue_complete \cup {cur[w]})
    BY <1>0, <2>3, AgreeDone
  <2>5. /\ active = {cur[v] : v \in Running \ {w}}
        /\ \A u, v \in Running \ {w} : cur[u] = cur[v] => u = v
    BY <2>2 DEF OneWorkerPerActive
  <2>6. \A n \in Node : nd[n].status = "PENDING" => nd[n].purge_id \in {0, 1}
    BY <1>0 DEF NoForcedPurge, Settled, NodeRecord
  <2>7. /\ LoopTop(w, nd, active)
        /\ map_task' = map_task
        /\ queue_complete' = queue_complete \cup {cur[w]}
    BY <1>2, <2>1 DEF WorkerDone
  <2> HIDE DEF nd, active
  <2>8. /\ Queues' /\ Blank(node)' /\ OneWorkerPerActive' /\ NoForcedPurge'
        /\ \E l \in {"exit", "loop", "run"} : pc' = [pc EXCEPT ![w] = l]
        /\ wait_pending' \in SUBSET Worker
        /\ \E n \in Node \cup {NULL} : cur' = [cur EXCEPT ![w] = n]
    BY <2>2, <2>4, <2>5, <2>6, <2>7, LoopTopKeeps
  <2>9. /\ next_tid' \in Nat /\ tid' \in [Worker -> Nat \cup {NULL}]
        /\ wait_complete' \in SUBSET Client
        /\ UNCHANGED <<state, purge_id, want, reset, lent, fresh>>
    BY <1>2 DEF WorkerDone, WakeClients, Types
  <2>10. Types' /\ Held' /\ Phases' /\ Emptied'
    BY <2>2, <2>8, <2>9, WorkerKeeps
  <2> QED
    BY <2>8, <2>10
<1> QED
  BY <1>1, <1>2 DEF WorkerStep

-----------------------------------------------------------------------------
(* cc_workq_run. *)

\* The least and the greatest of some of the positions 0..n.
LEMMA MaxMinUpTo ==
  ASSUME NEW n \in Nat, NEW S \in SUBSET (0..n), S # {}
  PROVE  /\ Max(S) \in S /\ \A i \in S : i <= Max(S)
         /\ Min(S) \in S /\ \A i \in S : Min(S) <= i
<1>1. PICK low \in S : \A i \in S : low <= i
  BY LeastNat
<1>2. \E high \in S : \A i \in S : high >= i
  <2> DEFINE T == {n - i : i \in S}
  <2>1. T \in SUBSET Nat /\ T # {}
    OBVIOUS
  <2>2. PICK m \in T : \A k \in T : m <= k
    BY <2>1, LeastNat
  <2>3. PICK high \in S : m = n - high
    OBVIOUS
  <2>4. \A i \in S : high >= i
    <3> TAKE i \in S
    <3>1. n - i \in T
      OBVIOUS
    <3>2. m <= n - i
      BY <2>2, <3>1
    <3> QED
      BY <2>3, <3>2
  <2> QED
    BY <2>4
<1>3. Max(S) \in S /\ \A i \in S : Max(S) >= i
  BY <1>2 DEF Max
<1>4. Min(S) \in S /\ \A i \in S : Min(S) <= i
  BY <1>1 DEF Min
<1> QED
  BY <1>3, <1>4

LEMMA InsertPosInRange ==
  ASSUME queue_pending \in Seq(Node), NEW priority \in Int
  PROVE  InsertPos(priority) \in 1..(Len(queue_pending) + 1)
<1> DEFINE S == {0} \cup {i \in DOMAIN queue_pending :
                            node[queue_pending[i]].priority >= priority}
<1>1. Len(queue_pending) \in Nat /\ S \in SUBSET (0..Len(queue_pending))
      /\ S # {}
  OBVIOUS
<1> HIDE DEF S
<1>2. Max(S) \in 0..Len(queue_pending)
  BY <1>1, MaxMinUpTo
<1> QED
  BY <1>1, <1>2 DEF InsertPos, S

LEMMA MovePosInRange ==
  ASSUME queue_pending \in Seq(Node), NEW priority \in Int,
         NEW k \in 1..Len(queue_pending)
  PROVE  MovePos(k, priority) \in 1..Len(queue_pending)
<1> DEFINE old == node[queue_pending[k]].priority
           len == Len(queue_pending)
           S == {0} \cup {i \in 1..(k - 1) :
                            node[queue_pending[i]].priority >= old}
           T == {len + 1} \cup {i \in (k + 1)..len :
                                  node[queue_pending[i]].priority < old}
<1>1. /\ len \in Nat
      /\ S \in SUBSET (0..(k - 1)) /\ S # {} /\ k - 1 \in Nat
      /\ T \in SUBSET ((k + 1)..(len + 1)) /\ T # {}
      /\ T \in SUBSET (0..(len + 1)) /\ len + 1 \in Nat
  OBVIOUS
<1>2. MovePos(k, priority) \in {1 + Max(S), Min(T) - 1, k}
  BY DEF MovePos
<1> HIDE DEF S, T, len
<1>3. Max(S) \in 0..(k - 1)
  BY <1>1, MaxMinUpTo
<1>4. Min(T) \in (k + 1)..(len + 1)
  BY <1>1, MaxMinUpTo
<1> QED
  BY <1>1, <1>2, <1>3, <1>4 DEF len

\* Whoever may call cc_workq_run finds an epoch in purge_id.
LEMMA MayRun ==
  ASSUME Types, Phases, ResetsAlone, NEW p \in Thread, MayCall(p, "run")
  PROVE  purge_id \in {0, 1} /\ pc[Main] # "delete_free"
<1>1. CASE p \in Worker
  <2>1. pc[p] = "run"
    BY <1>1 DEF MayCall
  <2>2. /\ state # "NONE"
        /\ pc[Main] \notin {"delete_purge", "delete_free"}
    BY <1>1, <2>1 DEF Phases
  <2>3. p # Main /\ "run" \in Calls[p]
    BY <1>1, WorkQAssumption DEF MayCall
  <2>4. pc[Main] \notin InReset
    BY <2>3 DEF Phases, ResetsAlone
  <2> QED
    BY <2>2, <2>4 DEF Phases
<1>2. CASE p \notin Worker
  <2>1. pc[p] = "idle" /\ state = "RUNNING" /\ "run" \in Calls[p]
    BY <1>2 DEF MayCall
  <2>2. pc[Main] \notin InDelete
    BY <2>1 DEF Phases
  <2>3. pc[Main] \notin InReset
    <3> SUFFICES ASSUME pc[Main] \in InReset PROVE FALSE
      OBVIOUS
    <3>1. p # Main
      BY <2>1 DEF InReset
    <3> QED
      BY <2>1, <3>1 DEF Phases, ResetsAlone
  <2> QED
    BY <2>1, <2>2, <2>3 DEF Phases, InDelete
<1> QED
  BY <1>1, <1>2

(* Taking nodes off the pending and complete queues, after some others have
   been marked. *)
LEMMA RemoveKeeps ==
  ASSUME Queues, Blank(node), NoForcedPurge,
         NEW P, P \subseteq ToSet(queue_pending),
         NEW C, C \subseteq queue_complete,
         NEW nd \in [Node -> NodeRecord],
         \A n \in Node : /\ nd[n].task = node[n].task
                         /\ nd[n].status = node[n].status
                         /\ node[n].status \in {"FREE", "PENDING"} =>
                              nd[n] = node[n],
         RemoveLocked(P, C, nd), queue_active' = queue_active
  PROVE  /\ Queues' /\ Blank(node)' /\ NoForcedPurge'
         /\ lent' \subseteq lent
         /\ SettledOnce => SettledOnce'
<1>1. Agree(node, map_task, queue_pending, queue_active, queue_complete)
  BY DEF Queues
<1>2. /\ Blank(nd)
      /\ Agree(nd, map_task, queue_pending, queue_active, queue_complete)
  BY <1>1, AgreeMark
<1>3. P \subseteq Node /\ C \subseteq Node
      /\ \A n \in P \cup C : node[n].status # "FREE"
  BY <1>1, InToSet DEF Agree, Settled
<1>4. {node[n].task : n \in P \cup C} = {nd[n].task : n \in P \cup C}
  BY <1>3
<1>5. /\ queue_pending' = Keep(queue_pending, Node \ P)
      /\ queue_complete' = queue_complete \ C
      /\ map_task' = [t \in Task |-> IF t \in {nd[n].task : n \in P \cup C}
                                     THEN NULL ELSE map_task[t]]
      /\ node' = [n \in Node |-> IF n \in P \cup C THEN FreeNode ELSE nd[n]]
      /\ lent' = lent \ {node[n].task : n \in P \cup C}
  BY <1>4 DEF RemoveLocked
<1> DEFINE gone == {nd[n].task : n \in P \cup C}
<1>6. /\ Blank(node')
      /\ Agree(node', map_task', queue_pending', queue_active',
               queue_complete')
      /\ \A t \in Task : map_task'[t] # NULL <=>
                           map_task[t] # NULL /\ t \notin gone
  <2>1. /\ \A t \in gone : \E n \in P \cup C : nd[n].task = t
        /\ \A n \in P \cup C : nd[n].task \in gone
    OBVIOUS
  <2>2. /\ map_task' \in [Task -> Node \cup {NULL}]
        /\ \A t \in Task : map_task'[t] = IF t \in gone THEN NULL
                                          ELSE map_task[t]
    BY <1>1, <1>5 DEF Agree
  <2>3. /\ queue_pending' = Keep(queue_pending, Node \ P)
        /\ queue_complete' = queue_complete \ C
        /\ node' \in [Node -> NodeRecord]
        /\ \A n \in Node : node'[n] = IF n \in P \cup C THEN FreeNode ELSE nd[n]
    BY <1>5 DEF FreeNode, NodeRecord
  <2> HIDE DEF gone
  <2>4. Removes(nd, map_task, queue_pending, queue_complete, P, C, gone,
                node', map_task')
    BY <2>1, <2>2, <2>3 DEF Removes
  <2>5. /\ Blank(node')
        /\ Agree(node', map_task', Keep(queue_pending, Node \ P),
                 queue_active, queue_complete \ C)
    BY <1>2, <2>4, AgreeRemove
  <2>6. \A t \in Task : map_task'[t] # NULL <=>
                           map_task[t] # NULL /\ t \notin gone
    BY <2>2
  <2> QED
    BY <2>3, <2>5, <2>6
<1>7. \A n \in Node : node'[n] = IF n \in P \cup C THEN FreeNode ELSE nd[n]
  BY <1>5
<1>8. NoForcedPurge'
  BY <1>7 DEF NoForcedPurge, FreeNode
<1>9. lent' = lent \ gone
  BY <1>4, <1>5
<1> HIDE DEF gone
<1>10. SettledOnce => SettledOnce'
  BY <1>6, <1>9 DEF SettledOnce, Mapped
<1>11. Queues' /\ Blank(node)'
  BY <1>6 DEF Queues, Blank
<1> QED
  BY <1>8, <1>9, <1>10, <1>11

\* What a call of cc_workq_run leaves alone.
LEMMA RunFrame ==
  ASSUME IInv, lent' \in SUBSET Task, fresh' \in SUBSET Task,
         wait_pending' \in SUBSET Worker,
         UNCHANGED <<state, purge_id, next_tid, queue_active, wait_complete,
                     pc, cur, want, tid, reset>>
  PROVE  Types' /\ Held' /\ Phases' /\ OneWorkerPerActive'
<1>1. Types'
  BY DEF IInv, Types
<1>2. Held'
  BY DEF IInv, Held
<1>3. Phases'
  BY DEF IInv, Phases
<1>4. Running' = Running
  BY DEF Running
<1>5. OneWorkerPerActive'
  BY <1>4 DEF IInv, OneWorkerPerActive
<1> QED
  BY <1>1, <1>2, <1>3, <1>5

LEMMA SubmitIInv ==
  ASSUME IInv, ResetsAlone, NEW p \in Thread, NEW t \in Task,
         NEW priority \in Int,
         \/ RunNew(p, t, priority) \/ RunPending(p, t, priority)
         \/ RunActive(p, t) \/ RunSettled(p, t)
  PROVE  IInv'
<1> USE DEF IInv
<1>1. /\ Agree(node, map_task, queue_pending, queue_active, queue_complete)
      /\ node \in [Node -> NodeRecord]
      /\ map_task \in [Task -> Node \cup {NULL}]
      /\ queue_pending \in Seq(Node)
  BY DEF Queues, Agree
<1>2. purge_id \in {0, 1} /\ pc[Main] # "delete_free"
  BY MayRun DEF RunNew, RunPending, RunActive, RunSettled
<1>3. /\ lent \in SUBSET Task /\ fresh \in SUBSET Task
      /\ wait_pending \in SUBSET Worker
  BY DEF Types
<1>4. Emptied' <=> TRUE
  BY <1>2 DEF Emptied, RunNew, RunPending, RunActive, RunSettled
<1>5. CASE RunNew(p, t, priority)
  <2>1. PICK n \in Node :
          /\ node[n] = FreeNode
          /\ node' = [node EXCEPT ![n] =
                        [status |-> "PENDING", priority |-> priority,
                         purge_id |-> purge_id, task |-> t]]
          /\ queue_pending' = InsertAt(queue_pending, InsertPos(priority), n)
          /\ map_task' = [map_task EXCEPT ![t] = n]
    BY <1>5 DEF RunNew
  <2> DEFINE rec == [status |-> "PENDING", priority |-> priority,
                     purge_id |-> purge_id, task |-> t]
  <2>2. rec \in NodeRecord /\ rec.status = "PENDING" /\ rec.task = t
        /\ rec.purge_id = purge_id
    BY <1>2 DEF NodeRecord, Status
  <2>3. node' = [node EXCEPT ![n] = rec]
    BY <2>1
  <2> HIDE DEF rec
  <2>4. InsertPos(priority) \in 1..(Len(queue_pending) + 1)
    BY <1>1, InsertPosInRange
  <2>5. /\ map_task[t] = NULL
        /\ queue_active' = queue_active /\ queue_complete' = queue_complete
        /\ wait_pending' = {}
        /\ lent' = lent \cup {t} /\ fresh' = fresh \cup {t}
    BY <1>5 DEF RunNew, WakeWorkers
  <2>6. node[n].status = "FREE"
    BY <2>1 DEF FreeNode
  <2>7. /\ Blank([node EXCEPT ![n] = rec])
        /\ Agree([node EXCEPT ![n] = rec], [map_task EXCEPT ![t] = n],
                 InsertAt(queue_pending, InsertPos(priority), n),
                 queue_active, queue_complete)
    BY <1>1, <2>2, <2>4, <2>5, <2>6, AgreeAdd, WorkQAssumption
  <2>8. Queues' /\ Blank(node)'
    BY <2>1, <2>3, <2>5, <2>7 DEF Queues, Blank
  <2>9. NoForcedPurge'
    BY <1>1, <1>2, <2>2, <2>3 DEF NoForcedPurge
  <2>10. Types' /\ Held' /\ Phases' /\ OneWorkerPerActive'
    BY <1>3, <1>5, <2>5, RunFrame DEF RunNew
  <2> QED
    BY <1>4, <2>8, <2>9, <2>10
<1>6. CASE RunPending(p, t, priority)
  <2>1. PICK k \in InQueue(map_task[t]) :
          queue_pending' = Move(queue_pending, k, MovePos(k, priority))
    BY <1>6 DEF RunPending
  <2>2. k \in 1..Len(queue_pending)
    BY <1>1 DEF InQueue
  <2>3. MovePos(k, priority) \in 1..Len(queue_pending)
    BY <1>1, <2>2, MovePosInRange
  <2>4. /\ queue_pending' \in Seq(Node) /\ IsInjective(queue_pending')
        /\ ToSet(queue_pending') = ToSet(queue_pending)
    BY <1>1, <2>1, <2>2, <2>3, MoveProperties DEF Agree
  <2>5. map_task[t] \in Node /\ node[map_task[t]].status = "PENDING"
    BY <1>1, <1>6 DEF RunPending, StatusOf
  <2>6. node' = [node EXCEPT ![map_task[t]].purge_id = purge_id,
                             ![map_task[t]].priority = priority]
    BY <1>6 DEF RunPending
  <2>7. /\ node' \in [Node -> NodeRecord]
        /\ \A m \in Node : /\ node'[m].task = node[m].task
                           /\ node'[m].status = node[m].status
                           /\ node'[m].purge_id = IF m = map_task[t]
                                THEN purge_id ELSE node[m].purge_id
                           /\ node[m].status = "FREE" => node'[m] = node[m]
    <3> DEFINE x == map_task[t]
               rec == [node[x] EXCEPT !.purge_id = purge_id,
                                      !.priority = priority]
    <3>1. /\ x \in Node /\ node[x] \in NodeRecord /\ node[x].status # "FREE"
          /\ purge_id \in {0, 1, PURGE}
      BY <1>1, <1>2, <2>5
    <3>2. /\ rec \in NodeRecord
          /\ rec.task = node[x].task /\ rec.status = node[x].status
          /\ rec.purge_id = purge_id
      BY <3>1 DEF NodeRecord
    <3>3. node' = [node EXCEPT ![x] = rec]
      BY <1>1, <2>6, <3>1 DEF NodeRecord
    <3> HIDE DEF x, rec
    <3>4. \A m \in Node : node'[m] = IF m = x THEN rec ELSE node[m]
      BY <1>1, <3>3
    <3>5. node' \in [Node -> NodeRecord]
      BY <1>1, <3>2, <3>3
    <3> QED
      BY <3>1, <3>2, <3>4, <3>5 DEF x
  <2>8. /\ Blank(node')
        /\ Agree(node', map_task, queue_pending, queue_active, queue_complete)
    BY <1>1, <2>7, AgreeMark
  <2>9. Agree(node', map_task, queue_pending', queue_active, queue_complete)
    BY <2>4, <2>8, AgreeReorder
  <2>10. UNCHANGED <<map_task, queue_active, queue_complete>>
    BY <1>6 DEF RunPending
  <2>11. Queues' /\ Blank(node)'
    BY <2>8, <2>9, <2>10 DEF Queues, Blank
  <2>12. NoForcedPurge'
    BY <1>2, <2>7 DEF NoForcedPurge
  <2>13. fresh' \in SUBSET Task /\ lent' = lent
    BY <1>3, <1>6 DEF RunPending
  <2>14. Types' /\ Held' /\ Phases' /\ OneWorkerPerActive'
    BY <1>3, <1>6, <2>13, RunFrame DEF RunPending
  <2> QED
    BY <1>4, <2>11, <2>12, <2>14
<1>7. CASE RunActive(p, t)
  <2>1. map_task[t] \in Node /\ node[map_task[t]].status = "ACTIVE"
    BY <1>1, <1>7 DEF RunActive, StatusOf
  <2>2. node' = [node EXCEPT ![map_task[t]].purge_id = purge_id]
    BY <1>7 DEF RunActive
  <2>3. /\ node' \in [Node -> NodeRecord]
        /\ \A m \in Node : /\ node'[m].task = node[m].task
                           /\ node'[m].status = node[m].status
                           /\ node[m].status \in {"FREE", "PENDING"} =>
                                node'[m] = node[m]
    BY <1>1, <1>2, <2>1, <2>2 DEF NodeRecord
  <2>4. /\ Blank(node')
        /\ Agree(node', map_task, queue_pending, queue_active, queue_complete)
    BY <1>1, <2>3, AgreeMark
  <2>5. UNCHANGED <<map_task, queue_pending, queue_active, queue_complete>>
    BY <1>7 DEF RunActive
  <2>6. Queues' /\ Blank(node)'
    BY <2>4, <2>5 DEF Queues, Blank
  <2>7. NoForcedPurge'
    BY <2>3 DEF NoForcedPurge
  <2>8. fresh' \in SUBSET Task /\ lent' = lent
    BY <1>3, <1>7 DEF RunActive
  <2>9. Types' /\ Held' /\ Phases' /\ OneWorkerPerActive'
    BY <1>3, <1>7, <2>8, RunFrame DEF RunActive
  <2> QED
    BY <1>4, <2>6, <2>7, <2>9
<1>8. CASE RunSettled(p, t)
  <2>1. map_task[t] \in Node /\ node[map_task[t]].status \in Settled
    BY <1>1, <1>8 DEF RunSettled, StatusOf, Settled
  <2>2. {map_task[t]} \subseteq queue_complete
    BY <1>1, <2>1 DEF Agree
  <2>3. /\ RemoveLocked({}, {map_task[t]}, node)
        /\ queue_active' = queue_active
        /\ fresh' = fresh \ {t}
    BY <1>8 DEF RunSettled
  <2>4. {} \subseteq ToSet(queue_pending)
    OBVIOUS
  <2>5. /\ Queues' /\ Blank(node)' /\ NoForcedPurge'
        /\ lent' \subseteq lent
    BY <1>1, <2>2, <2>3, <2>4, RemoveKeeps
  <2>6. fresh' \in SUBSET Task /\ lent' \in SUBSET Task
    BY <1>3, <2>3, <2>5
  <2>7. Types' /\ Held' /\ Phases' /\ OneWorkerPerActive'
    BY <1>3, <1>8, <2>6, RunFrame DEF RunSettled
  <2> QED
    BY <1>4, <2>5, <2>7
<1> QED
  BY <1>5, <1>6, <1>7, <1>8

-----------------------------------------------------------------------------
(* cc_workq_wait and cc_workq_cancel. *)

\* A client moves into, inside or out of a wait or a cancel.
LEMMA ClientMoves ==
  ASSUME IInv, NEW c \in Client,
         pc[c] \in {"idle"} \cup Holding,
         c = Main => state # "NONE",
         NEW l \in {"idle", "undefined"} \cup Holding,
         NEW n \in Node \cup {NULL}, NEW t \in Task \cup {NULL},
         l \in Holding => n \in Node /\ t \in Task,
         l = "read_status" => Calls[c] \cap {"trywait", "trycancel"} # {},
         pc' = [pc EXCEPT ![c] = l],
         cur' = [cur EXCEPT ![c] = n],
         want' = [want EXCEPT ![c] = t],
         wait_complete' \in SUBSET Client,
         lent' \in SUBSET Task, fresh' \in SUBSET Task,
         UNCHANGED <<state, purge_id, next_tid, queue_active, wait_pending,
                     tid, reset>>
  PROVE  /\ Types' /\ Held' /\ Phases' /\ OneWorkerPerActive'
         /\ pc'[Main] = "delete_free" => pc[Main] = "delete_free"
<1>1. /\ c \in Thread /\ c \notin Worker /\ Main \in Client
      /\ Worker \subseteq Thread /\ Client \subseteq Thread
  BY WorkQAssumption DEF Thread
<1>2. Types /\ Held /\ Phases /\ OneWorkerPerActive
  BY DEF IInv
<1>3. /\ pc \in [Thread -> ClientPC \cup WorkerPC]
      /\ cur \in [Thread -> Node \cup {NULL}]
      /\ want \in [Client -> Task \cup {NULL}]
  BY <1>2 DEF Types
<1>4. /\ \A d \in Client : /\ pc'[d] = IF d = c THEN l ELSE pc[d]
                           /\ cur'[d] = IF d = c THEN n ELSE cur[d]
                           /\ want'[d] = IF d = c THEN t ELSE want[d]
      /\ \A w \in Worker : pc'[w] = pc[w] /\ cur'[w] = cur[w]
  BY <1>1, <1>3
<1>5. l \in ClientPC
  BY DEF ClientPC
<1>6. /\ pc' \in [Thread -> ClientPC \cup WorkerPC]
      /\ cur' \in [Thread -> Node \cup {NULL}]
      /\ want' \in [Client -> Task \cup {NULL}]
  BY <1>3, <1>5
<1>7. Types'
  BY <1>2, <1>4, <1>5, <1>6 DEF Types
<1>8. Held'
  BY <1>2, <1>4 DEF Held
<1>9. \/ pc'[Main] = pc[Main]
      \/ /\ c = Main /\ state # "NONE"
         /\ pc[Main] \in {"idle"} \cup Holding
         /\ pc'[Main] \in {"idle", "undefined"} \cup Holding
  BY <1>1, <1>4
<1>10. ({"idle", "undefined"} \cup Holding) \cap
         (InReset \cup InDelete \cup {"new_join"}) = {}
  BY DEF Holding, InReset, InDelete
<1>11. CASE pc'[Main] = pc[Main]
  <2>1. Phases'
    BY <1>2, <1>4, <1>11 DEF Phases
  <2>2. Running' = Running
    BY <1>4 DEF Running
  <2>3. OneWorkerPerActive'
    BY <1>2, <1>4, <2>2 DEF OneWorkerPerActive, Running
  <2> QED
    BY <1>7, <1>8, <1>11, <2>1, <2>3
<1>12. CASE /\ c = Main /\ state # "NONE"
            /\ pc[Main] \in {"idle"} \cup Holding
            /\ pc'[Main] \in {"idle", "undefined"} \cup Holding
  <2>1. /\ pc'[Main] \notin InReset \cup InDelete \cup {"new_join"}
        /\ pc[Main] \notin InReset \cup InDelete \cup {"new_join"}
        /\ pc'[Main] \notin {"delete_purge", "delete_free"}
        /\ pc[Main] \notin {"delete_purge", "delete_free"}
    BY <1>10, <1>12 DEF InDelete
  <2>2. Phases'
    BY <1>2, <1>4, <1>12, <2>1 DEF Phases
  <2>3. Running' = Running
    BY <1>4 DEF Running
  <2>4. OneWorkerPerActive'
    BY <1>2, <1>4, <2>3 DEF OneWorkerPerActive, Running
  <2> QED
    BY <1>7, <1>8, <2>1, <2>2, <2>4
<1> QED
  BY <1>9, <1>11, <1>12

LEMMA SettleIInv ==
  ASSUME IInv, NEW c \in Client, NEW f \in {"wait", "cancel"},
         NEW t \in Task, NEW n \in Node, node[n].task = t,
         NEW blocking \in BOOLEAN,
         ~blocking => Calls[c] \cap {"trywait", "trycancel"} # {},
         pc[c] \in {"idle"} \cup Holding,
         c = Main => state # "NONE",
         Settle(c, f, t, n, blocking),
         UNCHANGED <<state, purge_id, next_tid, queue_active, wait_pending,
                     tid, reset>>
  PROVE  IInv'
<1> USE DEF IInv
<1>1. /\ Agree(node, map_task, queue_pending, queue_active, queue_complete)
      /\ node \in [Node -> NodeRecord]
  BY DEF Queues, Agree
<1>2. node[n].status \in Status
  BY <1>1, WorkQAssumption DEF Blank, FreeNode, NodeRecord
<1>3. /\ lent \in SUBSET Task /\ fresh \in SUBSET Task
      /\ wait_complete \in SUBSET Client
  BY DEF Types
<1>4. CASE node[n].status \in Awaited(f)
  <2>1. /\ pc' = [pc EXCEPT ![c] = IF blocking THEN Asleep(f)
                                               ELSE "read_status"]
        /\ cur' = [cur EXCEPT ![c] = n]
        /\ want' = [want EXCEPT ![c] = t]
        /\ wait_complete' \in SUBSET Client
        /\ UNCHANGED <<node, map_task, queue_pending, queue_complete, lent,
                       fresh>>
    BY <1>3, <1>4 DEF Settle, Goto
  <2>2. /\ Asleep(f) \in Holding /\ "read_status" \in Holding
        /\ Asleep(f) # "read_status"
    BY DEF Asleep, Holding
  <2>3. /\ Types' /\ Held' /\ Phases' /\ OneWorkerPerActive'
        /\ pc'[Main] = "delete_free" => pc[Main] = "delete_free"
    BY <1>3, <2>1, <2>2, ClientMoves
  <2>4. Queues' /\ Blank(node)' /\ NoForcedPurge'
    BY <2>1 DEF Queues, Blank, NoForcedPurge
  <2>5. Emptied'
    BY <2>1, <2>3 DEF Emptied
  <2> QED
    BY <2>3, <2>4, <2>5
<1>5. CASE node[n].status \notin Awaited(f)
  <2>1. /\ IF node[n].status = "PENDING" THEN RemoveLocked({n}, {}, node)
                                         ELSE RemoveLocked({}, {n}, node)
        /\ fresh' = fresh \ {t}
        /\ pc' = [pc EXCEPT ![c] = "idle"]
        /\ cur' = [cur EXCEPT ![c] = NULL]
        /\ want' = [want EXCEPT ![c] = NULL]
        /\ wait_complete' = wait_complete
    BY <1>5 DEF Settle, Goto
  <2>2. node[n].status # "ACTIVE"
    BY <1>5 DEF Awaited
  <2>3. PICK P \in SUBSET ToSet(queue_pending), C \in SUBSET queue_complete :
          RemoveLocked(P, C, node)
    <3>1. CASE node[n].status = "PENDING"
      <4>1. {n} \in SUBSET ToSet(queue_pending)
        BY <1>1, <3>1 DEF Agree
      <4> QED
        BY <2>1, <3>1, <4>1
    <3>2. CASE node[n].status \in Settled
      <4>1. {n} \in SUBSET queue_complete /\ node[n].status # "PENDING"
        BY <1>1, <3>2 DEF Agree, Settled
      <4> QED
        BY <2>1, <4>1
    <3> QED
      BY <1>2, <2>2, <3>1, <3>2 DEF Status
  <2>4. /\ Queues' /\ Blank(node)' /\ NoForcedPurge'
        /\ lent' \subseteq lent
    BY <1>1, <2>3, RemoveKeeps
  <2>5. /\ Types' /\ Held' /\ Phases' /\ OneWorkerPerActive'
        /\ pc'[Main] = "delete_free" => pc[Main] = "delete_free"
    <3>1. lent' \in SUBSET Task /\ fresh' \in SUBSET Task
      BY <1>3, <2>1, <2>4
    <3>2. "idle" \notin Holding
      BY DEF Holding
    <3> QED
      BY <1>3, <2>1, <3>1, <3>2, ClientMoves DEF Holding
  <2>6. pc[Main] # "delete_free"
    BY <1>2 DEF Emptied, FreeNode, Status, Settled
  <2> QED
    BY <2>4, <2>5, <2>6 DEF Emptied
<1> QED
  BY <1>4, <1>5

LEMMA TakeBackIInv ==
  ASSUME IInv, NEW c \in Client, NEW t \in Task,
         Wait(c, t) \/ TryWait(c, t) \/ Cancel(c, t) \/ TryCancel(c, t)
  PROVE  IInv'
<1>1. PICK call \in {"wait", "trywait", "cancel", "trycancel"},
           f \in {"wait", "cancel"}, blocking \in BOOLEAN :
        /\ Calling(c, call, f, t, blocking)
        /\ ~blocking => call \in {"trywait", "trycancel"}
  <2>1. CASE Wait(c, t)
    BY <2>1 DEF Wait
  <2>2. CASE TryWait(c, t)
    BY <2>2 DEF TryWait
  <2>3. CASE Cancel(c, t)
    BY <2>3 DEF Cancel
  <2>4. CASE TryCancel(c, t)
    BY <2>4 DEF TryCancel
  <2> QED
    BY <2>1, <2>2, <2>3, <2>4
<1>2. /\ pc[c] = "idle" /\ state = "RUNNING" /\ call \in Calls[c]
  BY <1>1, WorkQAssumption DEF Calling, MayCall
<1>3. /\ map_task[t] \in Node /\ node[map_task[t]].task = t
  BY <1>1 DEF Calling, IInv, Queues, Agree
<1>4. /\ Settle(c, f, t, map_task[t], blocking)
      /\ UNCHANGED <<state, purge_id, next_tid, queue_active, wait_pending,
                     tid, reset>>
  BY <1>1 DEF Calling
<1> QED
  BY <1>1, <1>2, <1>3, <1>4, SettleIInv

LEMMA ContinueIInv ==
  ASSUME IInv, NEW c \in Client, Continue(c)
  PROVE  IInv'
<1>1. /\ pc[c] \in Holding
      /\ UNCHANGED <<state, purge_id, next_tid, queue_active, wait_pending,
                     tid, reset>>
  BY DEF Continue, WaitResume, CancelResume, Resume, ReadStatus, Asleep,
         Holding
<1>2. cur[c] \in Node /\ want[c] \in Task
  BY <1>1 DEF IInv, Held
<1>3. c = Main => state # "NONE"
  BY <1>1 DEF IInv, Phases, Holding
<1>4. CASE \E f \in {"wait", "cancel"} :
             ~Stale(c) /\ Settle(c, f, want[c], cur[c], TRUE)
  <2>1. node[cur[c]].task = want[c]
    BY <1>4 DEF Stale
  <2> QED
    BY <1>1, <1>2, <1>3, <1>4, <2>1, SettleIInv
<1>5. CASE /\ \E l \in {"undefined", "idle"} : pc' = [pc EXCEPT ![c] = l]
           /\ cur' = [cur EXCEPT ![c] = NULL]
           /\ want' = [want EXCEPT ![c] = NULL]
           /\ lent' \subseteq lent
           /\ UNCHANGED <<node, map_task, queue_pending, queue_complete,
                          wait_complete, fresh>>
  <2>1. PICK l \in {"undefined", "idle"} : pc' = [pc EXCEPT ![c] = l]
    BY <1>5
  <2>2. /\ l \notin Holding
        /\ wait_complete' \in SUBSET Client
        /\ lent' \in SUBSET Task /\ fresh' \in SUBSET Task
    BY <1>5 DEF Holding, IInv, Types
  <2>3. l # "read_status"
    OBVIOUS
  <2>4. /\ Types' /\ Held' /\ Phases' /\ OneWorkerPerActive'
        /\ pc'[Main] = "delete_free" => pc[Main] = "delete_free"
    BY <1>1, <1>3, <1>5, <2>1, <2>2, <2>3, ClientMoves
  <2>5. Queues' /\ Blank(node)' /\ NoForcedPurge'
    BY <1>1, <1>5 DEF IInv, Queues, Blank, NoForcedPurge
  <2>6. Emptied'
    BY <1>5, <2>4 DEF IInv, Emptied
  <2> QED
    BY <2>4, <2>5, <2>6 DEF IInv
<1> QED
  <2>1. CASE WaitResume(c)
    BY <1>4, <1>5, <2>1 DEF WaitResume, Resume, Undefined, Goto
  <2>2. CASE CancelResume(c)
    BY <1>4, <1>5, <2>2 DEF CancelResume, Resume, Undefined, Goto
  <2>3. CASE ReadStatus(c)
    BY <1>5, <2>3 DEF ReadStatus, Undefined, Goto
  <2> QED
    BY <2>1, <2>2, <2>3 DEF Continue

-----------------------------------------------------------------------------
(* The main thread. *)

\* The main thread moves on, and the workers do not.
LEMMA MainMoves ==
  ASSUME Types, Held, OneWorkerPerActive,
         NEW l \in ClientPC, l \notin Holding,
         pc' = [pc EXCEPT ![Main] = l],
         state' \in {"NONE", "RUNNING", "STOP"},
         purge_id' \in {0, 1, PURGE},
         wait_pending' \in SUBSET Worker,
         wait_complete' \in SUBSET Client,
         reset' \in [blocking : BOOLEAN, purge_id : {0, 1, PURGE}],
         lent' \in SUBSET Task, fresh' \in SUBSET Task,
         UNCHANGED <<next_tid, queue_active, cur, want, tid>>
  PROVE  /\ Types' /\ Held' /\ OneWorkerPerActive'
         /\ pc'[Main] = l
         /\ \A w \in Worker : pc'[w] = pc[w]
<1>1. /\ Main \in Thread /\ Main \notin Worker /\ Main \in Client
      /\ Worker \subseteq Thread /\ Client \subseteq Thread
  BY WorkQAssumption DEF Thread
<1>2. pc \in [Thread -> ClientPC \cup WorkerPC]
  BY DEF Types
<1>3. /\ \A d \in Client : pc'[d] = IF d = Main THEN l ELSE pc[d]
      /\ \A w \in Worker : pc'[w] = pc[w]
      /\ pc' \in [Thread -> ClientPC \cup WorkerPC]
  BY <1>1, <1>2
<1>4. Types'
  BY <1>3 DEF Types
<1>5. Held'
  BY <1>3 DEF Held
<1>6. Running' = Running
  BY <1>3 DEF Running
<1>7. OneWorkerPerActive'
  BY <1>6 DEF OneWorkerPerActive
<1> QED
  BY <1>1, <1>3, <1>4, <1>5, <1>7

LEMMA PurgeKeeps ==
  ASSUME Queues, Blank(node), NoForcedPurge, Types,
         PurgeLocked, queue_active' = queue_active
  PROVE  /\ Queues' /\ Blank(node)' /\ NoForcedPurge'
         /\ lent' \subseteq lent /\ fresh' = {}
         /\ SettledOnce => SettledOnce'
         /\ purge_id' = IF purge_id = PURGE THEN PURGE ELSE 1 - purge_id
         /\ purge_id = PURGE /\ queue_active = {} =>
              \A n \in Node : node'[n] = FreeNode
<1> DEFINE P == ToSet(queue_pending) \cap Outdated
           C == queue_complete \cap Condemned
           nd == [n \in Node |-> IF n \in queue_active \cap Outdated
                                 THEN [node[n] EXCEPT !.purge_id = PURGE]
                                 ELSE node[n]]
<1>1. /\ Agree(node, map_task, queue_pending, queue_active, queue_complete)
      /\ node \in [Node -> NodeRecord]
  BY DEF Queues, Agree
<1>2. /\ RemoveLocked(P, C, nd)
      /\ purge_id' = IF purge_id = PURGE THEN PURGE ELSE 1 - purge_id
      /\ fresh' = {}
  BY DEF PurgeLocked, NextEpoch
<1>3. P \subseteq ToSet(queue_pending) /\ C \subseteq queue_complete
  OBVIOUS
<1>4. \A n \in queue_active : node[n].status = "ACTIVE"
  BY <1>1 DEF Agree
<1>5. /\ nd \in [Node -> NodeRecord]
      /\ \A n \in Node : /\ nd[n].task = node[n].task
                         /\ nd[n].status = node[n].status
                         /\ node[n].status \in {"FREE", "PENDING"} =>
                              nd[n] = node[n]
  BY <1>1, <1>4 DEF NodeRecord
<1>6. \A n \in Node :
        /\ n \in P <=> n \in ToSet(queue_pending) /\ node[n].purge_id # purge_id
        /\ n \in C <=> /\ n \in queue_complete
                       /\ \/ node[n].purge_id # purge_id
                          \/ node[n].purge_id = PURGE
  BY DEF Outdated, Condemned
<1> HIDE DEF P, C, nd
<1>7. /\ Queues' /\ Blank(node)' /\ NoForcedPurge'
      /\ lent' \subseteq lent /\ (SettledOnce => SettledOnce')
      /\ \A n \in Node : node'[n] = IF n \in P \cup C THEN FreeNode ELSE nd[n]
  <2>1. /\ Queues' /\ Blank(node)' /\ NoForcedPurge' /\ lent' \subseteq lent
        /\ SettledOnce => SettledOnce'
    BY <1>2, <1>3, <1>5, RemoveKeeps
  <2>2. \A n \in Node : node'[n] = IF n \in P \cup C THEN FreeNode ELSE nd[n]
    BY <1>2 DEF RemoveLocked
  <2> QED
    BY <2>1, <2>2
<1>8. ASSUME purge_id = PURGE, queue_active = {}, NEW n \in Node
      PROVE  node'[n] = FreeNode
  <2>1. CASE node[n].status = "FREE"
    <3>1. n \notin P \cup C
      BY <1>1, <1>3, <2>1 DEF Agree, Settled
    <3> QED
      BY <1>5, <1>7, <2>1, <3>1 DEF Blank
  <2>2. CASE node[n].status = "PENDING"
    <3>1. n \in ToSet(queue_pending)
      BY <1>1, <2>2 DEF Agree
    <3>2. node[n].purge_id # purge_id
      BY <1>8, <2>2 DEF NoForcedPurge, PURGE
    <3> QED
      BY <1>6, <1>7, <3>1, <3>2
  <2>3. CASE node[n].status \in Settled
    <3>1. n \in queue_complete
      BY <1>1, <2>3 DEF Agree
    <3>2. n \in C
      BY <1>6, <1>8, <3>1
    <3> QED
      BY <1>7, <3>2
  <2>4. node[n].status # "ACTIVE"
    BY <1>1, <1>8 DEF Agree
  <2>5. node[n].status \in Status \cup {"FREE"}
    BY <1>1 DEF NodeRecord
  <2> QED
    BY <2>1, <2>2, <2>3, <2>4, <2>5 DEF Status
<1> QED
  BY <1>2, <1>7, <1>8

LEMMA PurgeIInv ==
  ASSUME IInv, Purge \/ Flush \/ Finish
  PROVE  IInv'
<1> USE DEF IInv
<1>1. /\ Agree(node, map_task, queue_pending, queue_active, queue_complete)
      /\ node \in [Node -> NodeRecord]
      /\ pc \in [Thread -> ClientPC \cup WorkerPC] /\ Main \in Thread
      /\ Main \in Client /\ Main \notin Worker
  BY WorkQAssumption DEF Queues, Agree, Types, Thread
<1>2. /\ purge_id \in {0, 1, PURGE}
      /\ reset \in [blocking : BOOLEAN, purge_id : {0, 1, PURGE}]
      /\ state \in {"NONE", "RUNNING", "STOP"}
      /\ lent \in SUBSET Task /\ fresh \in SUBSET Task
      /\ wait_pending \in SUBSET Worker /\ wait_complete \in SUBSET Client
  BY DEF Types
<1>3. pc[Main] \in {"idle", "finish"} /\ state # "NONE"
  BY <1>1 DEF Purge, Flush, Finish, MayCall, Phases
<1>4. purge_id \in {0, 1}
  BY <1>3 DEF Phases, InReset
<1>5. CASE Purge
  <2>1. /\ PurgeLocked /\ queue_active' = queue_active
        /\ UNCHANGED <<state, next_tid, wait_pending, wait_complete, pc, cur,
                       want, tid, reset>>
    BY <1>5 DEF Purge
  <2>2. /\ Queues' /\ Blank(node)' /\ NoForcedPurge'
        /\ lent' \subseteq lent /\ fresh' = {}
        /\ purge_id' = IF purge_id = PURGE THEN PURGE ELSE 1 - purge_id
    BY <2>1, PurgeKeeps
  <2>3. purge_id' \in {0, 1}
    BY <1>4, <2>2 DEF PURGE
  <2>4. Types'
    BY <2>1, <2>2, <2>3 DEF Types
  <2>5. Held'
    BY <2>1 DEF Held
  <2>6. Running' = Running
    BY <2>1 DEF Running
  <2>7. OneWorkerPerActive'
    BY <2>1, <2>6 DEF OneWorkerPerActive
  <2>8. Phases' /\ Emptied'
    BY <1>3, <2>1, <2>3 DEF Phases, Emptied
  <2> QED
    BY <2>2, <2>4, <2>5, <2>7, <2>8
<1>6. CASE Flush \/ Finish
  <2>1. /\ RemoveLocked({}, queue_complete, node)
        /\ fresh' \subseteq fresh
        /\ UNCHANGED <<state, purge_id, next_tid, queue_active, wait_pending,
                       cur, want, tid, reset>>
    BY <1>6 DEF Flush, Finish, FlushLocked
  <2>2. {} \subseteq ToSet(queue_pending) /\ queue_complete \subseteq queue_complete
    OBVIOUS
  <2>3. /\ Queues' /\ Blank(node)' /\ NoForcedPurge'
        /\ lent' \subseteq lent
    BY <1>1, <2>1, <2>2, RemoveKeeps
  <2>4. PICK l \in {"idle", "finish"} : pc' = [pc EXCEPT ![Main] = l]
    <3>1. CASE Flush
      <4>1. pc' = pc /\ pc[Main] = "idle"
        BY <1>1, <3>1 DEF Flush, MayCall
      <4>2. pc = [pc EXCEPT ![Main] = "idle"]
        BY <1>1, <4>1
      <4> QED
        BY <4>1, <4>2
    <3>2. CASE Finish
      BY <3>2 DEF Finish, Goto
    <3> QED
      BY <1>6, <3>1, <3>2
  <2>5. wait_complete' \in SUBSET Client
    BY <1>1, <1>2, <1>6 DEF Flush, Finish
  <2>6. l \in ClientPC /\ l \notin Holding
    BY DEF ClientPC, Holding
  <2>7. /\ Types' /\ Held' /\ OneWorkerPerActive'
        /\ pc'[Main] = l /\ \A w \in Worker : pc'[w] = pc[w]
    <3>1. lent' \in SUBSET Task /\ fresh' \in SUBSET Task
      BY <1>2, <2>1, <2>3
    <3> QED
      BY <1>2, <2>1, <2>4, <2>5, <2>6, <3>1, MainMoves
  <2>8. Phases' /\ Emptied'
    BY <1>3, <1>4, <2>1, <2>7 DEF Phases, Emptied, InReset, InDelete
  <2> QED
    BY <2>3, <2>7, <2>8
<1> QED
  BY <1>5, <1>6

LEMMA ResetIInv ==
  ASSUME IInv, (\E blocking \in BOOLEAN : ResetBegin(blocking)) \/ ResetPurge
               \/ ResetWait \/ ResetRestore
  PROVE  IInv'
<1> USE DEF IInv
<1>1. /\ Agree(node, map_task, queue_pending, queue_active, queue_complete)
      /\ pc \in [Thread -> ClientPC \cup WorkerPC]
      /\ Main \in Client /\ Main \in Thread /\ Main \notin Worker
  BY WorkQAssumption DEF Queues, Agree, Types, Thread
<1>2. /\ purge_id \in {0, 1, PURGE}
      /\ reset \in [blocking : BOOLEAN, purge_id : {0, 1, PURGE}]
      /\ state \in {"NONE", "RUNNING", "STOP"}
      /\ lent \in SUBSET Task /\ fresh \in SUBSET Task
      /\ wait_pending \in SUBSET Worker /\ wait_complete \in SUBSET Client
  BY DEF Types
<1>3. InReset \subseteq ClientPC /\ InReset \cap Holding = {}
      /\ "idle" \in ClientPC /\ "idle" \notin Holding
      /\ InReset \cap (InDelete \cup {"new_join", "idle"}) = {}
      /\ InReset \cap {"delete_purge", "delete_free"} = {}
      /\ "idle" \notin InDelete \cup {"new_join"}
  BY DEF ClientPC, InReset, Holding, InDelete
<1>4. CASE \E blocking \in BOOLEAN : ResetBegin(blocking)
  <2>1. PICK blocking \in BOOLEAN : ResetBegin(blocking)
    BY <1>4
  <2>2. /\ pc[Main] = "idle" /\ state = "RUNNING"
        /\ Calls[Main] \cap {"reset", "tryreset"} # {}
    BY <1>1, <2>1 DEF ResetBegin, MayCall
  <2>3. purge_id \in {0, 1}
    BY <1>3, <2>2 DEF Phases
  <2>4. /\ reset' = [blocking |-> blocking, purge_id |-> purge_id]
        /\ purge_id' = PURGE
        /\ pc' = [pc EXCEPT ![Main] = "reset_purge"]
        /\ UNCHANGED <<state, next_tid, queues, wait_pending, wait_complete,
                       cur, want, tid, lent, fresh>>
    BY <2>1 DEF ResetBegin, Goto
  <2>5. "reset_purge" \in InReset
    BY DEF InReset
  <2>6. /\ Types' /\ Held' /\ OneWorkerPerActive'
        /\ pc'[Main] = "reset_purge"
    <3>1. /\ reset' \in [blocking : BOOLEAN, purge_id : {0, 1, PURGE}]
          /\ purge_id' \in {0, 1, PURGE} /\ queue_active' = queue_active
      BY <2>3, <2>4 DEF queues
    <3> QED
      BY <1>2, <1>3, <2>4, <2>5, <3>1, MainMoves
  <2>7. reset'.purge_id \in {0, 1}
    BY <2>3, <2>4
  <2>8. Phases' /\ Emptied'
    BY <1>3, <2>2, <2>4, <2>5, <2>6, <2>7 DEF Phases, Emptied
  <2>9. Queues' /\ Blank(node)' /\ NoForcedPurge'
    BY <2>4 DEF queues, Queues, Blank, NoForcedPurge
  <2> QED
    BY <2>6, <2>8, <2>9
<1>5. CASE ResetPurge
  <2>1. PICK l \in InReset : pc' = [pc EXCEPT ![Main] = l]
    BY <1>5 DEF ResetPurge, AfterResetPurge, InReset, Goto
  <2>2. pc[Main] \in InReset
    BY <1>5 DEF ResetPurge, InReset
  <2>3. /\ PurgeLocked /\ queue_active' = queue_active
        /\ UNCHANGED <<state, next_tid, wait_pending, wait_complete, cur, want,
                       tid, reset>>
    BY <1>5 DEF ResetPurge
  <2>4. /\ Queues' /\ Blank(node)' /\ NoForcedPurge'
        /\ lent' \subseteq lent /\ fresh' = {}
        /\ purge_id' = IF purge_id = PURGE THEN PURGE ELSE 1 - purge_id
    BY <2>3, PurgeKeeps
  <2>5. purge_id' \in {0, 1, PURGE}
    BY <1>2, <2>4
  <2>6. /\ Types' /\ Held' /\ OneWorkerPerActive' /\ pc'[Main] = l
    <3>1. lent' \in SUBSET Task /\ fresh' \in SUBSET Task
      BY <1>2, <2>4
    <3> QED
      BY <1>2, <1>3, <2>1, <2>3, <2>5, <3>1, MainMoves
  <2>7. Phases' /\ Emptied'
    BY <1>3, <2>2, <2>3, <2>6 DEF Phases, Emptied
  <2> QED
    BY <2>4, <2>6, <2>7
<1>6. CASE ResetWait
  <2>1. pc[Main] \in InReset
    BY <1>6 DEF ResetWait, InReset
  <2>2. PICK l \in InReset : pc' = [pc EXCEPT ![Main] = l]
    <3>1. pc = [pc EXCEPT ![Main] = pc[Main]]
      BY <1>1
    <3>2. pc' = pc \/ pc' = [pc EXCEPT ![Main] = "reset_purge_complete"]
      BY <1>6 DEF ResetWait, Goto
    <3>3. "reset_purge_complete" \in InReset
      BY DEF InReset
    <3> QED
      BY <2>1, <3>1, <3>2, <3>3
  <2>3. /\ wait_complete' \in SUBSET Client
        /\ UNCHANGED <<state, purge_id, next_tid, queues, wait_pending, cur,
                       want, tid, reset, lent, fresh>>
    BY <1>1, <1>2, <1>6 DEF ResetWait
  <2>4. /\ Types' /\ Held' /\ OneWorkerPerActive' /\ pc'[Main] = l
    BY <1>2, <1>3, <2>2, <2>3, MainMoves DEF queues
  <2>5. Phases' /\ Emptied'
    BY <1>3, <2>1, <2>3, <2>4 DEF Phases, Emptied
  <2>6. Queues' /\ Blank(node)' /\ NoForcedPurge'
    BY <2>3 DEF queues, Queues, Blank, NoForcedPurge
  <2> QED
    BY <2>4, <2>5, <2>6
<1>7. CASE ResetRestore
  <2>1. pc[Main] \in InReset
    BY <1>7 DEF ResetRestore, InReset
  <2>2. /\ purge_id' = reset.purge_id /\ reset' = NoReset
        /\ pc' = [pc EXCEPT ![Main] = "idle"]
        /\ UNCHANGED <<state, next_tid, queues, wait_pending, wait_complete,
                       cur, want, tid, lent, fresh>>
    BY <1>7 DEF ResetRestore, Goto
  <2>3. purge_id' \in {0, 1}
    BY <2>1, <2>2 DEF Phases
  <2>4. /\ Types' /\ Held' /\ OneWorkerPerActive' /\ pc'[Main] = "idle"
    <3>1. /\ reset' \in [blocking : BOOLEAN, purge_id : {0, 1, PURGE}]
          /\ purge_id' \in {0, 1, PURGE} /\ queue_active' = queue_active
      BY <2>2, <2>3 DEF NoReset, queues
    <3> QED
      BY <1>2, <1>3, <2>2, <3>1, MainMoves
  <2>5. Phases' /\ Emptied'
    BY <1>3, <2>1, <2>2, <2>3, <2>4 DEF Phases, Emptied
  <2>6. Queues' /\ Blank(node)' /\ NoForcedPurge'
    BY <2>2 DEF queues, Queues, Blank, NoForcedPurge
  <2> QED
    BY <2>4, <2>5, <2>6
<1> QED
  BY <1>4, <1>5, <1>6, <1>7

(* Creating, joining and leaving: several threads move at once. *)
LEMMA NewIInv ==
  ASSUME IInv, New \/ NewJoin
  PROVE  IInv'
<1> USE DEF IInv
<1>1. /\ pc \in [Thread -> ClientPC \cup WorkerPC]
      /\ Main \in Client /\ Client \cap Worker = {}
      /\ Worker \subseteq Thread /\ Client \subseteq Thread
      /\ Types /\ Held /\ Phases /\ OneWorkerPerActive
      /\ \A w \in Worker : pc[w] \in WorkerPC
  BY WorkQAssumption DEF Types, Thread
<1>2. UNCHANGED <<queues, wait_pending, wait_complete, cur, want, reset, lent,
                  fresh>>
  BY DEF New, NewJoin
<1>3. Queues' /\ Blank(node)' /\ NoForcedPurge'
  BY <1>2 DEF queues, Queues, Blank, NoForcedPurge
<1>4. CASE New
  <2>1. PICK created \in SUBSET Worker :
          /\ state' = IF created = Worker THEN "RUNNING" ELSE "STOP"
          /\ pc' = [p \in Thread |->
                      IF p \in created THEN "start"
                      ELSE IF p = Main /\ created # Worker THEN "new_join"
                      ELSE pc[p]]
    BY <1>4 DEF New
  <2>2. /\ state = "NONE" /\ pc[Main] = "idle"
        /\ purge_id' = 0 /\ next_tid' = 0 /\ tid' = tid
    BY <1>4 DEF New
  <2>3. \A w \in Worker : pc[w] = "none"
    BY <1>1, <2>2 DEF Phases
  <2>4. /\ \A w \in Worker : pc'[w] \in {"start", "none"}
        /\ \A c \in Client : pc'[c] = IF c = Main /\ created # Worker
                                      THEN "new_join" ELSE pc[c]
    BY <1>1, <2>1, <2>3
  <2>5. pc' \in [Thread -> ClientPC \cup WorkerPC]
    BY <1>1, <2>1 DEF ClientPC, WorkerPC
  <2>6. Types'
    BY <1>1, <1>2, <2>1, <2>2, <2>4, <2>5 DEF Types, ClientPC, WorkerPC
  <2>7. Held'
    BY <1>1, <1>2, <2>4 DEF Held, Holding
  <2>8. Running = {} /\ Running' = {}
    BY <2>3, <2>4 DEF Running
  <2>9. OneWorkerPerActive'
    BY <1>1, <1>2, <2>8 DEF OneWorkerPerActive, queues
  <2>10. pc'[Main] = IF created = Worker THEN "idle" ELSE "new_join"
    BY <1>1, <2>2, <2>4
  <2>11. Phases' /\ Emptied'
    BY <2>1, <2>2, <2>10 DEF Phases, Emptied, InReset, InDelete
  <2> QED
    BY <1>3, <2>6, <2>7, <2>9, <2>11
<1>5. CASE NewJoin
  <2>1. /\ pc[Main] = "new_join"
        /\ \A w \in Worker : pc[w] \in {"none", "exit"}
        /\ state' = "NONE"
        /\ pc' = [p \in Thread |-> IF p \in Worker THEN "none"
                                   ELSE IF p = Main THEN "idle" ELSE pc[p]]
        /\ tid' = [w \in Worker |-> NULL]
        /\ UNCHANGED <<purge_id, next_tid>>
    BY <1>5 DEF NewJoin
  <2>2. /\ \A w \in Worker : pc'[w] = "none"
        /\ \A c \in Client : pc'[c] = IF c = Main THEN "idle" ELSE pc[c]
        /\ pc' \in [Thread -> ClientPC \cup WorkerPC]
    BY <1>1, <2>1 DEF ClientPC, WorkerPC
  <2>3. Types'
    BY <1>1, <1>2, <2>1, <2>2 DEF Types, ClientPC, WorkerPC
  <2>4. Held'
    BY <1>1, <1>2, <2>2 DEF Held, Holding
  <2>5. Running = {} /\ Running' = {}
    BY <2>1, <2>2 DEF Running
  <2>6. OneWorkerPerActive'
    BY <1>1, <1>2, <2>5 DEF OneWorkerPerActive, queues
  <2>7. Phases' /\ Emptied'
    BY <1>1, <2>1, <2>2 DEF Phases, Emptied, InReset, InDelete
  <2> QED
    BY <1>3, <2>3, <2>4, <2>6, <2>7
<1> QED
  BY <1>4, <1>5

LEMMA DeleteIInv ==
  ASSUME IInv, DeleteStop \/ DeleteJoin \/ DeletePurge \/ DeleteFree
  PROVE  IInv'
<1> USE DEF IInv
<1>1. /\ pc \in [Thread -> ClientPC \cup WorkerPC]
      /\ Main \in Client /\ Client \cap Worker = {}
      /\ Worker \subseteq Thread /\ Client \subseteq Thread
      /\ \A w \in Worker : pc[w] \in WorkerPC
  BY WorkQAssumption DEF Types, Thread
<1>2. /\ purge_id \in {0, 1, PURGE}
      /\ reset \in [blocking : BOOLEAN, purge_id : {0, 1, PURGE}]
      /\ state \in {"NONE", "RUNNING", "STOP"}
      /\ lent \in SUBSET Task /\ fresh \in SUBSET Task
      /\ wait_pending \in SUBSET Worker /\ wait_complete \in SUBSET Client
  BY DEF Types
<1>3. /\ {"idle", "delete_join", "delete_purge", "delete_free"}
           \subseteq ClientPC
      /\ {"idle", "delete_join", "delete_purge", "delete_free"} \cap Holding
           = {}
  BY DEF ClientPC, InDelete, Holding
<1>4. CASE DeleteStop
  <2>1. /\ pc[Main] = "idle" /\ state = "RUNNING"
        /\ state' = "STOP" /\ wait_pending' = {}
        /\ pc' = [pc EXCEPT ![Main] = "delete_join"]
        /\ UNCHANGED <<purge_id, next_tid, queues, wait_complete, cur, want,
                       tid, reset, lent, fresh>>
    BY <1>1, <1>4 DEF DeleteStop, WakeWorkers, MayCall, Goto
  <2>2. /\ Types' /\ Held' /\ OneWorkerPerActive' /\ pc'[Main] = "delete_join"
        /\ \A w \in Worker : pc'[w] = pc[w]
    BY <1>2, <1>3, <2>1, MainMoves DEF queues
  <2>3. Phases' /\ Emptied'
    BY <2>1, <2>2 DEF Phases, Emptied, InReset, InDelete
  <2>4. Queues' /\ Blank(node)' /\ NoForcedPurge'
    BY <2>1 DEF queues, Queues, Blank, NoForcedPurge
  <2> QED
    BY <2>2, <2>3, <2>4
<1>5. CASE DeleteJoin
  <2>1. /\ pc[Main] = "delete_join"
        /\ \A w \in Worker : pc[w] = "exit"
        /\ purge_id' = PURGE
        /\ pc' = [p \in Thread |-> IF p \in Worker THEN "none"
                                   ELSE IF p = Main THEN "delete_purge"
                                   ELSE pc[p]]
        /\ tid' = [w \in Worker |-> NULL]
        /\ UNCHANGED <<state, next_tid, queues, wait_pending, wait_complete,
                       cur, want, reset, lent, fresh>>
    BY <1>5 DEF DeleteJoin
  <2>2. /\ \A w \in Worker : pc'[w] = "none"
        /\ \A c \in Client : pc'[c] = IF c = Main THEN "delete_purge"
                                      ELSE pc[c]
        /\ pc' \in [Thread -> ClientPC \cup WorkerPC]
    BY <1>1, <1>3, <2>1 DEF WorkerPC
  <2>3. Types'
    BY <1>1, <1>3, <2>1, <2>2 DEF Types, WorkerPC
  <2>4. Held'
    BY <1>3, <2>1, <2>2 DEF Held
  <2>5. Running = {} /\ Running' = {}
    BY <2>1, <2>2 DEF Running
  <2>6. OneWorkerPerActive'
    BY <2>1, <2>5 DEF OneWorkerPerActive, queues
  <2>7. state = "STOP"
    BY <2>1 DEF Phases, InDelete
  <2>8. Phases' /\ Emptied'
    BY <1>1, <2>1, <2>2, <2>7 DEF Phases, Emptied, InReset, InDelete
  <2>9. Queues' /\ Blank(node)' /\ NoForcedPurge'
    BY <2>1 DEF queues, Queues, Blank, NoForcedPurge
  <2> QED
    BY <2>3, <2>4, <2>6, <2>8, <2>9
<1>6. CASE DeletePurge
  <2>1. /\ pc[Main] = "delete_purge"
        /\ PurgeLocked /\ queue_active' = queue_active
        /\ pc' = [pc EXCEPT ![Main] = "delete_free"]
        /\ UNCHANGED <<state, next_tid, wait_pending, wait_complete, cur, want,
                       tid, reset>>
    BY <1>6 DEF DeletePurge, Goto
  <2>2. purge_id = PURGE /\ \A w \in Worker : pc[w] = "none"
    BY <2>1 DEF Phases
  <2>3. queue_active = {}
    BY <2>2 DEF OneWorkerPerActive, Running
  <2>4. /\ Queues' /\ Blank(node)' /\ NoForcedPurge'
        /\ lent' \subseteq lent /\ fresh' = {}
        /\ purge_id' = PURGE
        /\ \A n \in Node : node'[n] = FreeNode
    BY <2>1, <2>2, <2>3, PurgeKeeps
  <2>5. /\ Types' /\ Held' /\ OneWorkerPerActive' /\ pc'[Main] = "delete_free"
        /\ \A w \in Worker : pc'[w] = pc[w]
    <3>1. /\ lent' \in SUBSET Task /\ fresh' \in SUBSET Task
          /\ purge_id' \in {0, 1, PURGE}
      BY <1>2, <2>4
    <3> QED
      BY <1>2, <1>3, <2>1, <3>1, MainMoves
  <2>6. state = "STOP"
    BY <2>1 DEF Phases, InDelete
  <2>7. Phases'
    BY <2>1, <2>2, <2>5, <2>6 DEF Phases, InReset, InDelete
  <2>8. Emptied'
    BY <2>4 DEF Emptied
  <2> QED
    BY <2>4, <2>5, <2>7, <2>8
<1>7. CASE DeleteFree
  <2>1. /\ pc[Main] = "delete_free"
        /\ state' = "NONE"
        /\ map_task' = [t \in Task |-> NULL]
        /\ queue_pending' = << >>
        /\ queue_active' = {}
        /\ queue_complete' = {}
        /\ pc' = [pc EXCEPT ![Main] = "idle"]
        /\ UNCHANGED <<purge_id, next_tid, node, wait_pending, wait_complete,
                       cur, want, tid, reset, lent, fresh>>
    BY <1>7 DEF DeleteFree, Goto
  <2>2. \A n \in Node : node[n] = FreeNode
    BY <2>1 DEF Emptied
  <2>3. \A w \in Worker : pc[w] = "none"
    BY <2>1 DEF Phases
  <2>4. queue_active = {}
    BY <2>3 DEF OneWorkerPerActive, Running
  <2>5. /\ Types' /\ Held' /\ OneWorkerPerActive' /\ pc'[Main] = "idle"
        /\ \A w \in Worker : pc'[w] = pc[w]
    BY <1>2, <1>3, <2>1, <2>4, MainMoves
  <2>6. Phases' /\ Emptied'
    BY <2>1, <2>3, <2>5 DEF Phases, Emptied, InReset, InDelete
  <2>7. Queues'
    <3>1. /\ queue_pending' \in Seq(Node) /\ ToSet(queue_pending') = {}
          /\ IsInjective(queue_pending')
      BY <2>1 DEF ToSet, IsInjective
    <3>2. node \in [Node -> NodeRecord]
      BY DEF Queues, Agree
    <3> QED
      BY <2>1, <2>2, <3>1, <3>2 DEF Queues, Agree, FreeNode, Settled
  <2>8. Blank(node)' /\ NoForcedPurge'
    BY <2>1 DEF Blank, NoForcedPurge
  <2> QED
    BY <2>5, <2>6, <2>7, <2>8
<1> QED
  BY <1>4, <1>5, <1>6, <1>7

\* A wakeup without a broadcast, and a step that changes nothing.
LEMMA OtherIInv ==
  ASSUME IInv, (\E p \in Thread : Spurious(p)) \/ UNCHANGED vars
  PROVE  IInv'
<1> USE DEF IInv
<1>1. /\ UNCHANGED <<state, purge_id, next_tid, queues, pc, cur, want, tid,
                     reset, lent, fresh>>
      /\ wait_pending' \subseteq wait_pending
      /\ wait_complete' \subseteq wait_complete
  BY DEF Spurious, vars
<1>2. Types' /\ Held' /\ Phases' /\ Emptied'
  BY <1>1 DEF Types, Held, Phases, Emptied, queues
<1>3. Queues' /\ Blank(node)' /\ NoForcedPurge'
  BY <1>1 DEF queues, Queues, Blank, NoForcedPurge
<1>4. Running' = Running
  BY <1>1 DEF Running
<1>5. OneWorkerPerActive'
  BY <1>1, <1>4 DEF OneWorkerPerActive, queues
<1> QED
  BY <1>2, <1>3, <1>5

-----------------------------------------------------------------------------
(* The invariant, and what follows from it. *)

LEMMA SubmitCases ==
  ASSUME NEW p \in Thread, Submit(p)
  PROVE  \E t \in Task, priority \in Int :
           \/ RunNew(p, t, priority) \/ RunPending(p, t, priority)
           \/ RunActive(p, t) \/ RunSettled(p, t)
<1>1. PICK t \in Tasks[p] :
        \/ \E priority \in Priorities[t] :
             RunNew(p, t, priority) \/ RunPending(p, t, priority)
        \/ RunActive(p, t)
        \/ RunSettled(p, t)
  BY DEF Submit
<1>2. t \in Task /\ Priorities[t] \subseteq Int /\ 0 \in Int
  BY WorkQAssumption
<1> QED
  BY <1>1, <1>2

LEMMA TakeBackCases ==
  ASSUME NEW c \in Client, TakeBack(c)
  PROVE  \E t \in Task :
           Wait(c, t) \/ TryWait(c, t) \/ Cancel(c, t) \/ TryCancel(c, t)
<1>1. Tasks[c] \subseteq Task
  BY WorkQAssumption DEF Thread
<1> QED
  BY <1>1 DEF TakeBack

LEMMA NextIInv ==
  ASSUME ResetsAlone, IInv, [Next]_vars
  PROVE  IInv'
<1>1. CASE \E w \in Worker : WorkerStep(w)
  BY <1>1, WorkerIInv
<1>2. CASE \E p \in Thread : Submit(p)
  BY <1>2, SubmitCases, SubmitIInv
<1>3. CASE \E c \in Client : TakeBack(c)
  BY <1>3, TakeBackCases, TakeBackIInv
<1>4. CASE \E c \in Client : Continue(c)
  BY <1>4, ContinueIInv
<1>5. CASE MainCall
  BY <1>5, NewIInv, PurgeIInv, ResetIInv, DeleteIInv DEF MainCall
<1>6. CASE Finish
  BY <1>6, PurgeIInv
<1>7. CASE MainContinue
  BY <1>7, NewIInv, ResetIInv, DeleteIInv DEF MainContinue
<1>8. CASE (\E p \in Thread : Spurious(p)) \/ UNCHANGED vars
  BY <1>8, OtherIInv
<1> QED
  BY <1>1, <1>2, <1>3, <1>4, <1>5, <1>6, <1>7, <1>8 DEF Next

\* The inductive invariant holds of every reachable state.
THEOREM WorkQInvariant ==
  ASSUME ResetsAlone
  PROVE  Spec => []IInv
<1>1. Init => IInv
  BY InitIInv
<1>2. IInv /\ [Next]_vars => IInv'
  BY NextIInv
<1> QED
  BY <1>1, <1>2, PTL DEF Spec

(* Every variable keeps its type, for any number of threads, tasks and nodes,
   as long as nobody submits a task during a reset. *)
THEOREM WorkQTypeCorrect ==
  ASSUME ResetsAlone
  PROVE  Spec => []TypeOK
<1>1. IInv => TypeOK
  <2> SUFFICES ASSUME IInv PROVE TypeOK
    OBVIOUS
  <2>1. /\ node \in [Node -> NodeRecord]
        /\ map_task \in [Task -> Node \cup {NULL}]
        /\ queue_pending \in Seq(Node)
        /\ queue_active \in SUBSET Node /\ queue_complete \in SUBSET Node
    BY DEF IInv, Queues, Agree
  <2>2. Types
    BY DEF IInv
  <2>3. \A p \in Thread : pc[p] \in IF p \in Client THEN ClientPC ELSE WorkerPC
    BY <2>2 DEF Types, Thread
  <2> QED
    BY <2>1, <2>2, <2>3 DEF TypeOK, Types
<1>2. Spec => []IInv
  BY WorkQInvariant
<1> QED
  BY <1>1, <1>2, PTL

(* A node's status, the queue it is on and the map agree after every critical
   section: no call takes a node off a queue it is not on. *)
THEOREM WorkQQueuesAgree ==
  ASSUME ResetsAlone
  PROVE  Spec => []QueuesAgree
<1>1. IInv => QueuesAgree
  BY DEF IInv, Queues, Agree, QueuesAgree, Mapped
<1>2. Spec => []IInv
  BY WorkQInvariant
<1> QED
  BY <1>1, <1>2, PTL

\* No two workers run one task, and no active node is without its worker.
THEOREM WorkQOneWorkerPerActive ==
  ASSUME ResetsAlone
  PROVE  Spec => []OneWorkerPerActive
<1>1. IInv => OneWorkerPerActive
  BY DEF IInv
<1>2. Spec => []IInv
  BY WorkQInvariant
<1> QED
  BY <1>1, <1>2, PTL

(* As long as nobody submits a task during a reset, no node is created with
   the purge id that marks it for removal: the assertion at cc_workq.c:48. *)
THEOREM WorkQNoForcedPurge ==
  ASSUME ResetsAlone
  PROVE  Spec => []NoForcedPurge
<1>1. IInv => NoForcedPurge
  BY DEF IInv
<1>2. Spec => []IInv
  BY WorkQInvariant
<1> QED
  BY <1>1, <1>2, PTL

-----------------------------------------------------------------------------
(* Every task goes back to its owner once, when nobody polls. *)

LEMMA SettledUnchanged ==
  ASSUME SettledOnce, UNCHANGED <<lent, map_task>>
  PROVE  SettledOnce'
BY DEF SettledOnce, Mapped

LEMMA SettleSettles ==
  ASSUME IInv, SettledOnce, NEW c \in Client, NEW f \in {"wait", "cancel"},
         NEW t \in Task, NEW n \in Node, node[n].task = t,
         NEW blocking \in BOOLEAN, Settle(c, f, t, n, blocking),
         queue_active' = queue_active
  PROVE  SettledOnce'
<1>1. /\ Agree(node, map_task, queue_pending, queue_active, queue_complete)
      /\ node \in [Node -> NodeRecord]
      /\ Queues /\ Blank(node) /\ NoForcedPurge
  BY DEF IInv, Queues, Agree
<1>2. node[n].status \in Status
  BY <1>1, WorkQAssumption DEF Blank, FreeNode, NodeRecord
<1>3. CASE node[n].status \in Awaited(f)
  <2>1. UNCHANGED <<lent, map_task>>
    BY <1>3 DEF Settle
  <2> QED
    BY <2>1, SettledUnchanged
<1>4. CASE node[n].status \notin Awaited(f)
  <2>1. IF node[n].status = "PENDING" THEN RemoveLocked({n}, {}, node)
                                      ELSE RemoveLocked({}, {n}, node)
    BY <1>4 DEF Settle
  <2>2. node[n].status # "ACTIVE"
    BY <1>4 DEF Awaited
  <2>3. PICK P \in SUBSET ToSet(queue_pending), C \in SUBSET queue_complete :
          RemoveLocked(P, C, node)
    <3>1. CASE node[n].status = "PENDING"
      <4>1. {n} \in SUBSET ToSet(queue_pending)
        BY <1>1, <3>1 DEF Agree
      <4> QED
        BY <2>1, <3>1, <4>1
    <3>2. CASE node[n].status \in Settled
      <4>1. {n} \in SUBSET queue_complete /\ node[n].status # "PENDING"
        BY <1>1, <3>2 DEF Agree, Settled
      <4> QED
        BY <2>1, <4>1
    <3> QED
      BY <1>2, <2>2, <3>1, <3>2 DEF Status
  <2> QED
    BY <1>1, <2>3, RemoveKeeps
<1> QED
  BY <1>3, <1>4

LEMMA SubmitSettles ==
  ASSUME IInv, SettledOnce, NEW p \in Thread, NEW t \in Task,
         NEW priority \in Int,
         \/ RunNew(p, t, priority) \/ RunPending(p, t, priority)
         \/ RunActive(p, t) \/ RunSettled(p, t)
  PROVE  SettledOnce'
<1>1. /\ Agree(node, map_task, queue_pending, queue_active, queue_complete)
      /\ node \in [Node -> NodeRecord]
      /\ map_task \in [Task -> Node \cup {NULL}]
      /\ Queues /\ Blank(node) /\ NoForcedPurge
  BY DEF IInv, Queues, Agree
<1>2. CASE RunNew(p, t, priority)
  <2>1. PICK n \in Node : map_task' = [map_task EXCEPT ![t] = n]
    BY <1>2 DEF RunNew
  <2>2. lent' = lent \cup {t}
    BY <1>2 DEF RunNew
  <2> QED
    BY <1>1, <2>1, <2>2, WorkQAssumption DEF SettledOnce, Mapped
<1>3. CASE RunPending(p, t, priority) \/ RunActive(p, t)
  BY <1>3, SettledUnchanged DEF RunPending, RunActive
<1>4. CASE RunSettled(p, t)
  <2>1. map_task[t] \in Node /\ node[map_task[t]].status \in Settled
    BY <1>1, <1>4 DEF RunSettled, StatusOf, Settled
  <2>2. {map_task[t]} \subseteq queue_complete /\ {} \subseteq ToSet(queue_pending)
    BY <1>1, <2>1 DEF Agree
  <2>3. RemoveLocked({}, {map_task[t]}, node) /\ queue_active' = queue_active
    BY <1>4 DEF RunSettled
  <2> QED
    BY <1>1, <2>2, <2>3, RemoveKeeps
<1> QED
  BY <1>2, <1>3, <1>4

\* The calls of the main thread that give several tasks back, and delete.
LEMMA MainSettles ==
  ASSUME IInv, SettledOnce, MainCall \/ Finish \/ MainContinue
  PROVE  SettledOnce'
<1>1. /\ Agree(node, map_task, queue_pending, queue_active, queue_complete)
      /\ node \in [Node -> NodeRecord]
      /\ Queues /\ Blank(node) /\ NoForcedPurge /\ Types
  BY DEF IInv, Queues, Agree
<1>2. CASE Purge \/ ResetPurge \/ DeletePurge
  <2>1. PurgeLocked /\ queue_active' = queue_active
    BY <1>2 DEF Purge, ResetPurge, DeletePurge
  <2> QED
    BY <1>1, <2>1, PurgeKeeps
<1>3. CASE Flush \/ Finish
  <2>1. RemoveLocked({}, queue_complete, node) /\ queue_active' = queue_active
    BY <1>3 DEF Flush, Finish, FlushLocked
  <2>2. {} \subseteq ToSet(queue_pending) /\ queue_complete \subseteq queue_complete
    OBVIOUS
  <2> QED
    BY <1>1, <2>1, <2>2, RemoveKeeps
<1>4. CASE DeleteFree
  <2>1. \A n \in Node : node[n] = FreeNode
    BY <1>4 DEF DeleteFree, IInv, Emptied
  <2>2. \A t \in Task : map_task[t] = NULL
    BY <1>1, <2>1, WorkQAssumption DEF Agree, FreeNode
  <2>3. lent' = lent /\ map_task' = [t \in Task |-> NULL]
    BY <1>4 DEF DeleteFree
  <2> QED
    BY <2>2, <2>3 DEF SettledOnce, Mapped
<1>5. CASE \/ New \/ NewJoin \/ DeleteStop \/ DeleteJoin \/ ResetWait
           \/ ResetRestore \/ \E blocking \in BOOLEAN : ResetBegin(blocking)
  BY <1>5, SettledUnchanged DEF New, NewJoin, DeleteStop, DeleteJoin,
     ResetWait, ResetRestore, ResetBegin, queues
<1> QED
  BY <1>2, <1>3, <1>4, <1>5 DEF MainCall, MainContinue

LEMMA NextSettles ==
  ASSUME NeverPolls, IInv, SettledOnce, [Next]_vars
  PROVE  SettledOnce'
<1>1. CASE \E w \in Worker : WorkerStep(w)
  BY <1>1, SettledUnchanged DEF WorkerStep, WorkerStart, WorkerWake, WorkerDone
<1>2. CASE \E p \in Thread : Submit(p)
  BY <1>2, SubmitCases, SubmitSettles
<1>3. CASE \E c \in Client : TakeBack(c)
  <2>1. PICK c \in Client, t \in Task :
          Wait(c, t) \/ TryWait(c, t) \/ Cancel(c, t) \/ TryCancel(c, t)
    BY <1>3, TakeBackCases
  <2>2. PICK f \in {"wait", "cancel"}, blocking \in BOOLEAN :
          Settle(c, f, t, map_task[t], blocking)
    BY <2>1 DEF Wait, TryWait, Cancel, TryCancel, Calling
  <2>3. /\ map_task[t] \in Node /\ node[map_task[t]].task = t
        /\ queue_active' = queue_active
    BY <2>1 DEF Wait, TryWait, Cancel, TryCancel, Calling, IInv, Queues, Agree
  <2> QED
    BY <2>2, <2>3, SettleSettles
<1>4. CASE \E c \in Client : Continue(c)
  <2>1. PICK c \in Client : Continue(c)
    BY <1>4
  <2>2. CASE ReadStatus(c)
    BY <2>2 DEF ReadStatus, IInv, Held, Holding, NeverPolls
  <2>3. CASE WaitResume(c) \/ CancelResume(c)
    <3>1. PICK f \in {"wait", "cancel"} : Resume(c, f)
      BY <2>3 DEF WaitResume, CancelResume
    <3>2. /\ pc[c] \in Holding /\ queue_active' = queue_active
          /\ IF Stale(c) THEN Undefined(c)
                         ELSE Settle(c, f, want[c], cur[c], TRUE)
      BY <3>1 DEF Resume, Asleep, Holding
    <3>3. cur[c] \in Node /\ want[c] \in Task
      BY <3>2 DEF IInv, Held
    <3>4. CASE Stale(c)
      BY <3>2, <3>4, SettledUnchanged DEF Undefined
    <3>5. CASE ~Stale(c)
      BY <3>2, <3>3, <3>5, SettleSettles DEF Stale
    <3> QED
      BY <3>4, <3>5
  <2> QED
    BY <2>1, <2>2, <2>3 DEF Continue
<1>5. CASE MainCall \/ Finish \/ MainContinue
  BY <1>5, MainSettles
<1>6. CASE (\E p \in Thread : Spurious(p)) \/ UNCHANGED vars
  BY <1>6, SettledUnchanged DEF Spurious, vars, queues
<1> QED
  BY <1>1, <1>2, <1>3, <1>4, <1>5, <1>6 DEF Next

(* The tasks in the workq are exactly those whose owners have neither been
   told a final status nor got them back, when nobody polls with the
   non-blocking wait or cancel, which read the status after the unlock. *)
THEOREM WorkQSettledOnce ==
  ASSUME ResetsAlone, NeverPolls
  PROVE  Spec => []SettledOnce
<1>1. Init => SettledOnce
  BY DEF Init, SettledOnce, Mapped
<1>2. IInv /\ SettledOnce /\ [Next]_vars => SettledOnce'
  BY NextSettles
<1>3. Spec => []IInv
  BY WorkQInvariant
<1> QED
  BY <1>1, <1>2, <1>3, PTL DEF Spec

(* Delete finds no task active once it has joined the threads, and when it
   frees the queues every task has gone back and no node is left in them. *)
THEOREM WorkQDeleteSettlesAll ==
  ASSUME ResetsAlone, NeverPolls
  PROVE  Spec => []DeleteSettlesAll
<1>1. IInv /\ SettledOnce => DeleteSettlesAll
  <2> SUFFICES ASSUME IInv, SettledOnce PROVE DeleteSettlesAll
    OBVIOUS
  <2>1. ASSUME pc[Main] = "delete_purge" PROVE queue_active = {}
    <3>1. \A w \in Worker : pc[w] = "none"
      BY <2>1 DEF IInv, Phases
    <3> QED
      BY <3>1 DEF IInv, OneWorkerPerActive, Running
  <2>2. ASSUME pc[Main] = "delete_free"
        PROVE  lent = {} /\ \A n \in Node : node[n] = FreeNode
    <3>1. \A n \in Node : node[n] = FreeNode
      BY <2>2 DEF IInv, Emptied
    <3>2. \A t \in Task : map_task[t] = NULL
      BY <3>1, WorkQAssumption DEF IInv, Queues, Agree, FreeNode
    <3> QED
      BY <3>1, <3>2 DEF SettledOnce, Mapped
  <2> QED
    BY <2>1, <2>2 DEF DeleteSettlesAll
<1>2. Spec => []IInv
  BY WorkQInvariant
<1>3. Spec => []SettledOnce
  BY WorkQSettledOnce
<1> QED
  BY <1>1, <1>2, <1>3, PTL

-----------------------------------------------------------------------------
(* What a step does to a node, to the map and to the pending queue, as facts
   that the proofs about order, sleepers and resets share. *)

\* A pass through the loop of a worker.
LEMMA LoopTopEffects ==
  ASSUME NEW w \in Worker, NEW nd \in [Node -> NodeRecord],
         NEW active \in SUBSET Node, queue_pending \in Seq(Node),
         pc \in [Thread -> ClientPC \cup WorkerPC],
         LoopTop(w, nd, active)
  PROVE  /\ \A n \in Node :
              /\ node'[n].task = nd[n].task
              /\ node'[n].priority = nd[n].priority
              /\ node'[n].purge_id = nd[n].purge_id
              /\ \/ node'[n].status = nd[n].status
                 \/ n \in ToSet(queue_pending) /\ node'[n].status = "ACTIVE"
         /\ active \subseteq queue_active'
         /\ \/ queue_pending' = queue_pending /\ queue_active' = active
            \/ /\ queue_pending # << >> /\ queue_pending' = Tail(queue_pending)
               /\ queue_active' # {}
         /\ \/ wait_pending' = wait_pending
            \/ /\ state # "STOP" /\ queue_pending = << >>
               /\ queue_pending' = << >>
               /\ wait_pending' = wait_pending \cup {w} /\ pc'[w] = "loop"
         /\ \E l \in {"exit", "loop", "run"} : pc' = [pc EXCEPT ![w] = l]
<1> w \in Thread
  BY DEF Thread
<1>1. CASE state = "STOP"
  BY <1>1 DEF LoopTop
<1>2. CASE state # "STOP" /\ queue_pending = << >>
  BY <1>2 DEF LoopTop
<1>3. CASE state # "STOP" /\ queue_pending # << >>
  <2> DEFINE h == Head(queue_pending)
  <2>1. h \in Node /\ h \in ToSet(queue_pending)
    BY <1>3, HeadTailFacts
  <2>2. /\ pc' = [pc EXCEPT ![w] = "run"]
        /\ node' = [nd EXCEPT ![h].status = "ACTIVE"]
        /\ queue_active' = active \cup {h}
        /\ queue_pending' = Tail(queue_pending)
        /\ wait_pending' = wait_pending
    BY <1>3 DEF LoopTop, Begin
  <2> HIDE DEF h
  <2>3. \A n \in Node :
          /\ node'[n].task = nd[n].task
          /\ node'[n].priority = nd[n].priority
          /\ node'[n].purge_id = nd[n].purge_id
          /\ \/ node'[n].status = nd[n].status
             \/ n \in ToSet(queue_pending) /\ node'[n].status = "ACTIVE"
    BY <2>1, <2>2 DEF NodeRecord
  <2> QED
    BY <1>3, <2>2, <2>3
<1> QED
  BY <1>1, <1>2, <1>3

(* A step of a worker leaves every task in its node, takes at most the head
   off the pending queue, and when it takes something off the active queue it
   wakes the clients. *)
LEMMA WorkerEffects ==
  ASSUME IInv, NEW w \in Worker, WorkerStep(w)
  PROVE  /\ \A n \in Node :
              /\ node'[n].task = node[n].task
              /\ node'[n].priority = node[n].priority
              /\ node'[n].purge_id = node[n].purge_id
              /\ \/ node'[n].status = node[n].status
                 \/ node[n].status = "PENDING" /\ node'[n].status = "ACTIVE"
                 \/ /\ node[n].status = "ACTIVE"
                    /\ node'[n].status \in Settled /\ wait_complete' = {}
         /\ wait_complete' = {} \/ wait_complete' = wait_complete
         /\ wait_complete' # {} => queue_active \subseteq queue_active'
         /\ \/ queue_pending' = queue_pending
            \/ /\ queue_pending # << >> /\ queue_pending' = Tail(queue_pending)
               /\ queue_active' # {}
         /\ queue_active' \subseteq queue_active \/ queue_pending # << >>
         /\ \/ wait_pending' = wait_pending
            \/ /\ state # "STOP" /\ queue_pending = << >>
               /\ queue_pending' = << >>
               /\ wait_pending' = wait_pending \cup {w} /\ pc'[w] = "loop"
         /\ \E l \in {"exit", "loop", "run"} : pc' = [pc EXCEPT ![w] = l]
         /\ UNCHANGED <<state, purge_id, map_task, want, reset, fresh>>
<1>1. /\ node \in [Node -> NodeRecord] /\ queue_pending \in Seq(Node)
      /\ queue_active \in SUBSET Node /\ wait_complete \in SUBSET Client
      /\ pc \in [Thread -> ClientPC \cup WorkerPC]
      /\ \A n \in Node : n \in ToSet(queue_pending) => node[n].status = "PENDING"
  BY DEF IInv, Queues, Agree, Types
<1>2. CASE WorkerStart(w) \/ WorkerWake(w)
  <2>1. /\ LoopTop(w, node, queue_active)
        /\ UNCHANGED <<state, purge_id, map_task, want, reset, wait_complete,
                       fresh>>
    BY <1>2 DEF WorkerStart, WorkerWake
  <2>2. /\ \A n \in Node :
              /\ node'[n].task = node[n].task
              /\ node'[n].priority = node[n].priority
              /\ node'[n].purge_id = node[n].purge_id
              /\ \/ node'[n].status = node[n].status
                 \/ n \in ToSet(queue_pending) /\ node'[n].status = "ACTIVE"
        /\ queue_active \subseteq queue_active'
        /\ \/ queue_pending' = queue_pending /\ queue_active' = queue_active
           \/ /\ queue_pending # << >> /\ queue_pending' = Tail(queue_pending)
              /\ queue_active' # {}
        /\ \/ wait_pending' = wait_pending
           \/ /\ state # "STOP" /\ queue_pending = << >>
              /\ queue_pending' = << >>
              /\ wait_pending' = wait_pending \cup {w} /\ pc'[w] = "loop"
        /\ \E l \in {"exit", "loop", "run"} : pc' = [pc EXCEPT ![w] = l]
    BY <1>1, <2>1, LoopTopEffects
  <2> QED
    BY <1>1, <2>1, <2>2
<1>3. CASE WorkerDone(w)
  <2> DEFINE m == cur[w]
             nd(s) == [node EXCEPT ![m].status = s]
  <2>1. pc[w] = "run" /\ m \in queue_active
    BY <1>3 DEF WorkerDone, IInv, OneWorkerPerActive, Running
  <2>2. m \in Node /\ node[m].status = "ACTIVE"
    BY <2>1 DEF IInv, Queues, Agree
  <2>3. PICK s \in Settled : LoopTop(w, nd(s), queue_active \ {m})
    BY <1>3 DEF WorkerDone
  <2>4. /\ UNCHANGED <<state, purge_id, map_task, want, reset, fresh>>
        /\ wait_complete' = {}
    BY <1>3 DEF WorkerDone, WakeClients
  <2> HIDE DEF m
  <2>5. /\ nd(s) \in [Node -> NodeRecord]
        /\ \A n \in Node : /\ nd(s)[n].task = node[n].task
                           /\ nd(s)[n].priority = node[n].priority
                           /\ nd(s)[n].purge_id = node[n].purge_id
                           /\ nd(s)[n].status = IF n = m THEN s
                                                ELSE node[n].status
    BY <1>1, <2>2 DEF NodeRecord, Status, Settled
  <2> DEFINE after == nd(s)
             others == queue_active \ {m}
  <2>6. after \in [Node -> NodeRecord] /\ others \in SUBSET Node
        /\ LoopTop(w, after, others)
    BY <1>1, <2>3, <2>5
  <2>7. \A n \in Node : /\ after[n].task = node[n].task
                        /\ after[n].priority = node[n].priority
                        /\ after[n].purge_id = node[n].purge_id
                        /\ after[n].status = IF n = m THEN s ELSE node[n].status
    BY <2>5
  <2> HIDE DEF after, nd
  <2>8. /\ \A n \in Node :
              /\ node'[n].task = after[n].task
              /\ node'[n].priority = after[n].priority
              /\ node'[n].purge_id = after[n].purge_id
              /\ \/ node'[n].status = after[n].status
                 \/ n \in ToSet(queue_pending) /\ node'[n].status = "ACTIVE"
        /\ \/ queue_pending' = queue_pending /\ queue_active' = others
           \/ /\ queue_pending # << >> /\ queue_pending' = Tail(queue_pending)
              /\ queue_active' # {}
        /\ \/ wait_pending' = wait_pending
           \/ /\ state # "STOP" /\ queue_pending = << >>
              /\ queue_pending' = << >>
              /\ wait_pending' = wait_pending \cup {w} /\ pc'[w] = "loop"
        /\ \E l \in {"exit", "loop", "run"} : pc' = [pc EXCEPT ![w] = l]
    BY <1>1, <2>6, LoopTopEffects
  <2>9. \A n \in Node :
          /\ node'[n].task = node[n].task
          /\ node'[n].priority = node[n].priority
          /\ node'[n].purge_id = node[n].purge_id
          /\ \/ node'[n].status = node[n].status
             \/ node[n].status = "PENDING" /\ node'[n].status = "ACTIVE"
             \/ /\ node[n].status = "ACTIVE"
                /\ node'[n].status \in Settled /\ wait_complete' = {}
    BY <1>1, <2>2, <2>4, <2>7, <2>8
  <2> QED
    BY <2>4, <2>8, <2>9
<1> QED
  BY <1>2, <1>3 DEF WorkerStep

(* A call that gives back the nodes of P on the pending queue and those of C
   on the complete queue, and marks those of M for the next purge. *)
Returns(P, C, M) ==
  /\ P \subseteq ToSet(queue_pending) /\ C \subseteq queue_complete
  /\ queue_pending' = Keep(queue_pending, Node \ P)
  /\ queue_complete' = queue_complete \ C
  /\ queue_active' = queue_active
  /\ \A n \in Node : /\ n \in P \cup C => node'[n] = FreeNode
                     /\ n \notin P \cup C =>
                          /\ node'[n].task = node[n].task
                          /\ node'[n].priority = node[n].priority
                          /\ node'[n].status = node[n].status
                          /\ node'[n].purge_id = IF n \in M THEN PURGE
                                                 ELSE node[n].purge_id
  /\ \A t \in Task : map_task'[t] =
       IF map_task[t] \in P \cup C THEN NULL ELSE map_task[t]

LEMMA RemoveReturns ==
  ASSUME IInv, NEW P, P \subseteq ToSet(queue_pending),
         NEW C, C \subseteq queue_complete,
         NEW M, NEW nd,
         \A n \in Node : /\ nd[n].task = node[n].task
                         /\ nd[n].priority = node[n].priority
                         /\ nd[n].status = node[n].status
                         /\ nd[n].purge_id = IF n \in M THEN PURGE
                                             ELSE node[n].purge_id,
         RemoveLocked(P, C, nd), queue_active' = queue_active
  PROVE  Returns(P, C, M)
<1>1. /\ \A n \in P \cup C : n \in Node /\ node[n].status # "FREE"
      /\ map_task \in [Task -> Node \cup {NULL}]
      /\ \A t \in Task : map_task[t] # NULL => node[map_task[t]].task = t
      /\ \A n \in Node : node[n].status # "FREE" => map_task[node[n].task] = n
      /\ P \cup C \subseteq Node /\ NULL \notin Node
  BY InToSet, WorkQAssumption DEF IInv, Queues, Agree, Settled
<1>2. \A t \in Task : t \in {node[n].task : n \in P \cup C} <=>
                        map_task[t] \in P \cup C
  BY <1>1
<1>3. \A t \in Task : map_task'[t] =
        IF map_task[t] \in P \cup C THEN NULL ELSE map_task[t]
  BY <1>2 DEF RemoveLocked
<1>4. /\ queue_pending' = Keep(queue_pending, Node \ P)
      /\ queue_complete' = queue_complete \ C
      /\ node' = [n \in Node |-> IF n \in P \cup C THEN FreeNode ELSE nd[n]]
  BY DEF RemoveLocked
<1> QED
  BY <1>3, <1>4 DEF Returns

\* The locked part of a wait or a cancel ends in one of two ways: the client
\* holds on to the node, asleep or to read its status, or takes the task back.
Holds(c, f, t, n, blocking) ==
  /\ node[n].status \in Awaited(f)
  /\ pc' = [pc EXCEPT ![c] = IF blocking THEN Asleep(f) ELSE "read_status"]
  /\ cur' = [cur EXCEPT ![c] = n]
  /\ want' = [want EXCEPT ![c] = t]
  /\ wait_complete' = IF blocking THEN wait_complete \cup {c}
                                  ELSE wait_complete
  /\ UNCHANGED <<node, map_task, queue_pending, queue_complete, fresh>>

Takes(c, f, t, n) ==
  /\ pc' = [pc EXCEPT ![c] = "idle"]
  /\ want' = [want EXCEPT ![c] = NULL]
  /\ cur' = [cur EXCEPT ![c] = NULL]
  /\ wait_complete' = wait_complete
  /\ fresh' = fresh \ {t}
  /\ \E P, C : /\ Returns(P, C, {}) /\ P \cup C = {n}
               /\ P # {} => f = "cancel"

LEMMA SettleEffects ==
  ASSUME IInv, NEW c \in Client, NEW f \in {"wait", "cancel"},
         NEW t \in Task, NEW n \in Node, node[n].task = t,
         NEW blocking \in BOOLEAN, Settle(c, f, t, n, blocking),
         queue_active' = queue_active
  PROVE  map_task[t] = n /\ (Holds(c, f, t, n, blocking) \/ Takes(c, f, t, n))
<1>1. /\ Agree(node, map_task, queue_pending, queue_active, queue_complete)
      /\ node \in [Node -> NodeRecord]
  BY DEF IInv, Queues, Agree
<1>2. node[n].status \in Status /\ map_task[t] = n
  BY <1>1, WorkQAssumption DEF IInv, Blank, FreeNode, NodeRecord, Agree
<1>3. CASE node[n].status \in Awaited(f)
  BY <1>2, <1>3 DEF Settle, Goto, Holds
<1>4. CASE node[n].status \notin Awaited(f)
  <2>1. /\ IF node[n].status = "PENDING" THEN RemoveLocked({n}, {}, node)
                                         ELSE RemoveLocked({}, {n}, node)
        /\ pc' = [pc EXCEPT ![c] = "idle"]
        /\ want' = [want EXCEPT ![c] = NULL]
        /\ cur' = [cur EXCEPT ![c] = NULL]
        /\ wait_complete' = wait_complete /\ fresh' = fresh \ {t}
    BY <1>4 DEF Settle, Goto
  <2>2. \A m \in Node : node[m].purge_id = node[m].purge_id
    OBVIOUS
  <2>3. CASE node[n].status = "PENDING"
    <3>1. {n} \subseteq ToSet(queue_pending) /\ {} \subseteq queue_complete
      BY <1>1, <2>3 DEF Agree
    <3>2. RemoveLocked({n}, {}, node)
      BY <2>1, <2>3
    <3>3. Returns({n}, {}, {})
      BY <3>1, <3>2, RemoveReturns
    <3>4. f = "cancel"
      BY <1>4, <2>3 DEF Awaited
    <3> QED
      BY <1>2, <2>1, <3>3, <3>4 DEF Takes
  <2>4. CASE node[n].status \in Settled
    <3>1. {n} \subseteq queue_complete /\ {} \subseteq ToSet(queue_pending)
      BY <1>1, <2>4 DEF Agree
    <3>2. RemoveLocked({}, {n}, node)
      BY <2>1, <2>4 DEF Settled
    <3>3. Returns({}, {n}, {})
      BY <3>1, <3>2, RemoveReturns
    <3> QED
      BY <1>2, <2>1, <3>3 DEF Takes
  <2>5. node[n].status # "ACTIVE"
    BY <1>4 DEF Awaited
  <2> QED
    BY <1>2, <2>3, <2>4, <2>5 DEF Status
<1> QED
  BY <1>3, <1>4

LEMMA RunSettledReturns ==
  ASSUME IInv, NEW p, NEW t \in Task, RunSettled(p, t)
  PROVE  Returns({}, {map_task[t]}, {}) /\ map_task[t] \in Node
<1>1. /\ Agree(node, map_task, queue_pending, queue_active, queue_complete)
      /\ map_task \in [Task -> Node \cup {NULL}]
  BY DEF IInv, Queues, Agree
<1>2. map_task[t] \in Node /\ node[map_task[t]].status \in Settled
  BY <1>1 DEF RunSettled, StatusOf, Settled
<1>3. {map_task[t]} \subseteq queue_complete /\ {} \subseteq ToSet(queue_pending)
  BY <1>1, <1>2 DEF Agree
<1>4. RemoveLocked({}, {map_task[t]}, node) /\ queue_active' = queue_active
  BY DEF RunSettled
<1> QED
  BY <1>2, <1>3, <1>4, RemoveReturns

LEMMA PurgeReturns ==
  ASSUME IInv, PurgeLocked, queue_active' = queue_active
  PROVE  /\ Returns(ToSet(queue_pending) \cap Outdated,
                    queue_complete \cap Condemned,
                    queue_active \cap Outdated)
         /\ fresh' = {} /\ purge_id' = NextEpoch
<1> DEFINE P == ToSet(queue_pending) \cap Outdated
           C == queue_complete \cap Condemned
           M == queue_active \cap Outdated
           nd == [n \in Node |-> IF n \in M THEN [node[n] EXCEPT !.purge_id = PURGE]
                                 ELSE node[n]]
<1>1. node \in [Node -> NodeRecord]
  BY DEF IInv, Queues, Agree
<1>2. RemoveLocked(P, C, nd) /\ fresh' = {} /\ purge_id' = NextEpoch
  BY DEF PurgeLocked
<1>3. \A n \in Node : /\ nd[n].task = node[n].task
                      /\ nd[n].priority = node[n].priority
                      /\ nd[n].status = node[n].status
                      /\ nd[n].purge_id = IF n \in M THEN PURGE
                                          ELSE node[n].purge_id
  BY <1>1 DEF NodeRecord
<1>4. P \subseteq ToSet(queue_pending) /\ C \subseteq queue_complete
  OBVIOUS
<1> HIDE DEF nd, P, C, M
<1>5. Returns(P, C, M)
  BY <1>2, <1>3, <1>4, RemoveReturns
<1> QED
  BY <1>2, <1>5 DEF P, C, M

LEMMA FlushReturns ==
  ASSUME IInv, FlushLocked, queue_active' = queue_active
  PROVE  Returns({}, queue_complete, {})
<1>1. RemoveLocked({}, queue_complete, node)
  BY DEF FlushLocked
<1>2. {} \subseteq ToSet(queue_pending) /\ queue_complete \subseteq queue_complete
  OBVIOUS
<1> QED
  BY <1>1, <1>2, RemoveReturns

\* A call of a client leaves the queues or gives back one task.
LEMMA ClientQueues ==
  ASSUME IInv, NEW c \in Client, TakeBack(c) \/ Continue(c)
  PROVE  UNCHANGED queues \/ \E P, C, M : Returns(P, C, M)
<1>1. CASE TakeBack(c)
  <2>1. PICK t \in Task :
          Wait(c, t) \/ TryWait(c, t) \/ Cancel(c, t) \/ TryCancel(c, t)
    BY <1>1, TakeBackCases
  <2>2. PICK f \in {"wait", "cancel"}, blocking \in BOOLEAN :
          Settle(c, f, t, map_task[t], blocking)
    BY <2>1 DEF Wait, TryWait, Cancel, TryCancel, Calling
  <2>3. /\ map_task[t] \in Node /\ node[map_task[t]].task = t
        /\ queue_active' = queue_active
    BY <2>1 DEF Wait, TryWait, Cancel, TryCancel, Calling, IInv, Queues, Agree
  <2> DEFINE n == map_task[t]
  <2>4. n \in Node /\ node[n].task = t /\ Settle(c, f, t, n, blocking)
    BY <2>2, <2>3
  <2> HIDE DEF n
  <2>5. \/ UNCHANGED <<node, map_task, queue_pending, queue_complete>>
        \/ \E P, C, M : Returns(P, C, M)
    BY <2>3, <2>4, SettleEffects DEF Holds, Takes
  <2> QED
    BY <2>3, <2>5 DEF queues
<1>2. CASE Continue(c)
  <2>1. CASE ReadStatus(c)
    BY <2>1 DEF ReadStatus, Undefined, queues
  <2>2. CASE WaitResume(c) \/ CancelResume(c)
    <3>1. PICK f \in {"wait", "cancel"} : Resume(c, f)
      BY <2>2 DEF WaitResume, CancelResume
    <3>2. /\ pc[c] \in Holding /\ queue_active' = queue_active
          /\ IF Stale(c) THEN Undefined(c)
                         ELSE Settle(c, f, want[c], cur[c], TRUE)
      BY <3>1 DEF Resume, Asleep, Holding
    <3>3. cur[c] \in Node /\ want[c] \in Task
      BY <3>2 DEF IInv, Held
    <3>4. CASE Stale(c)
      BY <3>2, <3>4 DEF Undefined, queues
    <3>5. CASE ~Stale(c)
      <4>1. \/ UNCHANGED <<node, map_task, queue_pending, queue_complete>>
            \/ \E P, C, M : Returns(P, C, M)
        BY <3>2, <3>3, <3>5, SettleEffects DEF Stale, Holds, Takes
      <4> QED
        BY <3>2, <4>1 DEF queues
    <3> QED
      BY <3>4, <3>5
  <2> QED
    BY <1>2, <2>1, <2>2 DEF Continue
<1> QED
  BY <1>1, <1>2

\* Every step does one of these things to the queues.
LEMMA QueueSteps ==
  ASSUME IInv, [Next]_vars
  PROVE  \/ \E w \in Worker : WorkerStep(w)
         \/ \E p \in Thread : \E t \in Tasks[p] : \E priority \in Priorities[t] :
              RunNew(p, t, priority) \/ RunPending(p, t, priority)
         \/ \E p \in Thread : \E t \in Tasks[p] : RunActive(p, t)
         \/ \E P, C, M : Returns(P, C, M)
         \/ DeleteFree
         \/ UNCHANGED queues
<1>1. CASE \E p \in Thread : Submit(p)
  <2>0. PICK p \in Thread : Submit(p)
    BY <1>1
  <2>1. PICK t \in Tasks[p] :
          \/ \E priority \in Priorities[t] :
               RunNew(p, t, priority) \/ RunPending(p, t, priority)
          \/ RunActive(p, t)
          \/ RunSettled(p, t)
    BY <2>0 DEF Submit
  <2>2. t \in Task
    BY WorkQAssumption
  <2>3. CASE RunSettled(p, t)
    BY <2>2, <2>3, RunSettledReturns
  <2> QED
    BY <2>1, <2>3
<1>2. CASE \E c \in Client : TakeBack(c) \/ Continue(c)
  BY <1>2, ClientQueues
<1>3. CASE Purge \/ ResetPurge \/ DeletePurge
  <2>1. PurgeLocked /\ queue_active' = queue_active
    BY <1>3 DEF Purge, ResetPurge, DeletePurge
  <2> QED
    BY <2>1, PurgeReturns
<1>4. CASE Flush \/ Finish
  <2>1. FlushLocked /\ queue_active' = queue_active
    BY <1>4 DEF Flush, Finish
  <2> QED
    BY <2>1, FlushReturns
<1>5. CASE \/ New \/ NewJoin \/ DeleteStop \/ DeleteJoin \/ ResetWait
           \/ ResetRestore \/ \E blocking \in BOOLEAN : ResetBegin(blocking)
           \/ \E p \in Thread : Spurious(p)
  BY <1>5 DEF New, NewJoin, DeleteStop, DeleteJoin, ResetWait, ResetRestore,
     ResetBegin, Spurious, queues
<1>6. CASE UNCHANGED vars
  BY <1>6 DEF vars, queues
<1> QED
  BY <1>1, <1>2, <1>3, <1>4, <1>5, <1>6
     DEF Next, MainCall, MainContinue

-----------------------------------------------------------------------------
(* The order of the pending queue, when no task changes its priority. *)

\* The members of r are in s, in the same order.
Ordered(r, s) ==
  \A k, l \in DOMAIN r : k < l =>
    \E i, j \in DOMAIN s : i < j /\ r[k] = s[i] /\ r[l] = s[j]

\* The nodes that wait keep their order and their priorities.
KeepsOrder ==
  /\ Ordered(queue_pending', queue_pending)
  /\ ToSet(queue_pending') \subseteq ToSet(queue_pending)
  /\ \A n \in ToSet(queue_pending') : node'[n].priority = node[n].priority

\* A node joins the others where its priority belongs.
Joins(n, priority) ==
  /\ n \in Node /\ n \notin ToSet(queue_pending) /\ priority \in Int
  /\ queue_pending' = InsertAt(queue_pending, InsertPos(priority), n)
  /\ node'[n].priority = priority
  /\ \A m \in Node \ {n} : node'[m] = node[m]

\* Every node that is in use has the priority of its task.
Priced ==
  \A n \in Node : node[n].status # "FREE" =>
    node[n].priority \in Priorities[node[n].task]

LEMMA OrderedSame ==
  ASSUME NEW s
  PROVE  Ordered(s, s)
BY DEF Ordered

LEMMA OrderedTail ==
  ASSUME NEW T, NEW s \in Seq(T), s # << >>
  PROVE  /\ Ordered(Tail(s), s) /\ ToSet(Tail(s)) \subseteq ToSet(s)
<1>1. /\ Len(s) \in Nat /\ DOMAIN s = 1..Len(s)
      /\ DOMAIN Tail(s) = 1..(Len(s) - 1)
      /\ \A k \in 1..(Len(s) - 1) : Tail(s)[k] = s[k + 1]
  OBVIOUS
<1>2. Ordered(Tail(s), s)
  <2> SUFFICES ASSUME NEW k \in DOMAIN Tail(s), NEW l \in DOMAIN Tail(s), k < l
               PROVE  \E i, j \in DOMAIN s : /\ i < j
                                             /\ Tail(s)[k] = s[i]
                                             /\ Tail(s)[l] = s[j]
    BY DEF Ordered
  <2>1. k + 1 \in DOMAIN s /\ l + 1 \in DOMAIN s /\ k + 1 < l + 1
    BY <1>1
  <2>2. Tail(s)[k] = s[k + 1] /\ Tail(s)[l] = s[l + 1]
    BY <1>1
  <2> QED
    BY <2>1, <2>2
<1>3. \A k \in 1..(Len(s) - 1) : k + 1 \in DOMAIN s
  BY <1>1
<1>4. ToSet(Tail(s)) \subseteq ToSet(s)
  BY <1>1, <1>3 DEF ToSet
<1> QED
  BY <1>2, <1>4

\* A node that is moved to its own place stays there.
LEMMA MoveToSame ==
  ASSUME NEW T, NEW s \in Seq(T), NEW k \in 1..Len(s)
  PROVE  Move(s, k, k) = s
<1> DEFINE r == RemoveAt(s, k)
           x == s[k]
           m == InsertAt(r, k, x)
<1>1. /\ Len(s) \in Nat /\ x \in T /\ DOMAIN s = 1..Len(s)
      /\ k \in Nat /\ 1 <= k /\ k <= Len(s)
  OBVIOUS
<1>2. /\ r \in Seq(T) /\ Len(r) = Len(s) - 1
      /\ \A j \in 1..(Len(s) - 1) : r[j] = IF j < k THEN s[j] ELSE s[j + 1]
  BY RemoveAtElements
<1> HIDE DEF r
<1>3. k \in 1..(Len(r) + 1) /\ r \in Seq(T)
  BY <1>1, <1>2
<1> HIDE DEF x
<1>4. /\ m \in Seq(T) /\ Len(m) = Len(r) + 1
      /\ \A j \in 1..(Len(r) + 1) :
           m[j] = IF j < k THEN r[j] ELSE IF j = k THEN x ELSE r[j - 1]
  <2>1. x \in T
    BY <1>1
  <2> QED
    BY <1>3, <2>1, InsertAtElements
<1> USE DEF x
<1> HIDE DEF m
<1>5. Len(m) = Len(s) /\ DOMAIN m = 1..Len(s)
  BY <1>1, <1>2, <1>4
<1>6. ASSUME NEW j \in 1..Len(s) PROVE m[j] = s[j]
  <2>1. j \in 1..(Len(r) + 1)
    BY <1>1, <1>2
  <2>2. CASE j < k
    <3>1. j \in 1..(Len(s) - 1)
      BY <1>1, <2>2
    <3> QED
      BY <1>2, <1>4, <2>1, <2>2, <3>1
  <2>3. CASE j = k
    BY <1>4, <2>1, <2>3
  <2>4. CASE j > k
    <3>1. j - 1 \in 1..(Len(s) - 1) /\ ~(j - 1 < k) /\ ~(j < k) /\ j # k
          /\ (j - 1) + 1 = j
      BY <1>1, <2>4
    <3> QED
      BY <1>2, <1>4, <2>1, <3>1
  <2> QED
    BY <1>1, <2>2, <2>3, <2>4
<1>7. m = s
  BY <1>1, <1>4, <1>5, <1>6
<1> QED
  BY <1>7 DEF Move, m, r

LEMMA ReturnsKeepOrder ==
  ASSUME IInv, NEW P, NEW C, NEW M, Returns(P, C, M)
  PROVE  KeepsOrder
<1>1. /\ queue_pending \in Seq(Node)
      /\ \A n \in ToSet(queue_pending) : n \in Node => node[n].status = "PENDING"
      /\ \A n \in queue_complete : n \in Node /\ node[n].status \in Settled
  BY DEF IInv, Queues, Agree
<1>2. DOMAIN queue_pending = 1..Len(queue_pending)
  BY <1>1
<1>3. queue_pending' = Keep(queue_pending, Node \ P)
  BY DEF Returns
<1>4. /\ ToSet(queue_pending') = ToSet(queue_pending) \cap (Node \ P)
      /\ \A k, l \in DOMAIN queue_pending' : k < l =>
           \E i, j \in 1..Len(queue_pending) :
             /\ i < j /\ queue_pending'[k] = queue_pending[i]
             /\ queue_pending'[l] = queue_pending[j]
  <2> DEFINE r == Keep(queue_pending, Node \ P)
  <2>1. ToSet(r) = ToSet(queue_pending) \cap (Node \ P)
    BY <1>1, KeepProperties
  <2>2. \A k, l \in DOMAIN r : k < l =>
          \E i, j \in 1..Len(queue_pending) :
            i < j /\ r[k] = queue_pending[i] /\ r[l] = queue_pending[j]
    BY <1>1, KeepProperties
  <2> HIDE DEF r
  <2>3. queue_pending' = r
    BY <1>3 DEF r
  <2> QED
    BY <2>1, <2>2, <2>3
<1>5. Ordered(queue_pending', queue_pending)
  BY <1>2, <1>4 DEF Ordered
<1>6. ASSUME NEW n \in ToSet(queue_pending')
      PROVE  node'[n].priority = node[n].priority
  <2>1. n \in Node /\ n \notin P /\ n \in ToSet(queue_pending)
    BY <1>4
  <2>2. n \notin C
    BY <1>1, <2>1 DEF Returns, Settled
  <2> QED
    BY <2>1, <2>2 DEF Returns
<1> QED
  BY <1>4, <1>5, <1>6 DEF KeepsOrder

\* A pending task that is submitted again, with the priority it has, stays.
LEMMA RunPendingStays ==
  ASSUME IInv, OnePriority, Priced, NEW p, NEW t \in Task,
         NEW priority \in Priorities[t], RunPending(p, t, priority)
  PROVE  /\ queue_pending' = queue_pending
         /\ \A m \in Node : /\ node'[m].priority = node[m].priority
                            /\ node'[m].task = node[m].task
                            /\ node'[m].status = node[m].status
<1>0. /\ queue_pending \in Seq(Node) /\ node \in [Node -> NodeRecord]
      /\ map_task \in [Task -> Node \cup {NULL}]
      /\ \A u \in Task : map_task[u] # NULL => node[map_task[u]].task = u
  BY DEF IInv, Queues, Agree
<1> DEFINE n == map_task[t]
<1>1. priority \in Int
  BY WorkQAssumption
<1>2. n \in Node /\ node[n].status = "PENDING" /\ node[n].task = t
  BY <1>0 DEF RunPending, StatusOf
<1>3. node[n].priority = priority
  BY <1>1, <1>2 DEF Priced, OnePriority
<1>4. /\ node' = [node EXCEPT ![n].purge_id = purge_id,
                              ![n].priority = priority]
      /\ \E k \in InQueue(n) :
           queue_pending' = Move(queue_pending, k, MovePos(k, priority))
  BY DEF RunPending
<1> HIDE DEF n
<1>5. PICK k \in 1..Len(queue_pending) :
        /\ queue_pending[k] = n
        /\ queue_pending' = Move(queue_pending, k, MovePos(k, priority))
  BY <1>0, <1>4 DEF InQueue
<1>6. MovePos(k, priority) = k
  BY <1>1, <1>3, <1>5 DEF MovePos
<1>7. queue_pending' = queue_pending
  BY <1>0, <1>5, <1>6, MoveToSame
<1> QED
  BY <1>0, <1>2, <1>3, <1>4, <1>7 DEF NodeRecord

LEMMA StepOrders ==
  ASSUME IInv, OnePriority, Priced, [Next]_vars
  PROVE  Priced' /\ (KeepsOrder \/ \E n, priority : Joins(n, priority))
<1>0. /\ queue_pending \in Seq(Node) /\ node \in [Node -> NodeRecord]
      /\ map_task \in [Task -> Node \cup {NULL}]
      /\ \A n \in Node : n \in ToSet(queue_pending) => node[n].status = "PENDING"
      /\ \A t \in Task : map_task[t] # NULL => node[map_task[t]].task = t
  BY DEF IInv, Queues, Agree
<1>1. CASE \E w \in Worker : WorkerStep(w)
  <2>1. PICK w \in Worker : WorkerStep(w)
    BY <1>1
  <2>2. /\ \A n \in Node :
             /\ node'[n].task = node[n].task
             /\ node'[n].priority = node[n].priority
             /\ \/ node'[n].status = node[n].status
                \/ node[n].status = "PENDING" /\ node'[n].status = "ACTIVE"
                \/ /\ node[n].status = "ACTIVE"
                   /\ node'[n].status \in Settled
        /\ \/ queue_pending' = queue_pending
           \/ queue_pending # << >> /\ queue_pending' = Tail(queue_pending)
    BY <2>1, WorkerEffects
  <2>3. Priced'
    BY <2>2 DEF Priced
  <2>4. /\ Ordered(queue_pending', queue_pending)
        /\ ToSet(queue_pending') \subseteq ToSet(queue_pending)
    BY <1>0, <2>2, OrderedSame, OrderedTail
  <2>5. ToSet(queue_pending) \subseteq Node
    BY <1>0, InToSet
  <2> QED
    BY <2>2, <2>3, <2>4, <2>5 DEF KeepsOrder
<1>2. ASSUME NEW p \in Thread, NEW t \in Tasks[p],
             NEW priority \in Priorities[t], RunNew(p, t, priority)
      PROVE  Priced' /\ \E n, q : Joins(n, q)
  <2>1. t \in Task /\ priority \in Int
    BY WorkQAssumption
  <2>2. PICK n \in Node :
          /\ node[n] = FreeNode
          /\ node' = [node EXCEPT ![n] =
                        [status |-> "PENDING", priority |-> priority,
                         purge_id |-> purge_id, task |-> t]]
          /\ queue_pending' = InsertAt(queue_pending, InsertPos(priority), n)
    BY <1>2 DEF RunNew
  <2>3. /\ node'[n].priority = priority /\ node'[n].task = t
        /\ \A m \in Node \ {n} : node'[m] = node[m]
    BY <1>0, <2>2
  <2>4. n \notin ToSet(queue_pending)
    BY <1>0, <2>2 DEF FreeNode
  <2>5. Priced'
    BY <2>3 DEF Priced
  <2>6. Joins(n, priority)
    BY <2>1, <2>2, <2>3, <2>4 DEF Joins
  <2> QED
    BY <2>5, <2>6
<1>3. ASSUME NEW p \in Thread, NEW t \in Tasks[p],
             NEW priority \in Priorities[t], RunPending(p, t, priority)
      PROVE  Priced' /\ KeepsOrder
  <2>1. t \in Task
    BY WorkQAssumption
  <2>2. /\ queue_pending' = queue_pending
        /\ \A m \in Node : /\ node'[m].priority = node[m].priority
                           /\ node'[m].task = node[m].task
                           /\ node'[m].status = node[m].status
    BY <1>3, <2>1, RunPendingStays
  <2>3. ToSet(queue_pending) \subseteq Node
    BY <1>0, InToSet
  <2> QED
    BY <2>2, <2>3, OrderedSame DEF KeepsOrder, Priced
<1>4. ASSUME NEW p \in Thread, NEW t \in Tasks[p], RunActive(p, t)
      PROVE  Priced' /\ KeepsOrder
  <2>1. /\ node' = [node EXCEPT ![map_task[t]].purge_id = purge_id]
        /\ queue_pending' = queue_pending
    BY <1>4 DEF RunActive
  <2>2. \A m \in Node : /\ node'[m].priority = node[m].priority
                        /\ node'[m].task = node[m].task
                        /\ node'[m].status = node[m].status
    BY <1>0, <2>1 DEF NodeRecord
  <2>3. ToSet(queue_pending) \subseteq Node
    BY <1>0, InToSet
  <2> QED
    BY <2>1, <2>2, <2>3, OrderedSame DEF KeepsOrder, Priced
<1>5. ASSUME NEW P, NEW C, NEW M, Returns(P, C, M)
      PROVE  Priced' /\ KeepsOrder
  <2>1. KeepsOrder
    BY <1>5, ReturnsKeepOrder
  <2>2. \A n \in Node :
          \/ node'[n] = FreeNode
          \/ /\ node'[n].priority = node[n].priority
             /\ node'[n].task = node[n].task
             /\ node'[n].status = node[n].status
    BY <1>5 DEF Returns
  <2> QED
    BY <2>1, <2>2 DEF Priced, FreeNode
<1>6. CASE DeleteFree
  <2>1. queue_pending' = << >> /\ node' = node
    BY <1>6 DEF DeleteFree
  <2>2. ToSet(queue_pending') = {} /\ Ordered(queue_pending', queue_pending)
    BY <2>1 DEF ToSet, Ordered
  <2> QED
    BY <2>1, <2>2 DEF KeepsOrder, Priced
<1>7. CASE UNCHANGED queues
  BY <1>7, OrderedSame DEF queues, KeepsOrder, Priced
<1> QED
  BY <1>1, <1>2, <1>3, <1>4, <1>5, <1>6, <1>7, QueueSteps

\* Where the queue is in order, its nodes of this priority or a higher one are
\* those before the place of a new one.
LEMMA InsertPosSplits ==
  ASSUME queue_pending \in Seq(Node), node \in [Node -> NodeRecord],
         PendingSorted, NEW priority \in Int
  PROVE  \A j \in DOMAIN queue_pending :
           j < InsertPos(priority) <=>
             node[queue_pending[j]].priority >= priority
<1> DEFINE n == Len(queue_pending)
           S == {0} \cup {i \in DOMAIN queue_pending :
                            node[queue_pending[i]].priority >= priority}
<1>1. /\ n \in Nat /\ DOMAIN queue_pending = 1..n
      /\ S \in SUBSET (0..n) /\ S # {}
      /\ \A i \in 1..n : node[queue_pending[i]].priority \in Int
  BY DEF NodeRecord
<1>2. \A i \in 1..n : i \in S <=> node[queue_pending[i]].priority >= priority
  BY <1>1
<1>3. 0 \in S /\ InsertPos(priority) = 1 + Max(S)
  BY DEF InsertPos
<1> HIDE DEF S, n
<1>4. Max(S) \in S /\ Max(S) \in 0..n /\ \A i \in S : i <= Max(S)
  BY <1>1, MaxMinUpTo
<1> SUFFICES ASSUME NEW j \in 1..n
             PROVE  j < 1 + Max(S) <=> node[queue_pending[j]].priority >= priority
  BY <1>1, <1>3
<1>5. CASE node[queue_pending[j]].priority >= priority
  <2>1. j <= Max(S)
    BY <1>2, <1>4, <1>5
  <2> QED
    BY <1>4, <1>5, <2>1
<1>6. CASE ~(node[queue_pending[j]].priority >= priority)
  <2>1. j # Max(S)
    BY <1>2, <1>4, <1>6
  <2>2. ASSUME j < Max(S) PROVE FALSE
    <3>1. Max(S) \in 1..n
      BY <1>4, <2>2
    <3>2. /\ node[queue_pending[Max(S)]].priority >= priority
          /\ node[queue_pending[j]].priority >=
               node[queue_pending[Max(S)]].priority
      BY <1>1, <1>2, <1>4, <2>2, <3>1 DEF PendingSorted
    <3> QED
      BY <1>1, <1>6, <3>1, <3>2
  <2>3. ~(j < 1 + Max(S))
    BY <1>4, <2>1, <2>2
  <2> QED
    BY <1>6, <2>3
<1> QED
  BY <1>5, <1>6

(* What is where in the pending queue when a node has joined it: the node is
   at i, the others are as they were, and those before it are those whose
   priority is not lower. *)
Joined(n, priority, i) ==
  /\ i \in DOMAIN queue_pending' /\ queue_pending'[i] = n
  /\ DOMAIN queue_pending' \subseteq Nat
  /\ n \in Node /\ n \notin ToSet(queue_pending)
  /\ node'[n].priority = priority /\ priority \in Int
  /\ \A k \in DOMAIN queue_pending' \ {i} :
       \E a \in DOMAIN queue_pending :
         /\ a = IF k < i THEN k ELSE k - 1
         /\ queue_pending'[k] = queue_pending[a]
         /\ node'[queue_pending[a]].priority = node[queue_pending[a]].priority
         /\ node[queue_pending[a]].priority \in Int
         /\ k < i <=> node[queue_pending[a]].priority >= priority

LEMMA JoinsJoined ==
  ASSUME IInv, PendingSorted, NEW n, NEW priority, Joins(n, priority)
  PROVE  \E i : Joined(n, priority, i)
<1> DEFINE s == queue_pending
           r == queue_pending'
           i == InsertPos(priority)
<1>0. s \in Seq(Node) /\ node \in [Node -> NodeRecord]
  BY DEF IInv, Queues, Agree
<1>1. /\ n \in Node /\ n \notin ToSet(s) /\ priority \in Int
      /\ r = InsertAt(s, i, n)
      /\ node'[n].priority = priority
      /\ \A m \in Node \ {n} : node'[m] = node[m]
  BY DEF Joins
<1>2. i \in 1..(Len(s) + 1)
  BY <1>0, <1>1, InsertPosInRange
<1>3. \A j \in DOMAIN s : j < i <=> node[s[j]].priority >= priority
  BY <1>0, <1>1, InsertPosSplits
<1> HIDE DEF i
<1>4. /\ r \in Seq(Node) /\ Len(r) = Len(s) + 1
      /\ \A j \in 1..(Len(s) + 1) :
           r[j] = IF j < i THEN s[j] ELSE IF j = i THEN n ELSE s[j - 1]
  <2> DEFINE m == InsertAt(s, i, n)
  <2> HIDE DEF s
  <2>1. s \in Seq(Node) /\ n \in Node /\ i \in 1..(Len(s) + 1)
    BY <1>0, <1>1, <1>2
  <2>2. /\ m \in Seq(Node) /\ Len(m) = Len(s) + 1
        /\ \A j \in 1..(Len(s) + 1) :
             m[j] = IF j < i THEN s[j] ELSE IF j = i THEN n ELSE s[j - 1]
    BY <2>1, InsertAtElements
  <2> QED
    BY <1>1, <2>2
<1>5. /\ Len(s) \in Nat /\ DOMAIN s = 1..Len(s) /\ DOMAIN r = 1..(Len(s) + 1)
      /\ i \in Nat
  BY <1>0, <1>2, <1>4
<1> DEFINE at(k) == IF k < i THEN k ELSE k - 1
<1>6. ASSUME NEW k \in DOMAIN r, k # i
      PROVE  /\ at(k) \in DOMAIN s /\ r[k] = s[at(k)]
             /\ node'[s[at(k)]].priority = node[s[at(k)]].priority
             /\ node[s[at(k)]].priority \in Int
             /\ k < i <=> node[s[at(k)]].priority >= priority
  <2>1. at(k) \in DOMAIN s /\ (k < i <=> at(k) < i)
    BY <1>2, <1>5, <1>6
  <2>2. r[k] = s[at(k)]
    BY <1>4, <1>5, <1>6
  <2>3. s[at(k)] \in Node /\ s[at(k)] \in ToSet(s)
    BY <1>0, <2>1 DEF ToSet
  <2>4. s[at(k)] # n
    BY <1>1, <2>3
  <2>5. node[s[at(k)]].priority \in Int
    BY <1>0, <2>3 DEF NodeRecord
  <2>6. k < i <=> node[s[at(k)]].priority >= priority
    BY <1>3, <2>1
  <2> QED
    BY <1>1, <2>1, <2>2, <2>3, <2>4, <2>5, <2>6
<1>7. r[i] = n /\ i \in DOMAIN r /\ DOMAIN r \subseteq Nat
  BY <1>2, <1>4, <1>5
<1> QED
  BY <1>1, <1>6, <1>7 DEF Joined

LEMMA NextSorted ==
  ASSUME IInv, OnePriority, Priced, PendingSorted, [Next]_vars
  PROVE  PendingSorted'
<1> DEFINE s == queue_pending
           r == queue_pending'
<1>1. CASE KeepsOrder
  <2> SUFFICES ASSUME NEW k \in DOMAIN r, NEW l \in DOMAIN r, k < l
               PROVE  node'[r[k]].priority >= node'[r[l]].priority
    BY DEF PendingSorted
  <2>1. PICK i, j \in DOMAIN s : i < j /\ r[k] = s[i] /\ r[l] = s[j]
    BY <1>1 DEF KeepsOrder, Ordered
  <2>2. node[s[i]].priority >= node[s[j]].priority
    BY <2>1 DEF PendingSorted
  <2>3. r[k] \in ToSet(r) /\ r[l] \in ToSet(r)
    BY DEF ToSet
  <2> QED
    BY <1>1, <2>1, <2>2, <2>3 DEF KeepsOrder
<1>2. ASSUME NEW n, NEW priority, Joins(n, priority)
      PROVE  PendingSorted'
  <2>1. PICK i : Joined(n, priority, i)
    BY <1>2, JoinsJoined
  <2> SUFFICES ASSUME NEW k \in DOMAIN r, NEW l \in DOMAIN r, k < l
               PROVE  node'[r[k]].priority >= node'[r[l]].priority
    BY DEF PendingSorted
  <2>2. k \in Nat /\ l \in Nat /\ i \in Nat
    BY <2>1 DEF Joined
  <2>3. CASE k = i
    BY <2>1, <2>2, <2>3 DEF Joined
  <2>4. CASE l = i
    BY <2>1, <2>2, <2>4 DEF Joined
  <2>5. CASE k # i /\ l # i
    <3>1. PICK a \in DOMAIN s :
            /\ a = IF k < i THEN k ELSE k - 1
            /\ r[k] = s[a] /\ node'[s[a]].priority = node[s[a]].priority
      BY <2>1, <2>5 DEF Joined
    <3>2. PICK b \in DOMAIN s :
            /\ b = IF l < i THEN l ELSE l - 1
            /\ r[l] = s[b] /\ node'[s[b]].priority = node[s[b]].priority
      BY <2>1, <2>5 DEF Joined
    <3>3. a < b
      BY <2>2, <2>5, <3>1, <3>2
    <3> QED
      BY <3>1, <3>2, <3>3 DEF PendingSorted
  <2> QED
    BY <2>3, <2>4, <2>5
<1> QED
  BY <1>1, <1>2, StepOrders

LEMMA NextServesInOrder ==
  ASSUME IInv, OnePriority, Priced, PendingSorted, [Next]_vars,
         NEW k \in DOMAIN queue_pending', NEW l \in DOMAIN queue_pending', k < l
  PROVE  LET x == queue_pending'[k]
             y == queue_pending'[l]
             was == ToSet(queue_pending)
             at(n) == CHOOSE j \in DOMAIN queue_pending : queue_pending[j] = n
         IN  /\ x \in was /\ y \in was => at(x) < at(y)
             /\ x \notin was /\ y \in was =>
                  node'[x].priority > node[y].priority
<1> DEFINE s == queue_pending
           x == queue_pending'[k]
           y == queue_pending'[l]
           was == ToSet(queue_pending)
           at(n) == CHOOSE j \in DOMAIN queue_pending : queue_pending[j] = n
<1>0. \A a \in DOMAIN s : at(s[a]) = a /\ s[a] \in was
  BY DEF IInv, Queues, Agree, IsInjective, ToSet
<1>1. ASSUME KeepsOrder
      PROVE  /\ x \in was /\ y \in was => at(x) < at(y)
             /\ x \notin was /\ y \in was => node'[x].priority > node[y].priority
  <2>1. PICK a, b \in DOMAIN s : a < b /\ x = s[a] /\ y = s[b]
    BY <1>1 DEF KeepsOrder, Ordered
  <2> HIDE DEF at
  <2> QED
    BY <1>0, <2>1
<1>2. ASSUME NEW n, NEW priority, Joins(n, priority)
      PROVE  /\ x \in was /\ y \in was => at(x) < at(y)
             /\ x \notin was /\ y \in was => node'[x].priority > node[y].priority
  <2>1. PICK i : Joined(n, priority, i)
    BY <1>2, JoinsJoined
  <2>2. k \in Nat /\ l \in Nat /\ i \in Nat
    BY <2>1 DEF Joined
  <2> HIDE DEF at
  <2>3. CASE k = i
    BY <2>1, <2>2, <2>3 DEF Joined
  <2>4. CASE l = i
    <3>1. y \notin was
      BY <2>1, <2>4 DEF Joined
    <3> QED
      BY <3>1
  <2>5. CASE k # i /\ l # i
    <3>1. PICK a \in DOMAIN s : a = (IF k < i THEN k ELSE k - 1) /\ x = s[a]
      BY <2>1, <2>5 DEF Joined
    <3>2. PICK b \in DOMAIN s : b = (IF l < i THEN l ELSE l - 1) /\ y = s[b]
      BY <2>1, <2>5 DEF Joined
    <3>3. a < b
      BY <2>2, <2>5, <3>1, <3>2
    <3> QED
      BY <1>0, <3>1, <3>2, <3>3
  <2> QED
    BY <2>3, <2>4, <2>5
<1> HIDE DEF x, y, was, at
<1>3. /\ x \in was /\ y \in was => at(x) < at(y)
      /\ x \notin was /\ y \in was => node'[x].priority > node[y].priority
  BY <1>1, <1>2, StepOrders
<1> QED
  BY <1>3 DEF x, y, was, at

\* The invariant about the order of the pending queue.
InOrder == Priced /\ PendingSorted

LEMMA InOrderHolds ==
  ASSUME ResetsAlone, OnePriority
  PROVE  Spec => []InOrder
<1>1. Init => InOrder
  BY DEF Init, Priced, PendingSorted, FreeNode, InOrder
<1>2. IInv /\ InOrder /\ [Next]_vars => InOrder'
  BY NextSorted, StepOrders DEF InOrder
<1>3. Spec => []IInv
  BY WorkQInvariant
<1> QED
  BY <1>1, <1>2, <1>3, PTL DEF Spec

(* Tasks wait in the order of their priorities, whatever is submitted, begun,
   cancelled and purged, as long as no task changes its priority: one that
   does may stay where it is (cc_workq.c:578). *)
THEOREM WorkQPendingSorted ==
  ASSUME ResetsAlone, OnePriority
  PROVE  Spec => []PendingSorted
<1>1. InOrder => PendingSorted
  BY DEF InOrder
<1> QED
  BY <1>1, InOrderHolds, PTL

(* No step of anybody lets a task overtake another: those that stay pending
   keep their order, and a new one goes behind its equals. *)
THEOREM WorkQFirstComeFirstServed ==
  ASSUME ResetsAlone, OnePriority
  PROVE  Spec => FirstComeFirstServed
<1> DEFINE Served ==
             \A i, j \in DOMAIN queue_pending' :
               LET x == queue_pending'[i]
                   y == queue_pending'[j]
                   was == ToSet(queue_pending)
                   at(n) == CHOOSE k \in DOMAIN queue_pending :
                              queue_pending[k] = n
               IN  i < j =>
                     /\ x \in was /\ y \in was => at(x) < at(y)
                     /\ x \notin was /\ y \in was =>
                          node'[x].priority > node[y].priority
<1>1. ASSUME IInv, InOrder, [Next]_vars PROVE Served
  <2>1. Priced /\ PendingSorted
    BY <1>1 DEF InOrder
  <2> QED
    BY <1>1, <2>1, NextServesInOrder
<1>2. IInv /\ InOrder /\ [Next]_vars => [Served]_vars
  BY <1>1
<1>3. Spec => []IInv
  BY WorkQInvariant
<1> QED
  BY <1>2, <1>3, InOrderHolds, PTL DEF Spec, FirstComeFirstServed

-----------------------------------------------------------------------------
(* Purges and resets.  The purge_id that the nodes are compared with is the
   one a reset has saved, as long as it runs. *)

Epoch == IF pc[Main] \in InReset THEN reset.purge_id ELSE purge_id

Outside == pc[Main] \notin InReset \cup InDelete \cup {"new_join"}

(* A reset has left nothing but active nodes that are marked, and what became
   of them since; a blocking one has waited until none is active. *)
Drained ==
  /\ pc[Main] \in InReset => purge_id = PURGE
  /\ pc[Main] \in {"reset_wait", "reset_purge_complete"} => reset.blocking
  /\ pc[Main] \in InReset \ {"reset_purge"} =>
       \A n \in Node : node[n].status # "FREE" =>
         node[n].status # "PENDING" /\ node[n].purge_id = PURGE
  /\ pc[Main] = "reset_purge_complete" =>
       \A n \in Node : node[n].status # "ACTIVE"
  /\ pc[Main] = "reset_restore" /\ reset.blocking =>
       \A n \in Node : node[n].status = "FREE"

\* A node has the current purge_id if its task was submitted since the purge.
Epochs ==
  pc[Main] \notin InDelete =>
    \A n \in Node : node[n].status # "FREE" =>
      (node[n].task \in fresh <=> node[n].purge_id = Epoch)

\* There are no nodes before the workq is complete.
Unused ==
  state = "NONE" \/ pc[Main] = "new_join" =>
    \A n \in Node : node[n].status = "FREE"

Purges == Drained /\ Epochs /\ Unused

\* A step that only lets nodes go, or lets workers take and file them.
Fades ==
  \A n \in Node :
    \/ node'[n].status = "FREE"
    \/ /\ node'[n].task = node[n].task
       /\ node'[n].purge_id = node[n].purge_id
       /\ node[n].task \in fresh' <=> node[n].task \in fresh
       /\ \/ node'[n].status = node[n].status
          \/ node[n].status = "PENDING" /\ node'[n].status = "ACTIVE"
          \/ node[n].status = "ACTIVE" /\ node'[n].status \in Settled

LEMMA FadesPurges ==
  ASSUME Purges, Fades, UNCHANGED <<state, purge_id, reset>>,
         pc'[Main] = pc[Main] \/ (Outside /\ Outside')
  PROVE  Purges'
<1>1. /\ pc'[Main] \in InReset => pc'[Main] = pc[Main]
      /\ pc'[Main] \in InDelete <=> pc[Main] \in InDelete
      /\ pc'[Main] = "new_join" <=> pc[Main] = "new_join"
      /\ Epoch' = Epoch
  BY DEF Outside, Epoch
<1>2. \A n \in Node : node[n].status = "FREE" => node'[n].status = "FREE"
  BY DEF Fades, Settled
<1>3. Drained'
  <2>1. ASSUME pc'[Main] \in InReset PROVE Drained'
    <3>1. pc'[Main] = pc[Main]
      BY <1>1, <2>1
    <3> QED
      BY <1>2, <3>1 DEF Purges, Drained, Fades, Settled, InReset
  <2> QED
    BY <2>1 DEF Drained, InReset
<1>4. Epochs'
  BY <1>1, <1>2 DEF Purges, Epochs, Fades
<1>5. Unused'
  BY <1>1, <1>2 DEF Purges, Unused
<1> QED
  BY <1>3, <1>4, <1>5 DEF Purges

\* The tasks of two nodes in use are different.
LEMMA TasksDiffer ==
  ASSUME IInv, NEW m \in Node, NEW n \in Node,
         node[m].status # "FREE", node[n].status # "FREE",
         node[m].task = node[n].task
  PROVE  m = n
BY DEF IInv, Queues, Agree

\* Nodes go back, and so do their tasks.
LEMMA ReturnsFades ==
  ASSUME IInv, NEW P, NEW C, Returns(P, C, {}),
         fresh' = fresh \ {node[n].task : n \in P \cup C}
  PROVE  Fades
<1> SUFFICES ASSUME NEW n \in Node, node'[n].status # "FREE"
             PROVE  /\ node'[n].task = node[n].task
                    /\ node'[n].purge_id = node[n].purge_id
                    /\ node[n].task \in fresh' <=> node[n].task \in fresh
                    /\ node'[n].status = node[n].status
  BY DEF Fades
<1>1. n \notin P \cup C
  BY DEF Returns, FreeNode
<1>2. \A m \in P \cup C : m \in Node /\ node[m].status # "FREE"
  BY InToSet DEF Returns, IInv, Queues, Agree, Settled
<1>3. node[n].status # "FREE" /\ node'[n].status = node[n].status
  BY <1>1 DEF Returns
<1>4. \A m \in P \cup C : node[m].task # node[n].task
  BY <1>1, <1>2, <1>3, TasksDiffer
<1> QED
  BY <1>1, <1>3, <1>4 DEF Returns

LEMMA SubmitPurges ==
  ASSUME ResetsAlone, IInv, Purges, NEW p \in Thread, NEW t \in Task,
         NEW priority \in Int,
         \/ RunNew(p, t, priority) \/ RunPending(p, t, priority)
         \/ RunActive(p, t) \/ RunSettled(p, t)
  PROVE  Purges'
<1>0. /\ node \in [Node -> NodeRecord] /\ map_task \in [Task -> Node \cup {NULL}]
      /\ \A s \in Task : map_task[s] # NULL => node[map_task[s]].task = s
      /\ \A n \in Node : node[n].status # "FREE" => map_task[node[n].task] = n
  BY DEF IInv, Queues, Agree
<1>1. UNCHANGED <<state, purge_id, reset, pc>>
  BY DEF RunNew, RunPending, RunActive, RunSettled
<1>2. MayCall(p, "run") /\ purge_id \in {0, 1}
  BY MayRun DEF RunNew, RunPending, RunActive, RunSettled, IInv
<1>3. pc[Main] \notin InReset
  BY <1>2 DEF Purges, Drained, PURGE
<1>4. state # "NONE" /\ pc[Main] # "new_join"
  <2>1. CASE p \in Worker
    <3>1. cur[p] \in queue_active
      BY <1>2, <2>1 DEF MayCall, IInv, OneWorkerPerActive, Running
    <3>2. cur[p] \in Node /\ node[cur[p]].status # "FREE"
      BY <3>1 DEF IInv, Queues, Agree
    <3> QED
      BY <3>2 DEF Purges, Unused
  <2>2. CASE p \notin Worker
    BY <1>2, <2>2 DEF MayCall, IInv, Phases
  <2> QED
    BY <2>1, <2>2
<1>5. Drained' /\ Unused'
  BY <1>1, <1>3, <1>4 DEF Drained, Unused, InReset
<1>6. Epoch' = purge_id /\ Epoch = purge_id
  BY <1>1, <1>3 DEF Epoch
<1>7. CASE RunNew(p, t, priority)
  <2>1. PICK n \in Node :
          node' = [node EXCEPT ![n] =
                     [status |-> "PENDING", priority |-> priority,
                      purge_id |-> purge_id, task |-> t]]
    BY <1>7 DEF RunNew
  <2>2. map_task[t] = NULL /\ fresh' = fresh \cup {t}
    BY <1>7 DEF RunNew
  <2>3. /\ node'[n].task = t /\ node'[n].purge_id = purge_id
        /\ \A m \in Node \ {n} : node'[m] = node[m]
    BY <1>0, <2>1
  <2>4. \A m \in Node : node[m].status # "FREE" => node[m].task # t
    BY <1>0, <2>2, WorkQAssumption
  <2>5. Epochs'
    BY <1>1, <1>6, <2>2, <2>3, <2>4 DEF Purges, Epochs
  <2> QED
    BY <1>5, <2>5 DEF Purges
<1>8. CASE RunPending(p, t, priority) \/ RunActive(p, t)
  <2> DEFINE n == map_task[t]
  <2>1. n \in Node /\ node[n].task = t
    BY <1>0, <1>8 DEF RunPending, RunActive, StatusOf
  <2>2. fresh' = fresh \cup {t}
    BY <1>8 DEF RunPending, RunActive
  <2>3. \/ node' = [node EXCEPT ![n].purge_id = purge_id,
                                ![n].priority = priority]
        \/ node' = [node EXCEPT ![n].purge_id = purge_id]
    BY <1>8 DEF RunPending, RunActive
  <2> HIDE DEF n
  <2>4. /\ node'[n].purge_id = purge_id /\ node'[n].task = t
        /\ node'[n].status = node[n].status
        /\ \A m \in Node \ {n} : node'[m] = node[m]
    BY <1>0, <2>1, <2>3 DEF NodeRecord
  <2>5. \A m \in Node \ {n} : node[m].status # "FREE" => node[m].task # t
    BY <1>0, <2>1 DEF n
  <2>6. Epochs'
    BY <1>1, <1>6, <2>2, <2>4, <2>5 DEF Purges, Epochs
  <2> QED
    BY <1>5, <2>6 DEF Purges
<1>9. CASE RunSettled(p, t)
  <2> DEFINE n == map_task[t]
  <2>1. Returns({}, {n}, {}) /\ n \in Node
    BY <1>9, RunSettledReturns
  <2>2. fresh' = fresh \ {node[m].task : m \in {} \cup {n}}
    BY <1>0, <1>9, <2>1, WorkQAssumption DEF RunSettled
  <2> HIDE DEF n
  <2>3. Fades
    BY <2>1, <2>2, ReturnsFades
  <2>4. pc'[Main] = pc[Main] /\ UNCHANGED <<state, purge_id, reset>>
    BY <1>1
  <2> QED
    BY <2>3, <2>4, FadesPurges
<1> QED
  BY <1>7, <1>8, <1>9

LEMMA SettlePurges ==
  ASSUME IInv, Purges, NEW c \in Client, NEW f \in {"wait", "cancel"},
         NEW t \in Task, NEW n \in Node, node[n].task = t,
         NEW blocking \in BOOLEAN, Settle(c, f, t, n, blocking),
         pc[c] \in {"idle"} \cup Holding,
         UNCHANGED <<state, purge_id, queue_active, reset>>
  PROVE  Purges'
<1>1. pc \in [Thread -> ClientPC \cup WorkerPC] /\ c \in Thread /\ Main \in Thread
  BY WorkQAssumption DEF IInv, Types, Thread
<1>2. \/ /\ UNCHANGED <<node, fresh>>
         /\ \E l \in Holding : pc' = [pc EXCEPT ![c] = l]
      \/ /\ pc' = [pc EXCEPT ![c] = "idle"] /\ fresh' = fresh \ {t}
         /\ \E P, C : Returns(P, C, {}) /\ P \cup C = {n}
  <2>1. Holds(c, f, t, n, blocking) \/ Takes(c, f, t, n)
    BY SettleEffects
  <2>2. CASE Holds(c, f, t, n, blocking)
    <3> DEFINE l == IF blocking THEN Asleep(f) ELSE "read_status"
    <3>1. l \in Holding
      BY DEF Asleep, Holding
    <3>2. UNCHANGED <<node, fresh>> /\ pc' = [pc EXCEPT ![c] = l]
      BY <2>2 DEF Holds
    <3> HIDE DEF l
    <3> QED
      BY <3>1, <3>2
  <2>3. CASE Takes(c, f, t, n)
    <3>1. /\ pc' = [pc EXCEPT ![c] = "idle"] /\ fresh' = fresh \ {t}
          /\ \E P, C : Returns(P, C, {}) /\ P \cup C = {n}
      BY <2>3 DEF Takes
    <3> QED
      BY <3>1
  <2> QED
    BY <2>1, <2>2, <2>3
<1>3. Fades
  <2>1. CASE UNCHANGED <<node, fresh>>
    BY <2>1 DEF Fades
  <2>2. ASSUME fresh' = fresh \ {t}, NEW P, NEW C, Returns(P, C, {}),
               P \cup C = {n}
        PROVE  Fades
    <3>1. fresh' = fresh \ {node[m].task : m \in P \cup C}
      BY <2>2
    <3> QED
      BY <2>2, <3>1, ReturnsFades
  <2> QED
    BY <1>2, <2>1, <2>2
<1>4. pc'[Main] = pc[Main] \/ (Outside /\ Outside')
  <2>0. PICK l \in {"idle"} \cup Holding : pc' = [pc EXCEPT ![c] = l]
    BY <1>2
  <2>1. CASE c = Main
    <3>1. pc'[Main] \in {"idle"} \cup Holding
      BY <1>1, <2>0, <2>1
    <3> QED
      BY <2>1, <3>1 DEF Outside, Holding, InReset, InDelete
  <2>2. CASE c # Main
    BY <1>1, <2>0, <2>2
  <2> QED
    BY <2>1, <2>2
<1> QED
  BY <1>3, <1>4, FadesPurges

LEMMA ClientPurges ==
  ASSUME IInv, Purges, NEW c \in Client, TakeBack(c) \/ Continue(c)
  PROVE  Purges'
<1>1. CASE TakeBack(c)
  <2>1. PICK t \in Task :
          Wait(c, t) \/ TryWait(c, t) \/ Cancel(c, t) \/ TryCancel(c, t)
    BY <1>1, TakeBackCases
  <2>2. PICK f \in {"wait", "cancel"}, blocking \in BOOLEAN :
          Settle(c, f, t, map_task[t], blocking)
    BY <2>1 DEF Wait, TryWait, Cancel, TryCancel, Calling
  <2> DEFINE n == map_task[t]
  <2>3. /\ n \in Node /\ node[n].task = t
        /\ pc[c] = "idle"
        /\ UNCHANGED <<state, purge_id, queue_active, reset>>
    BY <2>1, WorkQAssumption
       DEF Wait, TryWait, Cancel, TryCancel, Calling, MayCall, IInv, Queues,
           Agree
  <2>4. Settle(c, f, t, n, blocking)
    BY <2>2
  <2> HIDE DEF n
  <2> QED
    BY <2>3, <2>4, SettlePurges
<1>2. CASE Continue(c)
  <2>1. /\ pc[c] \in Holding
        /\ UNCHANGED <<state, purge_id, queue_active, reset>>
        /\ \/ ReadStatus(c)
           \/ \E f \in {"wait", "cancel"} :
                IF Stale(c) THEN Undefined(c)
                            ELSE Settle(c, f, want[c], cur[c], TRUE)
    BY <1>2 DEF Continue, WaitResume, CancelResume, Resume, ReadStatus, Asleep,
                Holding
  <2>2. cur[c] \in Node /\ want[c] \in Task
    BY <2>1 DEF IInv, Held
  <2>3. CASE /\ UNCHANGED <<node, fresh>>
             /\ \E l \in {"idle", "undefined"} : pc' = [pc EXCEPT ![c] = l]
    <3>1. Fades
      BY <2>3 DEF Fades
    <3>2. pc'[Main] = pc[Main] \/ (Outside /\ Outside')
      <4>1. pc \in [Thread -> ClientPC \cup WorkerPC] /\ c \in Thread
            /\ Main \in Thread
        BY WorkQAssumption DEF IInv, Types, Thread
      <4>2. PICK l \in {"idle", "undefined"} : pc' = [pc EXCEPT ![c] = l]
        BY <2>3
      <4>3. CASE c = Main
        BY <2>1, <4>1, <4>2, <4>3 DEF Outside, Holding, InReset, InDelete
      <4>4. CASE c # Main
        BY <4>1, <4>2, <4>4
      <4> QED
        BY <4>3, <4>4
    <3> QED
      BY <2>1, <3>1, <3>2, FadesPurges
  <2>4. CASE ReadStatus(c)
    BY <2>3, <2>4 DEF ReadStatus, Undefined, Goto
  <2>5. ASSUME NEW f \in {"wait", "cancel"},
               IF Stale(c) THEN Undefined(c)
                           ELSE Settle(c, f, want[c], cur[c], TRUE)
        PROVE  Purges'
    <3>1. CASE Stale(c)
      BY <2>3, <2>5, <3>1 DEF Undefined, Goto
    <3>2. CASE ~Stale(c)
      <4>1. Settle(c, f, want[c], cur[c], TRUE) /\ node[cur[c]].task = want[c]
        BY <2>5, <3>2 DEF Stale
      <4>2. pc[c] \in {"idle"} \cup Holding
        BY <2>1
      <4> QED
        BY <2>1, <2>2, <4>1, <4>2, SettlePurges
    <3> QED
      BY <3>1, <3>2
  <2> QED
    BY <2>1, <2>4, <2>5
<1> QED
  BY <1>1, <1>2

\* Every purge leaves only nodes that the purge_id it sets does not keep.
LEMMA PurgeFilters ==
  ASSUME IInv, PurgeLocked, queue_active' = queue_active
  PROVE  /\ fresh' = {} /\ purge_id' = NextEpoch
         /\ \A n \in Node : node'[n].status # "FREE" =>
              /\ node'[n].status = node[n].status
              /\ node'[n].purge_id \in {purge_id, PURGE}
              /\ purge_id = PURGE => /\ node[n].status = "ACTIVE"
                                     /\ node'[n].purge_id = PURGE
         /\ purge_id # PURGE =>
              \A t \in Mapped :
                map_task'[t] = IF \/ node[map_task[t]].purge_id = purge_id
                                  \/ node[map_task[t]].status = "ACTIVE"
                               THEN map_task[t] ELSE NULL
<1> DEFINE P == ToSet(queue_pending) \cap Outdated
           C == queue_complete \cap Condemned
           M == queue_active \cap Outdated
<1>1. Returns(P, C, M) /\ fresh' = {} /\ purge_id' = NextEpoch
  BY PurgeReturns
<1>2. /\ node \in [Node -> NodeRecord]
      /\ map_task \in [Task -> Node \cup {NULL}]
      /\ \A n \in Node :
           /\ n \in ToSet(queue_pending) <=> node[n].status = "PENDING"
           /\ n \in queue_active         <=> node[n].status = "ACTIVE"
           /\ n \in queue_complete       <=> node[n].status \in Settled
      /\ \A t \in Task : map_task[t] # NULL => node[map_task[t]].task = t
  BY DEF IInv, Queues, Agree
<1>3. \A n \in Node :
        /\ n \in P <=> n \in ToSet(queue_pending) /\ node[n].purge_id # purge_id
        /\ n \in C <=> /\ n \in queue_complete
                       /\ \/ node[n].purge_id # purge_id
                          \/ node[n].purge_id = PURGE
        /\ n \in M <=> n \in queue_active /\ node[n].purge_id # purge_id
  BY DEF Outdated, Condemned
<1> HIDE DEF P, C, M
<1>4. ASSUME NEW n \in Node, node'[n].status # "FREE"
      PROVE  /\ node'[n].status = node[n].status
             /\ node'[n].purge_id \in {purge_id, PURGE}
             /\ purge_id = PURGE => /\ node[n].status = "ACTIVE"
                                    /\ node'[n].purge_id = PURGE
  <2>1. n \notin P \cup C
    BY <1>1, <1>4 DEF Returns, FreeNode
  <2>2. /\ node'[n].status = node[n].status
        /\ node'[n].purge_id = IF n \in M THEN PURGE ELSE node[n].purge_id
    BY <1>1, <2>1 DEF Returns
  <2>3. node[n].status \in {"PENDING", "ACTIVE"} \cup Settled
    BY <1>2, <1>4, <2>2 DEF NodeRecord, Status
  <2>4. CASE node[n].status = "PENDING"
    <3>1. node[n].purge_id = purge_id /\ n \notin M
      BY <1>2, <1>3, <2>1, <2>4
    <3>2. purge_id # PURGE
      BY <2>4, <3>1 DEF IInv, NoForcedPurge, PURGE
    <3> QED
      BY <2>2, <3>1, <3>2
  <2>5. CASE node[n].status = "ACTIVE"
    BY <1>2, <1>3, <2>2, <2>5
  <2>6. CASE node[n].status \in Settled
    <3>1. n \notin M
      BY <1>2, <1>3, <2>6 DEF Settled
    <3>2. node[n].purge_id = purge_id /\ node[n].purge_id # PURGE
      BY <1>2, <1>3, <2>1, <2>6
    <3> QED
      BY <2>2, <3>1, <3>2
  <2> QED
    BY <2>3, <2>4, <2>5, <2>6
<1>5. ASSUME purge_id # PURGE, NEW t \in Mapped
      PROVE  map_task'[t] = IF \/ node[map_task[t]].purge_id = purge_id
                               \/ node[map_task[t]].status = "ACTIVE"
                            THEN map_task[t] ELSE NULL
  <2> DEFINE n == map_task[t]
  <2>1. t \in Task /\ n \in Node /\ node[n].task = t
    BY <1>2 DEF Mapped
  <2>2. map_task'[t] = IF n \in P \cup C THEN NULL ELSE n
    BY <1>1, <2>1 DEF Returns
  <2>3. node[n].status \in {"PENDING", "ACTIVE"} \cup Settled
    BY <1>2, <2>1, WorkQAssumption
       DEF NodeRecord, Status, IInv, Blank, FreeNode
  <2>4. n \in P \cup C <=> ~(\/ node[n].purge_id = purge_id
                             \/ node[n].status = "ACTIVE")
    BY <1>2, <1>3, <1>5, <2>1, <2>3 DEF Settled
  <2> HIDE DEF n
  <2>5. map_task'[t] = IF \/ node[n].purge_id = purge_id
                          \/ node[n].status = "ACTIVE"
                       THEN n ELSE NULL
    BY <2>2, <2>4
  <2> QED
    BY <2>5 DEF n
<1> QED
  BY <1>1, <1>4, <1>5

LEMMA MainPurges ==
  ASSUME IInv, Purges, MainCall \/ Finish \/ MainContinue
  PROVE  Purges'
<1>0. /\ pc \in [Thread -> ClientPC \cup WorkerPC] /\ Main \in Thread
      /\ Main \notin Worker
      /\ reset \in [blocking : BOOLEAN, purge_id : {0, 1, PURGE}]
  BY WorkQAssumption DEF IInv, Types, Thread
<1>1. CASE New
  <2>1. \A n \in Node : node'[n].status = "FREE"
    BY <1>1 DEF New, Purges, Unused, queues
  <2>2. pc'[Main] \notin InReset
    BY <1>0, <1>1 DEF New, InReset
  <2> QED
    BY <2>1, <2>2 DEF Purges, Drained, Epochs, Unused, InReset
<1>2. CASE NewJoin
  <2>1. \A n \in Node : node'[n].status = "FREE"
    BY <1>2 DEF NewJoin, Purges, Unused, queues
  <2>2. pc'[Main] = "idle"
    BY <1>0, <1>2 DEF NewJoin
  <2> QED
    BY <2>1, <2>2 DEF Purges, Drained, Epochs, Unused, InReset
<1>3. CASE Purge
  <2>1. /\ PurgeLocked /\ queue_active' = queue_active
        /\ UNCHANGED <<state, pc, reset>> /\ pc[Main] = "idle"
        /\ state = "RUNNING"
    BY <1>0, <1>3 DEF Purge, MayCall
  <2>2. purge_id \in {0, 1}
    BY <2>1 DEF IInv, Phases, InReset
  <2>3. /\ fresh' = {} /\ purge_id' = NextEpoch
        /\ \A n \in Node : node'[n].status # "FREE" =>
             node'[n].purge_id \in {purge_id, PURGE}
    BY <2>1, PurgeFilters
  <2>4. purge_id' = 1 - purge_id
    BY <2>2, <2>3 DEF NextEpoch, PURGE
  <2>5. Epoch' = 1 - purge_id
    BY <2>1, <2>4 DEF Epoch, InReset
  <2>6. 1 - purge_id # purge_id /\ 1 - purge_id # PURGE
    BY <2>2 DEF PURGE
  <2>7. Epochs'
    BY <2>3, <2>5, <2>6 DEF Epochs
  <2> QED
    BY <2>1, <2>7 DEF Purges, Drained, Unused, InReset
<1>4. CASE Flush \/ Finish
  <2>1. /\ FlushLocked /\ queue_active' = queue_active
        /\ UNCHANGED <<state, purge_id, reset>>
    BY <1>4 DEF Flush, Finish
  <2>2. Returns({}, queue_complete, {})
    BY <2>1, FlushReturns
  <2>3. fresh' = fresh \ {node[n].task : n \in {} \cup queue_complete}
    BY <2>1 DEF FlushLocked
  <2>4. Fades
    BY <2>2, <2>3, ReturnsFades
  <2>5. pc[Main] \in {"idle", "finish"} /\ pc'[Main] \in {"idle", "finish"}
    BY <1>0, <1>4 DEF Flush, Finish, MayCall, Goto
  <2>6. Outside /\ Outside'
    BY <2>5 DEF Outside, InReset, InDelete
  <2> QED
    BY <2>1, <2>4, <2>6, FadesPurges
<1>5. ASSUME NEW blocking \in BOOLEAN, ResetBegin(blocking)
      PROVE  Purges'
  <2>1. /\ pc[Main] = "idle" /\ state = "RUNNING"
        /\ pc'[Main] = "reset_purge" /\ purge_id' = PURGE
        /\ reset'.purge_id = purge_id
        /\ UNCHANGED <<state, node, fresh>>
    BY <1>0, <1>5 DEF ResetBegin, MayCall, Goto, queues
  <2>2. Epoch' = Epoch
    BY <2>1 DEF Epoch, InReset
  <2>3. Epochs'
    BY <2>1, <2>2 DEF Purges, Epochs, InDelete
  <2> QED
    BY <2>1, <2>3 DEF Purges, Drained, Unused
<1>6. CASE ResetPurge
  <2>1. /\ PurgeLocked /\ queue_active' = queue_active
        /\ pc[Main] \in {"reset_purge", "reset_purge_complete"}
        /\ pc'[Main] = AfterResetPurge
        /\ UNCHANGED <<state, reset>>
    BY <1>0, <1>6 DEF ResetPurge, Goto
  <2>2. purge_id = PURGE /\ reset.purge_id \in {0, 1}
    BY <2>1 DEF Purges, Drained, InReset, IInv, Phases
  <2>3. /\ fresh' = {} /\ purge_id' = PURGE
        /\ \A n \in Node : node'[n].status # "FREE" =>
             /\ node'[n].status = node[n].status /\ node[n].status = "ACTIVE"
             /\ node'[n].purge_id = PURGE
    BY <2>1, <2>2, PurgeFilters DEF NextEpoch
  <2>4. Epoch' \in {0, 1}
    BY <2>1, <2>2 DEF Epoch, AfterResetPurge, InReset
  <2>5. Epochs'
    BY <2>3, <2>4 DEF Epochs, PURGE
  <2>6. Unused'
    BY <2>1 DEF Unused, AfterResetPurge, IInv, Phases
  <2>7. pc[Main] = "reset_purge_complete" =>
          reset.blocking /\ \A n \in Node : node'[n].status = "FREE"
    BY <2>3 DEF Purges, Drained
  <2>8. CASE pc'[Main] = "reset_wait"
    BY <2>1, <2>3, <2>5, <2>6, <2>8 DEF Purges, Drained, AfterResetPurge
  <2>9. CASE pc'[Main] = "reset_restore"
    BY <2>1, <2>3, <2>5, <2>6, <2>7, <2>9 DEF Purges, Drained, AfterResetPurge
  <2> QED
    BY <2>1, <2>8, <2>9 DEF AfterResetPurge
<1>7. CASE ResetWait
  <2>1. /\ pc[Main] = "reset_wait"
        /\ \/ pc' = pc
           \/ queue_active = {} /\ pc'[Main] = "reset_purge_complete"
        /\ UNCHANGED <<state, purge_id, node, reset, fresh>>
    BY <1>0, <1>7 DEF ResetWait, Goto, queues
  <2>2. Epoch' = Epoch
    BY <2>1 DEF Epoch, InReset
  <2>3. queue_active = {} => \A n \in Node : node[n].status # "ACTIVE"
    BY DEF IInv, Queues, Agree
  <2>4. Drained'
    BY <2>1, <2>3 DEF Purges, Drained, InReset
  <2>5. Epochs'
    BY <2>1, <2>2 DEF Purges, Epochs, InDelete
  <2> QED
    BY <2>1, <2>4, <2>5 DEF Purges, Unused
<1>8. CASE ResetRestore
  <2>1. /\ pc[Main] = "reset_restore" /\ pc'[Main] = "idle"
        /\ purge_id' = reset.purge_id
        /\ UNCHANGED <<state, node, fresh>>
    BY <1>0, <1>8 DEF ResetRestore, Goto, queues
  <2>2. Epoch' = Epoch
    BY <2>1 DEF Epoch, InReset
  <2>3. Epochs'
    BY <2>1, <2>2 DEF Purges, Epochs, InDelete
  <2> QED
    BY <2>1, <2>3 DEF Purges, Drained, Unused, InReset
<1>9. CASE DeleteStop \/ DeleteJoin \/ DeletePurge
  <2>1. pc'[Main] \in InDelete /\ state' = "STOP"
    BY <1>0, <1>9
       DEF DeleteStop, DeleteJoin, DeletePurge, Goto, InDelete, IInv, Phases
  <2> QED
    BY <2>1 DEF Purges, Drained, Epochs, Unused, InReset, InDelete
<1>10. CASE DeleteFree
  <2>1. \A n \in Node : node'[n] = FreeNode
    BY <1>10 DEF DeleteFree, IInv, Emptied
  <2>2. pc'[Main] = "idle"
    BY <1>0, <1>10 DEF DeleteFree, Goto
  <2> QED
    BY <2>1, <2>2 DEF Purges, Drained, Epochs, Unused, InReset, FreeNode
<1> QED
  BY <1>1, <1>2, <1>3, <1>4, <1>5, <1>6, <1>7, <1>8, <1>9, <1>10
     DEF MainCall, MainContinue

LEMMA NextPurges ==
  ASSUME ResetsAlone, IInv, Purges, [Next]_vars
  PROVE  Purges'
<1>1. ASSUME NEW w \in Worker, WorkerStep(w) PROVE Purges'
  <2>1. /\ Fades
        /\ \E l \in {"exit", "loop", "run"} : pc' = [pc EXCEPT ![w] = l]
        /\ UNCHANGED <<state, purge_id, reset>>
    BY <1>1, WorkerEffects DEF Fades
  <2>2. pc \in [Thread -> ClientPC \cup WorkerPC] /\ w # Main /\ Main \in Thread
    BY WorkQAssumption DEF IInv, Types, Thread
  <2>3. pc'[Main] = pc[Main]
    BY <2>1, <2>2
  <2> QED
    BY <2>1, <2>3, FadesPurges
<1>2. CASE \E p \in Thread : Submit(p)
  BY <1>2, SubmitCases, SubmitPurges
<1>3. CASE \E c \in Client : TakeBack(c) \/ Continue(c)
  BY <1>3, ClientPurges
<1>4. CASE MainCall \/ Finish \/ MainContinue
  BY <1>4, MainPurges
<1>5. CASE (\E p \in Thread : Spurious(p)) \/ UNCHANGED vars
  <2>1. UNCHANGED <<state, purge_id, node, reset, fresh, pc>>
    BY <1>5 DEF Spurious, vars, queues
  <2>2. Fades
    BY <2>1 DEF Fades
  <2>3. pc'[Main] = pc[Main]
    BY <2>1
  <2> QED
    BY <2>1, <2>2, <2>3, FadesPurges
<1> QED
  BY <1>1, <1>2, <1>3, <1>4, <1>5 DEF Next

LEMMA PurgesHold ==
  ASSUME ResetsAlone
  PROVE  Spec => []Purges
<1>1. Init => Purges
  BY WorkQAssumption
     DEF Init, Purges, Drained, Epochs, Unused, FreeNode, Thread, InReset
<1>2. IInv /\ Purges /\ [Next]_vars => Purges'
  BY NextPurges
<1>3. Spec => []IInv
  BY WorkQInvariant
<1> QED
  BY <1>1, <1>2, <1>3, PTL DEF Spec

(* No task of before is left when a reset returns, if it blocked; if it did
   not, only tasks a worker had begun, and those go at the next purge. *)
THEOREM WorkQResetDrains ==
  ASSUME ResetsAlone
  PROVE  Spec => []ResetDrains
<1>1. IInv /\ Purges => ResetDrains
  <2> SUFFICES ASSUME IInv, Purges, pc[Main] = "reset_restore",
                      NEW t \in Mapped
               PROVE  /\ ~reset.blocking
                      /\ node[map_task[t]].purge_id = PURGE
                      /\ StatusOf(t) # "PENDING"
    BY DEF ResetDrains
  <2>1. /\ t \in Task /\ map_task[t] # NULL /\ map_task[t] \in Node
        /\ node[map_task[t]].task = t
    BY DEF Mapped, IInv, Queues, Agree
  <2>2. node[map_task[t]].status # "FREE"
    BY <2>1, WorkQAssumption DEF IInv, Blank, FreeNode
  <2> QED
    BY <2>1, <2>2 DEF Purges, Drained, InReset, StatusOf
<1>2. Spec => []IInv
  BY WorkQInvariant
<1> QED
  BY <1>1, <1>2, PurgesHold, PTL

(* A purge tells the tasks submitted since the purge before from all others,
   by one bit, however many purges a task stays active through. *)
THEOREM WorkQPurgeDropsStale ==
  ASSUME ResetsAlone
  PROVE  Spec => PurgeDropsStale
<1> DEFINE Drops ==
             purge_id' = 1 - purge_id =>
               \A t \in Mapped :
                 map_task'[t] = IF t \in fresh \/ StatusOf(t) = "ACTIVE"
                                THEN map_task[t] ELSE NULL
<1>1. ASSUME IInv, Purges, [Next]_vars, purge_id' = 1 - purge_id,
             NEW t \in Mapped
      PROVE  map_task'[t] = IF t \in fresh \/ StatusOf(t) = "ACTIVE"
                            THEN map_task[t] ELSE NULL
  <2>0. /\ purge_id \in {0, 1, PURGE}
        /\ reset \in [blocking : BOOLEAN, purge_id : {0, 1, PURGE}]
    BY <1>1 DEF IInv, Types
  <2>1. /\ t \in Task /\ map_task[t] # NULL /\ map_task[t] \in Node
        /\ node[map_task[t]].task = t
    BY <1>1 DEF Mapped, IInv, Queues, Agree
  <2>2. node[map_task[t]].status # "FREE"
    BY <1>1, <2>1, WorkQAssumption DEF IInv, Blank, FreeNode
  <2>3. purge_id' # purge_id /\ purge_id' # PURGE
    BY <1>1, <2>0 DEF PURGE
  <2>4. CASE Purge
    <3>1. /\ PurgeLocked /\ queue_active' = queue_active
          /\ pc[Main] = "idle" /\ state = "RUNNING"
      BY <2>4, WorkQAssumption DEF Purge, MayCall
    <3>2. purge_id \in {0, 1} /\ purge_id # PURGE
      BY <1>1, <3>1 DEF IInv, Phases, InReset, PURGE
    <3>3. map_task'[t] = IF \/ node[map_task[t]].purge_id = purge_id
                            \/ node[map_task[t]].status = "ACTIVE"
                         THEN map_task[t] ELSE NULL
      BY <1>1, <3>1, <3>2, PurgeFilters
    <3>4. t \in fresh <=> node[map_task[t]].purge_id = purge_id
      BY <1>1, <2>1, <2>2, <3>1 DEF Purges, Epochs, Epoch, InReset, InDelete
    <3> QED
      BY <2>1, <3>3, <3>4 DEF StatusOf
  <2>5. CASE New
    BY <1>1, <2>1, <2>2, <2>5 DEF New, Purges, Unused
  <2>6. CASE ResetPurge
    <3>1. purge_id = PURGE /\ PurgeLocked
      BY <1>1, <2>6 DEF ResetPurge, Purges, Drained, InReset
    <3> QED
      BY <2>3, <3>1 DEF PurgeLocked, NextEpoch
  <2>7. CASE DeletePurge
    <3>1. purge_id = PURGE /\ PurgeLocked
      BY <1>1, <2>7 DEF DeletePurge, IInv, Phases
    <3> QED
      BY <2>3, <3>1 DEF PurgeLocked, NextEpoch
  <2>8. CASE ResetRestore
    <3>1. purge_id = PURGE /\ reset.purge_id \in {0, 1}
          /\ purge_id' = reset.purge_id
      BY <1>1, <2>8 DEF ResetRestore, Purges, Drained, InReset, IInv, Phases
    <3> QED
      BY <1>1, <3>1 DEF PURGE
  <2>9. CASE DeleteJoin \/ \E blocking \in BOOLEAN : ResetBegin(blocking)
    BY <2>3, <2>9 DEF DeleteJoin, ResetBegin
  <2>10. CASE UNCHANGED purge_id
    BY <2>3, <2>10
  <2>11. (\E w \in Worker : WorkerStep(w)) => UNCHANGED purge_id
    BY DEF WorkerStep, WorkerStart, WorkerWake, WorkerDone
  <2>12. (\E p \in Thread : Submit(p)) => UNCHANGED purge_id
    BY DEF Submit, RunNew, RunPending, RunActive, RunSettled
  <2>13. (\E c \in Client : TakeBack(c) \/ Continue(c)) => UNCHANGED purge_id
    BY DEF TakeBack, Wait, TryWait, Cancel, TryCancel, Calling, Continue,
           WaitResume, CancelResume, Resume, ReadStatus
  <2>14. Flush \/ Finish \/ NewJoin \/ ResetWait \/ DeleteStop \/ DeleteFree
         \/ (\E p \in Thread : Spurious(p)) \/ UNCHANGED vars
           => UNCHANGED purge_id
    BY DEF Flush, Finish, NewJoin, ResetWait, DeleteStop, DeleteFree, Spurious,
           vars
  <2> QED
    BY <1>1, <2>4, <2>5, <2>6, <2>7, <2>8, <2>9, <2>10, <2>11, <2>12, <2>13,
       <2>14 DEF Next, MainCall, MainContinue
<1>2. IInv /\ Purges /\ [Next]_vars => [Drops]_vars
  BY <1>1
<1>3. Spec => []IInv
  BY WorkQInvariant
<1> QED
  BY <1>2, <1>3, PurgesHold, PTL DEF Spec, PurgeDropsStale

-----------------------------------------------------------------------------
(* Sleeping clients and workers.  What they wait for is said in terms of the
   statuses of the nodes, which the invariant ties to the queues. *)

Blocked == {"wait_block", "cancel_block"}
Unsettled == {"PENDING", "ACTIVE"}

\* A client asleep in wait or cancel is there for a task of its own.
Sleeps(c) ==
  pc[c] \in Blocked =>
    /\ want[c] \in Tasks[c]
    /\ pc[c] = "wait_block" => "wait" \in Calls[c]
    /\ pc[c] = "cancel_block" => "cancel" \in Calls[c]

\* A client asleep has something to wait for: in wait and cancel the node it
\* holds, which is that of its task.
Waits(c) ==
  c \in wait_complete =>
    \/ /\ pc[c] = "finish"
       /\ FinishesAlone => \E n \in Node : node[n].status \in Unsettled
    \/ pc[c] = "reset_wait" /\ \E n \in Node : node[n].status = "ACTIVE"
    \/ /\ pc[c] = "wait_block"
       /\ node[cur[c]].task = want[c] /\ node[cur[c]].status \in Unsettled
    \/ /\ pc[c] = "cancel_block"
       /\ node[cur[c]].task = want[c] /\ node[cur[c]].status = "ACTIVE"

\* The clients but the main thread only submit, wait, poll and cancel, and do
\* nothing during a deletion.
Helpers ==
  /\ \A c \in Client \ {Main} :
       /\ pc[c] \in {"idle", "undefined"} \cup Holding
       /\ pc[Main] \in InDelete => pc[c] = "idle"
  /\ pc[Main] = "finish" => "finish" \in Calls[Main]

\* A worker sleeps only while there is nothing to begin and no reason to exit.
SleepingWorkers ==
  /\ \A w \in wait_pending : pc[w] = "loop"
  /\ wait_pending # {} =>
       state # "STOP" /\ \A n \in Node : node[n].status # "PENDING"

\* A node that a sleeping client watches, and what may happen to it unseen.
Watches(c, n) ==
  /\ node[n].status \in Unsettled
  /\ \/ node[n].status = "ACTIVE"
     \/ pc[c] = "finish" /\ FinishesAlone
     \/ pc[c] \in Blocked /\ n = cur[c]

Rests(n) ==
  /\ node'[n].task = node[n].task
  /\ \/ node'[n].status = node[n].status
     \/ node[n].status = "PENDING" /\ node'[n].status = "ACTIVE"

LEMMA OthersSleep ==
  ASSUME NEW c \in Client, Sleeps(c), UNCHANGED <<pc[c], want[c]>>
  PROVE  Sleeps(c)'
BY DEF Sleeps

LEMMA OthersWait ==
  ASSUME IInv, NEW c \in Client, Waits(c), UNCHANGED <<pc[c], cur[c], want[c]>>,
         c \in wait_complete' => c \in wait_complete,
         c \in wait_complete' => \A n \in Node : Watches(c, n) => Rests(n)
  PROVE  Waits(c)'
<1> SUFFICES ASSUME c \in wait_complete'
             PROVE  Waits(c)'
  BY DEF Waits
<1>1. c \in wait_complete /\ \A n \in Node : Watches(c, n) => Rests(n)
  OBVIOUS
<1>2. CASE pc[c] = "finish"
  <2>1. FinishesAlone => \E n \in Node : node[n].status \in Unsettled
    BY <1>1, <1>2 DEF Waits
  <2>2. ASSUME FinishesAlone PROVE \E n \in Node : node'[n].status \in Unsettled
    BY <1>1, <1>2, <2>1, <2>2 DEF Watches, Rests, Unsettled
  <2> QED
    BY <1>2, <2>2 DEF Waits
<1>3. CASE pc[c] = "reset_wait"
  <2>1. \E n \in Node : node[n].status = "ACTIVE"
    BY <1>1, <1>3 DEF Waits
  <2>2. \E n \in Node : node'[n].status = "ACTIVE"
    BY <1>1, <2>1 DEF Watches, Rests, Unsettled
  <2> QED
    BY <1>3, <2>2 DEF Waits
<1>4. CASE pc[c] \in Blocked
  <2>1. cur[c] \in Node
    BY <1>4 DEF Blocked, IInv, Held, Holding
  <2>2. /\ node[cur[c]].task = want[c] /\ node[cur[c]].status \in Unsettled
        /\ pc[c] = "cancel_block" => node[cur[c]].status = "ACTIVE"
    BY <1>1, <1>4 DEF Waits, Blocked, Unsettled
  <2>3. Rests(cur[c])
    BY <1>1, <1>4, <2>1, <2>2 DEF Watches
  <2> QED
    BY <1>4, <2>2, <2>3 DEF Waits, Rests, Unsettled, Blocked
<1> QED
  BY <1>1, <1>2, <1>3, <1>4 DEF Waits, Blocked

\* Nodes given back are not those a client watches, but for a finish that
\* watches a task somebody cancels.
LEMMA ReturnsRest ==
  ASSUME IInv, NEW c, NEW P, NEW C, NEW M, Returns(P, C, M),
         pc[c] = "finish" /\ FinishesAlone => P = {},
         pc[c] \in Blocked => cur[c] \notin P
  PROVE  \A n \in Node : Watches(c, n) => Rests(n)
<1> SUFFICES ASSUME NEW n \in Node, Watches(c, n)
             PROVE  n \notin P \cup C
  BY DEF Returns, Rests
<1>1. n \in C => node[n].status \in Settled
  BY DEF Returns, IInv, Queues, Agree
<1>2. n \in P => node[n].status = "PENDING"
  BY DEF Returns, IInv, Queues, Agree
<1> QED
  BY <1>1, <1>2 DEF Watches, Unsettled, Settled

\* A pending task that another client cancels is not one that c sleeps for.
LEMMA AwaitedStays ==
  ASSUME KeepsAwaited, NEW c \in Client, Sleeps(c), Waits(c),
         c \in wait_complete, pc[c] \in Blocked,
         NEW p \in Client, p # c, Calls[p] \cap {"cancel", "trycancel"} # {},
         NEW t \in Tasks[p], NEW n, node[n].task = t,
         node[n].status = "PENDING"
  PROVE  n # cur[c]
<1> SUFFICES ASSUME n = cur[c] PROVE FALSE
  OBVIOUS
<1>1. pc[c] = "wait_block" /\ t = want[c]
  BY DEF Waits, Blocked
<1>2. "wait" \in Calls[c] /\ want[c] \in Tasks[c]
  BY <1>1 DEF Sleeps, Blocked
<1> QED
  BY <1>1, <1>2 DEF KeepsAwaited

LEMMA WorkerSleepers ==
  ASSUME IInv, NEW w \in Worker, WorkerStep(w), NEW c \in Client, Sleeps(c)
  PROVE  Sleeps(c)' /\ (Waits(c) => Waits(c)')
<1>1. /\ UNCHANGED <<map_task, want>>
      /\ \E l \in {"exit", "loop", "run"} : pc' = [pc EXCEPT ![w] = l]
      /\ wait_complete' = {} \/ wait_complete' = wait_complete
      /\ wait_complete' # {} => \A n \in Node : Rests(n)
  BY WorkerEffects DEF Rests
<1>2. /\ pc \in [Thread -> ClientPC \cup WorkerPC] /\ c \in Thread /\ c # w
      /\ w \in Thread /\ cur \in [Thread -> Node \cup {NULL}]
  BY WorkQAssumption DEF IInv, Types, Thread
<1>3. pc'[c] = pc[c]
  BY <1>1, <1>2
<1>4. cur'[c] = cur[c]
  BY <1>2 DEF WorkerStep, WorkerStart, WorkerWake, WorkerDone, LoopTop, Begin
<1>5. Sleeps(c)'
  BY <1>1, <1>3, <1>4, OthersSleep
<1>6. Waits(c) => Waits(c)'
  BY <1>1, <1>3, <1>4, OthersWait
<1> QED
  BY <1>5, <1>6

LEMMA SubmitSleepers ==
  ASSUME IInv, NEW p \in Thread, NEW t \in Tasks[p],
         NEW priority \in Int,
         \/ RunNew(p, t, priority) \/ RunPending(p, t, priority)
         \/ RunActive(p, t) \/ RunSettled(p, t),
         NEW c \in Client, Sleeps(c)
  PROVE  Sleeps(c)' /\ (Waits(c) => Waits(c)')
<1>0. /\ node \in [Node -> NodeRecord] /\ map_task \in [Task -> Node \cup {NULL}]
      /\ t \in Task /\ NULL \notin Node
  BY WorkQAssumption DEF IInv, Queues, Agree
<1>1. UNCHANGED <<pc, cur, want, wait_complete>>
  BY DEF RunNew, RunPending, RunActive, RunSettled
<1>2. \A n \in Node : Watches(c, n) => Rests(n)
  <2>1. CASE RunNew(p, t, priority)
    <3>1. PICK n \in Node :
            /\ node[n] = FreeNode
            /\ node' = [node EXCEPT ![n] =
                          [status |-> "PENDING", priority |-> priority,
                           purge_id |-> purge_id, task |-> t]]
      BY <2>1 DEF RunNew
    <3>2. \A m \in Node : Watches(c, m) => m # n
      BY <3>1 DEF Watches, Unsettled, FreeNode
    <3> QED
      BY <1>0, <3>1, <3>2 DEF Rests
  <2>2. CASE RunPending(p, t, priority) \/ RunActive(p, t)
    <3>1. \/ node' = [node EXCEPT ![map_task[t]].purge_id = purge_id,
                                  ![map_task[t]].priority = priority]
          \/ node' = [node EXCEPT ![map_task[t]].purge_id = purge_id]
      BY <2>2 DEF RunPending, RunActive
    <3>2. \A n \in Node : /\ node'[n].status = node[n].status
                           /\ node'[n].task = node[n].task
      BY <1>0, <3>1 DEF NodeRecord
    <3> QED
      BY <3>2 DEF Rests
  <2>3. CASE RunSettled(p, t)
    <3>1. Returns({}, {map_task[t]}, {})
      BY <1>0, <2>3, RunSettledReturns
    <3> QED
      BY <3>1, ReturnsRest
  <2> QED
    BY <2>1, <2>2, <2>3
<1>3. Sleeps(c)'
  BY <1>1, <1>2, OthersSleep
<1>4. Waits(c) => Waits(c)'
  BY <1>1, <1>2, OthersWait
<1> QED
  BY <1>3, <1>4

LEMMA SettleSleepers ==
  ASSUME IInv, KeepsAwaited, Helpers, NEW p \in Client,
         NEW f \in {"wait", "cancel"}, NEW t \in Tasks[p], NEW n \in Node,
         node[n].task = t, NEW blocking \in BOOLEAN,
         pc[p] \in {"idle"} \cup Holding, pc[p] = "idle" \/ p \notin wait_complete,
         blocking => f \in Calls[p],
         f = "cancel" => Calls[p] \cap {"cancel", "trycancel"} # {},
         Settle(p, f, t, n, blocking), queue_active' = queue_active,
         NEW c \in Client, Sleeps(c)
  PROVE  Sleeps(c)' /\ (Waits(c) => Waits(c)')
<1>0. /\ pc \in [Thread -> ClientPC \cup WorkerPC] /\ c \in Thread
      /\ p \in Thread /\ cur \in [Thread -> Node \cup {NULL}]
      /\ want \in [Client -> Task \cup {NULL}] /\ Main \in Client
      /\ t \in Task /\ NULL \notin Node
  BY WorkQAssumption DEF IInv, Types, Thread
<1>1. CASE Holds(p, f, t, n, blocking)
  <2>0. /\ node[n].status \in Awaited(f)
        /\ pc' = [pc EXCEPT ![p] = IF blocking THEN Asleep(f)
                                               ELSE "read_status"]
        /\ cur' = [cur EXCEPT ![p] = n]
        /\ want' = [want EXCEPT ![p] = t]
        /\ wait_complete' = IF blocking THEN wait_complete \cup {p}
                                        ELSE wait_complete
        /\ UNCHANGED <<node, map_task>>
    BY <1>1 DEF Holds
  <2>1. CASE c # p
    <3>1. UNCHANGED <<pc[c], cur[c], want[c]>>
          /\ (c \in wait_complete' => c \in wait_complete)
      BY <1>0, <2>0, <2>1
    <3>2. \A m \in Node : Rests(m)
      BY <2>0 DEF Rests
    <3>3. Sleeps(c)'
      BY <2>0, <3>1, OthersSleep
    <3>4. Waits(c) => Waits(c)'
      BY <3>1, <3>2, OthersWait
    <3> QED
      BY <3>3, <3>4
  <2>2. CASE c = p /\ blocking
    <3>1. /\ pc'[c] = Asleep(f) /\ cur'[c] = n /\ want'[c] = t
      BY <1>0, <2>0, <2>2
    <3>2. Sleeps(c)'
      BY <2>0, <2>2, <3>1 DEF Sleeps, Asleep, Blocked
    <3>3. Waits(c)'
      BY <2>0, <2>2, <3>1 DEF Waits, Awaited, Asleep, Unsettled
    <3> QED
      BY <3>2, <3>3
  <2>3. CASE c = p /\ ~blocking
    <3>1. pc'[c] = "read_status" /\ wait_complete' = wait_complete
      BY <1>0, <2>0, <2>3
    <3>2. Sleeps(c)'
      BY <3>1 DEF Sleeps, Blocked
    <3>3. Waits(c) => c \notin wait_complete
      BY <2>3 DEF Waits
    <3> QED
      BY <3>1, <3>2, <3>3 DEF Waits
  <2> QED
    BY <2>1, <2>2, <2>3
<1>2. ASSUME pc' = [pc EXCEPT ![p] = "idle"],
             want' = [want EXCEPT ![p] = NULL],
             cur' = [cur EXCEPT ![p] = NULL],
             wait_complete' = wait_complete,
             NEW P, NEW C, Returns(P, C, {}), P \cup C = {n},
             P # {} => f = "cancel"
      PROVE  Sleeps(c)' /\ (Waits(c) => Waits(c)')
  <2>1. CASE c # p
    <3>1. UNCHANGED <<pc[c], cur[c], want[c]>>
          /\ (c \in wait_complete' => c \in wait_complete)
      BY <1>0, <1>2, <2>1
    <3>2. ASSUME Waits(c), c \in wait_complete, pc[c] \in Blocked
          PROVE  cur[c] \notin P
      <4> SUFFICES ASSUME cur[c] \in P PROVE FALSE
        OBVIOUS
      <4>1. P # {} /\ cur[c] = n
        BY <1>2
      <4>2. node[n].status = "PENDING"
        BY <1>2, <4>1 DEF Returns, IInv, Queues, Agree
      <4>3. Calls[p] \cap {"cancel", "trycancel"} # {}
        BY <1>2, <4>1
      <4> QED
        BY <2>1, <3>2, <4>1, <4>2, <4>3, AwaitedStays
    <3>3. Sleeps(c)'
      BY <3>1, OthersSleep
    <3>4. pc[c] = "finish" /\ FinishesAlone => P = {}
      <4> SUFFICES ASSUME pc[c] = "finish", FinishesAlone, P # {} PROVE FALSE
        OBVIOUS
      <4>1. c = Main
        BY DEF Helpers, Holding
      <4>2. Calls[p] \cap {"cancel", "trycancel"} # {} /\ p # Main
        BY <1>2, <2>1, <4>1
      <4> QED
        BY <4>1, <4>2 DEF FinishesAlone, Helpers
    <3>5. ASSUME Waits(c), c \in wait_complete
          PROVE  \A m \in Node : Watches(c, m) => Rests(m)
      <4>1. pc[c] \in Blocked => cur[c] \notin P
        BY <3>2, <3>5
      <4> QED
        BY <1>2, <3>4, <4>1, ReturnsRest
    <3>6. Waits(c) => Waits(c)'
      BY <3>1, <3>5, OthersWait
    <3> QED
      BY <3>3, <3>6
  <2>2. CASE c = p
    <3>1. pc'[c] = "idle" /\ wait_complete' = wait_complete
      BY <1>0, <1>2, <2>2
    <3>2. Sleeps(c)'
      BY <3>1 DEF Sleeps, Blocked
    <3>3. Waits(c) => c \notin wait_complete
      BY <2>2 DEF Waits
    <3> QED
      BY <3>1, <3>2, <3>3 DEF Waits
  <2> QED
    BY <2>1, <2>2
<1>3. CASE Takes(p, f, t, n)
  BY <1>2, <1>3 DEF Takes
<1>4. Holds(p, f, t, n, blocking) \/ Takes(p, f, t, n)
  BY <1>0, SettleEffects
<1> QED
  BY <1>1, <1>3, <1>4

\* A client that leaves its call, with the nodes as they are.
LEMMA LeaveSleepers ==
  ASSUME IInv, NEW p \in Client, NEW l \in {"idle", "undefined"},
         pc' = [pc EXCEPT ![p] = l], cur' = [cur EXCEPT ![p] = NULL],
         want' = [want EXCEPT ![p] = NULL],
         UNCHANGED <<node, map_task, wait_complete>>,
         p \notin wait_complete \/ pc[p] = "read_status",
         NEW c \in Client, Sleeps(c)
  PROVE  Sleeps(c)' /\ (Waits(c) => Waits(c)')
<1>0. /\ pc \in [Thread -> ClientPC \cup WorkerPC] /\ c \in Thread
      /\ p \in Thread /\ cur \in [Thread -> Node \cup {NULL}]
      /\ want \in [Client -> Task \cup {NULL}]
  BY WorkQAssumption DEF IInv, Types, Thread
<1>1. CASE c # p
  <2>1. UNCHANGED <<pc[c], cur[c], want[c]>>
    BY <1>0, <1>1
  <2>2. \A n \in Node : Rests(n)
    BY DEF Rests
  <2>3. Sleeps(c)'
    BY <2>1, OthersSleep
  <2>4. Waits(c) => Waits(c)'
    BY <2>1, <2>2, OthersWait
  <2> QED
    BY <2>3, <2>4
<1>2. CASE c = p
  <2>1. pc'[c] \in {"idle", "undefined"}
    BY <1>0, <1>2
  <2>2. Sleeps(c)'
    BY <2>1 DEF Sleeps, Blocked
  <2>3. Waits(c) => c \notin wait_complete'
    BY <1>2 DEF Waits
  <2> QED
    BY <2>2, <2>3 DEF Waits
<1> QED
  BY <1>1, <1>2

LEMMA ClientSleepers ==
  ASSUME IInv, KeepsAwaited, Helpers, \A d \in Client : Sleeps(d),
         NEW p \in Client, TakeBack(p) \/ Continue(p), NEW c \in Client
  PROVE  Sleeps(c)' /\ (Waits(c) => Waits(c)')
<1>1. CASE TakeBack(p)
  <2>1. PICK t \in Tasks[p] :
          Wait(p, t) \/ TryWait(p, t) \/ Cancel(p, t) \/ TryCancel(p, t)
    BY <1>1 DEF TakeBack
  <2>2. PICK f \in {"wait", "cancel"}, blocking \in BOOLEAN :
          /\ Settle(p, f, t, map_task[t], blocking)
          /\ blocking => f \in Calls[p]
          /\ f = "cancel" => Calls[p] \cap {"cancel", "trycancel"} # {}
    <3>1. ASSUME Wait(p, t)
          PROVE  Settle(p, "wait", t, map_task[t], TRUE) /\ "wait" \in Calls[p]
      BY <3>1 DEF Wait, Calling, MayCall
    <3>2. ASSUME TryWait(p, t)
          PROVE  Settle(p, "wait", t, map_task[t], FALSE)
      BY <3>2 DEF TryWait, Calling
    <3>3. ASSUME Cancel(p, t)
          PROVE  /\ Settle(p, "cancel", t, map_task[t], TRUE)
                 /\ "cancel" \in Calls[p]
      BY <3>3 DEF Cancel, Calling, MayCall
    <3>4. ASSUME TryCancel(p, t)
          PROVE  /\ Settle(p, "cancel", t, map_task[t], FALSE)
                 /\ "trycancel" \in Calls[p]
      BY <3>4 DEF TryCancel, Calling, MayCall
    <3> QED
      BY <2>1, <3>1, <3>2, <3>3, <3>4
  <2> DEFINE n == map_task[t]
  <2>3. /\ n \in Node /\ node[n].task = t /\ pc[p] = "idle"
        /\ queue_active' = queue_active
    BY <2>1, WorkQAssumption
       DEF Wait, TryWait, Cancel, TryCancel, Calling, MayCall, IInv, Queues,
           Agree, Thread
  <2>4. Settle(p, f, t, n, blocking)
    BY <2>2
  <2> HIDE DEF n
  <2> QED
    BY <2>2, <2>3, <2>4, SettleSleepers
<1>2. CASE ReadStatus(p)
  <2>1. /\ pc[p] = "read_status"
        /\ cur' = [cur EXCEPT ![p] = NULL] /\ want' = [want EXCEPT ![p] = NULL]
        /\ UNCHANGED <<node, map_task, wait_complete>>
        /\ \E l \in {"idle", "undefined"} : pc' = [pc EXCEPT ![p] = l]
    BY <1>2 DEF ReadStatus, Undefined, Goto
  <2> QED
    BY <2>1, LeaveSleepers
<1>3. ASSUME NEW f \in {"wait", "cancel"}, Resume(p, f)
      PROVE  Sleeps(c)' /\ (Waits(c) => Waits(c)')
  <2>1. /\ pc[p] = Asleep(f) /\ p \notin wait_complete
        /\ queue_active' = queue_active
        /\ IF Stale(p) THEN Undefined(p)
                       ELSE Settle(p, f, want[p], cur[p], TRUE)
    BY <1>3 DEF Resume
  <2>2. /\ pc[p] \in Holding /\ cur[p] \in Node /\ want[p] \in Tasks[p]
        /\ f \in Calls[p]
    BY <2>1 DEF IInv, Held, Sleeps, Asleep, Holding, Blocked
  <2>3. CASE Stale(p)
    <3>1. /\ cur' = [cur EXCEPT ![p] = NULL]
          /\ want' = [want EXCEPT ![p] = NULL]
          /\ UNCHANGED <<node, map_task, wait_complete>>
          /\ pc' = [pc EXCEPT ![p] = "undefined"]
      BY <2>1, <2>3 DEF Undefined, Goto
    <3> QED
      BY <2>1, <3>1, LeaveSleepers
  <2>4. CASE ~Stale(p)
    <3> DEFINE t == want[p]
               n == cur[p]
    <3>1. t \in Tasks[p] /\ n \in Node /\ node[n].task = t
          /\ Settle(p, f, t, n, TRUE)
      BY <2>1, <2>2, <2>4 DEF Stale
    <3> HIDE DEF t, n
    <3>2. f = "cancel" => Calls[p] \cap {"cancel", "trycancel"} # {}
      BY <2>2
    <3>3. pc[p] \in {"idle"} \cup Holding
      BY <2>2
    <3> QED
      BY <2>1, <2>2, <3>1, <3>2, <3>3, SettleSleepers
  <2> QED
    BY <2>3, <2>4
<1> QED
  BY <1>1, <1>2, <1>3 DEF Continue, WaitResume, CancelResume

\* Where the calls of clients and the main thread's own leave the threads.
LEMMA ClientGoes ==
  ASSUME IInv, NEW p \in Client, TakeBack(p) \/ Continue(p)
  PROVE  /\ \E l \in {"idle", "undefined"} \cup Holding :
              pc' = [pc EXCEPT ![p] = l]
         /\ state = "RUNNING" \/ pc[p] \in Holding
         /\ UNCHANGED <<state, wait_pending>>
<1>1. CASE TakeBack(p)
  <2>1. PICK t \in Task :
          Wait(p, t) \/ TryWait(p, t) \/ Cancel(p, t) \/ TryCancel(p, t)
    BY <1>1, TakeBackCases
  <2>2. /\ state = "RUNNING" /\ UNCHANGED <<state, wait_pending>>
        /\ \E f \in {"wait", "cancel"}, blocking \in BOOLEAN :
             Settle(p, f, t, map_task[t], blocking)
    BY <2>1, WorkQAssumption
       DEF Wait, TryWait, Cancel, TryCancel, Calling, MayCall
  <2> QED
    BY <2>2 DEF Settle, Goto, Asleep, Holding
<1>2. CASE Continue(p)
  BY <1>2 DEF Continue, WaitResume, CancelResume, Resume, ReadStatus, Undefined,
              Settle, Goto, Asleep, Holding
<1> QED
  BY <1>1, <1>2

LEMMA MainGoes ==
  ASSUME IInv, MainCall \/ Finish \/ MainContinue
  PROVE  /\ UNCHANGED <<cur, want>>
         /\ \A c \in Client \ {Main} : pc'[c] = pc[c]
         /\ pc[Main] \notin Holding /\ pc'[Main] \notin Holding
         /\ pc'[Main] = "finish" => "finish" \in Calls[Main] \/ pc[Main] = "finish"
         /\ pc'[Main] \in InDelete =>
              pc[Main] \in InDelete \/ \A c \in Client : pc[c] = "idle"
<1>0. /\ pc \in [Thread -> ClientPC \cup WorkerPC] /\ Main \in Thread
      /\ \A c \in Client : c \in Thread /\ c \notin Worker
      /\ Main \in Client
  BY WorkQAssumption DEF IInv, Types, Thread
<1> DEFINE Goal == /\ UNCHANGED <<cur, want>>
                   /\ \A c \in Client \ {Main} : pc'[c] = pc[c]
                   /\ pc[Main] \notin Holding /\ pc'[Main] \notin Holding
                   /\ pc'[Main] = "finish" =>
                        "finish" \in Calls[Main] \/ pc[Main] = "finish"
                   /\ pc'[Main] \in InDelete =>
                        pc[Main] \in InDelete \/ \A c \in Client : pc[c] = "idle"
<1> SUFFICES Goal
  OBVIOUS
<1>1. CASE New \/ NewJoin
  BY <1>0, <1>1 DEF New, NewJoin, Holding, InDelete
<1>2. CASE Purge \/ Flush
  BY <1>0, <1>2 DEF Purge, Flush, MayCall, Holding, InDelete
<1>3. CASE Finish
  BY <1>0, <1>3 DEF Finish, MayCall, Goto, Holding, InDelete
<1>4. CASE \E blocking \in BOOLEAN : ResetBegin(blocking)
  BY <1>0, <1>4 DEF ResetBegin, MayCall, Goto, Holding, InDelete
<1>5. CASE ResetPurge \/ ResetWait \/ ResetRestore
  BY <1>0, <1>5 DEF ResetPurge, ResetWait, ResetRestore, AfterResetPurge, Goto,
                    Holding, InDelete
<1>6. CASE DeleteStop
  BY <1>0, <1>6 DEF DeleteStop, MayCall, Goto, Holding, InDelete
<1>7. CASE DeleteJoin \/ DeletePurge \/ DeleteFree
  BY <1>0, <1>7 DEF DeleteJoin, DeletePurge, DeleteFree, Goto, Holding, InDelete
<1> QED
  BY <1>1, <1>2, <1>3, <1>4, <1>5, <1>6, <1>7 DEF MainCall, MainContinue

\* The main thread gives back nothing, or settled nodes, unless it purges.
LEMMA MainReturns ==
  ASSUME IInv, MainCall \/ Finish \/ MainContinue
  PROVE  \/ UNCHANGED node
         \/ \E P, C, M : /\ Returns(P, C, M)
                         /\ P # {} => Purge \/ ResetPurge \/ DeletePurge
<1>1. CASE Purge \/ ResetPurge \/ DeletePurge
  BY <1>1, PurgeReturns DEF Purge, ResetPurge, DeletePurge
<1>2. CASE Flush \/ Finish
  BY <1>2, FlushReturns DEF Flush, Finish
<1>3. \/ Purge \/ ResetPurge \/ DeletePurge \/ Flush \/ Finish
      \/ UNCHANGED node
  BY DEF MainCall, MainContinue, New, NewJoin, ResetBegin, ResetWait,
         ResetRestore, DeleteStop, DeleteJoin, DeleteFree, queues
<1> QED
  BY <1>1, <1>2, <1>3

\* The main thread leaves the node another client sleeps on.
LEMMA MainSparesSleepers ==
  ASSUME IInv, KeepsAwaited, Helpers, MainCall \/ Finish \/ MainContinue,
         NEW c \in Client, c # Main, Sleeps(c), Waits(c), c \in wait_complete
  PROVE  \A n \in Node : Watches(c, n) => Rests(n)
<1>1. pc[c] \in Blocked
  BY DEF Waits, Helpers, Blocked, Holding
<1>2. CASE UNCHANGED node
  BY <1>2 DEF Rests
<1>3. ASSUME NEW P, NEW C, NEW M, Returns(P, C, M),
             P # {} => Purge \/ ResetPurge \/ DeletePurge
      PROVE  \A n \in Node : Watches(c, n) => Rests(n)
  <2>1. CASE pc[c] = "cancel_block"
    <3>1. node[cur[c]].status = "ACTIVE" /\ cur[c] \in Node
      BY <2>1 DEF Waits, IInv, Held, Holding
    <3>2. cur[c] \notin P
      BY <1>3, <3>1 DEF Returns, IInv, Queues, Agree
    <3> QED
      BY <1>3, <2>1, <3>2, ReturnsRest
  <2>2. CASE pc[c] = "wait_block"
    <3>1. Calls[Main] \cap {"purge", "reset", "tryreset"} = {}
      BY <2>2 DEF Sleeps, Blocked, KeepsAwaited
    <3>2. ~Purge
      BY <3>1 DEF Purge, MayCall
    <3>3. ~ResetPurge
      BY <3>1 DEF ResetPurge, InReset, IInv, Phases
    <3>4. ~DeletePurge
      BY <2>2 DEF DeletePurge, Helpers, InDelete
    <3>5. P = {}
      BY <1>3, <3>2, <3>3, <3>4
    <3> QED
      BY <1>3, <3>5, ReturnsRest
  <2> QED
    BY <1>1, <2>1, <2>2 DEF Blocked
<1> QED
  BY <1>2, <1>3, MainReturns

\* Who is put to sleep by a step of the main thread, and what for.
LEMMA MainRests ==
  ASSUME IInv, MainCall \/ Finish \/ MainContinue, Waits(Main)
  PROVE  /\ Main \notin wait_complete
         /\ wait_complete' \subseteq wait_complete \cup {Main}
         /\ Main \in wait_complete' => Waits(Main)'
<1>0. /\ pc \in [Thread -> ClientPC \cup WorkerPC] /\ Main \in Thread
  BY WorkQAssumption DEF IInv, Types, Thread
<1>1. Main \notin wait_complete
  <2>1. SUFFICES ASSUME Main \in wait_complete PROVE FALSE
    OBVIOUS
  <2>2. pc[Main] \in {"finish", "reset_wait"} \cup Blocked
    BY <2>1 DEF Waits, Blocked
  <2>3. ~Finish
    BY <2>1, <2>2, WorkQAssumption DEF Finish, MayCall, Blocked
  <2>4. ~MainCall
    BY <2>2, WorkQAssumption
       DEF MainCall, New, Purge, Flush, ResetBegin, DeleteStop, MayCall, Blocked
  <2>5. ~MainContinue
    BY <2>1, <2>2 DEF MainContinue, NewJoin, ResetPurge, ResetWait,
       ResetRestore, DeleteJoin, DeletePurge, DeleteFree, Blocked
  <2> QED
    BY <2>3, <2>4, <2>5
<1>2. CASE Finish
  <2>1. /\ FlushLocked /\ queue_active' = queue_active
        /\ \/ wait_complete' = wait_complete
           \/ /\ queue_pending # << >> \/ queue_active # {}
              /\ pc'[Main] = "finish"
              /\ wait_complete' = wait_complete \cup {Main}
    BY <1>0, <1>2 DEF Finish, Goto
  <2>2. Returns({}, queue_complete, {})
    BY <2>1, FlushReturns
  <2>3. ASSUME queue_pending # << >> \/ queue_active # {}
        PROVE  \E n \in Node : node'[n].status \in Unsettled
    <3>1. queue_pending # << >> => Head(queue_pending) \in Node
                                   /\ Head(queue_pending) \in ToSet(queue_pending)
      BY HeadTailFacts DEF IInv, Queues, Agree
    <3>2. PICK n \in Node : node[n].status \in Unsettled
      BY <2>3, <3>1 DEF IInv, Queues, Agree, Unsettled
    <3>3. n \notin {} \cup queue_complete
      BY <3>2 DEF IInv, Queues, Agree, Unsettled, Settled
    <3>4. node'[n].status = node[n].status
      BY <2>2, <3>3 DEF Returns
    <3> QED
      BY <3>2, <3>4
  <2>4. Main \in wait_complete' => Waits(Main)'
    BY <1>1, <2>1, <2>3 DEF Waits
  <2> QED
    BY <1>1, <2>1, <2>4
<1>3. CASE ResetWait
  <2>1. /\ pc[Main] = "reset_wait" /\ node' = node
        /\ \/ wait_complete' = wait_complete
           \/ /\ queue_active # {} /\ pc' = pc
              /\ wait_complete' = wait_complete \cup {Main}
    BY <1>3 DEF ResetWait, queues
  <2>2. queue_active # {} => \E n \in Node : node[n].status = "ACTIVE"
    BY DEF IInv, Queues, Agree
  <2>3. Main \in wait_complete' => Waits(Main)'
    BY <1>1, <2>1, <2>2 DEF Waits
  <2> QED
    BY <1>1, <2>1, <2>3
<1>4. CASE wait_complete' = wait_complete
  BY <1>1, <1>4
<1>5. \/ Finish \/ ResetWait \/ wait_complete' = wait_complete
  BY DEF MainCall, MainContinue, New, NewJoin, Purge, Flush, ResetBegin,
         ResetPurge, ResetRestore, DeleteStop, DeleteJoin, DeletePurge,
         DeleteFree
<1> QED
  BY <1>2, <1>3, <1>4, <1>5

LEMMA MainSleepers ==
  ASSUME IInv, KeepsAwaited, Helpers, MainCall \/ Finish \/ MainContinue,
         NEW c \in Client, Sleeps(c)
  PROVE  Sleeps(c)' /\ (Waits(c) /\ Waits(Main) => Waits(c)')
<1>1. CASE c = Main
  <2>1. pc'[c] \notin Blocked
    BY <1>1, MainGoes DEF Blocked, Holding
  <2>2. Sleeps(c)'
    BY <2>1 DEF Sleeps
  <2>3. Waits(Main) => (Main \in wait_complete' => Waits(Main)')
    BY MainRests
  <2> QED
    BY <1>1, <2>2, <2>3 DEF Waits
<1>2. CASE c # Main
  <2>1. UNCHANGED <<pc[c], cur[c], want[c]>>
    BY <1>2, MainGoes
  <2>2. Sleeps(c)'
    BY <2>1, OthersSleep
  <2>3. ASSUME Waits(c), Waits(Main) PROVE Waits(c)'
    <3>1. c \in wait_complete' => c \in wait_complete
      BY <1>2, <2>3, MainRests
    <3>2. c \in wait_complete => \A n \in Node : Watches(c, n) => Rests(n)
      BY <1>2, <2>3, MainSparesSleepers
    <3> QED
      BY <2>1, <2>3, <3>1, <3>2, OthersWait
  <2> QED
    BY <2>2, <2>3
<1> QED
  BY <1>1, <1>2

LEMMA NextHelpers ==
  ASSUME IInv, Helpers, [Next]_vars
  PROVE  Helpers'
<1>0. /\ pc \in [Thread -> ClientPC \cup WorkerPC] /\ Main \in Thread
      /\ \A c \in Client : c \in Thread /\ c \notin Worker
      /\ \A w \in Worker : w \in Thread
      /\ Main \in Client
  BY WorkQAssumption DEF IInv, Types, Thread
<1>1. CASE \E w \in Worker : WorkerStep(w)
  <2>1. PICK w \in Worker : \E l \in {"exit", "loop", "run"} :
                              pc' = [pc EXCEPT ![w] = l]
    BY <1>1, WorkerEffects
  <2>2. \A c \in Client : pc'[c] = pc[c]
    BY <1>0, <2>1
  <2> QED
    BY <1>0, <2>2 DEF Helpers
<1>2. CASE \/ \E p \in Thread : Submit(p) \/ Spurious(p)
           \/ UNCHANGED vars
  <2>1. pc' = pc
    BY <1>2 DEF Submit, RunNew, RunPending, RunActive, RunSettled, Spurious, vars
  <2> QED
    BY <2>1 DEF Helpers
<1>3. CASE \E c \in Client : TakeBack(c) \/ Continue(c)
  <2>1. PICK p \in Client : TakeBack(p) \/ Continue(p)
    BY <1>3
  <2>2. /\ state = "RUNNING" \/ pc[p] \in Holding
        /\ \E l \in {"idle", "undefined"} \cup Holding :
             pc' = [pc EXCEPT ![p] = l]
    BY <2>1, ClientGoes
  <2>3. PICK l \in {"idle", "undefined"} \cup Holding : pc' = [pc EXCEPT ![p] = l]
    BY <2>2
  <2>4. /\ \A c \in Client : c # p => pc'[c] = pc[c]
        /\ pc'[p] = l /\ l # "finish" /\ l \notin InDelete
    BY <1>0, <2>3 DEF Holding, InDelete
  <2>5. p # Main => pc[Main] \notin InDelete
    <3>1. state = "RUNNING" => pc[Main] \notin InDelete
      BY DEF IInv, Phases
    <3>2. p # Main /\ pc[Main] \in InDelete => pc[p] = "idle"
      BY DEF Helpers
    <3> QED
      BY <2>2, <3>1, <3>2 DEF Holding
  <2> QED
    BY <1>0, <2>4, <2>5 DEF Helpers
<1>4. CASE MainCall \/ Finish \/ MainContinue
  BY <1>0, <1>4, MainGoes DEF Helpers
<1> QED
  BY <1>1, <1>2, <1>3, <1>4 DEF Next

\* No task becomes pending without waking the workers.
LEMMA NextWorkersSleep ==
  ASSUME IInv, SleepingWorkers, [Next]_vars
  PROVE  SleepingWorkers'
<1>0. /\ pc \in [Thread -> ClientPC \cup WorkerPC]
      /\ \A c \in Client : c \in Thread /\ c \notin Worker
      /\ \A w \in Worker : w \in Thread
      /\ Main \in Client /\ wait_pending \in SUBSET Worker
      /\ node \in [Node -> NodeRecord]
      /\ \A n \in Node : n \in ToSet(queue_pending) <=> node[n].status = "PENDING"
  BY WorkQAssumption DEF IInv, Types, Thread, Queues, Agree
<1> DEFINE Wakes == wait_pending' = {}
           Keeps == /\ wait_pending' \subseteq wait_pending
                    /\ \A w \in wait_pending : pc'[w] = pc[w]
                    /\ wait_pending # {} => state' = state
                    /\ wait_pending # {} =>
                         \A n \in Node : node'[n].status = "PENDING" =>
                                           node[n].status = "PENDING"
<1>1. Wakes => SleepingWorkers'
  BY DEF SleepingWorkers
<1>2. Keeps => SleepingWorkers'
  BY DEF SleepingWorkers
<1>3. ASSUME NEW P, NEW C, NEW M, Returns(P, C, M), NEW n \in Node,
             node'[n].status = "PENDING"
      PROVE  node[n].status = "PENDING"
  BY <1>3 DEF Returns, FreeNode
<1>4. ASSUME NEW w \in Worker, WorkerStep(w) PROVE SleepingWorkers'
  <2>1. /\ \A n \in Node : node'[n].status = "PENDING" =>
                             node[n].status = "PENDING"
        /\ \/ wait_pending' = wait_pending
           \/ /\ state # "STOP" /\ queue_pending = << >>
              /\ wait_pending' = wait_pending \cup {w} /\ pc'[w] = "loop"
        /\ \E l \in {"exit", "loop", "run"} : pc' = [pc EXCEPT ![w] = l]
        /\ state' = state
    BY <1>4, WorkerEffects DEF Settled
  <2>2. w \notin wait_pending
    BY <1>4 DEF WorkerStep, WorkerStart, WorkerWake, WorkerDone, SleepingWorkers
  <2>3. \A v \in wait_pending : pc'[v] = pc[v]
    BY <1>0, <2>1, <2>2
  <2>4. queue_pending = << >> => \A n \in Node : node[n].status # "PENDING"
    BY <1>0 DEF ToSet
  <2> QED
    BY <2>1, <2>3, <2>4 DEF SleepingWorkers
<1>5. ASSUME NEW p \in Thread, Submit(p) PROVE SleepingWorkers'
  <2>1. PICK t \in Task, priority \in Int :
          \/ RunNew(p, t, priority) \/ RunPending(p, t, priority)
          \/ RunActive(p, t) \/ RunSettled(p, t)
    BY <1>5, SubmitCases
  <2>2. CASE RunNew(p, t, priority)
    BY <1>1, <2>2 DEF RunNew, WakeWorkers
  <2>3. CASE RunPending(p, t, priority)
    <3>1. node[map_task[t]].status = "PENDING" /\ map_task[t] \in Node
          /\ wait_pending' = wait_pending
      BY <2>3 DEF RunPending, StatusOf, IInv, Queues, Agree
    <3> QED
      BY <1>1, <3>1 DEF SleepingWorkers
  <2>4. CASE RunActive(p, t)
    <3>1. /\ UNCHANGED <<state, wait_pending, pc>>
          /\ node' = [node EXCEPT ![map_task[t]].purge_id = purge_id]
      BY <2>4 DEF RunActive
    <3>2. \A n \in Node : node'[n].status = node[n].status
      BY <1>0, <3>1 DEF NodeRecord
    <3> QED
      BY <1>2, <3>1, <3>2
  <2>5. CASE RunSettled(p, t)
    <3>1. /\ UNCHANGED <<state, wait_pending, pc>>
          /\ Returns({}, {map_task[t]}, {})
      BY <2>1, <2>5, RunSettledReturns DEF RunSettled
    <3> QED
      BY <1>2, <1>3, <3>1
  <2> QED
    BY <2>1, <2>2, <2>3, <2>4, <2>5
<1>6. ASSUME NEW c \in Client, TakeBack(c) \/ Continue(c)
      PROVE  SleepingWorkers'
  <2>1. /\ UNCHANGED <<state, wait_pending>>
        /\ \E l \in {"idle", "undefined"} \cup Holding : pc' = [pc EXCEPT ![c] = l]
    BY <1>6, ClientGoes
  <2>2. \A w \in wait_pending : pc'[w] = pc[w]
    BY <1>0, <2>1
  <2>3. \A n \in Node : node'[n].status = "PENDING" => node[n].status = "PENDING"
    BY <1>3, <1>6, ClientQueues DEF queues
  <2> QED
    BY <1>2, <2>1, <2>2, <2>3
<1>7. CASE MainCall \/ Finish \/ MainContinue
  <2>1. state \in {"NONE", "STOP"} => wait_pending = {}
    BY <1>0 DEF SleepingWorkers, IInv, Phases
  <2>2. CASE New \/ NewJoin \/ DeleteJoin \/ DeletePurge \/ DeleteFree
    <3>1. state \in {"NONE", "STOP"} /\ wait_pending' = wait_pending
      BY <2>2 DEF New, NewJoin, DeleteJoin, DeletePurge, DeleteFree, IInv,
                  Phases, InDelete
    <3> QED
      BY <1>1, <2>1, <3>1
  <2>3. CASE DeleteStop
    BY <1>1, <2>3 DEF DeleteStop, WakeWorkers
  <2>4. CASE \/ Purge \/ Flush \/ Finish \/ ResetPurge \/ ResetWait
             \/ ResetRestore \/ \E blocking \in BOOLEAN : ResetBegin(blocking)
    <3>1. /\ UNCHANGED <<state, wait_pending>>
          /\ \/ pc' = pc
             \/ \E l \in ClientPC : pc' = [pc EXCEPT ![Main] = l]
      BY <2>4 DEF Purge, Flush, Finish, ResetPurge, ResetWait, ResetRestore,
                  ResetBegin, Goto, AfterResetPurge, ClientPC, InReset
    <3>2. \A w \in wait_pending : pc'[w] = pc[w]
      BY <1>0, <3>1
    <3>3. node' = node \/ \E P, C, M : Returns(P, C, M)
      <4>1. CASE Purge \/ ResetPurge
        BY <4>1, PurgeReturns DEF Purge, ResetPurge
      <4>2. CASE Flush \/ Finish
        BY <4>2, FlushReturns DEF Flush, Finish
      <4>3. CASE \/ ResetWait \/ ResetRestore
                 \/ \E blocking \in BOOLEAN : ResetBegin(blocking)
        BY <4>3 DEF ResetWait, ResetRestore, ResetBegin, queues
      <4> QED
        BY <2>4, <4>1, <4>2, <4>3
    <3>4. \A n \in Node : node'[n].status = "PENDING" =>
                            node[n].status = "PENDING"
      BY <1>3, <3>3
    <3> QED
      BY <1>2, <3>1, <3>2, <3>4
  <2> QED
    BY <1>7, <2>2, <2>3, <2>4 DEF MainCall, MainContinue
<1>8. CASE (\E p \in Thread : Spurious(p)) \/ UNCHANGED vars
  <2>1. /\ UNCHANGED <<state, node, pc>> /\ wait_pending' \subseteq wait_pending
    BY <1>8 DEF Spurious, vars, queues
  <2> QED
    BY <1>2, <2>1
<1> QED
  BY <1>4, <1>5, <1>6, <1>7, <1>8 DEF Next

LEMMA NextSleepers ==
  ASSUME IInv, KeepsAwaited, Helpers, \A c \in Client : Sleeps(c), [Next]_vars,
         NEW c \in Client
  PROVE  Sleeps(c)' /\ ((\A d \in Client : Waits(d)) => Waits(c)')
<1>0. Main \in Client
  BY WorkQAssumption
<1>1. CASE \E w \in Worker : WorkerStep(w)
  BY <1>1, WorkerSleepers
<1>2. ASSUME NEW p \in Thread, Submit(p)
      PROVE  Sleeps(c)' /\ (Waits(c) => Waits(c)')
  <2>1. PICK t \in Tasks[p] :
          \/ \E priority \in Priorities[t] :
               RunNew(p, t, priority) \/ RunPending(p, t, priority)
          \/ RunActive(p, t)
          \/ RunSettled(p, t)
    BY <1>2 DEF Submit
  <2>2. t \in Task /\ Priorities[t] \subseteq Int /\ 0 \in Int
    BY WorkQAssumption
  <2>3. PICK priority \in Int :
          \/ RunNew(p, t, priority) \/ RunPending(p, t, priority)
          \/ RunActive(p, t) \/ RunSettled(p, t)
    BY <2>1, <2>2
  <2> QED
    BY <2>3, SubmitSleepers
<1>3. CASE \E p \in Client : TakeBack(p) \/ Continue(p)
  BY <1>3, ClientSleepers
<1>4. CASE MainCall \/ Finish \/ MainContinue
  BY <1>0, <1>4, MainSleepers
<1>5. CASE (\E p \in Thread : Spurious(p)) \/ UNCHANGED vars
  <2>1. /\ UNCHANGED <<node, map_task, pc, cur, want>>
        /\ wait_complete' \subseteq wait_complete
    BY <1>5 DEF Spurious, vars, queues
  <2>2. \A n \in Node : Rests(n)
    BY <2>1 DEF Rests
  <2>3. Sleeps(c)'
    BY <2>1, OthersSleep
  <2>4. Waits(c) => Waits(c)'
    BY <2>1, <2>2, OthersWait
  <2> QED
    BY <2>3, <2>4
<1> QED
  BY <1>1, <1>2, <1>3, <1>4, <1>5 DEF Next

\* The invariant about clients asleep, and the one about all sleepers.
Sleepers == Helpers /\ \A c \in Client : Sleeps(c)
Waiters  == SleepingWorkers /\ \A c \in Client : Waits(c)

LEMMA SleepersHold ==
  ASSUME ResetsAlone, KeepsAwaited
  PROVE  Spec => []Sleepers
<1>1. Init => Sleepers
  <2> SUFFICES ASSUME Init PROVE Sleepers
    OBVIOUS
  <2>1. \A c \in Client : c \in Thread /\ pc[c] = "idle"
    BY DEF Init, Thread
  <2> QED
    BY <2>1, WorkQAssumption DEF Sleepers, Helpers, Sleeps, Blocked, InDelete
<1>2. IInv /\ Sleepers /\ [Next]_vars => Sleepers'
  <2> SUFFICES ASSUME IInv, Sleepers, [Next]_vars PROVE Sleepers'
    OBVIOUS
  <2>1. Helpers /\ \A c \in Client : Sleeps(c)
    BY DEF Sleepers
  <2>2. Helpers'
    BY <2>1, NextHelpers
  <2>3. \A c \in Client : Sleeps(c)'
    BY <2>1, NextSleepers
  <2> QED
    BY <2>2, <2>3 DEF Sleepers
<1>3. Spec => []IInv
  BY WorkQInvariant
<1> QED
  BY <1>1, <1>2, <1>3, PTL DEF Spec

LEMMA WaitersHold ==
  ASSUME ResetsAlone, KeepsAwaited
  PROVE  Spec => []Waiters
<1>1. Init => Waiters
  BY DEF Init, Waiters, SleepingWorkers, Waits
<1>2. IInv /\ Sleepers /\ Waiters /\ [Next]_vars => Waiters'
  <2> SUFFICES ASSUME IInv, Sleepers, Waiters, [Next]_vars PROVE Waiters'
    OBVIOUS
  <2>1. /\ Helpers /\ \A c \in Client : Sleeps(c)
        /\ SleepingWorkers /\ \A c \in Client : Waits(c)
    BY DEF Sleepers, Waiters
  <2>2. SleepingWorkers'
    BY <2>1, NextWorkersSleep
  <2>3. \A c \in Client : Waits(c)'
    BY <2>1, NextSleepers
  <2> QED
    BY <2>2, <2>3 DEF Waiters
<1>3. Spec => []IInv
  BY WorkQInvariant
<1> QED
  BY <1>1, <1>2, <1>3, SleepersHold, PTL DEF Spec

\* What a sleeping client holds is the node the map has for its task.
LEMMA SleeperHolds ==
  ASSUME IInv, NEW c \in Client, c \in wait_complete, Waits(c),
         pc[c] \in Blocked
  PROVE  StatusOf(want[c]) = node[cur[c]].status
<1>1. cur[c] \in Node /\ want[c] \in Task
  BY DEF IInv, Held, Holding, Blocked
<1>2. node[cur[c]].task = want[c] /\ node[cur[c]].status # "FREE"
  BY DEF Waits, Blocked, Unsettled
<1>3. map_task[want[c]] = cur[c]
  BY <1>1, <1>2 DEF IInv, Queues, Agree
<1>4. map_task[want[c]] # NULL
  BY <1>1, <1>3, WorkQAssumption
<1> QED
  BY <1>3, <1>4 DEF StatusOf

(* Until a broadcast wakes it, a client asleep in wait or cancel keeps the
   node of its task, not yet settled: others may submit the same task, wait
   for it, flush and finish, and none of it frees a node a client sleeps on.
   What they may not do is take the task while it is pending. *)
THEOREM WorkQSleeperWatches ==
  ASSUME ResetsAlone, KeepsAwaited
  PROVE  Spec => []SleeperWatches
<1>1. IInv /\ Waiters => SleeperWatches
  <2> SUFFICES ASSUME IInv, Waiters, NEW c \in wait_complete
               PROVE  /\ pc[c] = "wait_block" =>
                           /\ node[cur[c]].task = want[c]
                           /\ node[cur[c]].status \in {"PENDING", "ACTIVE"}
                      /\ pc[c] = "cancel_block" =>
                           /\ node[cur[c]].task = want[c]
                           /\ node[cur[c]].status = "ACTIVE"
    BY DEF SleeperWatches
  <2>1. Waits(c)
    BY DEF IInv, Types, Waiters
  <2> QED
    BY <2>1 DEF Waits, Unsettled
<1>2. Spec => []IInv
  BY WorkQInvariant
<1> QED
  BY <1>1, <1>2, WaitersHold, PTL

(* No thread sleeps through what it waits for: a broadcast comes with every
   change that ends somebody's wait. *)
THEOREM WorkQNoLostWakeup ==
  ASSUME ResetsAlone, KeepsAwaited, FinishesAlone
  PROVE  Spec => []NoLostWakeup
<1>1. IInv /\ Sleepers /\ Waiters => NoLostWakeup
  <2> SUFFICES ASSUME IInv, Sleepers, Waiters PROVE NoLostWakeup
    OBVIOUS
  <2>1. /\ \A n \in Node : n \in ToSet(queue_pending) <=> node[n].status = "PENDING"
        /\ \A n \in Node : n \in queue_active <=> node[n].status = "ACTIVE"
        /\ queue_pending \in Seq(Node)
    BY DEF IInv, Queues, Agree
  <2>2. queue_pending # << >> => \E n \in Node : node[n].status = "PENDING"
    BY <2>1, HeadTailFacts
  <2>3. wait_pending # {} => state # "STOP" /\ queue_pending = << >>
    BY <2>2 DEF Waiters, SleepingWorkers
  <2>4. \A n \in Node : /\ node[n].status = "PENDING" => queue_pending # << >>
                        /\ node[n].status = "ACTIVE" => queue_active # {}
    BY <2>1 DEF ToSet
  <2>5. ASSUME NEW c \in wait_complete
        PROVE  \/ pc[c] = "finish" /\ (queue_pending # << >> \/ queue_active # {})
               \/ pc[c] = "reset_wait" /\ queue_active # {}
               \/ pc[c] = "wait_block" /\ StatusOf(want[c]) \in {"PENDING", "ACTIVE"}
               \/ pc[c] = "cancel_block" /\ StatusOf(want[c]) = "ACTIVE"
    <3>1. c \in Client
      BY DEF IInv, Types
    <3>2. Waits(c)
      BY <3>1 DEF Waiters
    <3>3. pc[c] \in Blocked => StatusOf(want[c]) = node[cur[c]].status
      BY <3>1, <3>2, SleeperHolds
    <3>4. \/ pc[c] = "finish" /\ \E n \in Node : node[n].status \in Unsettled
          \/ pc[c] = "reset_wait" /\ \E n \in Node : node[n].status = "ACTIVE"
          \/ pc[c] = "wait_block" /\ node[cur[c]].status \in Unsettled
          \/ pc[c] = "cancel_block" /\ node[cur[c]].status = "ACTIVE"
      BY <3>2 DEF Waits
    <3> QED
      BY <2>4, <3>3, <3>4 DEF Unsettled, Blocked
  <2> QED
    BY <2>3, <2>5 DEF NoLostWakeup
<1>2. Spec => []IInv
  BY WorkQInvariant
<1> QED
  BY <1>1, <1>2, SleepersHold, WaitersHold, PTL

-----------------------------------------------------------------------------
(* A client inside a call has somebody to go on for it. *)

(* While the queue runs all of its threads exist and stay in their loop, and
   delete joins only threads that exist; the clients but main are in wait and
   cancel only while it runs. *)
Staffed ==
  /\ state = "RUNNING" => \A w \in Worker : pc[w] \in {"start", "loop", "run"}
  /\ pc[Main] = "delete_join" => \A w \in Worker : pc[w] # "none"
  /\ \A c \in Client \ {Main} : pc[c] \in Holding => state = "RUNNING"

\* Where a thread is when its next section of code waits for nobody.
Steady == {"start", "run", "read_status", "reset_purge",
           "reset_purge_complete", "reset_restore", "delete_purge",
           "delete_free"}

\* Thread p is inside the workq and its next section waits for nobody: what
\* the guards of the workers' steps, Continue, Finish and MainContinue ask.
MayGoOn(p) ==
  \/ pc[p] \in Steady
  \/ pc[p] = "loop" /\ p \notin wait_pending
  \/ /\ pc[p] \in {"finish", "reset_wait"} \cup Blocked
     /\ p \notin wait_complete
  \/ pc[p] = "new_join" /\ \A w \in Worker : pc[w] \in {"none", "exit"}
  \/ pc[p] = "delete_join" /\ \A w \in Worker : pc[w] = "exit"

LEMMA WorkerStaffed ==
  ASSUME IInv, Staffed, NEW w \in Worker, WorkerStep(w)
  PROVE  Staffed'
<1>1. /\ pc \in [Thread -> ClientPC \cup WorkerPC] /\ w \in Thread
      /\ Main \in Client
      /\ \A c \in Client : c \in Thread /\ c # w
      /\ \A v \in Worker : v \in Thread
  BY WorkQAssumption DEF IInv, Types, Thread
<1>2. PICK nd, active : LoopTop(w, nd, active) /\ UNCHANGED state
  BY DEF WorkerStep, WorkerStart, WorkerWake, WorkerDone
<1>3. PICK l \in {"exit", "loop", "run"} :
        /\ pc' = [pc EXCEPT ![w] = l]
        /\ state = "RUNNING" => l # "exit"
  BY <1>2 DEF LoopTop, Begin
<1>4. /\ \A c \in Client : pc'[c] = pc[c]
      /\ \A v \in Worker : pc'[v] = IF v = w THEN l ELSE pc[v]
  BY <1>1, <1>3
<1> QED
  BY <1>1, <1>2, <1>3, <1>4 DEF Staffed

LEMMA MainStaffed ==
  ASSUME IInv, Staffed, MainCall \/ Finish \/ MainContinue
  PROVE  Staffed'
<1>0. /\ pc \in [Thread -> ClientPC \cup WorkerPC] /\ Main \in Thread
      /\ Main \in Client
      /\ \A c \in Client : c \in Thread /\ c \notin Worker
      /\ \A w \in Worker : w \in Thread
  BY WorkQAssumption DEF IInv, Types, Thread
<1>1. \A c \in Client \ {Main} : pc'[c] = pc[c]
  BY MainGoes
<1>2. CASE New
  <2>1. PICK created \in SUBSET Worker :
          /\ state' = IF created = Worker THEN "RUNNING" ELSE "STOP"
          /\ pc' = [p \in Thread |->
                      IF p \in created THEN "start"
                      ELSE IF p = Main /\ created # Worker THEN "new_join"
                      ELSE pc[p]]
    BY <1>2 DEF New
  <2>2. state = "NONE" /\ pc[Main] = "idle"
    BY <1>2 DEF New
  <2>3. pc'[Main] # "delete_join"
    BY <1>0, <2>1, <2>2
  <2>4. state' = "RUNNING" => \A w \in Worker : pc'[w] = "start"
    BY <1>0, <2>1
  <2> QED
    BY <1>1, <2>2, <2>3, <2>4 DEF Staffed
<1>3. CASE NewJoin
  <2>1. state = "STOP"
    BY <1>3 DEF NewJoin, IInv, Phases
  <2>2. state' = "NONE" /\ pc'[Main] = "idle"
    BY <1>0, <1>3 DEF NewJoin
  <2> QED
    BY <1>1, <2>1, <2>2 DEF Staffed
<1>4. CASE DeleteJoin \/ DeletePurge \/ DeleteFree
  <2>1. state = "STOP"
    BY <1>4 DEF DeleteJoin, DeletePurge, DeleteFree, IInv, Phases, InDelete
  <2>2. state' \in {"STOP", "NONE"}
    BY <1>4, <2>1 DEF DeleteJoin, DeletePurge, DeleteFree
  <2>3. pc'[Main] # "delete_join"
    BY <1>0, <1>4 DEF DeleteJoin, DeletePurge, DeleteFree, Goto
  <2> QED
    BY <1>1, <2>1, <2>2, <2>3 DEF Staffed
<1>5. CASE DeleteStop
  <2>1. /\ state = "RUNNING" /\ state' = "STOP"
        /\ \A c \in Client : pc[c] = "idle"
        /\ pc' = [pc EXCEPT ![Main] = "delete_join"]
    BY <1>0, <1>5 DEF DeleteStop, MayCall, Goto
  <2>2. \A w \in Worker : pc'[w] = pc[w]
    BY <1>0, <2>1
  <2>3. \A c \in Client \ {Main} : pc'[c] \notin Holding
    BY <1>1, <2>1 DEF Holding
  <2> QED
    BY <2>1, <2>2, <2>3 DEF Staffed
<1>6. CASE \/ Purge \/ Flush \/ Finish \/ ResetPurge \/ ResetWait
           \/ ResetRestore \/ \E blocking \in BOOLEAN : ResetBegin(blocking)
  <2>1. /\ state' = state
        /\ \/ pc' = pc
           \/ \E l \in ClientPC \ {"delete_join"} : pc' = [pc EXCEPT ![Main] = l]
    BY <1>6 DEF Purge, Flush, Finish, ResetPurge, ResetWait, ResetRestore,
                ResetBegin, Goto, AfterResetPurge, ClientPC, InReset
  <2>2. /\ \A w \in Worker : pc'[w] = pc[w]
        /\ pc'[Main] = "delete_join" => pc[Main] = "delete_join"
    BY <1>0, <2>1
  <2> QED
    BY <1>1, <2>1, <2>2 DEF Staffed
<1> QED
  BY <1>2, <1>3, <1>4, <1>5, <1>6 DEF MainCall, MainContinue

LEMMA NextStaffed ==
  ASSUME IInv, Staffed, [Next]_vars
  PROVE  Staffed'
<1>0. /\ pc \in [Thread -> ClientPC \cup WorkerPC]
      /\ Main \in Client
      /\ \A c \in Client : c \in Thread /\ c \notin Worker
      /\ \A w \in Worker : w \in Thread
  BY WorkQAssumption DEF IInv, Types, Thread
<1>1. ASSUME NEW c \in Client, TakeBack(c) \/ Continue(c)
      PROVE  Staffed'
  <2>1. /\ state = "RUNNING" \/ pc[c] \in Holding
        /\ UNCHANGED state
        /\ \E l \in {"idle", "undefined"} \cup Holding :
             pc' = [pc EXCEPT ![c] = l]
    BY <1>1, ClientGoes
  <2>2. PICK l \in {"idle", "undefined"} \cup Holding : pc' = [pc EXCEPT ![c] = l]
    BY <2>1
  <2>3. /\ \A w \in Worker : pc'[w] = pc[w]
        /\ \A d \in Client : d # c => pc'[d] = pc[d]
        /\ pc'[c] = l /\ l # "delete_join"
    BY <1>0, <2>2 DEF Holding
  <2>4. c # Main => state = "RUNNING"
    BY <2>1 DEF Staffed
  <2> QED
    BY <1>0, <2>1, <2>3, <2>4 DEF Staffed
<1>2. CASE \/ \E p \in Thread : Submit(p) \/ Spurious(p)
           \/ UNCHANGED vars
  <2>1. UNCHANGED <<state, pc>>
    BY <1>2 DEF Submit, RunNew, RunPending, RunActive, RunSettled, Spurious, vars
  <2> QED
    BY <2>1 DEF Staffed
<1> QED
  BY <1>1, <1>2, WorkerStaffed, MainStaffed DEF Next

(* The node a sleeping client waits for, or one of those, is in the hands of a
   worker, or pending while no worker sleeps. *)
LEMMA SleeperHasHelp ==
  ASSUME IInv, Sleepers, Waiters, Staffed, FinishesAlone, Worker # {},
         NEW c \in wait_complete
  PROVE  \E w \in Worker : MayGoOn(w)
<1>1. c \in Client /\ Waits(c)
  BY DEF IInv, Types, Waiters
<1>2. PICK n \in Node : node[n].status \in Unsettled
  <2>1. pc[c] \in Blocked => cur[c] \in Node
    BY <1>1 DEF IInv, Held, Holding, Blocked
  <2> QED
    BY <1>1, <2>1 DEF Waits, Unsettled, Blocked
<1>3. CASE node[n].status = "ACTIVE"
  <2>1. n \in queue_active
    BY <1>3 DEF IInv, Queues, Agree
  <2>2. PICK w \in Worker : pc[w] = "run"
    BY <2>1 DEF IInv, OneWorkerPerActive, Running
  <2> QED
    BY <2>2 DEF MayGoOn, Steady
<1>4. CASE node[n].status = "PENDING"
  <2>1. wait_pending = {}
    BY <1>4 DEF Waiters, SleepingWorkers
  <2>2. pc[c] \in {"finish", "reset_wait"} \cup Holding
    BY <1>1 DEF Waits, Holding
  <2>3. state = "RUNNING"
    <3>1. CASE c = Main
      <4>1. pc[Main] # "idle" /\ pc[Main] \notin InDelete \cup {"new_join"}
        BY <2>2, <3>1 DEF Holding, InDelete
      <4> QED
        BY <4>1 DEF IInv, Types, Phases
    <3>2. CASE c # Main
      <4>1. pc[c] \in Holding
        BY <1>1, <2>2, <3>2 DEF Sleepers, Helpers, Holding
      <4> QED
        BY <1>1, <3>2, <4>1 DEF Staffed
    <3> QED
      BY <3>1, <3>2
  <2>4. PICK w \in Worker : pc[w] \in {"start", "loop", "run"}
    BY <2>3 DEF Staffed
  <2> QED
    BY <2>1, <2>4 DEF MayGoOn, Steady
<1> QED
  BY <1>2, <1>3, <1>4 DEF Unsettled

(* A client that is inside any call may go on itself, or a worker may: wait,
   cancel, finish, reset and delete never wait for another client alone, nor
   for a thread that waits in turn (cc_workq.c:116, 362, 470, 684, 729). *)
NoDeadlock ==
  \A c \in Client : pc[c] \notin {"idle", "undefined"} =>
    MayGoOn(c) \/ \E w \in Worker : MayGoOn(w)

THEOREM WorkQNoDeadlock ==
  ASSUME ResetsAlone, KeepsAwaited, FinishesAlone, Worker # {}
  PROVE  Spec => []NoDeadlock
<1>1. Init => Staffed
  <2> SUFFICES ASSUME Init PROVE Staffed
    OBVIOUS
  <2>1. \A c \in Client : pc[c] = "idle"
    BY DEF Init, Thread
  <2> QED
    BY <2>1, WorkQAssumption DEF Init, Staffed, Holding
<1>2. IInv /\ Staffed /\ [Next]_vars => Staffed'
  BY NextStaffed
<1>3. IInv /\ Sleepers /\ Waiters /\ Staffed => NoDeadlock
  <2> SUFFICES ASSUME IInv, Sleepers, Waiters, Staffed,
                      NEW c \in Client, pc[c] \notin {"idle", "undefined"}
               PROVE  MayGoOn(c) \/ \E w \in Worker : MayGoOn(w)
    BY DEF NoDeadlock
  <2>1. \/ pc[c] \in Steady
        \/ pc[c] \in {"finish", "reset_wait"} \cup Blocked
        \/ pc[c] \in {"new_join", "delete_join"}
    BY DEF IInv, Types, ClientPC, Holding, InReset, InDelete, Blocked, Steady
  <2>2. CASE pc[c] \in Steady
    BY <2>2 DEF MayGoOn
  <2>3. CASE pc[c] \in {"finish", "reset_wait"} \cup Blocked
    <3>1. CASE c \notin wait_complete
      BY <2>3, <3>1 DEF MayGoOn
    <3>2. CASE c \in wait_complete
      BY <3>2, SleeperHasHelp
    <3> QED
      BY <3>1, <3>2
  <2>4. CASE pc[c] \in {"new_join", "delete_join"}
    <3>1. c = Main
      BY <2>4 DEF Sleepers, Helpers, Holding
    <3>2. state = "STOP"
      BY <2>4, <3>1 DEF IInv, Phases, InDelete
    <3>3. wait_pending = {}
      BY <3>2 DEF Waiters, SleepingWorkers
    <3>4. ASSUME NEW w \in Worker, pc[w] \notin {"none", "exit"}
          PROVE  MayGoOn(w)
      BY <3>3, <3>4 DEF IInv, Types, WorkerPC, MayGoOn, Steady
    <3>5. CASE \A w \in Worker : pc[w] \in {"none", "exit"}
      BY <2>4, <3>1, <3>5 DEF Staffed, MayGoOn
    <3> QED
      BY <3>4, <3>5
  <2> QED
    BY <2>1, <2>2, <2>3, <2>4
<1>4. Spec => []IInv
  BY WorkQInvariant
<1> QED
  BY <1>1, <1>2, <1>3, <1>4, SleepersHold, WaitersHold, PTL DEF Spec

-----------------------------------------------------------------------------
(* The workq implements TaskQueue: the status of every task and the line of
   the tasks that wait are what the queues and the map make of them. *)

Stands == [t \in Task |-> StatusOf(t)]
LineOf(nd, q) == [i \in DOMAIN q |-> nd[q[i]].task]
InLine == LineOf(node, queue_pending)

\* TaskQueue brings its own copies of the operators on sequences and sets.
LEMMA SameOperators ==
  /\ \A s, i, x : Lifecycle!InsertAt(s, i, x) = InsertAt(s, i, x)
  /\ \A s, S : Lifecycle!Keep(s, S) = Keep(s, S)
  /\ \A S : Lifecycle!Cardinality(S) = Cardinality(S)
<1>1. \A s, i, x : Lifecycle!InsertAt(s, i, x) = InsertAt(s, i, x)
  BY DEF Lifecycle!InsertAt, InsertAt
<1>2. \A s, S : Lifecycle!Keep(s, S) = Keep(s, S)
  BY Zenon DEF Lifecycle!Keep, Keep
<1>3. \A S : Lifecycle!Cardinality(S) = Cardinality(S)
  BY Zenon DEF Lifecycle!Cardinality, Cardinality
<1> QED
  BY <1>1, <1>2, <1>3

LEMMA StandsFacts ==
  ASSUME IInv, NEW t \in Task
  PROVE  /\ Stands[t] = StatusOf(t)
         /\ map_task[t] = NULL => StatusOf(t) = "ERROR"
         /\ map_task[t] # NULL => /\ map_task[t] \in Node
                                  /\ node[map_task[t]].task = t
                                  /\ StatusOf(t) = node[map_task[t]].status
                                  /\ StatusOf(t) \in Status
<1>1. map_task[t] # NULL => /\ map_task[t] \in Node
                            /\ node[map_task[t]].task = t
  BY DEF IInv, Queues, Agree
<1>2. map_task[t] # NULL => node[map_task[t]].status \in Status
  BY <1>1, WorkQAssumption
     DEF IInv, Queues, Agree, Blank, FreeNode, NodeRecord
<1> QED
  BY <1>1, <1>2 DEF Stands, StatusOf

\* l is the line of the tasks whose nodes are on q.
LinesUp(nd, map, q, l) ==
  /\ Image(q, l, [n \in Node |-> nd[n].task], Node, Task \cup {NULL})
  /\ l \in Seq(Task) /\ Len(l) = Len(q)
  /\ DOMAIN l = 1..Len(q) /\ DOMAIN q = 1..Len(q)
  /\ \A i \in 1..Len(q) :
       /\ q[i] \in Node /\ nd[q[i]].status = "PENDING"
       /\ l[i] = nd[q[i]].task
       /\ l[i] \in Task /\ map[l[i]] = q[i]

LEMMA LineFacts ==
  ASSUME NEW nd, NEW map, NEW q, NEW active, NEW complete,
         Agree(nd, map, q, active, complete)
  PROVE  LinesUp(nd, map, q, LineOf(nd, q))
<1> DEFINE len == Len(q)
           l == LineOf(nd, q)
<1>1. /\ q \in Seq(Node) /\ len \in Nat /\ DOMAIN q = 1..len
      /\ \A i \in 1..len : q[i] \in Node
      /\ nd \in [Node -> NodeRecord]
  BY DEF Agree
<1>2. \A i \in 1..len : nd[q[i]].status = "PENDING"
  BY <1>1 DEF Agree, ToSet
<1>3. \A i \in 1..len : nd[q[i]].task \in Task /\ map[nd[q[i]].task] = q[i]
  BY <1>1, <1>2 DEF Agree
<1>4. /\ l = [i \in 1..len |-> nd[q[i]].task]
      /\ DOMAIN l = 1..len /\ \A i \in 1..len : l[i] = nd[q[i]].task
  BY <1>1 DEF LineOf
<1>5. l \in Seq(Task) /\ Len(l) = len
  BY <1>1, <1>3, <1>4
<1>6. l \in Seq(Task \cup {NULL})
  BY <1>5
<1>7. Image(q, l, [n \in Node |-> nd[n].task], Node, Task \cup {NULL})
  <2>1. \A i \in 1..len : l[i] = [n \in Node |-> nd[n].task][q[i]]
    BY <1>1, <1>4
  <2> HIDE DEF l
  <2> QED
    BY <1>1, <1>5, <1>6, <2>1 DEF Image
<1> HIDE DEF l
<1> QED
  BY <1>1, <1>2, <1>3, <1>4, <1>5, <1>7 DEF LinesUp, l

LEMMA InLineFacts ==
  ASSUME IInv
  PROVE  /\ Image(queue_pending, InLine, [n \in Node |-> node[n].task], Node,
                  Task \cup {NULL})
         /\ InLine \in Seq(Task) /\ Len(InLine) = Len(queue_pending)
         /\ DOMAIN InLine = 1..Len(queue_pending)
         /\ DOMAIN queue_pending = 1..Len(queue_pending)
         /\ \A i \in 1..Len(queue_pending) :
              /\ queue_pending[i] \in Node
              /\ node[queue_pending[i]].status = "PENDING"
              /\ InLine[i] = node[queue_pending[i]].task
              /\ InLine[i] \in Task /\ map_task[InLine[i]] = queue_pending[i]
<1>1. LinesUp(node, map_task, queue_pending, InLine)
  BY LineFacts DEF IInv, Queues, InLine
<1> QED
  BY <1>1 DEF LinesUp

LEMMA NextInLineFacts ==
  ASSUME IInv'
  PROVE  /\ InLine' \in Seq(Task) /\ Len(InLine') = Len(queue_pending')
         /\ \A i \in 1..Len(queue_pending') :
              InLine'[i] = node'[queue_pending'[i]].task
<1>1. LinesUp(node', map_task', queue_pending', LineOf(node', queue_pending'))
  BY LineFacts DEF IInv, Queues
<1>2. InLine' = LineOf(node', queue_pending')
  BY DEF InLine, LineOf
<1> QED
  BY <1>1, <1>2 DEF LinesUp

LEMMA SameStands ==
  ASSUME IInv, UNCHANGED <<queue_pending, map_task>>,
         \A n \in Node : /\ node'[n].status = node[n].status
                         /\ node'[n].task = node[n].task
  PROVE  UNCHANGED <<Stands, InLine>>
<1>1. \A t \in Task : StatusOf(t)' = StatusOf(t)
  BY DEF StatusOf, IInv, Queues, Agree
<1>2. \A i \in DOMAIN queue_pending : queue_pending[i] \in Node
  BY InLineFacts
<1> QED
  BY <1>1, <1>2 DEF Stands, InLine, LineOf

\* Prio[t] is the priority TaskQueue knows t by.
Prio == [t \in Task |-> CHOOSE p \in Priorities[t] : TRUE]

LEMMA LifecycleSubmits ==
  ASSUME NEW t \in Task, NEW i \in 1..(Len(InLine) + 1),
         Stands[t] = "ERROR", Stands' = [Stands EXCEPT ![t] = "PENDING"],
         \A j \in DOMAIN InLine : Prio[InLine[j]] >= Prio[t] <=> j < i,
         InLine' = InsertAt(InLine, i, t)
  PROVE  Lifecycle!Submit(t)
<1>1. InLine' = Lifecycle!InsertAt(InLine, i, t)
  BY SameOperators
<1>2. \E k \in 1..(Len(InLine) + 1) :
        /\ \A j \in DOMAIN InLine : Prio[InLine[j]] >= Prio[t] <=> j < k
        /\ InLine' = Lifecycle!InsertAt(InLine, k, t)
  BY <1>1
<1> QED
  BY <1>2, Zenon DEF Lifecycle!Submit, Stands, InLine, LineOf, Prio

LEMMA RunNewSubmits ==
  ASSUME IInv, IInv', OnePriority, Priced, PendingSorted, NEW p, NEW t \in Task,
         NEW priority \in Priorities[t], RunNew(p, t, priority)
  PROVE  Lifecycle!Submit(t)
<1> DEFINE q == queue_pending
           i == InsertPos(priority)
<1>0. /\ q \in Seq(Node) /\ node \in [Node -> NodeRecord] /\ priority \in Int
      /\ NULL \notin Task
      /\ map_task \in [Task -> Node \cup {NULL}]
  BY WorkQAssumption DEF IInv, Queues, Agree
<1>1. PICK n \in Node :
        /\ node[n] = FreeNode
        /\ node' = [node EXCEPT ![n] =
                      [status |-> "PENDING", priority |-> priority,
                       purge_id |-> purge_id, task |-> t]]
        /\ q' = InsertAt(q, i, n)
        /\ map_task' = [map_task EXCEPT ![t] = n]
  BY DEF RunNew
<1>2. /\ node'[n].status = "PENDING" /\ node'[n].task = t
      /\ \A m \in Node : m # n => node'[m] = node[m]
      /\ map_task[t] = NULL /\ map_task'[t] = n
      /\ \A u \in Task : u # t => map_task'[u] = map_task[u]
  BY <1>0, <1>1 DEF RunNew
<1>3. \A u \in Task : map_task[u] # n
  BY <1>0, <1>1, StandsFacts, WorkQAssumption DEF FreeNode
<1>4. Stands[t] = "ERROR" /\ Stands' = [Stands EXCEPT ![t] = "PENDING"]
  <2>1. Stands[t] = "ERROR"
    BY <1>2, StandsFacts
  <2>2. \A u \in Task : u # t => StatusOf(u)' = StatusOf(u)
    BY <1>0, <1>2, <1>3 DEF StatusOf
  <2>3. StatusOf(t)' = "PENDING"
    BY <1>2, WorkQAssumption DEF StatusOf
  <2> QED
    BY <2>1, <2>2, <2>3 DEF Stands
<1>5. i \in 1..(Len(q) + 1) /\ Len(q) \in Nat
  BY <1>0, InsertPosInRange
<1>6. \A j \in DOMAIN InLine : Prio[InLine[j]] >= Prio[t] <=> j < i
  <2>1. \A j \in DOMAIN q : j < i <=> node[q[j]].priority >= priority
    BY <1>0, InsertPosSplits
  <2>2. Prio[t] = priority
    BY DEF OnePriority, Prio
  <2>3. ASSUME NEW j \in DOMAIN InLine
        PROVE  Prio[InLine[j]] = node[q[j]].priority
    <3>1. /\ q[j] \in Node /\ node[q[j]].status = "PENDING"
          /\ InLine[j] = node[q[j]].task /\ InLine[j] \in Task
      BY <2>3, InLineFacts
    <3>2. node[q[j]].priority \in Priorities[InLine[j]]
      BY <3>1 DEF Priced
    <3> QED
      BY <3>1, <3>2 DEF OnePriority, Prio
  <2>4. DOMAIN InLine = DOMAIN q
    BY InLineFacts
  <2> HIDE DEF i
  <2> QED
    BY <2>1, <2>2, <2>3, <2>4
<1>7. InLine' = InsertAt(InLine, i, t)
  <2> DEFINE l == InLine
             m == InsertAt(l, i, t)
             r == InsertAt(q, i, n)
             k == InLine'
  <2>1. /\ l \in Seq(Task) /\ Len(l) = Len(q)
        /\ \A j \in 1..Len(q) : q[j] \in Node /\ l[j] = node[q[j]].task
                                /\ node[q[j]].status = "PENDING"
    BY InLineFacts
  <2>2. /\ k \in Seq(Task) /\ Len(k) = Len(q')
        /\ \A j \in 1..Len(q') : k[j] = node'[q'[j]].task
    BY NextInLineFacts
  <2> HIDE DEF l, k, i, q
  <2>3. /\ m \in Seq(Task) /\ Len(m) = Len(l) + 1
        /\ \A j \in 1..(Len(l) + 1) :
             m[j] = IF j < i THEN l[j] ELSE IF j = i THEN t ELSE l[j - 1]
    <3>1. i \in 1..(Len(l) + 1)
      BY <1>5, <2>1
    <3> QED
      BY <2>1, <3>1, InsertAtElements
  <2>4. /\ r \in Seq(Node) /\ Len(r) = Len(q) + 1
        /\ \A j \in 1..(Len(q) + 1) :
             r[j] = IF j < i THEN q[j] ELSE IF j = i THEN n ELSE q[j - 1]
    <3>1. q \in Seq(Node)
      BY <1>0
    <3>2. i \in 1..(Len(q) + 1)
      BY <1>5
    <3>3. n \in Node
      OBVIOUS
    <3>4. /\ InsertAt(q, i, n) \in Seq(Node)
          /\ Len(InsertAt(q, i, n)) = Len(q) + 1
          /\ \A j \in 1..(Len(q) + 1) :
               InsertAt(q, i, n)[j] = IF j < i THEN q[j]
                                      ELSE IF j = i THEN n ELSE q[j - 1]
      BY <3>1, <3>2, <3>3, InsertAtElements
    <3> QED
      BY <3>4 DEF r
  <2> HIDE DEF m, r
  <2>5. q' = r
    BY <1>1 DEF r
  <2>6. \A j \in 1..Len(q) : node'[q[j]].task = l[j]
    BY <1>1, <1>2, <2>1 DEF FreeNode
  <2>7. ASSUME NEW j \in 1..(Len(q) + 1) PROVE k[j] = m[j]
    <3>1. k[j] = node'[r[j]].task
      BY <2>2, <2>4, <2>5, <2>7
    <3>2. CASE j < i
      <4>1. j \in 1..Len(q)
        BY <1>5, <3>2
      <4>2. r[j] = q[j] /\ m[j] = l[j]
        BY <2>1, <2>3, <2>4, <2>7, <3>2
      <4> QED
        BY <2>6, <3>1, <4>1, <4>2
    <3>3. CASE j = i
      <4>1. r[j] = n /\ m[j] = t
        BY <1>5, <2>1, <2>3, <2>4, <2>7, <3>3
      <4> QED
        BY <1>2, <3>1, <4>1
    <3>4. CASE j > i
      <4>1. j - 1 \in 1..Len(q) /\ ~(j < i) /\ j # i
        BY <1>5, <2>7, <3>4
      <4>2. r[j] = q[j - 1] /\ m[j] = l[j - 1]
        BY <2>1, <2>3, <2>4, <2>7, <4>1
      <4> QED
        BY <2>6, <3>1, <4>1, <4>2
    <3> QED
      BY <1>5, <3>2, <3>3, <3>4
  <2>8. Len(k) = Len(m) /\ Len(m) = Len(q) + 1
    BY <2>1, <2>2, <2>3, <2>4, <2>5
  <2>9. k = m
    BY <2>2, <2>3, <2>7, <2>8
  <2> QED
    BY <2>9 DEF k, m, l
<1>8. i \in 1..(Len(InLine) + 1)
  BY <1>5, InLineFacts
<1> HIDE DEF i, q
<1> QED
  BY <1>4, <1>6, <1>7, <1>8, LifecycleSubmits

(* A pass of a worker: the nodes of D, one at most, are done with result s,
   and those of B, the head of the queue or none, are begun. *)
Serves(w, D, B, s) ==
  /\ D = {} \/ (pc[w] = "run" /\ D = {cur[w]} /\ cur[w] \in queue_active)
  /\ pc[w] = "run" => D = {cur[w]}
  /\ \/ B = {} /\ queue_pending' = queue_pending
     \/ /\ queue_pending # << >> /\ B = {Head(queue_pending)}
        /\ queue_pending' = Tail(queue_pending)
  /\ \A n \in Node :
       /\ node'[n].task = node[n].task
       /\ node'[n].status = IF n \in B THEN "ACTIVE"
                            ELSE IF n \in D THEN s ELSE node[n].status
  /\ map_task' = map_task

LEMMA LoopTopServes ==
  ASSUME NEW w \in Worker, NEW nd \in [Node -> NodeRecord], NEW active,
         queue_pending \in Seq(Node), LoopTop(w, nd, active)
  PROVE  \E B : /\ \/ B = {} /\ queue_pending' = queue_pending
                   \/ /\ queue_pending # << >> /\ B = {Head(queue_pending)}
                      /\ queue_pending' = Tail(queue_pending)
                /\ \A n \in Node :
                     /\ node'[n].task = nd[n].task
                     /\ node'[n].status = IF n \in B THEN "ACTIVE"
                                          ELSE nd[n].status
<1>1. CASE state = "STOP" \/ queue_pending = << >>
  <2>1. queue_pending' = queue_pending /\ node' = nd
    BY <1>1 DEF LoopTop
  <2> DEFINE B == {}
  <2>2. \A n \in Node : /\ node'[n].task = nd[n].task
                        /\ node'[n].status = IF n \in B THEN "ACTIVE"
                                             ELSE nd[n].status
    BY <2>1
  <2>3. B = {}
    OBVIOUS
  <2> HIDE DEF B
  <2> QED
    BY <2>1, <2>2, <2>3
<1>2. CASE state # "STOP" /\ queue_pending # << >>
  <2> DEFINE h == Head(queue_pending)
  <2>1. /\ h \in Node /\ node' = [nd EXCEPT ![h].status = "ACTIVE"]
        /\ queue_pending' = Tail(queue_pending)
    BY <1>2, HeadTailFacts DEF LoopTop, Begin
  <2> HIDE DEF h
  <2>2. \A n \in Node :
          /\ node'[n].task = nd[n].task
          /\ node'[n].status = IF n \in {h} THEN "ACTIVE" ELSE nd[n].status
    BY <2>1 DEF NodeRecord
  <2> QED
    BY <1>2, <2>1, <2>2 DEF h
<1> QED
  BY <1>1, <1>2

LEMMA WorkerServes ==
  ASSUME IInv, NEW w \in Worker, WorkerStep(w)
  PROVE  \E D, B : \E s \in Settled : Serves(w, D, B, s)
<1>0. node \in [Node -> NodeRecord] /\ queue_pending \in Seq(Node)
  BY DEF IInv, Queues, Agree
<1>1. CASE WorkerStart(w) \/ WorkerWake(w)
  <2>1. /\ LoopTop(w, node, queue_active) /\ pc[w] # "run"
        /\ map_task' = map_task
    BY <1>1 DEF WorkerStart, WorkerWake
  <2>2. PICK B : /\ \/ B = {} /\ queue_pending' = queue_pending
                    \/ /\ queue_pending # << >> /\ B = {Head(queue_pending)}
                       /\ queue_pending' = Tail(queue_pending)
                 /\ \A n \in Node :
                      /\ node'[n].task = node[n].task
                      /\ node'[n].status = IF n \in B THEN "ACTIVE"
                                           ELSE node[n].status
    BY <1>0, <2>1, LoopTopServes
  <2>3. Serves(w, {}, B, "COMPLETE")
    BY <2>1, <2>2 DEF Serves
  <2> QED
    BY <2>3 DEF Settled
<1>2. CASE WorkerDone(w)
  <2> DEFINE m == cur[w]
             nd(s) == [node EXCEPT ![m].status = s]
  <2>1. /\ pc[w] = "run" /\ m \in queue_active /\ m \in Node
        /\ map_task' = map_task
    BY <1>2 DEF WorkerDone, IInv, OneWorkerPerActive, Running, Queues, Agree
  <2>2. PICK s \in Settled : LoopTop(w, nd(s), queue_active \ {m})
    BY <1>2 DEF WorkerDone
  <2> DEFINE after == nd(s)
             others == queue_active \ {m}
  <2> HIDE DEF m
  <2>3. /\ after \in [Node -> NodeRecord]
        /\ \A n \in Node : /\ after[n].task = node[n].task
                           /\ after[n].status = IF n = m THEN s
                                                ELSE node[n].status
    BY <1>0, <2>1 DEF NodeRecord, Status, Settled
  <2>4. LoopTop(w, after, others)
    BY <2>2
  <2> HIDE DEF after, others, nd
  <2>5. PICK B : /\ \/ B = {} /\ queue_pending' = queue_pending
                    \/ /\ queue_pending # << >> /\ B = {Head(queue_pending)}
                       /\ queue_pending' = Tail(queue_pending)
                 /\ \A n \in Node :
                      /\ node'[n].task = after[n].task
                      /\ node'[n].status = IF n \in B THEN "ACTIVE"
                                           ELSE after[n].status
    BY <1>0, <2>3, <2>4, LoopTopServes
  <2>6. Serves(w, {m}, B, s)
    BY <2>1, <2>3, <2>5 DEF Serves, m
  <2> QED
    BY <2>6
<1> QED
  BY <1>1, <1>2 DEF WorkerStep

\* Busy is the set of tasks being run, as TaskQueue sees it.
Busy == {t \in Task : Stands[t] = "ACTIVE"}

(* A worker that begins a task was not running one, or is done with it, so
   that the tasks that go on running have other workers each. *)
LEMMA WorkerFree ==
  ASSUME IInv, NEW w \in Worker, NEW D, NEW B, NEW s, Serves(w, D, B, s)
  PROVE  Cardinality(Busy \ {t \in Task : map_task[t] \in D}) < Cardinality(Worker)
<1> DEFINE S == Busy \ {t \in Task : map_task[t] \in D}
           T == Worker \ {w}
           f == [t \in S |-> CHOOSE v \in T : cur[v] = map_task[t]]
<1>1. ASSUME NEW t \in S
      PROVE  \E v \in T : cur[v] = map_task[t]
  <2>1. t \in Task /\ StatusOf(t) = "ACTIVE" /\ map_task[t] \notin D
    BY DEF Busy, Stands
  <2>2. map_task[t] \in queue_active
    BY <2>1 DEF StatusOf, IInv, Queues, Agree
  <2>3. PICK v \in Running : cur[v] = map_task[t]
    BY <2>2 DEF IInv, OneWorkerPerActive
  <2>4. v \in Worker /\ pc[v] = "run"
    BY DEF Running
  <2>5. v # w
    BY <2>1, <2>3, <2>4 DEF Serves
  <2> QED
    BY <2>3, <2>4, <2>5
<1>2. f \in [S -> T] /\ \A t \in S : cur[f[t]] = map_task[t]
  BY <1>1
<1>3. ASSUME NEW t \in S, NEW u \in S, f[t] = f[u] PROVE t = u
  <2>1. map_task[t] = map_task[u]
    BY <1>2, <1>3
  <2>2. t \in Task /\ u \in Task /\ StatusOf(t) = "ACTIVE" /\ StatusOf(u) = "ACTIVE"
    BY DEF Busy, Stands
  <2>3. map_task[t] # NULL /\ map_task[u] # NULL
    BY <2>2, StandsFacts
  <2> QED
    BY <2>1, <2>2, <2>3, StandsFacts
<1> HIDE DEF f
<1>4. f \in Injection(S, T)
  BY <1>2, <1>3 DEF Injection, IsInjective
<1>5. /\ IsFiniteSet(Worker) /\ IsFiniteSet(T)
      /\ Cardinality(T) = Cardinality(Worker) - 1
  BY WorkQAssumption, FS_RemoveElement
<1> HIDE DEF S, T
<1>6. IsFiniteSet(S) /\ Cardinality(S) <= Cardinality(T)
  BY <1>4, <1>5, FS_Injection
<1>7. Cardinality(S) \in Nat /\ Cardinality(Worker) \in Nat
  BY <1>5, <1>6, FS_CardinalityType
<1>8. Cardinality(S) < Cardinality(Worker)
  BY <1>5, <1>6, <1>7
<1> QED
  BY <1>8 DEF S

LEMMA LifecycleWorks ==
  ASSUME NEW done, NEW result,
         done \in SUBSET Busy, result \in {"COMPLETE", "FAILURE"},
         Cardinality(done) <= 1,
         LET ended == [t \in Task |-> IF t \in done THEN result ELSE Stands[t]]
         IN  \/ /\ InLine # << >>
                /\ Cardinality(Busy \ done) < Cardinality(Worker)
                /\ Stands' = [ended EXCEPT ![Head(InLine)] = "ACTIVE"]
                /\ InLine' = Tail(InLine)
             \/ done # {} /\ Stands' = ended /\ UNCHANGED InLine
  PROVE  Lifecycle!Work
<1> DEFINE ended == [t \in Task |-> IF t \in done THEN result ELSE Stands[t]]
<1>1. /\ Lifecycle!Cardinality(done) <= 1
      /\ \/ /\ InLine # << >>
            /\ Lifecycle!Cardinality(Busy \ done) < Lifecycle!Cardinality(Worker)
            /\ Stands' = [ended EXCEPT ![Head(InLine)] = "ACTIVE"]
            /\ InLine' = Tail(InLine)
         \/ done # {} /\ Stands' = ended /\ UNCHANGED InLine
  BY SameOperators
<1> QED
  BY <1>1, SameOperators, Zenon
     DEF Lifecycle!Work, Lifecycle!Active, Busy, Stands, InLine, LineOf

LEMMA WorkerImplements ==
  ASSUME IInv, IInv', NEW w \in Worker, WorkerStep(w)
  PROVE  Lifecycle!Work \/ UNCHANGED <<Stands, InLine>>
<1>1. PICK D, B : \E s \in Settled : Serves(w, D, B, s)
  BY WorkerServes
<1>2. PICK s \in Settled : Serves(w, D, B, s)
  BY <1>1
<1> DEFINE done == {t \in Task : map_task[t] \in D}
           ended == [t \in Task |-> IF t \in done THEN s ELSE Stands[t]]
           q == queue_pending
<1>3. /\ \A n \in Node :
           /\ node'[n].task = node[n].task
           /\ node'[n].status = IF n \in B THEN "ACTIVE"
                                ELSE IF n \in D THEN s ELSE node[n].status
      /\ map_task' = map_task
      /\ D = {} \/ (D = {cur[w]} /\ cur[w] \in queue_active)
      /\ \/ B = {} /\ q' = q
         \/ q # << >> /\ B = {Head(q)} /\ q' = Tail(q)
  BY <1>2 DEF Serves
<1>4. \A t \in Task : StatusOf(t)' = IF map_task[t] = NULL THEN "ERROR"
                                     ELSE IF map_task[t] \in B THEN "ACTIVE"
                                     ELSE IF map_task[t] \in D THEN s
                                     ELSE StatusOf(t)
  BY <1>3, StandsFacts DEF StatusOf
<1>5. /\ \A n \in D : /\ n \in Node /\ node[n].status = "ACTIVE"
                      /\ node[n].task \in Task /\ map_task[node[n].task] = n
      /\ NULL \notin D /\ NULL \notin B
  <2>1. \A n \in D : n \in queue_active
    BY <1>3
  <2>2. \A n \in D : n \in Node /\ node[n].status = "ACTIVE"
    BY <2>1 DEF IInv, Queues, Agree
  <2>3. \A n \in D : node[n].task \in Task /\ map_task[node[n].task] = n
    BY <2>2 DEF IInv, Queues, Agree
  <2>4. B \subseteq Node
    BY <1>3, HeadTailFacts DEF IInv, Queues, Agree
  <2> QED
    BY <2>2, <2>3, <2>4, WorkQAssumption
<1>6. done \in SUBSET Busy
  BY <1>5, StandsFacts, WorkQAssumption DEF Busy
<1>7. done = {} \/ done = {node[cur[w]].task}
  BY <1>3, <1>5, StandsFacts, WorkQAssumption
<1>8. Cardinality(done) <= 1
  <2> DEFINE x == node[cur[w]].task
  <2>1. done = {} \/ done = {x}
    BY <1>7
  <2> HIDE DEF done, x
  <2>2. Cardinality({}) = 0 /\ Cardinality({x}) = 1
    BY FS_EmptySet, FS_Singleton
  <2> QED
    BY <2>1, <2>2
<1>9. Cardinality(Busy \ done) < Cardinality(Worker)
  BY <1>2, WorkerFree
<1>10. ended = [t \in Task |-> IF map_task[t] \in D THEN s ELSE Stands[t]]
  OBVIOUS
<1>11. CASE B = {} /\ q' = q
  <2>1. Stands' = ended
    BY <1>4, <1>5, <1>10, <1>11, StandsFacts DEF Stands
  <2>2. InLine' = InLine
    <3>1. \A i \in DOMAIN q : q[i] \in Node
      BY InLineFacts
    <3> QED
      BY <1>3, <1>11, <3>1 DEF InLine, LineOf
  <2>3. CASE done = {}
    <3>1. ended = Stands
      BY <2>3 DEF Stands
    <3> QED
      BY <2>1, <2>2, <3>1
  <2>4. CASE done # {}
    <3> HIDE DEF done, q
    <3>1. s \in {"COMPLETE", "FAILURE"}
      BY DEF Settled
    <3> QED
      BY <1>6, <1>8, <2>1, <2>2, <2>4, <3>1, LifecycleWorks
  <2> QED
    BY <2>3, <2>4
<1>12. CASE q # << >> /\ B = {Head(q)} /\ q' = Tail(q)
  <2> DEFINE h == Head(q)
             u == Head(InLine)
  <2>0. /\ q \in Seq(Node) /\ Len(q) \in Nat /\ Len(q) # 0 /\ 1 \in 1..Len(q)
        /\ h = q[1] /\ Tail(q) \in Seq(Node) /\ Len(Tail(q)) = Len(q) - 1
        /\ \A i \in 1..(Len(q) - 1) : Tail(q)[i] = q[i + 1]
    BY <1>12 DEF IInv, Queues, Agree
  <2>1. /\ InLine \in Seq(Task) /\ Len(InLine) = Len(q)
        /\ \A i \in 1..Len(q) : /\ q[i] \in Node
                                /\ node[q[i]].status = "PENDING"
                                /\ InLine[i] = node[q[i]].task
                                /\ InLine[i] \in Task
                                /\ map_task[InLine[i]] = q[i]
    BY InLineFacts
  <2>2. /\ InLine # << >> /\ u = InLine[1]
        /\ Tail(InLine) \in Seq(Task) /\ Len(Tail(InLine)) = Len(q) - 1
        /\ \A i \in 1..(Len(q) - 1) : Tail(InLine)[i] = InLine[i + 1]
    BY <2>0, <2>1
  <2>3. u \in Task /\ map_task[u] = h /\ node[h].status = "PENDING" /\ h \in Node
    BY <2>0, <2>1, <2>2
  <2>4. \A t \in Task : map_task[t] = h => t = u
    BY <2>3, StandsFacts, WorkQAssumption
  <2>5. h \notin D
    BY <1>5, <2>3
  <2> HIDE DEF u, h
  <2>6. Stands' = [ended EXCEPT ![u] = "ACTIVE"]
    <3>1. \A t \in Task : StatusOf(t)' = IF t = u THEN "ACTIVE" ELSE ended[t]
      BY <1>4, <1>5, <1>12, <2>3, <2>4, StandsFacts, WorkQAssumption DEF h
    <3>2. DOMAIN ended = Task /\ Stands' = [t \in Task |-> StatusOf(t)']
      BY DEF Stands
    <3> HIDE DEF ended
    <3> QED
      BY <3>1, <3>2
  <2>7. InLine' = Tail(InLine)
    <3> DEFINE k == InLine'
               r == Tail(InLine)
    <3>1. /\ k \in Seq(Task) /\ Len(k) = Len(q')
          /\ \A i \in 1..Len(q') : k[i] = node'[q'[i]].task
      BY NextInLineFacts
    <3>2. ASSUME NEW i \in 1..(Len(q) - 1) PROVE k[i] = r[i]
      <4>1. i + 1 \in 1..Len(q)
        BY <2>0
      <4>2. k[i] = node'[q[i + 1]].task
        BY <1>12, <2>0, <3>1
      <4>3. node'[q[i + 1]].task = node[q[i + 1]].task
        BY <1>3, <2>1, <4>1
      <4>4. InLine[i + 1] = node[q[i + 1]].task
        BY <2>1, <4>1
      <4> QED
        BY <2>2, <4>2, <4>3, <4>4
    <3>3. Len(k) = Len(q) - 1 /\ Len(r) = Len(q) - 1 /\ r \in Seq(Task)
      BY <1>12, <2>0, <2>2, <3>1
    <3> HIDE DEF k, r
    <3>4. k = r
      BY <3>1, <3>2, <3>3
    <3> QED
      BY <3>4 DEF k, r
  <2> HIDE DEF done, q
  <2>8. s \in {"COMPLETE", "FAILURE"}
    BY DEF Settled
  <2>9. InLine # << >>
    BY <2>2
  <2> QED
    BY <1>6, <1>8, <1>9, <2>6, <2>7, <2>8, <2>9, LifecycleWorks DEF u
<1> QED
  BY <1>3, <1>11, <1>12

LEMMA LifecycleTakesBack ==
  ASSUME NEW back, back \in SUBSET (Task \ Busy), back # {},
         Stands' = [t \in Task |-> IF t \in back THEN "ERROR" ELSE Stands[t]],
         InLine' = Keep(InLine, Task \ back)
  PROVE  Lifecycle!TakeBack
<1>1. InLine' = Lifecycle!Keep(InLine, Task \ back)
  BY SameOperators
<1> QED
  BY <1>1, Zenon
     DEF Lifecycle!TakeBack, Lifecycle!Active, Busy, Stands, InLine, LineOf

\* The tasks of the nodes that a call gives back are those taken back.
LEMMA ReturnsImplement ==
  ASSUME IInv, IInv', NEW P, NEW C, NEW M, Returns(P, C, M)
  PROVE  Lifecycle!TakeBack \/ UNCHANGED <<Stands, InLine>>
<1> DEFINE G == P \cup C
           back == {t \in Task : map_task[t] \in G}
           q == queue_pending
           rest == Task \ back
<1>0. /\ q \in Seq(Node) /\ Len(q) \in Nat
      /\ \A n \in P : n \in Node /\ node[n].status = "PENDING"
      /\ \A n \in C : n \in Node /\ node[n].status \in Settled
      /\ \A n \in G : node[n].task \in Task /\ map_task[node[n].task] = n
      /\ NULL \notin G
  <2>1. /\ Agree(node, map_task, q, queue_active, queue_complete)
        /\ P \subseteq ToSet(q) /\ C \subseteq queue_complete
    BY DEF IInv, Queues, Returns
  <2>2. q \in Seq(Node) /\ Len(q) \in Nat /\ queue_complete \subseteq Node
    BY <2>1 DEF Agree
  <2>3. \A n \in P : n \in Node
    BY <2>1, <2>2, InToSet
  <2>4. \A n \in P : node[n].status = "PENDING"
    BY <2>1, <2>3 DEF Agree
  <2>5. \A n \in C : n \in Node /\ node[n].status \in Settled
    BY <2>1, <2>2 DEF Agree
  <2>6. \A n \in G : n \in Node /\ node[n].status # "FREE"
    BY <2>3, <2>4, <2>5 DEF Settled
  <2>7. \A n \in G : node[n].task \in Task /\ map_task[node[n].task] = n
    BY <2>1, <2>6 DEF Agree
  <2>8. NULL \notin G
    BY <2>6, WorkQAssumption
  <2> QED
    BY <2>2, <2>3, <2>4, <2>5, <2>7, <2>8
<1>1. /\ q' = Keep(q, Node \ P)
      /\ \A n \in Node \ G : /\ node'[n].task = node[n].task
                             /\ node'[n].status = node[n].status
      /\ \A t \in Task : map_task'[t] = IF map_task[t] \in G THEN NULL
                                        ELSE map_task[t]
  BY DEF Returns
<1>2. CASE G = {}
  <2>1. map_task' = map_task
    BY <1>1, <1>2 DEF IInv, Queues, Agree
  <2>2. P = {} /\ \A i \in 1..Len(q) : q[i] \in Node
    BY <1>0, <1>2
  <2>3. Keep(q, Node \ P) = q
    <3> DEFINE all == Node \ P
    <3>1. \A i \in 1..Len(q) : q[i] \in all
      BY <2>2
    <3> HIDE DEF all, q
    <3>2. Keep(q, all) = q
      BY <1>0, <3>1, KeepAll
    <3> QED
      BY <3>2 DEF all
  <2>4. q' = q
    BY <1>1, <2>3
  <2>5. \A n \in Node : /\ node'[n].status = node[n].status
                        /\ node'[n].task = node[n].task
    BY <1>1, <1>2
  <2>6. UNCHANGED <<Stands, InLine>>
    BY <2>1, <2>4, <2>5, SameStands
  <2> QED
    BY <2>6
<1>3. CASE G # {}
  <2>1. back # {}
    BY <1>0, <1>3
  <2>2. back \in SUBSET (Task \ Busy)
    <3>1. ASSUME NEW t \in back PROVE Stands[t] # "ACTIVE"
      BY <1>0, StandsFacts DEF Settled
    <3> QED
      BY <3>1 DEF Busy
  <2>3. Stands' = [t \in Task |-> IF t \in back THEN "ERROR" ELSE Stands[t]]
    <3>1. ASSUME NEW t \in Task
          PROVE  StatusOf(t)' = IF t \in back THEN "ERROR" ELSE StatusOf(t)
      <4>1. CASE t \in back
        BY <1>1, <4>1 DEF StatusOf
      <4>2. CASE t \notin back
        BY <1>1, <4>2, StandsFacts DEF StatusOf
      <4> QED
        BY <4>1, <4>2
    <3> HIDE DEF back
    <3> QED
      BY <3>1 DEF Stands
  <2>4. InLine' = Keep(InLine, rest)
    <3> DEFINE h == [n \in Node |-> node[n].task]
               U == Task \cup {NULL}
               all == Node \ P
               l == InLine
               r == Keep(q, all)
               m == Keep(l, rest)
               k == InLine'
    <3>1. Image(q, l, h, Node, U)
      BY InLineFacts
    <3>2. h \in [Node -> U]
      BY DEF IInv, Queues, Agree, NodeRecord
    <3>3. ASSUME NEW i \in 1..Len(q) PROVE l[i] \in rest <=> q[i] \in all
      <4>1. /\ l[i] \in Task /\ map_task[l[i]] = q[i] /\ q[i] \in Node
            /\ node[q[i]].status = "PENDING"
        BY InLineFacts
      <4>2. q[i] \notin C
        BY <1>0, <4>1 DEF Settled
      <4> QED
        BY <4>1, <4>2
    <3> HIDE DEF h, U, all, l, rest
    <3>4. Image(r, m, h, Node, U)
      <4> HIDE DEF q
      <4> QED
        BY <3>1, <3>2, <3>3, KeepImage
    <3>5. \A i \in 1..Len(q) : q[i] \in Node /\ node[q[i]].status = "PENDING"
      BY InLineFacts
    <3>6. \A n \in ToSet(r) : n \in Node \ G
      <4>1. ToSet(r) = ToSet(q) \cap all
        BY <1>0, KeepProperties
      <4>2. \A n \in ToSet(q) : n \in Node => node[n].status = "PENDING"
        BY DEF IInv, Queues, Agree
      <4> HIDE DEF r, q
      <4> QED
        BY <1>0, <4>1, <4>2 DEF all, Settled
    <3> HIDE DEF r, m
    <3>7. /\ r \in Seq(Node) /\ m \in Seq(U) /\ Len(m) = Len(r) /\ Len(r) \in Nat
          /\ \A i \in 1..Len(r) : m[i] = h[r[i]]
      BY <3>4 DEF Image
    <3>8. /\ k \in Seq(Task) /\ Len(k) = Len(q')
          /\ \A i \in 1..Len(q') : k[i] = node'[q'[i]].task
      BY NextInLineFacts
    <3>9. q' = r
      BY <1>1 DEF r, all
    <3> HIDE DEF k
    <3>10. ASSUME NEW i \in 1..Len(r) PROVE k[i] = m[i]
      <4>1. r[i] \in ToSet(r)
        BY <3>7 DEF ToSet
      <4>2. r[i] \in Node /\ r[i] \notin G
        BY <3>6, <4>1
      <4>3. node'[r[i]].task = node[r[i]].task
        BY <1>1, <4>2
      <4>4. m[i] = node[r[i]].task
        BY <3>7, <4>2 DEF h
      <4> QED
        BY <3>8, <3>9, <4>3, <4>4
    <3>11. k \in Seq(U) /\ Len(k) = Len(r)
      BY <3>8, <3>9 DEF U
    <3>12. k = m
      BY <3>7, <3>10, <3>11
    <3> QED
      BY <3>12 DEF k, m, l
  <2> HIDE DEF back
  <2>5. Lifecycle!TakeBack
    BY <2>1, <2>2, <2>3, <2>4, LifecycleTakesBack DEF rest
  <2> QED
    BY <2>5
<1> QED
  BY <1>2, <1>3

\* Delete leaves nothing for cc_list_delete and cc_map_delete to discard.
LEMMA DeleteFreeStutters ==
  ASSUME IInv, DeleteFree
  PROVE  UNCHANGED <<Stands, InLine>>
<1>1. \A n \in Node : node[n] = FreeNode
  BY DEF DeleteFree, IInv, Emptied
<1>2. \A t \in Task : map_task[t] = NULL
  BY <1>1, WorkQAssumption DEF IInv, Queues, Agree, FreeNode
<1>3. queue_pending = << >>
  <2>1. \A i \in 1..Len(queue_pending) : FALSE
    BY <1>1, InLineFacts DEF FreeNode
  <2>2. queue_pending \in Seq(Node) /\ Len(queue_pending) \in Nat
    BY DEF IInv, Queues, Agree
  <2> QED
    BY <2>1, <2>2
<1>4. map_task' = map_task /\ queue_pending' = queue_pending
  BY <1>2, <1>3 DEF DeleteFree, IInv, Queues, Agree
<1>5. node' = node
  BY DEF DeleteFree
<1> QED
  BY <1>4, <1>5, SameStands

LEMMA NextImplements ==
  ASSUME IInv, IInv', OnePriority, InOrder, [Next]_vars
  PROVE  [Lifecycle!Next]_<<Stands, InLine>>
<1>0. Priced /\ PendingSorted
  BY DEF InOrder
<1>1. \A t \in Task : Lifecycle!Submit(t) => Lifecycle!Next
  BY DEF Lifecycle!Next
<1>2. Lifecycle!Work => Lifecycle!Next
  BY DEF Lifecycle!Next
<1>3. Lifecycle!TakeBack => Lifecycle!Next
  BY DEF Lifecycle!Next
<1>4. CASE \E w \in Worker : WorkerStep(w)
  BY <1>2, <1>4, WorkerImplements
<1>5. ASSUME NEW p \in Thread, NEW t \in Tasks[p], NEW priority \in Priorities[t],
             RunNew(p, t, priority) \/ RunPending(p, t, priority)
      PROVE  [Lifecycle!Next]_<<Stands, InLine>>
  <2>0. t \in Task
    BY WorkQAssumption
  <2>1. CASE RunNew(p, t, priority)
    <3>1. Lifecycle!Submit(t)
      BY <1>0, <2>0, <2>1, RunNewSubmits
    <3> QED
      BY <1>1, <2>0, <3>1
  <2>2. CASE RunPending(p, t, priority)
    <3>1. /\ queue_pending' = queue_pending
          /\ \A n \in Node : /\ node'[n].status = node[n].status
                             /\ node'[n].task = node[n].task
      BY <1>0, <2>0, <2>2, RunPendingStays
    <3>2. map_task' = map_task
      BY <2>2 DEF RunPending
    <3>3. UNCHANGED <<Stands, InLine>>
      BY <3>1, <3>2, SameStands
    <3> QED
      BY <3>3
  <2> QED
    BY <1>5, <2>1, <2>2
<1>6. CASE \E p \in Thread : \E t \in Tasks[p] : RunActive(p, t)
  <2>1. PICK p \in Thread : \E t \in Tasks[p] : RunActive(p, t)
    BY <1>6
  <2>2. PICK t \in Tasks[p] : RunActive(p, t)
    BY <2>1
  <2>3. /\ node' = [node EXCEPT ![map_task[t]].purge_id = purge_id]
        /\ queue_pending' = queue_pending /\ map_task' = map_task
        /\ node \in [Node -> NodeRecord]
    BY <2>2 DEF RunActive, IInv, Queues, Agree
  <2>4. \A n \in Node : /\ node'[n].status = node[n].status
                        /\ node'[n].task = node[n].task
    BY <2>3 DEF NodeRecord
  <2>5. UNCHANGED <<Stands, InLine>>
    BY <2>3, <2>4, SameStands
  <2> QED
    BY <2>5
<1>7. CASE \E P, C, M : Returns(P, C, M)
  BY <1>3, <1>7, ReturnsImplement
<1>8. CASE DeleteFree
  BY <1>8, DeleteFreeStutters
<1>9. CASE UNCHANGED queues
  <2>1. UNCHANGED <<queue_pending, map_task, node>>
    BY <1>9 DEF queues
  <2> QED
    BY <2>1, SameStands
<1> QED
  BY <1>4, <1>5, <1>6, <1>7, <1>8, <1>9, QueueSteps

(* The nodes, the map, the epochs and the condition variables do what their
   abstract specification says: a task stands in line by priority and then by
   arrival, one of at most thread_count workers runs it, once, and its result
   stays until it is taken back.  Every step of every thread submits one task,
   ends and begins at most one, takes tasks back that are not being run, or
   changes nothing a client can see. *)
THEOREM WorkQImplementsTaskQueue ==
  ASSUME ResetsAlone, OnePriority
  PROVE  Spec => TaskQueueSafety
<1>1. ASSUME Init PROVE Lifecycle!Init
  <2>1. IInv /\ queue_pending = << >> /\ \A t \in Task : map_task[t] = NULL
    BY <1>1, InitIInv DEF Init
  <2>2. Stands = [t \in Task |-> "ERROR"]
    BY <2>1 DEF Stands, StatusOf
  <2>3. InLine = << >>
    <3>1. DOMAIN << >> = {}
      OBVIOUS
    <3>2. InLine = [i \in {} |-> node[queue_pending[i]].task]
      BY <2>1, <3>1 DEF InLine, LineOf
    <3> QED
      BY <3>2
  <2> QED
    BY <2>2, <2>3, Zenon DEF Lifecycle!Init, Stands, InLine, LineOf
<1>2. ASSUME IInv, IInv', InOrder, [Next]_vars
      PROVE  [Lifecycle!Next]_(Lifecycle!vars)
  <2>1. [Lifecycle!Next]_<<Stands, InLine>>
    BY <1>2, NextImplements
  <2>2. Lifecycle!vars = <<Stands, InLine>>
    BY Zenon DEF Lifecycle!vars, Stands, InLine, LineOf
  <2>3. Lifecycle!vars' = <<Stands', InLine'>>
    BY Zenon DEF Lifecycle!vars, Stands, InLine, LineOf
  <2>4. Lifecycle!Next \/ UNCHANGED <<Stands, InLine>>
    BY <2>1
  <2>5. Lifecycle!Next \/ Lifecycle!vars' = Lifecycle!vars
    BY <2>2, <2>3, <2>4
  <2> QED
    BY <2>5
<1>3. Spec => []IInv
  BY WorkQInvariant
<1>4. Spec => []InOrder
  BY InOrderHolds
<1> QED
  BY <1>1, <1>2, <1>3, <1>4, PTL DEF Spec, TaskQueueSafety, Lifecycle!Safety

=============================================================================
