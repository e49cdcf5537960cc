----------------------------- MODULE JobQProofs -----------------------------
(***************************************************************************)
(* Theorems about JobQ, for any number of clients, workers and jobs.       *)
(***************************************************************************)
EXTENDS JobQ, CCSeqLemmas, FiniteSetTheorems

-----------------------------------------------------------------------------
(* The inductive invariant. *)

Types ==
  /\ state \in {"NONE", "RUNNING", "PAUSED", "STOP"}
  /\ wait_pending \in SUBSET Worker
  /\ wait_complete \in SUBSET Client
  /\ pc \in [Thread -> ClientPC \cup WorkerPC]
  /\ \A c \in Client : pc[c] \in ClientPC
  /\ \A w \in Worker : pc[w] \in WorkerPC

\* The workers that have taken their id.
HasId(w) == pc[w] \in {"loop", "run", "exit"}
Started == {w \in Worker : HasId(w)}

\* The next id is the number of those given out since New, all different.
Ids ==
  /\ next_tid \in 0..Cardinality(Worker)
  /\ tid \in [Worker -> 0..Cardinality(Worker)]
  /\ state # "NONE" => next_tid = Cardinality(Started)
  /\ state # "NONE" =>
       \A w \in Started : /\ tid[w] < next_tid
                          /\ \A v \in Started : tid[v] = tid[w] => v = w

(* Where the jobs are, as a predicate of values: in the pending queue once, or
   active in the hands of one worker of those that run. *)
JobsPlaced(pending, active, hands, runs) ==
  /\ pending \in Seq(Job)
  /\ active \in SUBSET Job
  /\ hands \in [Worker -> SUBSET Job]
  /\ IsInjective(pending)
  /\ ToSet(pending) \cap active = {}
  /\ \A j \in Job : j \in active <=> \E w \in Worker : j \in hands[w]
  /\ \A v, w \in Worker : v # w => hands[v] \cap hands[w] = {}
  /\ \A w \in Worker : hands[w] # {} <=> w \in runs

Jobs == JobsPlaced(queue_pending, queue_active, cur, Running)

\* What main does tells what the others may still do.
Phases ==
  /\ state = "STOP" <=> pc[Main] \in {"new_join", "delete_join"}
  /\ state = "NONE" => pc[Main] = "idle" /\ \A w \in Worker : pc[w] = "none"
  /\ state = "NONE" \/ pc[Main] \in {"new_join", "delete_stop", "delete_join"}
       => AllDone
  /\ \A w \in wait_pending : pc[w] = "loop"

IInv == Types /\ Ids /\ Jobs /\ Phases /\ NoJobLost /\ NoLostWakeup

-----------------------------------------------------------------------------
(* What the operations make of the queues. *)

\* The head of the pending queue goes into the hands of w.
LEMMA BeginPlaced ==
  ASSUME NEW pending, NEW active, NEW hands, NEW runs,
         JobsPlaced(pending, active, hands, runs),
         pending # << >>, NEW w \in Worker, w \notin runs
  PROVE  LET j == Head(pending)
         IN  /\ JobsPlaced(Tail(pending), active \cup {j},
                           [hands EXCEPT ![w] = {j}], runs \cup {w})
             /\ ToSet(Tail(pending)) \cup (active \cup {j})
                  = ToSet(pending) \cup active
<1> DEFINE j == Head(pending)
           after == [hands EXCEPT ![w] = {j}]
<1>1. /\ pending \in Seq(Job) /\ active \in SUBSET Job
      /\ hands \in [Worker -> SUBSET Job] /\ IsInjective(pending)
      /\ ToSet(pending) \cap active = {}
  BY DEF JobsPlaced
<1>2. /\ \A k \in Job : k \in active <=> \E v \in Worker : k \in hands[v]
      /\ \A u, v \in Worker : u # v => hands[u] \cap hands[v] = {}
      /\ \A v \in Worker : hands[v] # {} <=> v \in runs
  BY DEF JobsPlaced
<1>3. /\ j \in Job /\ j \in ToSet(pending)
      /\ Tail(pending) \in Seq(Job)
      /\ ToSet(Tail(pending)) = ToSet(pending) \ {j}
      /\ IsInjective(Tail(pending))
  BY <1>1, HeadTailFacts
<1> HIDE DEF j
<1>4. /\ after \in [Worker -> SUBSET Job]
      /\ after[w] = {j}
      /\ \A v \in Worker : v # w => after[v] = hands[v]
  BY <1>1, <1>3
<1> HIDE DEF after
<1>5. hands[w] = {} /\ j \notin active
  BY <1>1, <1>2, <1>3
<1>6. \A k \in Job :
        k \in active \cup {j} <=> \E v \in Worker : k \in after[v]
  BY <1>2, <1>4, <1>5
<1>7. \A u, v \in Worker : u # v => after[u] \cap after[v] = {}
  <2> SUFFICES ASSUME NEW u \in Worker, NEW v \in Worker, u # v,
                      NEW k \in after[u], k \in after[v]
               PROVE  FALSE
    OBVIOUS
  <2>1. k \in Job
    BY <1>4
  <2>2. u # w /\ v # w => k \in hands[u] \cap hands[v]
    BY <1>4
  <2>3. u = w => k = j /\ j \in hands[v]
    BY <1>4
  <2>4. v = w => k = j /\ j \in hands[u]
    BY <1>4
  <2> QED
    BY <1>2, <1>3, <1>5, <2>2, <2>3, <2>4
<1>8. \A v \in Worker : after[v] # {} <=> v \in runs \cup {w}
  BY <1>2, <1>4
<1>9. JobsPlaced(Tail(pending), active \cup {j}, after, runs \cup {w})
  BY <1>1, <1>3, <1>4, <1>5, <1>6, <1>7, <1>8 DEF JobsPlaced
<1>10. ToSet(Tail(pending)) \cup (active \cup {j}) = ToSet(pending) \cup active
  BY <1>3
<1> QED
  BY <1>9, <1>10 DEF j, after

\* w is done with what it has in its hands.
LEMMA DonePlaced ==
  ASSUME NEW pending, NEW active, NEW hands, NEW runs,
         JobsPlaced(pending, active, hands, runs), NEW w \in Worker
  PROVE  /\ JobsPlaced(pending, active \ hands[w], [hands EXCEPT ![w] = {}],
                       runs \ {w})
         /\ hands[w] \subseteq active
         /\ ToSet(pending) \cap hands[w] = {}
         /\ hands[w] = {} <=> w \notin runs
<1> DEFINE after == [hands EXCEPT ![w] = {}]
<1>1. /\ pending \in Seq(Job) /\ active \in SUBSET Job
      /\ hands \in [Worker -> SUBSET Job] /\ IsInjective(pending)
      /\ ToSet(pending) \cap active = {}
  BY DEF JobsPlaced
<1>2. /\ \A k \in Job : k \in active <=> \E v \in Worker : k \in hands[v]
      /\ \A u, v \in Worker : u # v => hands[u] \cap hands[v] = {}
      /\ \A v \in Worker : hands[v] # {} <=> v \in runs
  BY DEF JobsPlaced
<1>3. /\ after \in [Worker -> SUBSET Job]
      /\ after[w] = {}
      /\ \A v \in Worker : v # w => after[v] = hands[v]
  BY <1>1
<1> HIDE DEF after
<1>4. hands[w] \subseteq active
  BY <1>1, <1>2
<1>5. \A k \in Job :
        k \in active \ hands[w] <=> \E v \in Worker : k \in after[v]
  <2> TAKE k \in Job
  <2>1. ASSUME k \in active, k \notin hands[w]
        PROVE  \E v \in Worker : k \in after[v]
    BY <1>2, <1>3, <2>1
  <2>2. ASSUME NEW v \in Worker, k \in after[v]
        PROVE  k \in active /\ k \notin hands[w]
    BY <1>2, <1>3, <2>2
  <2> QED
    BY <2>1, <2>2
<1>6. \A u, v \in Worker : u # v => after[u] \cap after[v] = {}
  BY <1>2, <1>3
<1>7. \A v \in Worker : after[v] # {} <=> v \in runs \ {w}
  BY <1>2, <1>3
<1>8. JobsPlaced(pending, active \ hands[w], after, runs \ {w})
  BY <1>1, <1>3, <1>5, <1>6, <1>7 DEF JobsPlaced
<1> QED
  BY <1>1, <1>2, <1>4, <1>8 DEF after

\* A worker that does not run has nothing to put aside.
LEMMA IdleHands ==
  ASSUME Jobs, NEW w \in Worker, w \notin Running
  PROVE  JobsPlaced(queue_pending, queue_active, [cur EXCEPT ![w] = {}],
                    Running \ {w})
<1>1. JobsPlaced(queue_pending, queue_active, cur, Running)
  BY DEF Jobs
<1>2. cur \in [Worker -> SUBSET Job] /\ cur[w] = {}
  BY <1>1 DEF JobsPlaced
<1>3. [cur EXCEPT ![w] = {}] = cur /\ Running \ {w} = Running
  BY <1>2
<1> QED
  BY <1>1, <1>3

\* A job that is in no queue is appended.
LEMMA SubmitPlaced ==
  ASSUME NEW pending, NEW active, NEW hands, NEW runs,
         JobsPlaced(pending, active, hands, runs),
         NEW j \in Job \ (ToSet(pending) \cup active)
  PROVE  /\ JobsPlaced(Append(pending, j), active, hands, runs)
         /\ ToSet(Append(pending, j)) = ToSet(pending) \cup {j}
         /\ Append(pending, j) # << >>
<1>1. /\ pending \in Seq(Job) /\ IsInjective(pending)
      /\ ToSet(pending) \cap active = {}
  BY DEF JobsPlaced
<1>2. /\ Append(pending, j) \in Seq(Job)
      /\ ToSet(Append(pending, j)) = ToSet(pending) \cup {j}
      /\ IsInjective(Append(pending, j))
      /\ Len(Append(pending, j)) = Len(pending) + 1 /\ Len(pending) \in Nat
  BY <1>1, AppendFacts
<1>3. Append(pending, j) # << >>
  BY <1>1
<1>4. ToSet(Append(pending, j)) \cap active = {}
  BY <1>1, <1>2
<1> QED
  BY <1>2, <1>3, <1>4 DEF JobsPlaced

\* An empty queue holds nothing, and the other way round.
LEMMA EmptyQueue ==
  ASSUME NEW s \in Seq(Job)
  PROVE  s = << >> <=> ToSet(s) = {}
<1>1. s = << >> => ToSet(s) = {}
  BY DEF ToSet
<1>2. s # << >> => ToSet(s) # {}
  BY HeadTailFacts
<1> QED
  BY <1>1, <1>2

\* AllDone says that nothing is queued.
LEMMA DoneMeansNothing ==
  ASSUME Jobs
  PROVE  AllDone <=> Queued = {}
<1>1. queue_pending \in Seq(Job)
  BY DEF Jobs, JobsPlaced
<1> QED
  BY <1>1, EmptyQueue DEF AllDone, Queued

-----------------------------------------------------------------------------
(* The worker's steps. *)

\* Where the workers that sleep are, and that they sleep with reason.
SleepersLate ==
  wait_pending # {} => /\ state # "STOP"
                       /\ state = "RUNNING" => queue_pending = << >>

(* The end of every step of a worker, the job it has run put aside. *)
LEMMA LoopTopKeeps ==
  ASSUME Types, NEW w \in Worker, HasId(w) \/ pc[w] = "start",
         w \notin wait_pending, \A v \in wait_pending : pc[v] = "loop",
         SleepersLate, state # "NONE", UNCHANGED state,
         NEW active,
         JobsPlaced(queue_pending, active, [cur EXCEPT ![w] = {}],
                    Running \ {w}),
         LoopTop(w, active)
  PROVE  /\ Jobs'
         /\ ToSet(queue_pending') \cup queue_active'
              = ToSet(queue_pending) \cup active
         /\ pc' = [pc EXCEPT ![w] = pc'[w]]
         /\ pc'[w] \in {"loop", "run", "exit"}
         /\ wait_pending' \in SUBSET Worker
         /\ \A v \in wait_pending' : pc'[v] = "loop"
         /\ SleepersLate'
         /\ queue_pending = << >> =>
              queue_pending' = << >> /\ queue_active' = active
         /\ state = "PAUSED" => queue_active' = active
<1> DEFINE hands == [cur EXCEPT ![w] = {}]
<1>1. /\ pc \in [Thread -> ClientPC \cup WorkerPC] /\ w \in Thread
      /\ wait_pending \in SUBSET Worker /\ Worker \subseteq Thread
  BY DEF Types, Thread
<1>2. JobsPlaced(queue_pending, active, hands, Running \ {w})
  OBVIOUS
<1>3. ASSUME pc' = [pc EXCEPT ![w] = "exit"] \/ pc' = [pc EXCEPT ![w] = "loop"]
      PROVE  Running' = Running \ {w}
  BY <1>1, <1>3 DEF Running
<1>4. CASE state = "STOP"
  <2>1. /\ pc' = [pc EXCEPT ![w] = "exit"] /\ cur' = hands
        /\ queue_active' = active
        /\ UNCHANGED <<queue_pending, wait_pending>>
    BY <1>4 DEF LoopTop, Goto
  <2>2. Jobs'
    BY <1>2, <1>3, <2>1 DEF Jobs
  <2>3. wait_pending = {}
    BY <1>4 DEF SleepersLate
  <2> QED
    BY <1>1, <1>4, <2>1, <2>2, <2>3 DEF SleepersLate
<1>5. CASE state # "STOP" /\ NothingToBegin
  <2>1. /\ pc' = [pc EXCEPT ![w] = "loop"] /\ cur' = hands
        /\ queue_active' = active
        /\ wait_pending' = wait_pending \cup {w}
        /\ UNCHANGED queue_pending
    BY <1>5 DEF LoopTop, Goto
  <2>2. Jobs'
    BY <1>2, <1>3, <2>1 DEF Jobs
  <2>3. SleepersLate'
    BY <1>5, <2>1 DEF SleepersLate, NothingToBegin
  <2>4. \A v \in wait_pending' : pc'[v] = "loop"
    BY <1>1, <2>1
  <2> QED
    BY <1>1, <2>1, <2>2, <2>3, <2>4
<1>6. CASE state # "STOP" /\ ~NothingToBegin
  <2> DEFINE j == Head(queue_pending)
  <2>1. /\ pc' = [pc EXCEPT ![w] = "run"] /\ cur' = [cur EXCEPT ![w] = {j}]
        /\ queue_active' = active \cup {j}
        /\ queue_pending' = Tail(queue_pending)
        /\ UNCHANGED wait_pending
    BY <1>6 DEF LoopTop, Begin, Goto
  <2>2. queue_pending # << >> /\ state # "PAUSED"
    BY <1>6 DEF NothingToBegin
  <2>3. /\ JobsPlaced(Tail(queue_pending), active \cup {j},
                      [hands EXCEPT ![w] = {j}], (Running \ {w}) \cup {w})
        /\ ToSet(Tail(queue_pending)) \cup (active \cup {j})
             = ToSet(queue_pending) \cup active
    <3>1. w \notin Running \ {w}
      OBVIOUS
    <3> HIDE DEF hands
    <3> QED
      BY <1>2, <2>2, <3>1, BeginPlaced
  <2>4. Running' = (Running \ {w}) \cup {w}
    BY <1>1, <2>1 DEF Running
  <2>5. [hands EXCEPT ![w] = {j}] = [cur EXCEPT ![w] = {j}]
    OBVIOUS
  <2> HIDE DEF j, hands
  <2>6. Jobs'
    BY <2>1, <2>3, <2>4, <2>5 DEF Jobs
  <2>7. wait_pending = {}
    <3>1. state = "RUNNING"
      BY <1>6, <2>2 DEF Types
    <3> QED
      BY <2>2, <3>1 DEF SleepersLate
  <2>8. SleepersLate' /\ \A v \in wait_pending' : pc'[v] = "loop"
    BY <2>1, <2>7 DEF SleepersLate
  <2> QED
    BY <1>1, <2>1, <2>2, <2>3, <2>6, <2>8
<1> QED
  BY <1>4, <1>5, <1>6

\* While a worker runs a job something is queued.
LEMMA RunnerBusy ==
  ASSUME Jobs, NEW w \in Worker, pc[w] = "run"
  PROVE  ~AllDone
<1>1. w \in Running
  BY DEF Running
<1>2. cur \in [Worker -> SUBSET Job] /\ cur[w] # {}
  BY <1>1 DEF Jobs, JobsPlaced
<1>3. PICK j \in Job : j \in cur[w]
  BY <1>2
<1>4. j \in queue_active
  BY <1>3 DEF Jobs, JobsPlaced
<1> QED
  BY <1>4 DEF AllDone

\* One more worker has its id.
LEMMA OneMoreStarted ==
  ASSUME Types, Ids, NEW w \in Worker, pc[w] = "start", state # "NONE"
  PROVE  /\ Cardinality(Started \cup {w}) = Cardinality(Started) + 1
         /\ Cardinality(Started) \in Nat
         /\ Cardinality(Started) + 1 <= Cardinality(Worker)
         /\ Cardinality(Worker) \in Nat
<1>1. IsFiniteSet(Worker) /\ Started \cup {w} \subseteq Worker
  BY JobQAssumption DEF Started
<1>2. IsFiniteSet(Started \cup {w}) /\ IsFiniteSet(Started)
  BY <1>1, FS_Subset
<1>3. w \notin Started
  BY DEF Started, HasId
<1>4. Cardinality(Started \cup {w}) = Cardinality(Started) + 1
  BY <1>2, <1>3, FS_AddElement
<1>5. Cardinality(Started) \in Nat /\ Cardinality(Worker) \in Nat
  BY <1>1, <1>2, FS_CardinalityType
<1>6. Cardinality(Started \cup {w}) <= Cardinality(Worker)
  BY <1>1, FS_Subset
<1> QED
  BY <1>4, <1>5, <1>6

\* A step of a worker that has its id leaves the ids alone.
LEMMA IdsStay ==
  ASSUME Types, Ids, UNCHANGED <<tid, next_tid>>,
         state = "NONE" => state' = "NONE",
         state' # "NONE" => Started' = Started
  PROVE  Ids'
BY DEF Ids

LEMMA TakeTidKeeps ==
  ASSUME Types, Ids, NEW w \in Worker, pc[w] = "start", TakeTid(w),
         state # "NONE", Started' = Started \cup {w}
  PROVE  Ids'
<1>1. /\ Cardinality(Started \cup {w}) = Cardinality(Started) + 1
      /\ Cardinality(Started) \in Nat /\ Cardinality(Worker) \in Nat
      /\ Cardinality(Started) + 1 <= Cardinality(Worker)
  BY OneMoreStarted
<1>2. /\ next_tid = Cardinality(Started)
      /\ tid \in [Worker -> 0..Cardinality(Worker)]
      /\ \A u \in Started : /\ tid[u] < next_tid
                            /\ \A v \in Started : tid[v] = tid[u] => v = u
      /\ Started \subseteq Worker /\ w \notin Started
  BY DEF Ids, Started, HasId
<1>3. /\ tid' = [tid EXCEPT ![w] = next_tid]
      /\ next_tid' = next_tid + 1
  BY DEF TakeTid
<1>4. /\ next_tid' \in 0..Cardinality(Worker)
      /\ tid' \in [Worker -> 0..Cardinality(Worker)]
      /\ next_tid' = Cardinality(Started')
  BY <1>1, <1>2, <1>3
<1>5. ASSUME NEW u \in Started \cup {w}
      PROVE  /\ tid'[u] < next_tid'
             /\ \A v \in Started \cup {w} : tid'[v] = tid'[u] => v = u
  <2>1. \A v \in Started : tid'[v] = tid[v] /\ tid[v] \in Nat
    BY <1>1, <1>2, <1>3
  <2>2. tid'[w] = next_tid /\ next_tid \in Nat
    BY <1>1, <1>2, <1>3
  <2> QED
    BY <1>2, <1>3, <2>1, <2>2
<1> QED
  BY <1>4, <1>5 DEF Ids

-----------------------------------------------------------------------------
(* Every worker's step keeps the invariant. *)

LEMMA WorkerStartIInv ==
  ASSUME IInv, NEW w \in Worker, WorkerStart(w)
  PROVE  IInv'
<1>1. /\ Types /\ Ids /\ Jobs /\ Phases /\ NoJobLost /\ NoLostWakeup
      /\ SleepersLate
  BY DEF IInv, NoLostWakeup, SleepersLate
<1>2. /\ pc[w] = "start" /\ TakeTid(w) /\ LoopTop(w, queue_active)
      /\ UNCHANGED <<state, wait_complete, owed>>
  BY DEF WorkerStart
<1>3. /\ state # "NONE" /\ w \notin wait_pending
      /\ \A v \in wait_pending : pc[v] = "loop"
  BY <1>1, <1>2 DEF Phases
<1>4. JobsPlaced(queue_pending, queue_active, [cur EXCEPT ![w] = {}],
                 Running \ {w})
  <2>1. w \notin Running
    BY <1>2 DEF Running
  <2> QED
    BY <1>1, <2>1, IdleHands
<1>5. /\ Jobs'
      /\ ToSet(queue_pending') \cup queue_active'
           = ToSet(queue_pending) \cup queue_active
      /\ pc' = [pc EXCEPT ![w] = pc'[w]]
      /\ pc'[w] \in {"loop", "run", "exit"}
      /\ wait_pending' \in SUBSET Worker
      /\ \A v \in wait_pending' : pc'[v] = "loop"
      /\ SleepersLate'
      /\ queue_pending = << >> =>
           queue_pending' = << >> /\ queue_active' = queue_active
  BY <1>1, <1>2, <1>3, <1>4, LoopTopKeeps
<1>6. Types' /\ pc'[Main] = pc[Main] /\ \A v \in Worker \ {w} : pc'[v] = pc[v]
  BY <1>1, <1>2, <1>5, JobQAssumption DEF Types, Thread, WorkerPC
<1>7. Started' = Started \cup {w}
  BY <1>5, <1>6 DEF Started, HasId
<1>8. Ids'
  BY <1>1, <1>2, <1>3, <1>7, TakeTidKeeps
<1>9. Phases'
  BY <1>1, <1>2, <1>3, <1>5, <1>6 DEF Phases, AllDone
<1>10. NoJobLost' /\ NoLostWakeup'
  BY <1>1, <1>2, <1>5 DEF NoJobLost, NoLostWakeup, SleepersLate, Queued
<1> QED
  BY <1>5, <1>6, <1>8, <1>9, <1>10 DEF IInv

LEMMA WorkerWakeIInv ==
  ASSUME IInv, NEW w \in Worker, WorkerWake(w)
  PROVE  IInv'
<1>1. /\ Types /\ Ids /\ Jobs /\ Phases /\ NoJobLost /\ NoLostWakeup
      /\ SleepersLate
  BY DEF IInv, NoLostWakeup, SleepersLate
<1>2. /\ pc[w] = "loop" /\ w \notin wait_pending
      /\ LoopTop(w, queue_active)
      /\ UNCHANGED <<state, next_tid, wait_complete, tid, owed>>
  BY DEF WorkerWake
<1>3. /\ state # "NONE" /\ HasId(w)
      /\ \A v \in wait_pending : pc[v] = "loop"
  BY <1>1, <1>2 DEF Phases, HasId
<1>4. JobsPlaced(queue_pending, queue_active, [cur EXCEPT ![w] = {}],
                 Running \ {w})
  <2>1. w \notin Running
    BY <1>2 DEF Running
  <2> QED
    BY <1>1, <2>1, IdleHands
<1>5. /\ Jobs'
      /\ ToSet(queue_pending') \cup queue_active'
           = ToSet(queue_pending) \cup queue_active
      /\ pc' = [pc EXCEPT ![w] = pc'[w]]
      /\ pc'[w] \in {"loop", "run", "exit"}
      /\ wait_pending' \in SUBSET Worker
      /\ \A v \in wait_pending' : pc'[v] = "loop"
      /\ SleepersLate'
      /\ queue_pending = << >> =>
           queue_pending' = << >> /\ queue_active' = queue_active
  BY <1>1, <1>2, <1>3, <1>4, LoopTopKeeps
<1>6. Types' /\ pc'[Main] = pc[Main] /\ \A v \in Worker \ {w} : pc'[v] = pc[v]
  BY <1>1, <1>2, <1>5, JobQAssumption DEF Types, Thread, WorkerPC
<1>7. Started' = Started
  BY <1>3, <1>5, <1>6 DEF Started, HasId
<1>8. Ids'
  BY <1>1, <1>2, <1>3, <1>7, IdsStay
<1>9. Phases'
  BY <1>1, <1>2, <1>3, <1>5, <1>6 DEF Phases, AllDone
<1>10. NoJobLost' /\ NoLostWakeup'
  BY <1>1, <1>2, <1>5 DEF NoJobLost, NoLostWakeup, SleepersLate, Queued
<1> QED
  BY <1>5, <1>6, <1>8, <1>9, <1>10 DEF IInv

LEMMA WorkerDoneIInv ==
  ASSUME IInv, NEW w \in Worker, WorkerDone(w)
  PROVE  IInv'
<1> DEFINE active == queue_active \ cur[w]
<1>1. /\ Types /\ Ids /\ Jobs /\ Phases /\ NoJobLost /\ NoLostWakeup
      /\ SleepersLate
  BY DEF IInv, NoLostWakeup, SleepersLate
<1>2. /\ pc[w] = "run"
      /\ wait_complete' = IF LastOne(w) THEN {} ELSE wait_complete
      /\ owed' = owed \ cur[w]
      /\ LoopTop(w, active)
      /\ UNCHANGED <<state, next_tid, tid>>
  BY DEF WorkerDone
<1>3. /\ state # "NONE" /\ HasId(w) /\ w \notin wait_pending
      /\ \A v \in wait_pending : pc[v] = "loop"
  BY <1>1, <1>2 DEF Phases, HasId
<1>4. /\ JobsPlaced(queue_pending, active, [cur EXCEPT ![w] = {}],
                    Running \ {w})
      /\ cur[w] \subseteq queue_active
      /\ ToSet(queue_pending) \cap cur[w] = {}
      /\ cur[w] # {}
  <2>1. w \in Running
    BY <1>2 DEF Running
  <2>2. JobsPlaced(queue_pending, queue_active, cur, Running)
    BY <1>1 DEF Jobs
  <2>3. /\ JobsPlaced(queue_pending, queue_active \ cur[w],
                      [cur EXCEPT ![w] = {}], Running \ {w})
        /\ cur[w] \subseteq queue_active
        /\ ToSet(queue_pending) \cap cur[w] = {}
        /\ cur[w] = {} <=> w \notin Running
    BY <2>2, DonePlaced
  <2> QED
    BY <2>1, <2>3
<1> HIDE DEF active
<1>5. /\ Jobs'
      /\ ToSet(queue_pending') \cup queue_active'
           = ToSet(queue_pending) \cup active
      /\ pc' = [pc EXCEPT ![w] = pc'[w]]
      /\ pc'[w] \in {"loop", "run", "exit"}
      /\ wait_pending' \in SUBSET Worker
      /\ \A v \in wait_pending' : pc'[v] = "loop"
      /\ SleepersLate'
      /\ queue_pending = << >> =>
           queue_pending' = << >> /\ queue_active' = active
  BY <1>1, <1>2, <1>3, <1>4, LoopTopKeeps
<1>6. Types' /\ pc'[Main] = pc[Main] /\ \A v \in Worker \ {w} : pc'[v] = pc[v]
  BY <1>1, <1>2, <1>5, JobQAssumption DEF Types, Thread, WorkerPC
<1>7. Started' = Started
  BY <1>3, <1>5, <1>6 DEF Started, HasId
<1>8. Ids'
  BY <1>1, <1>2, <1>3, <1>7, IdsStay
<1>9. Phases'
  <2>1. ~AllDone
    BY <1>4 DEF AllDone
  <2> QED
    BY <1>1, <1>2, <1>3, <1>5, <1>6, <2>1 DEF Phases
<1>10. NoJobLost'
  BY <1>1, <1>2, <1>4, <1>5 DEF NoJobLost, Queued, active
<1>11. NoLostWakeup'
  <2>1. wait_complete' # {} => Queued' # {}
    <3>1. SUFFICES ASSUME ~LastOne(w)
                   PROVE  ToSet(queue_pending) \cup active # {}
      BY <1>2, <1>5 DEF Queued
    <3>2. CASE queue_pending # << >>
      <4>1. queue_pending \in Seq(Job)
        BY <1>1 DEF Jobs, JobsPlaced
      <4> QED
        BY <3>2, <4>1, EmptyQueue
    <3>3. CASE queue_active # cur[w]
      BY <1>4, <3>3 DEF active
    <3> QED
      BY <3>1, <3>2, <3>3 DEF LastOne
  <2> QED
    BY <1>5, <2>1 DEF NoLostWakeup, SleepersLate
<1> QED
  BY <1>5, <1>6, <1>8, <1>9, <1>10, <1>11 DEF IInv

-----------------------------------------------------------------------------
(* The other threads' steps. *)

LEMMA RunIInv ==
  ASSUME IInv, NEW p \in Thread, Run(p)
  PROVE  IInv'
<1>1. /\ Types /\ Ids /\ Jobs /\ Phases /\ NoJobLost /\ NoLostWakeup
      /\ MayCall(p, "run")
      /\ UNCHANGED <<state, next_tid, queue_active, wait_complete, pc, cur, tid>>
  BY DEF IInv, Run
<1>2. PICK j \in Job \ Queued :
        queue_pending' = Append(queue_pending, j) /\ owed' = owed \cup {j}
  BY DEF Run
<1>3. wait_pending' = IF state = "RUNNING" THEN {} ELSE wait_pending
  BY DEF Run, WakeWorkers
<1>4. /\ JobsPlaced(Append(queue_pending, j), queue_active, cur, Running)
      /\ ToSet(Append(queue_pending, j)) = ToSet(queue_pending) \cup {j}
  BY <1>1, SubmitPlaced DEF Jobs, Queued
<1>5. Jobs'
  BY <1>1, <1>2, <1>4 DEF Jobs, Running
<1>6. Types' /\ Started' = Started
  BY <1>1, <1>3 DEF Types, Started, HasId
<1>7. Ids'
  BY <1>1, <1>6, IdsStay
<1>8. /\ state # "NONE"
      /\ pc[Main] \notin {"new_join", "delete_stop", "delete_join"}
  <2>1. CASE p \in Worker
    <3>1. pc[p] = "run"
      BY <1>1, <2>1 DEF MayCall
    <3>2. ~AllDone
      BY <1>1, <2>1, <3>1, RunnerBusy
    <3> QED
      BY <1>1, <3>2 DEF Phases
  <2>2. CASE p \notin Worker
    BY <1>1, <2>2 DEF MayCall, Phases
  <2> QED
    BY <2>1, <2>2
<1>9. Phases'
  BY <1>1, <1>3, <1>8 DEF Phases
<1>10. NoJobLost'
  BY <1>1, <1>2, <1>4 DEF NoJobLost, Queued
<1>11. NoLostWakeup'
  BY <1>1, <1>2, <1>3, <1>4 DEF NoLostWakeup, Queued
<1> QED
  BY <1>5, <1>6, <1>7, <1>9, <1>10, <1>11 DEF IInv

\* A step that leaves jobs and threads alone but for the place of one client.
LEMMA QueueUntouched ==
  ASSUME IInv, UNCHANGED <<next_tid, queue_pending, queue_active, cur, tid,
                           owed>>,
         Types', \A w \in Worker : pc'[w] = pc[w],
         state = "NONE" => state' = "NONE",
         wait_pending' \subseteq wait_pending, Phases', NoLostWakeup'
  PROVE  IInv'
<1>1. Running' = Running /\ Started' = Started
  BY DEF Running, Started, HasId
<1>2. Jobs' /\ NoJobLost'
  BY <1>1 DEF IInv, Jobs, NoJobLost, Queued
<1>3. Ids'
  BY <1>1, IdsStay DEF IInv
<1> QED
  BY <1>2, <1>3 DEF IInv

LEMMA PauseIInv ==
  ASSUME IInv, NEW c \in Client, Pause(c)
  PROVE  IInv'
<1>1. /\ Types /\ Phases /\ NoLostWakeup /\ MayCall(c, "pause")
      /\ state' = "PAUSED"
      /\ UNCHANGED <<next_tid, queue_pending, queue_active, wait_pending,
                     wait_complete, pc, cur, tid, owed>>
  BY DEF IInv, Pause
<1>2. state \in {"RUNNING", "PAUSED"}
  BY <1>1, JobQAssumption DEF MayCall
<1>3. Types' /\ Phases' /\ NoLostWakeup'
  BY <1>1, <1>2 DEF Types, Phases, NoLostWakeup, AllDone, Queued
<1> QED
  BY <1>1, <1>2, <1>3, QueueUntouched

LEMMA ResumeIInv ==
  ASSUME IInv, NEW c \in Client, Resume(c)
  PROVE  IInv'
<1>1. /\ Types /\ Phases /\ NoLostWakeup /\ MayCall(c, "resume")
      /\ state' = "RUNNING" /\ wait_pending' = {}
      /\ UNCHANGED <<next_tid, queue_pending, queue_active, wait_complete, pc,
                     cur, tid, owed>>
  BY DEF IInv, Resume, WakeWorkers
<1>2. state \in {"RUNNING", "PAUSED"}
  BY <1>1, JobQAssumption DEF MayCall
<1>3. Types' /\ Phases' /\ NoLostWakeup'
  BY <1>1, <1>2 DEF Types, Phases, NoLostWakeup, AllDone, Queued
<1> QED
  BY <1>1, <1>2, <1>3, QueueUntouched

(* The end of finish, which delete shares: at l while something is queued,
   at next when nothing is. *)
LEMMA FinishLoopIInv ==
  ASSUME IInv, NEW c \in Client, NEW l, NEW next, FinishLoop(c, l, next),
         \/ l = "finish" /\ next = "idle"
         \/ l = "delete_finish" /\ next = "delete_stop" /\ c = Main,
         state \in {"RUNNING", "PAUSED"} \/ c # Main,
         state' = state \/ (state = "PAUSED" /\ state' = "RUNNING"),
         wait_pending' = IF state' = state THEN wait_pending ELSE {}
  PROVE  IInv'
<1>1. /\ Types /\ Phases /\ NoLostWakeup /\ Jobs
      /\ UNCHANGED <<next_tid, queue_pending, queue_active, cur, tid, owed>>
  BY DEF IInv, FinishLoop
<1>2. /\ AllDone => pc' = [pc EXCEPT ![c] = next]
                    /\ wait_complete' = wait_complete
      /\ ~AllDone => pc' = [pc EXCEPT ![c] = l]
                     /\ wait_complete' = wait_complete \cup {c}
  BY DEF FinishLoop, Goto
<1>3. /\ pc' = [pc EXCEPT ![c] = pc'[c]]
      /\ pc'[c] \in {l, next}
      /\ pc'[c] = l \/ AllDone
  BY <1>1, <1>2 DEF Types, Thread
<1>4. /\ Types'
      /\ \A p \in Thread : p # c => pc'[p] = pc[p]
      /\ \A w \in Worker : pc'[w] = pc[w]
  <2>1. /\ c \in Thread /\ c \notin Worker
        /\ {l, next} \subseteq ClientPC
        /\ wait_complete' \in SUBSET Client
        /\ wait_pending' \in SUBSET Worker
        /\ state' \in {"NONE", "RUNNING", "PAUSED", "STOP"}
    BY <1>1, <1>2, JobQAssumption DEF Types, Thread, ClientPC
  <2> QED
    BY <1>1, <1>3, <2>1 DEF Types, Thread
<1>5. Phases'
  <2>1. /\ (state' = "STOP") <=> (state = "STOP")
        /\ (state' = "NONE") <=> (state = "NONE")
    OBVIOUS
  <2>2. CASE c = Main
    <3>1. /\ state # "STOP" /\ state # "NONE"
          /\ pc'[Main] \in {"finish", "idle", "delete_finish", "delete_stop"}
          /\ pc'[Main] = "delete_stop" => AllDone
      BY <1>3, <2>2
    <3> QED
      BY <1>1, <1>4, <2>1, <3>1 DEF Phases, AllDone, Types
  <2>3. CASE c # Main
    <3>1. pc'[Main] = pc[Main]
      BY <1>4, <2>3, JobQAssumption DEF Thread
    <3> QED
      BY <1>1, <1>4, <2>1, <3>1 DEF Phases, AllDone, Types
  <2> QED
    BY <2>2, <2>3
<1>6. NoLostWakeup'
  BY <1>1, <1>2, DoneMeansNothing DEF NoLostWakeup, Queued
<1> QED
  BY <1>1, <1>4, <1>5, <1>6, QueueUntouched

LEMMA FinishBeginIInv ==
  ASSUME IInv, NEW c \in Client, NEW l, NEW next, FinishBegin(c, l, next),
         \/ l = "finish" /\ next = "idle"
         \/ l = "delete_finish" /\ next = "delete_stop" /\ c = Main,
         state \in {"RUNNING", "PAUSED"}
  PROVE  IInv'
<1>1. /\ FinishLoop(c, l, next)
      /\ state' = IF state = "PAUSED" THEN "RUNNING" ELSE state
      /\ wait_pending' = IF state = "PAUSED" THEN {} ELSE wait_pending
  BY DEF FinishBegin, WakeWorkers
<1>2. /\ state' = state \/ (state = "PAUSED" /\ state' = "RUNNING")
      /\ wait_pending' = IF state' = state THEN wait_pending ELSE {}
  BY <1>1
<1> QED
  BY <1>1, <1>2, FinishLoopIInv

LEMMA FinishWakeIInv ==
  ASSUME IInv, NEW c \in Client, NEW l, NEW next, FinishWake(c, l, next),
         \/ l = "finish" /\ next = "idle"
         \/ l = "delete_finish" /\ next = "delete_stop" /\ c = Main
  PROVE  IInv'
<1>1. /\ FinishLoop(c, l, next) /\ pc[c] = l
      /\ state' = state /\ wait_pending' = wait_pending
  BY DEF FinishWake
<1>2. state \in {"RUNNING", "PAUSED"} \/ c # Main
  BY <1>1 DEF IInv, Types, Phases
<1> QED
  BY <1>1, <1>2, FinishLoopIInv

-----------------------------------------------------------------------------
(* Creation and the end, and a spurious wakeup. *)

LEMMA NewIInv ==
  ASSUME IInv, New
  PROVE  IInv'
<1>1. /\ Types /\ Ids /\ Jobs /\ Phases /\ NoJobLost /\ NoLostWakeup
      /\ state = "NONE" /\ pc[Main] = "idle" /\ next_tid' = 0
      /\ UNCHANGED <<queue_pending, queue_active, wait_pending, wait_complete,
                     cur, tid, owed>>
  BY DEF IInv, New
<1>2. PICK created \in SUBSET Worker :
        /\ state' = IF created = Worker THEN "RUNNING" ELSE "STOP"
        /\ pc' = [p \in Thread |->
                    IF p \in created THEN "start"
                    ELSE IF p = Main /\ created # Worker THEN "new_join"
                    ELSE pc[p]]
  BY DEF New
<1>3. /\ \A w \in Worker : pc[w] = "none" /\ pc'[w] \in {"start", "none"}
      /\ \A c \in Client \ {Main} : pc'[c] = pc[c]
      /\ pc'[Main] = IF state' = "STOP" THEN "new_join" ELSE "idle"
      /\ state' \in {"RUNNING", "STOP"}
  BY <1>1, <1>2, JobQAssumption DEF Phases, Thread
<1>4. Types'
  BY <1>1, <1>2, <1>3 DEF Types, Thread, ClientPC, WorkerPC
<1>5. Running' = Running /\ Started' = {}
  BY <1>3 DEF Running, Started, HasId
<1>6. Jobs' /\ NoJobLost'
  BY <1>1, <1>5 DEF Jobs, NoJobLost, Queued
<1>7. Ids'
  <2>1. IsFiniteSet({}) /\ Cardinality({}) = 0
    BY FS_EmptySet
  <2>2. 0 \in 0..Cardinality(Worker)
    BY JobQAssumption, FS_CardinalityType
  <2>3. Cardinality(Started') = 0
    BY <1>5, <2>1, Zenon
  <2> QED
    BY <1>1, <1>5, <2>2, <2>3 DEF Ids
<1>8. wait_pending = {} /\ AllDone
  BY <1>1, <1>3 DEF Phases, Types
<1>9. Phases' /\ NoLostWakeup'
  BY <1>1, <1>3, <1>8 DEF Phases, NoLostWakeup, AllDone, Queued
<1> QED
  BY <1>4, <1>6, <1>7, <1>9 DEF IInv

LEMMA JoinIInv ==
  ASSUME IInv, Join
  PROVE  IInv'
<1>1. /\ Types /\ Ids /\ Jobs /\ Phases /\ NoJobLost /\ NoLostWakeup
      /\ pc[Main] \in {"new_join", "delete_join"}
      /\ \A w \in Worker : pc[w] \in {"none", "exit"}
      /\ state' = "NONE" /\ queue_pending' = << >> /\ queue_active' = {}
      /\ pc' = [p \in Thread |-> IF p \in Worker THEN "none"
                                 ELSE IF p = Main THEN "idle" ELSE pc[p]]
      /\ tid' = [w \in Worker |-> 0]
      /\ UNCHANGED <<next_tid, wait_pending, wait_complete, cur, owed>>
  BY DEF IInv, Join
<1>2. UNCHANGED <<queue_pending, queue_active>>
  BY <1>1 DEF Phases, AllDone
<1>3. /\ \A w \in Worker : pc'[w] = "none"
      /\ \A c \in Client : pc'[c] = IF c = Main THEN "idle" ELSE pc[c]
  BY <1>1, JobQAssumption DEF Thread
<1>4. Types'
  BY <1>1, <1>3 DEF Types, Thread, ClientPC, WorkerPC
<1>5. Running' = Running
  BY <1>1, <1>3 DEF Running
<1>6. Jobs' /\ NoJobLost'
  BY <1>1, <1>2, <1>5 DEF Jobs, NoJobLost, Queued
<1>7. Ids'
  <2>1. 0 \in 0..Cardinality(Worker)
    BY JobQAssumption, FS_CardinalityType
  <2> QED
    BY <1>1, <2>1 DEF Ids
<1>8. Phases' /\ NoLostWakeup'
  BY <1>1, <1>2, <1>3, JobQAssumption DEF Phases, NoLostWakeup, AllDone, Queued
<1> QED
  BY <1>4, <1>6, <1>7, <1>8 DEF IInv

LEMMA DeleteStopIInv ==
  ASSUME IInv, DeleteStop
  PROVE  IInv'
<1>1. /\ Types /\ Phases /\ NoLostWakeup
      /\ pc[Main] = "delete_stop" /\ state' = "STOP" /\ wait_pending' = {}
      /\ pc' = [pc EXCEPT ![Main] = "delete_join"]
      /\ UNCHANGED <<next_tid, queue_pending, queue_active, wait_complete, cur,
                     tid, owed>>
  BY DEF IInv, DeleteStop, WakeWorkers, Goto
<1>2. /\ \A w \in Worker : pc'[w] = pc[w]
      /\ \A c \in Client : pc'[c] = IF c = Main THEN "delete_join" ELSE pc[c]
  BY <1>1, JobQAssumption DEF Types, Thread
<1>3. Types'
  BY <1>1, <1>2, JobQAssumption DEF Types, Thread, ClientPC
<1>4. state # "NONE"
  BY <1>1 DEF Phases
<1>5. Phases' /\ NoLostWakeup'
  BY <1>1, <1>2, JobQAssumption DEF Phases, NoLostWakeup, AllDone, Queued
<1> QED
  BY <1>1, <1>2, <1>3, <1>4, <1>5, QueueUntouched

LEMMA SpuriousIInv ==
  ASSUME IInv, NEW p \in Thread, Spurious(p)
  PROVE  IInv'
<1>1. /\ Types /\ Phases /\ NoLostWakeup
      /\ wait_pending' = wait_pending \ {p}
      /\ wait_complete' = wait_complete \ {p}
      /\ UNCHANGED <<state, next_tid, queue_pending, queue_active, pc, cur,
                     tid, owed>>
  BY DEF IInv, Spurious
<1>2. Types' /\ Phases' /\ NoLostWakeup'
  BY <1>1 DEF Types, Phases, NoLostWakeup, AllDone, Queued
<1> QED
  BY <1>1, <1>2, QueueUntouched

-----------------------------------------------------------------------------
(* The invariant is inductive, and implies the properties. *)

LEMMA InitIInv == Init => IInv
<1> SUFFICES ASSUME Init PROVE IInv
  OBVIOUS
<1>1. /\ state = "NONE" /\ next_tid = 0 /\ queue_pending = << >>
      /\ queue_active = {} /\ wait_pending = {} /\ wait_complete = {}
      /\ pc = [p \in Thread |-> IF p \in Client THEN "idle" ELSE "none"]
      /\ cur = [w \in Worker |-> {}]
      /\ tid = [w \in Worker |-> 0] /\ owed = {}
  BY DEF Init
<1>2. /\ \A c \in Client : pc[c] = "idle"
      /\ \A w \in Worker : pc[w] = "none"
  BY <1>1, JobQAssumption DEF Thread
<1>3. Types
  BY <1>1, <1>2 DEF Types, Thread, ClientPC, WorkerPC
<1>4. Ids
  <2>1. 0 \in 0..Cardinality(Worker)
    BY JobQAssumption, FS_CardinalityType
  <2> QED
    BY <1>1, <2>1 DEF Ids
<1>5. ToSet(queue_pending) = {} /\ queue_pending \in Seq(Job)
      /\ IsInjective(queue_pending)
  BY <1>1 DEF ToSet, IsInjective
<1>6. Running = {}
  BY <1>2 DEF Running
<1>7. Jobs
  BY <1>1, <1>5, <1>6 DEF Jobs, JobsPlaced
<1>8. Phases
  BY <1>1, <1>2, JobQAssumption DEF Phases, AllDone
<1>9. NoJobLost /\ NoLostWakeup
  BY <1>1, <1>5 DEF NoJobLost, NoLostWakeup, Queued
<1> QED
  BY <1>3, <1>4, <1>7, <1>8, <1>9 DEF IInv

LEMMA NextIInv ==
  ASSUME IInv, [Next]_vars
  PROVE  IInv'
<1>1. CASE UNCHANGED vars
  BY <1>1 DEF vars, IInv, Types, Ids, Started, HasId, Jobs, JobsPlaced,
              Running, Phases, AllDone, NoJobLost, NoLostWakeup, Queued
<1>2. ASSUME NEW w \in Worker, WorkerStep(w)
      PROVE  IInv'
  BY <1>2, WorkerStartIInv, WorkerWakeIInv, WorkerDoneIInv DEF WorkerStep
<1>3. ASSUME NEW p \in Thread, Run(p) \/ Spurious(p)
      PROVE  IInv'
  BY <1>3, RunIInv, SpuriousIInv
<1>4. ASSUME NEW c \in Client, Pause(c) \/ Resume(c)
      PROVE  IInv'
  BY <1>4, PauseIInv, ResumeIInv
<1>5. ASSUME NEW c \in Client, Finish(c)
      PROVE  IInv'
  <2>1. state \in {"RUNNING", "PAUSED"} /\ FinishBegin(c, "finish", "idle")
    BY <1>5, JobQAssumption DEF Finish, MayCall
  <2> QED
    BY <2>1, FinishBeginIInv
<1>6. ASSUME NEW c \in Client, FinishResume(c)
      PROVE  IInv'
  BY <1>6, FinishWakeIInv DEF FinishResume
<1>7. CASE Delete
  <2>1. /\ state \in {"RUNNING", "PAUSED"} /\ Main \in Client
        /\ FinishBegin(Main, "delete_finish", "delete_stop")
    BY <1>7, JobQAssumption DEF Delete, MayCall
  <2> QED
    BY <2>1, FinishBeginIInv
<1>8. CASE MainContinue
  <2>1. CASE DeleteResume
    <3>1. Main \in Client
      BY JobQAssumption
    <3> QED
      BY <2>1, <3>1, FinishWakeIInv DEF DeleteResume
  <2> QED
    BY <1>8, <2>1, JoinIInv, DeleteStopIInv DEF MainContinue
<1> QED
  BY <1>1, <1>2, <1>3, <1>4, <1>5, <1>6, <1>7, <1>8, NewIInv DEF Next

(* The inductive invariant holds in every reachable state, for any jobs and
   clients and any finite set of workers. *)
THEOREM JobQInvariant == Spec => []IInv
<1>1. IInv /\ [Next]_vars => IInv'
  BY NextIInv
<1> QED
  BY <1>1, InitIInv, PTL DEF Spec

(* Every variable keeps its type, and the jobq gives out no more thread ids
   than it has threads, for any number of threads and jobs. *)
THEOREM JobQTypeCorrect == Spec => []TypeOK
<1>1. IInv => TypeOK
  <2> SUFFICES ASSUME IInv PROVE TypeOK
    OBVIOUS
  <2>1. /\ queue_pending \in Seq(Job) /\ queue_active \in SUBSET Job
        /\ cur \in [Worker -> SUBSET Job]
    BY DEF IInv, Jobs, JobsPlaced
  <2>2. owed \in SUBSET Job
    BY <2>1 DEF IInv, NoJobLost, Queued, ToSet
  <2>3. \A p \in Thread : pc[p] \in IF p \in Client THEN ClientPC ELSE WorkerPC
    BY DEF IInv, Types, Thread
  <2> QED
    BY <2>1, <2>2, <2>3 DEF IInv, Types, Ids, TypeOK
<1> QED
  BY <1>1, JobQInvariant, PTL

(* A job is never run by two workers, and the active queue holds what the
   workers run and nothing else. *)
THEOREM JobQOneWorkerPerJob == Spec => []OneWorkerPerJob
<1>1. IInv => OneWorkerPerJob
  <2> SUFFICES ASSUME IInv PROVE OneWorkerPerJob
    OBVIOUS
  <2>1. /\ queue_active \in SUBSET Job /\ cur \in [Worker -> SUBSET Job]
        /\ IsInjective(queue_pending)
        /\ ToSet(queue_pending) \cap queue_active = {}
        /\ \A j \in Job : j \in queue_active <=> \E w \in Worker : j \in cur[w]
        /\ \A v, w \in Worker : v # w => cur[v] \cap cur[w] = {}
        /\ \A w \in Worker : cur[w] # {} <=> w \in Running
    BY DEF IInv, Jobs, JobsPlaced
  <2>2. Running \subseteq Worker
    BY DEF Running
  <2>3. queue_active = UNION {cur[w] : w \in Running}
    <3>1. ASSUME NEW j \in queue_active
          PROVE  j \in UNION {cur[w] : w \in Running}
      <4>1. PICK w \in Worker : j \in cur[w]
        BY <2>1
      <4>2. w \in Running
        BY <2>1, <4>1
      <4> QED
        BY <4>1, <4>2
    <3>2. ASSUME NEW w \in Running, NEW j \in cur[w]
          PROVE  j \in queue_active
      <4>1. w \in Worker /\ j \in Job
        BY <2>1, <2>2
      <4> QED
        BY <2>1, <4>1
    <3> QED
      BY <3>1, <3>2
  <2> QED
    BY <2>1, <2>2, <2>3 DEF OneWorkerPerJob
<1> QED
  BY <1>1, JobQInvariant, PTL

(* No job that run has accepted is lost, and none is run twice: delete
   returns when all of them were run, those submitted by jobs included. *)
THEOREM JobQNoJobLost == Spec => []NoJobLost
<1>1. IInv => NoJobLost
  BY DEF IInv
<1> QED
  BY <1>1, JobQInvariant, PTL

(* No worker sleeps while there is a job to begin or the queue stops, and no
   client sleeps when there is nothing left to wait for. *)
THEOREM JobQNoLostWakeup == Spec => []NoLostWakeup
<1>1. IInv => NoLostWakeup
  BY DEF IInv
<1> QED
  BY <1>1, JobQInvariant, PTL

(* While the queue stays paused no worker begins a job, wherever it is in
   its loop: one just started, one that wakes, one whose run_fn returns. *)
THEOREM JobQPausedBeginsNothing == Spec => PausedBeginsNothing
<1> DEFINE Kept == state = "PAUSED" /\ state' = "PAUSED" =>
                     queue_active' \subseteq queue_active
<1>1. ASSUME [Next]_vars, state = "PAUSED", state' = "PAUSED"
      PROVE  queue_active' \subseteq queue_active
  <2>1. CASE UNCHANGED queue_active
    BY <2>1
  <2>2. ASSUME NEW w \in Worker, NEW active, LoopTop(w, active),
               active \subseteq queue_active
        PROVE  queue_active' \subseteq queue_active
    BY <1>1, <2>2 DEF LoopTop, NothingToBegin
  <2>3. ASSUME NEW w \in Worker, WorkerStep(w)
        PROVE  queue_active' \subseteq queue_active
    <3>1. CASE LoopTop(w, queue_active)
      BY <2>2, <3>1
    <3>2. CASE LoopTop(w, queue_active \ cur[w])
      <4>1. queue_active \ cur[w] \subseteq queue_active
        OBVIOUS
      <4> QED
        BY <2>2, <3>2, <4>1
    <3> QED
      BY <2>3, <3>1, <3>2 DEF WorkerStep, WorkerStart, WorkerWake, WorkerDone
  <2>4. CASE Join
    BY <2>4 DEF Join
  <2>5. CASE UNCHANGED vars
    BY <2>5 DEF vars
  <2> QED
    BY <1>1, <2>1, <2>3, <2>4, <2>5
       DEF Next, MainContinue, Run, Spurious, Pause, Resume, Finish,
           FinishResume, New, Delete, DeleteResume, DeleteStop, FinishBegin,
           FinishWake, FinishLoop
<1>2. [Next]_vars => [Kept]_vars
  BY <1>1
<1> QED
  BY <1>2, PTL DEF Spec, PausedBeginsNothing

(* Two threads of a jobq never get the same id (cc_jobq.c:58), which is what
   run_fn picks its own memory by. *)
ThreadIdsDiffer ==
  state # "NONE" =>
    \A v, w \in Started : tid[v] = tid[w] => v = w

THEOREM JobQThreadIdsDiffer == Spec => []ThreadIdsDiffer
<1>1. IInv => ThreadIdsDiffer
  BY DEF IInv, Ids, ThreadIdsDiffer
<1> QED
  BY <1>1, JobQInvariant, PTL

-----------------------------------------------------------------------------
(* A call that is waiting is always waited for by somebody who can go on. *)

\* While the queue runs or is paused all of its threads exist and stay in
\* their loop; only main is ever inside new or past the finish of delete.
Staffed ==
  /\ state \in {"RUNNING", "PAUSED"} =>
       \A w \in Worker : pc[w] \in {"start", "loop", "run"}
  /\ \A c \in Client \ {Main} : pc[c] \in {"idle", "finish"}

\* Thread p is inside the jobq and its next critical section waits for nobody:
\* what the guards of WorkerStep, FinishWake, DeleteStop and Join ask.
MayGoOn(p) ==
  \/ /\ p \in Worker
     /\ pc[p] \in {"start", "run"} \/ (pc[p] = "loop" /\ p \notin wait_pending)
  \/ /\ p \in Client
     /\ pc[p] \in {"finish", "delete_finish"} /\ p \notin wait_complete
  \/ /\ p = Main
     /\ \/ pc[p] = "delete_stop"
        \/ /\ pc[p] \in {"new_join", "delete_join"}
           /\ \A w \in Worker : pc[w] \in {"none", "exit"}

LEMMA LoopTopStays ==
  ASSUME IInv, NEW w \in Worker, NEW active, LoopTop(w, active),
         state \in {"RUNNING", "PAUSED"}, Staffed
  PROVE  /\ \A v \in Worker : pc'[v] \in {"start", "loop", "run"}
         /\ \A c \in Client : pc'[c] = pc[c]
<1>1. /\ pc \in [Thread -> ClientPC \cup WorkerPC]
      /\ w \in Thread /\ w \notin Client
      /\ Client \subseteq Thread /\ Worker \subseteq Thread
  BY JobQAssumption DEF IInv, Types, Thread
<1>2. PICK l \in {"loop", "run"} : pc' = [pc EXCEPT ![w] = l]
  BY DEF LoopTop, Goto, Begin
<1> QED
  BY <1>1, <1>2 DEF Staffed

LEMMA NextStaffed ==
  ASSUME IInv, Staffed, [Next]_vars
  PROVE  Staffed'
<1>1. /\ pc \in [Thread -> ClientPC \cup WorkerPC]
      /\ Client \subseteq Thread /\ Worker \subseteq Thread
      /\ Main \in Client /\ Client \cap Worker = {}
      /\ \A c \in Client \ {Main} : "delete" \notin Calls[c]
  BY JobQAssumption DEF IInv, Types, Thread
<1>2. ASSUME NEW w \in Worker, WorkerStep(w)
      PROVE  Staffed'
  <2>1. PICK active : LoopTop(w, active) /\ UNCHANGED state
    BY <1>2 DEF WorkerStep, WorkerStart, WorkerWake, WorkerDone
  <2>2. PICK l \in WorkerPC : pc' = [pc EXCEPT ![w] = l]
    BY <2>1 DEF LoopTop, Goto, Begin, WorkerPC
  <2>3. \A c \in Client : pc'[c] = pc[c]
    BY <1>1, <2>2
  <2>4. state \in {"RUNNING", "PAUSED"} =>
          \A v \in Worker : pc'[v] \in {"start", "loop", "run"}
    BY <2>1, LoopTopStays
  <2> QED
    BY <2>1, <2>3, <2>4 DEF Staffed
<1>3. ASSUME NEW c \in Client, NEW l, NEW next,
             FinishLoop(c, l, next),
             c = Main \/ (l = "finish" /\ next = "idle"),
             state \in {"RUNNING", "PAUSED"} \/ state' = state
      PROVE  Staffed'
  <2>1. pc' = [pc EXCEPT ![c] = l] \/ pc' = [pc EXCEPT ![c] = next]
    BY <1>3 DEF FinishLoop, Goto
  <2>2. \A w \in Worker : pc'[w] = pc[w]
    BY <1>1, <2>1
  <2>3. \A d \in Client \ {Main} : pc'[d] \in {"idle", "finish"}
    BY <1>1, <1>3, <2>1 DEF Staffed
  <2> QED
    BY <1>3, <2>2, <2>3 DEF Staffed
<1>4. ASSUME NEW c \in Client, Finish(c)
      PROVE  Staffed'
  <2>1. state \in {"RUNNING", "PAUSED"} /\ FinishLoop(c, "finish", "idle")
    BY <1>1, <1>4 DEF Finish, MayCall, FinishBegin
  <2> QED
    BY <1>3, <2>1
<1>5. ASSUME NEW c \in Client, FinishResume(c)
      PROVE  Staffed'
  BY <1>3, <1>5 DEF FinishResume, FinishWake
<1>6. CASE Delete
  <2>1. /\ state \in {"RUNNING", "PAUSED"}
        /\ FinishLoop(Main, "delete_finish", "delete_stop")
    BY <1>1, <1>6 DEF Delete, MayCall, FinishBegin
  <2> QED
    BY <1>1, <1>3, <2>1
<1>7. CASE DeleteResume
  BY <1>1, <1>3, <1>7 DEF DeleteResume, FinishWake
<1>8. CASE DeleteStop
  <2>1. state' = "STOP" /\ pc' = [pc EXCEPT ![Main] = "delete_join"]
    BY <1>8 DEF DeleteStop, Goto
  <2> QED
    BY <1>1, <2>1 DEF Staffed
<1>9. CASE Join
  <2>1. /\ state' = "NONE"
        /\ \A c \in Client \ {Main} : pc'[c] = pc[c]
    BY <1>1, <1>9 DEF Join
  <2> QED
    BY <2>1 DEF Staffed
<1>10. CASE New
  <2>1. PICK created \in SUBSET Worker :
          /\ state' = IF created = Worker THEN "RUNNING" ELSE "STOP"
          /\ pc' = [p \in Thread |->
                      IF p \in created THEN "start"
                      ELSE IF p = Main /\ created # Worker THEN "new_join"
                      ELSE pc[p]]
    BY <1>10 DEF New
  <2>2. \A c \in Client \ {Main} : pc'[c] = pc[c]
    BY <1>1, <2>1
  <2>3. state' \in {"RUNNING", "PAUSED"} => \A w \in Worker : pc'[w] = "start"
    BY <1>1, <2>1
  <2> QED
    BY <2>2, <2>3 DEF Staffed
<1>11. ASSUME NEW c \in Client, Pause(c) \/ Resume(c)
       PROVE  Staffed'
  <2>1. state \in {"RUNNING", "PAUSED"} /\ UNCHANGED pc
    BY <1>1, <1>11 DEF Pause, Resume, MayCall
  <2> QED
    BY <2>1 DEF Staffed
<1>12. ASSUME NEW p \in Thread, Run(p) \/ Spurious(p)
       PROVE  Staffed'
  BY <1>12 DEF Run, Spurious, Staffed
<1>13. CASE UNCHANGED vars
  BY <1>13 DEF vars, Staffed
<1> QED
  BY <1>2, <1>4, <1>5, <1>6, <1>7, <1>8, <1>9, <1>10, <1>11, <1>12, <1>13
     DEF Next, MainContinue

\* A client asleep in finish: a worker has a job to run or to begin.
LEMMA SleeperHasHelp ==
  ASSUME IInv, Staffed, Worker # {},
         state = "RUNNING", wait_complete # {}
  PROVE  \E w \in Worker : MayGoOn(w)
<1>1. Queued # {}
  BY DEF IInv, NoLostWakeup
<1>2. CASE queue_active # {}
  <2>1. PICK w \in Worker : w \in Running
    BY <1>2 DEF IInv, Jobs, JobsPlaced
  <2> QED
    BY <1>1, <2>1 DEF Running, MayGoOn
<1>3. CASE queue_active = {}
  <2>1. queue_pending # << >>
    <3>1. queue_pending = << >> => ToSet(queue_pending) = {}
      BY DEF ToSet
    <3> QED
      BY <1>1, <1>3, <3>1 DEF Queued
  <2>2. wait_pending = {}
    BY <2>1 DEF IInv, NoLostWakeup
  <2>3. PICK w \in Worker : pc[w] \in {"start", "loop", "run"}
    BY DEF Staffed
  <2> QED
    BY <1>1, <2>2, <2>3 DEF MayGoOn
<1> QED
  BY <1>2, <1>3

(* A client that is inside finish, delete or a failed new may go on itself, or
   a worker may: it never waits for another client alone, nor for a thread
   that waits in turn (cc_jobq.c:60, 286).  Only a pause by another client
   keeps it waiting.  This holds for any jobs and clients and at least one
   worker. *)
NoDeadlock ==
  state # "PAUSED" =>
    \A c \in Client : pc[c] # "idle" =>
      MayGoOn(c) \/ \E w \in Worker : MayGoOn(w)

THEOREM JobQNoDeadlock ==
  ASSUME Worker # {}
  PROVE  Spec => []NoDeadlock
<1>1. Init => Staffed
  <2> SUFFICES ASSUME Init PROVE Staffed
    OBVIOUS
  <2>1. \A c \in Client : pc[c] = "idle"
    BY DEF Init, Thread
  <2> QED
    BY <2>1 DEF Init, Staffed
<1>2. IInv /\ Staffed /\ [Next]_vars => Staffed'
  BY NextStaffed
<1>3. IInv /\ Staffed => NoDeadlock
  <2> SUFFICES ASSUME IInv, Staffed, state # "PAUSED",
                      NEW c \in Client, pc[c] # "idle"
               PROVE  MayGoOn(c) \/ \E w \in Worker : MayGoOn(w)
    BY DEF NoDeadlock
  <2>1. pc[c] \in {"new_join", "finish", "delete_finish", "delete_stop",
                   "delete_join"}
    BY DEF IInv, Types, ClientPC
  <2>2. CASE pc[c] \in {"finish", "delete_finish"}
    <3>1. CASE c \notin wait_complete
      BY <2>1, <2>2, <3>1 DEF MayGoOn
    <3>2. CASE c \in wait_complete
      <4>1. Queued # {}
        BY <3>2 DEF IInv, NoLostWakeup
      <4>2. ~AllDone
        <5>1. queue_pending = << >> => ToSet(queue_pending) = {}
          BY DEF ToSet
        <5> QED
          BY <4>1, <5>1 DEF Queued, AllDone
      <4>3. state = "RUNNING"
        BY <4>2 DEF IInv, Types, Phases
      <4> QED
        BY <3>2, <4>3, SleeperHasHelp
    <3> QED
      BY <3>1, <3>2
  <2>3. CASE pc[c] \in {"new_join", "delete_stop", "delete_join"}
    <3>1. c = Main
      BY <2>3 DEF Staffed
    <3>2. CASE pc[c] = "delete_stop"
      BY <2>1, <3>1, <3>2 DEF MayGoOn
    <3>3. CASE pc[c] \in {"new_join", "delete_join"}
      <4>1. wait_pending = {}
        BY <3>1, <3>3 DEF IInv, Phases, NoLostWakeup
      <4>2. CASE \A w \in Worker : pc[w] \in {"none", "exit"}
        BY <2>1, <3>1, <3>3, <4>2 DEF MayGoOn
      <4>3. ASSUME NEW w \in Worker, pc[w] \notin {"none", "exit"}
            PROVE  MayGoOn(w)
        BY <4>1, <4>3 DEF IInv, Types, WorkerPC, MayGoOn
      <4> QED
        BY <2>1, <4>2, <4>3
    <3> QED
      BY <2>3, <3>2, <3>3
  <2> QED
    BY <2>1, <2>2, <2>3
<1> QED
  BY <1>1, <1>2, <1>3, JobQInvariant, PTL DEF Spec

=============================================================================
