------------------------------ MODULE MCWorkQ ------------------------------
(***************************************************************************)
(* Small instances of WorkQ for TLC.  A configuration picks the threads,   *)
(* the tasks and, with ForThread and PrioritiesOf, who calls what.         *)
(***************************************************************************)
EXTENDS WorkQ

CONSTANTS helper, hi, lo, spawn

\* A thread's share of a constant: main's, a helper's or a worker's.
ForThread(main, help, work) ==
  [p \in Thread |-> IF p = Main THEN main
                    ELSE IF p \in Client THEN help ELSE work]

PrioritiesOf(high, low) == [t \in Task |-> IF t = hi THEN high ELSE low]

\* Node addresses are interchangeable, and so are the workers.
Symmetry == Permutations(Node) \cup Permutations(Worker)

FixedPriorities == PrioritiesOf({2}, {1})

\* Run workq_main: one client, all blocking calls.
MainCalls == ForThread(Function \ {"trywait", "trycancel"}, {}, {})
MainTasks == ForThread(Task, {}, {})

(* Run workq_shared: two clients submit and wait for the same task, which the
   main thread may also flush, finish or take back, and a third submits,
   polls and cancels the task that run_fn submits.  A task may be submitted
   again with another priority. *)
SharedCalls ==
  [p \in Thread |->
     IF p = Main
     THEN {"run", "wait", "trywait", "flush", "finish", "delete"}
     ELSE IF p = helper THEN {"run", "cancel", "trycancel"}
     ELSE IF p \in Client THEN {"run", "wait", "trywait"}
     ELSE {"run"}]
SharedTasks ==
  [p \in Thread |->
     IF p = Main THEN {hi, lo}
     ELSE IF p = helper THEN {spawn}
     ELSE IF p \in Client THEN {hi}
     ELSE {hi, spawn}]

\* Runs workq_shared and workq_priority.
MixedPriorities == PrioritiesOf({1, 3}, {2})

\* Run workq_live: one client, all calls but polling and purge; several tasks
\* of the higher priority and one of the lower.
LiveCalls      == ForThread(Function \ {"trywait", "trycancel", "purge"}, {}, {})
LivePriorities == [t \in Task |-> IF t = lo THEN {1} ELSE {2}]

\* Run workq_flush_wait: main flushes while a helper waits for its own task.
FlushCalls == ForThread({"run", "flush"}, {"run", "wait"}, {})
FlushTasks == ForThread({hi}, {lo}, {})

\* Run workq_cancel_finish: a helper cancels what main has submitted and
\* waits for.
CancelCalls == ForThread({"run", "finish"}, {"cancel"}, {})
AllTasks    == ForThread(Task, Task, Task)

=============================================================================
