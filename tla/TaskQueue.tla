----------------------------- MODULE TaskQueue -----------------------------
(***************************************************************************)
(* What cc_workq promises its clients, without its nodes, its map, its     *)
(* purge epochs, its locks and its condition variables: a task that is     *)
(* submitted stands in a line ordered by priority, and first come first    *)
(* served among equals, until one of a bounded number of workers runs it;  *)
(* it is run once, and keeps its result until its owner takes it back.     *)
(* WorkQ is checked to implement this.                                     *)
(***************************************************************************)
EXTENDS CCSeq

CONSTANTS
  Task,
  Priority,   \* Priority[t]: the priority t is always submitted with, a number
  Capacity    \* the number of workers

VARIABLES
  status,     \* what cc_workq_status returns for each task
  line        \* the tasks that wait to be run, the next one first

vars == <<status, line>>

TaskStatus == {"ERROR", "PENDING", "ACTIVE", "COMPLETE", "FAILURE"}

Active == {t \in Task : status[t] = "ACTIVE"}

Init ==
  /\ status = [t \in Task |-> "ERROR"]
  /\ line = << >>

\* t goes behind every task whose priority is not lower.
Submit(t) ==
  /\ status[t] = "ERROR"
  /\ status' = [status EXCEPT ![t] = "PENDING"]
  /\ \E i \in 1..(Len(line) + 1) :
       /\ \A j \in DOMAIN line : Priority[line[j]] >= Priority[t] <=> j < i
       /\ line' = InsertAt(line, i, t)

(* The tasks of done, at most one, end with some result, and then the head of
   the line is begun or not: a worker that ends a task may begin the next in
   the same step. *)
Work ==
  \E done \in SUBSET Active, result \in {"COMPLETE", "FAILURE"} :
    LET ended == [t \in Task |-> IF t \in done THEN result ELSE status[t]]
    IN  /\ Cardinality(done) <= 1
        /\ \/ /\ line # << >>
              /\ Cardinality(Active \ done) < Capacity
              /\ status' = [ended EXCEPT ![Head(line)] = "ACTIVE"]
              /\ line' = Tail(line)
           \/ /\ done # {}
              /\ status' = ended
              /\ UNCHANGED line

\* Tasks that are not being run go back to their owner.
TakeBack ==
  \E back \in SUBSET (Task \ Active) :
    /\ back # {}
    /\ status' = [t \in Task |-> IF t \in back THEN "ERROR" ELSE status[t]]
    /\ line' = Keep(line, Task \ back)

Next == (\E t \in Task : Submit(t)) \/ Work \/ TakeBack

\* What may happen to a task, without a promise that anything does.
Safety == Init /\ [][Next]_vars

(* As long as there is a task to begin or one being run, workers make
   progress. *)
Spec == Safety /\ WF_vars(Work)

=============================================================================
