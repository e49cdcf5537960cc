\* One client that uses every blocking call, two workers, three tasks of two
\* priorities.
CONSTANTS
  Node = {n1, n2, n3}
  Task = {hi, lo, t3}
  Client = {main}
  Main = main
  Worker = {w1, w2}
  NULL = NULL
  helper = helper
  hi = hi
  lo = lo
  spawn = spawn
  Calls <- MainCalls
  Tasks <- MainTasks
  Priorities <- FixedPriorities

SPECIFICATION Spec

INVARIANTS
  TypeOK
  QueuesAgree
  OneWorkerPerActive
  SettledOnce
  PendingSorted
  ResetDrains
  DeleteSettlesAll
  NoLostWakeup

PROPERTIES
  PurgeDropsStale
  TaskQueueSafety

SYMMETRY Symmetry
