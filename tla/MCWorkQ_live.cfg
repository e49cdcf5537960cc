\* Liveness: one client, more tasks than nodes and than the one worker; no
\* symmetry.
CONSTANTS
  Node = {n1, n2, n3}
  Task = {hi, t2, t3, lo}
  Client = {main}
  Main = main
  Worker = {w1}
  NULL = NULL
  helper = helper
  hi = hi
  lo = lo
  spawn = spawn
  Calls <- LiveCalls
  Tasks <- MainTasks
  Priorities <- LivePriorities

SPECIFICATION FairSpec

PROPERTIES
  EveryCallReturns
  EveryTaskServed
  TaskQueueSpec
