\* A pending task whose priority is raised stays where it is.
CONSTANTS
  Node = {n1, n2}
  Task = {hi, lo}
  Client = {main}
  Main = main
  Worker = {w1, w2}
  NULL = NULL
  helper = helper
  hi = hi
  lo = lo
  spawn = spawn
  Calls <- MainCalls
  Tasks <- MainTasks
  Priorities <- MixedPriorities

SPECIFICATION Spec

INVARIANT
  PendingSorted
