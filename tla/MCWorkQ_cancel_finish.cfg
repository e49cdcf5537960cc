\* A cancel of the last pending task strands a finish.
CONSTANTS
  Node = {n1, n2}
  Task = {hi, lo}
  Client = {main, helper}
  Main = main
  Worker = {w1}
  NULL = NULL
  helper = helper
  hi = hi
  lo = lo
  spawn = spawn
  Calls <- CancelCalls
  Tasks <- AllTasks
  Priorities <- FixedPriorities

SPECIFICATION FairSpec

PROPERTY
  EveryCallReturns
