\* Three clients and tasks that submit tasks, with sleepers of every kind but
\* reset's, polling and changed priorities.
CONSTANTS
  Node = {n1, n2, n3}
  Task = {hi, lo, spawn}
  Client = {main, helper, waiter}
  Main = main
  Worker = {w1, w2}
  NULL = NULL
  helper = helper
  hi = hi
  lo = lo
  spawn = spawn
  Calls <- SharedCalls
  Tasks <- SharedTasks
  Priorities <- MixedPriorities

SPECIFICATION Spec

INVARIANTS
  SleeperWatches
  NoForcedPurge

SYMMETRY Symmetry
