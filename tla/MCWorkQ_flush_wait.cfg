\* A flush frees the node of a client that was just woken in wait.
CONSTANTS
  Node = {n1, n2}
  Task = {hi, lo}
  Client = {main, helper}
  Main = main
  Worker = {w1}
  NULL = NULL
  helper = helper
  hi = hi
  lo = lo
  spawn = spawn
  Calls <- FlushCalls
  Tasks <- FlushTasks
  Priorities <- FixedPriorities

SPECIFICATION Spec

INVARIANT
  HeldNodeLives
