\* Two clients that make every call and jobs that submit jobs; no symmetry, for
\* the liveness properties.
CONSTANTS
  Job = {j1, j2, j3, j4}
  Client = {main, helper}
  Main = main
  Worker = {w1, w2, w3}
  Calls <- SharedCalls

SPECIFICATION FairSpec

INVARIANTS
  TypeOK
  OneWorkerPerJob
  NoJobLost
  NoLostWakeup

PROPERTIES
  PausedBeginsNothing
  EveryCallReturns
  EveryJobBegun
