\* Three threads with three addresses, which pass from one to another.
CONSTANTS
  Thread = {t1, t2, t3}
  Addr = {a1, a2, a3}
  Size = {1, 3}
  Site = {s1, s2}

SPECIFICATION Spec

INVARIANTS
  CountersExact
  TrackerAgrees
  HeldTracked

SYMMETRY Symmetry
