\* Blocks that are no multiple of a set; two lists that pass iterators to
\* each other.
CONSTANTS
  List = {l1, l2}
  Block = {b1, b2}
  BlockSize = 3
  SetSize = 2

SPECIFICATION Spec

INVARIANTS
  TypeOK
  OneHome
  NoDangling
  CountsExact
  BlocksFreed

SYMMETRY Symmetry
