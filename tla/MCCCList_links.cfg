\* Two lists that share two blocks, each of one set.
CONSTANTS
  List = {l1, l2}
  Block = {b1, b2}
  BlockSize = 2
  SetSize = 2
  NULL = NULL

SPECIFICATION Spec

INVARIANT
  LinksAgree

PROPERTY
  ListPoolSpec

SYMMETRY Symmetry
