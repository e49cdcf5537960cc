\* Texts of two levels below the root, and one mark more than a full one.
CONSTANTS
  MaxDepth = 3
  MaxText = 12
  MaxErrText = 4
  Foreign <- ForeignTokens

SPECIFICATION Spec

INVARIANTS
  TextOK
  TreeOwned
  RoundTrip
