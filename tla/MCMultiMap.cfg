\* Maps that grow twice from one bucket.  Key 4 is too long.
CONSTANTS
  Key = {1, 2, 3, 4}
  LongKey = {4}
  HashRange = 8
  Capacity = 1
  Val = {1, 2, 3}
  MaxPairs = 4
  Rank <- Ranks
  Hashes <- Chosen

SPECIFICATION Spec

INVARIANTS
  MapStaysOK
  FindsExactly
  NothingLeaks

PROPERTIES
  WalkExact
  TableSpec
