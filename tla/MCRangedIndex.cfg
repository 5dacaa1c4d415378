SPECIFICATION Spec
CONSTANTS
  Base = 3
  KeyLen = 6
  TopLen = 2
  None = None
CONSTANTS
  Ranges <- MCRanges
INVARIANTS
  TypeOK
  ExistExact
  LowerBoundBelongs
  LowerBoundFindsKeys
CHECK_DEADLOCK FALSE
