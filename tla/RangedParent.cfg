SPECIFICATION Spec
CONSTANTS
  Base = 3
  KeyLen = 6
  TopLen = 2
  None = None
CONSTANTS
  Ranges <- Deep
INVARIANT LowerBoundMinimum
CHECK_DEADLOCK FALSE
