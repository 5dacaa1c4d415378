SPECIFICATION SpecOverlapping
CONSTANTS
  Base = 3
  KeyLen = 6
  TopLen = 2
  None = None
CONSTANTS
  Ranges <- Overlapping
PROPERTY NothingLost
CHECK_DEADLOCK FALSE
