SPECIFICATION FairSpec
CONSTANTS
  Base = 3
  KeyLen = 4
INVARIANTS
  TypeOK
  PerfectRanges
  Partition
  RootFlag
PROPERTY
  DecompositionEnds
