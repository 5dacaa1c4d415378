SPECIFICATION SpecS
CONSTANTS
  p1 = p1
  p2 = p2
  p3 = p3
  p4 = p4
  p5 = p5
  p6 = p6
  NoPrefix = NoPrefix
  NoSplit = NoSplit
  Mask = 7
  Byte = {1, 2}
  LowByte = {1}
  MaxInternal = 1
  MaxRounds = 6
CONSTANTS
  Prefix <- MCPrefix
  H1 <- MCH1
  H2 <- MCH2
  Deeper <- MCDeeper
INVARIANTS
  BitmapsOwned
  SplitKept
