SPECIFICATION SpecR
CONSTANTS
  Digit = {0, 1, 2, 3}
  KeyLen = 5
  TopLen = 1
  Mask = 15
  MaxRounds = 5
  VerMod = 256
  Readers = {r1}
  None = None
  r1 = r1
CONSTANTS
  Keys <- MCKeys
  Singles <- MCSingles
  Ranges <- MCRanges
  H1 <- MCH1
  H2 <- MCH2
  Fp <- MCFp
INVARIANTS
  QuiescentEven
  SinglesKept
  NoPhantomR
  RangedTreeOK
