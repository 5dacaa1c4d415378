SPECIFICATION SpecR
CONSTANTS
  Digit = {0, 1, 2}
  KeyLen = 5
  TopLen = 1
  Mask = 7
  MaxRounds = 5
  VerMod = 256
  Readers = {}
  None = None
CONSTANTS
  Keys <- MCKeys
  Singles <- MCSingles
  Ranges <- MCRanges
  H1 <- MCH1
  H2 <- MCH2
  Fp <- MCFp
INVARIANT QuiescentEven
CONSTANT r1 = r1
