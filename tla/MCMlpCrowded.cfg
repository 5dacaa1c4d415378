SPECIFICATION FairSpec
CONSTANTS
  Digit = {0, 1, 2, 3}
  KeyLen = 3
  TopLen = 1
  Mask = 7
  MaxRounds = 2
  VerMod = 256
  Readers = {r1}
  None = None
  r1 = r1
CONSTANTS
  Keys <- MCKeys
  H1 <- MCH1
  H2 <- MCH2
  Fp <- MCFp
CHECK_DEADLOCK FALSE
INVARIANT
  TreeOK
PROPERTY
  ExistReturns
