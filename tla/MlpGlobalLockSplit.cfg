SPECIFICATION SpecG
CONSTANTS
  Digit = {0, 1, 2}
  KeyLen = 5
  TopLen = 1
  Mask = 9
  MaxRounds = 5
  VerMod = 256
  Readers = {}
  None = None
CONSTANTS
  Keys <- MCKeys
  Inserted <- MCInserted
  Asked <- NoneAsked
  H1 <- ThroughH1
  H2 <- ThroughH2
  Fp <- MCFp
INVARIANT
  SetAtRest
