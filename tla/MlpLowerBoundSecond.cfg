SPECIFICATION SpecLB
CONSTANTS
  Digit = {0, 1, 2}
  KeyLen = 4
  TopLen = 1
  Mask = 7
  MaxRounds = 5
  VerMod = 256
  Readers = {r1}
  None = None
  r1 = r1
CONSTANTS
  Keys <- MCKeys
  Inserted <- Few
  Queries <- FewQueries
  H1 <- SecondH1
  H2 <- SecondH2
  Fp <- MCFp
INVARIANT PromiseLinearizable
