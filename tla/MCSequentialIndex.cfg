SPECIFICATION Spec
CONSTANTS
  Base = 2
  KeyLen = 6
  TopLen = 2
  None = None
CONSTANTS
  Inserted <- MCInserted
  Asked <- MCAsked
INVARIANTS
  TypeOK
  Canonical
  PromiseKeptBetweenCalls
PROPERTY
  Implements
