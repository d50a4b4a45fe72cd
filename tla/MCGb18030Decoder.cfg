SPECIFICATION FairSpec
CONSTANTS
  MCBytes = {32, 48, 65, 129, 254, 255}
  MaxLen = 5
  Inputs <- MCInputs
INVARIANTS
  TypeOK
  NoByteTwice
PROPERTIES
  Terminates
  ImplementsStream
CHECK_DEADLOCK FALSE
