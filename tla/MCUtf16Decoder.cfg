SPECIFICATION FairSpec
CONSTANTS
  BigEndian = TRUE
  MCBytes = {0, 65, 216, 220}
  MaxLen = 6
  Inputs <- MCInputs
INVARIANTS
  TypeOK
  PutBackIsBackingUp
  DecodedIsEncoded
PROPERTIES
  Terminates
  ImplementsStream
CHECK_DEADLOCK FALSE
