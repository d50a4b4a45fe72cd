SPECIFICATION FairSpec
CONSTANTS
  MCBytes = {14, 27, 36, 40, 66, 73, 128}
  MaxLen  = 4
  Inputs  <- MCInputs
  Jis0208 <- MCJis0208
INVARIANTS
  TypeOK
  PutBackIsBackingUp
  ModeToReturnTo
  DoneMeansAllDecoded
  ElementsAdvance
  WellFormedHasNoError
PROPERTIES
  Terminates
  ImplementsStream
CHECK_DEADLOCK FALSE
