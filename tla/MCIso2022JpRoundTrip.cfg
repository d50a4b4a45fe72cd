SPECIFICATION FairSpec
CONSTANTS
  MCText = {65, 92, 126, 165, 8254, 12289, 12381, 128512}
  MaxLen = 3
  Texts <- MCTexts
  Jis0208 <- MCJis0208
  Report = FALSE
INVARIANTS
  RoundTrip
  KeepsUp
  EndsInAscii
  InStep
PROPERTY
  Terminates
CHECK_DEADLOCK FALSE
