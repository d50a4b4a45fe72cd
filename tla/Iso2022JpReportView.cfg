SPECIFICATION Spec
CONSTANTS
  MCText = {65, 12289, 128512}
  MaxLen = 3
  Texts <- MCTexts
  Jis0208 <- MCJis0208
  Report = TRUE
INVARIANT
  EndsInAscii
CHECK_DEADLOCK FALSE
