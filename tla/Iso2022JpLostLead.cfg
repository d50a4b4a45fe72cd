SPECIFICATION Spec
CONSTANTS
  MCBytes = {27, 36, 40, 66}
  MaxLen  = 6
  Inputs  <- MCInputs
  Jis0208 <- MCJis0208
INVARIANT
  MalformedHasError
CHECK_DEADLOCK FALSE
