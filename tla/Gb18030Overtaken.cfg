SPECIFICATION Spec
CONSTANTS
  MCBytes = {32, 65, 129}
  MaxLen = 5
  Inputs <- MCInputs
INVARIANT
  HandedBackFirst
CHECK_DEADLOCK FALSE
