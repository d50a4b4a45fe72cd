SPECIFICATION FairSpec
CONSTANTS
  MCBytes = {"one", "lead", "trail", "shift", "unshift", "fault"}
  MaxLen = 4
  MaxLenOfFunctions = 3
  Inputs <- MCInputs
  BufferSizes <- MCSizes
  ResetBehaviours <- MCResets
  StagingSize = 3
INVARIANTS
  TypeOK
  SomethingToRead
  ViewsYieldTheConversion
  FunctionsReturnTheConversion
PROPERTY
  Terminates
CHECK_DEADLOCK FALSE
