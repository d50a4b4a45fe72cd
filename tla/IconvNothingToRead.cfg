SPECIFICATION Spec
CONSTANTS
  MCBytes = {"one", "shift", "unshift"}
  MaxLen = 4
  MaxLenOfFunctions = 0
  Inputs <- NothingToRead
  BufferSizes <- MCSizes
  ResetBehaviours <- OneReset
  StagingSize = 3
INVARIANT
  SomethingToRead
CHECK_DEADLOCK FALSE
