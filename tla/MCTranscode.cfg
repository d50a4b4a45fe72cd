SPECIFICATION Spec
CONSTANTS
  SingleByte <- MCSingleByte
  Indexes <- MCIndexes
  CodePoints <- MCCodePoints
  Jobs <- MCJobs
  PushesBack <- MCPushesBack
INVARIANTS
  RoundTrip
  Utf8MaximalSubparts
  NothingIsSwallowed
  FindIsFirstPointer
  RandomAccessAgrees
CHECK_DEADLOCK FALSE
