SPECIFICATION FairSpec
CONSTANTS
  a = a
  b = b
  Iterators = {i1, i2}
  Length = 2
  Values = {a, b}
  MaxOwed = 1
  Scalars = {x}
  IllFormed = {"out_of_range"}
  CodecBytes <- MCCodecBytes
INVARIANTS
  TypeOK
  MultiPass
  EqualIsSameElement
  CodecContract
  ElementsAreTheCodecsBytes
PROPERTIES
  Terminates
CHECK_DEADLOCK FALSE
