SPECIFICATION FairTrip
CONSTANTS
  Table <- MCTable
  Excluded <- MCExcluded
  CodePoints <- MCCodePoints
  Ranges <- MCRanges
  Scalars <- MCScalars
  FourBytes <- MCFourBytes
INVARIANTS
  RoundTrip
PROPERTIES
  Terminates
CHECK_DEADLOCK FALSE
