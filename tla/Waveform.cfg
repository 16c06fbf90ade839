CONSTANTS
  NumSamples = 5
  WaitWords = 2
  MinWords = 3
  Depth = 10
  NumPulses = 2
  MaxTrigs = 3
SPECIFICATION FairSpec
INVARIANTS
  TypeOK
  WholeFrame
  StatsMatch
PROPERTIES
  Counted
  InOrder
CHECK_DEADLOCK FALSE
