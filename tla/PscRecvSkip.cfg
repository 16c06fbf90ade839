CONSTANTS
  HeadLen = 2
  RxMax = 3
  Chunk = 2
  MaxMsgs = 2
  Lens <- BodyLens
  Stalls <- SkipReads
  CanClose = FALSE
SPECIFICATION Spec
INVARIANT
  Aligned
CHECK_DEADLOCK FALSE
