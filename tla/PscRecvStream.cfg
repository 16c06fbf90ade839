CONSTANTS
  HeadLen = 2
  RxMax = 3
  Chunk = 2
  MaxMsgs = 3
  Lens <- BodyLens
  Stalls <- HeadBody
  CanClose = TRUE
SPECIFICATION FairSpec
INVARIANTS
  TypeOK
  HandledRight
  Aligned
PROPERTY
  Delivered
CHECK_DEADLOCK FALSE
