CONSTANTS
  h1 = "h1"
  Handlers <- OneHandler
  Threads <- AllThreads
  Fitted <- MostDevices
  Flaky <- MayFail
  MaxLines = 3
  CardFails = TRUE
SPECIFICATION Spec
INVARIANTS
  TypeOK
  NeverAnothers
  RightDevice
  CardHandled

