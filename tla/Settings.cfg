CONSTANTS
  h1 = h1
  h2 = h2
  Handlers <- TwoHandlers
  NumParams = 3
  MaxWrites = 3
  MaxCrashes = 1
  BusFails = TRUE
  ReadFails = TRUE
SPECIFICATION Spec
SYMMETRY HandlerSymmetry
INVARIANTS
  TypeOK
  Persisted
PROPERTIES
  NoRegress
  OwnStored
CHECK_DEADLOCK FALSE
