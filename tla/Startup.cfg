CONSTANTS
  AddrMod = 4
  W = 8
  Samples <- Charges
  Lens <- Lengths
  MaxSamples = 4
SPECIFICATION CycleSpec
INVARIANTS
  TypeOK
  SlidingSum
  StartupCovered
