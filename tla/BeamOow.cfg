CONSTANTS
  Samples <- TwoSamples
  HalfScale = 8
  Floor <- FloorValue
  GateStart = 1
  BaselineLen = 3
  BaselineAcc = 2
  BaselineDiv = 2
  IntegralLen = 3
  IntegralAcc = 2
  Delay = 3
  WidthMod = 4
  LastSample = 11
  Starts <- TwoStarts
  WindowLen = 6
  PeakLen = 1
  OowDelay = 1
  Threshold = 3
  MinCycle = 5
SPECIFICATION Spec
INVARIANTS
  TypeOK
  BaselineRight
  IntegralRight
  PeakRight
  FwhmRight
  ChargeMasked
  OnlyOutside
PROPERTIES
  Stable
