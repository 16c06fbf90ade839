CONSTANTS
  Bits = 2
  PauseLen = 3
  OffMod = 40
  MyDelay = 1
  MyWidth = 8
  MaxGap = 2
  Seconds = 3
SPECIFICATION Spec
INVARIANTS
  TypeOK
  OneTrigger
PROPERTIES
  SecondRight
  Monotone
