SPECIFICATION Spec
CONSTANTS
  lstats = lstats
  wvfmdata = wvfmdata
  Pushers <- TwoPushers
  Main = Main
  NoOne = NoOne
  Free = Free
  Listener = Listener
  NumSlots = 2
  NumFds = 4
  MaxConns = 3
  MaxSends = 2
  Faulty <- OneFaulty
  Leaving <- NoConns
  RaceAlloc = FALSE
SYMMETRY PusherSymmetry
INVARIANTS
  TypeOK
  SlotOwner
  Framed
  SocketOwner
PROPERTIES
  FanoutSpec
