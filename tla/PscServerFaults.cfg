SPECIFICATION FairSpec
CONSTANTS
  lstats = lstats
  wvfmdata = wvfmdata
  Pushers <- OnePusher
  Main = Main
  NoOne = NoOne
  Free = Free
  Listener = Listener
  NumSlots = 2
  NumFds = 3
  MaxConns = 2
  MaxSends = 1
  Faulty <- AllFaulty
  Leaving <- AllConns
  RaceAlloc = FALSE
PROPERTIES
  SendReturns
  Reclaimed
