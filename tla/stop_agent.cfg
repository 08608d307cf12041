SPECIFICATION LiveSpec
CONSTANTS
  HasQuit = TRUE
  Stubborn = TRUE
  MaxPipe = 2
INVARIANTS TypeOK AtMostOneLateLine
PROPERTIES StopReturns NothingAfterStop
