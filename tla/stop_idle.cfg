SPECIFICATION LiveSpec
CONSTANTS
  HasQuit = FALSE
  Stubborn = FALSE
  MaxPipe = 2
PROPERTIES StopReturns
