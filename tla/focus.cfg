SPECIFICATION LiveSpec
CONSTANTS
  w1 = w1
  w2 = w2
  Windows = {w1, w2}
  Preferred <- WaylandOrder
  FocusEvents = TRUE
  BackoffBase = 1
  BackoffMax = 2
  PollEvery = 1
  BackupEvery = 2
  Faults = {"kill", "spawn", "crash", "noise", "display", "append"}
  MaxPipe = 1
  MaxQueue = 1
INVARIANTS TypeOK EventModeIsLive
PROPERTIES Supervised FocusConverges PolledRowsAreCurrent
