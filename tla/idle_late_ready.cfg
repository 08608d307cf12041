SPECIFICATION Spec
CONSTANTS
  OfflineThreshold = 1
  Backend = "auto"
  BackoffBase = 1
  BackoffMax = 2
  PollEvery = 2
  Hints <- StuckActive
  Faults = {"kill"}
  MaxPipe = 1
  MaxQueue = 1
INVARIANTS NoticedDeathIsNotConfident
