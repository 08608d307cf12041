SPECIFICATION LiveSpec
CONSTANTS
  OfflineThreshold = 1
  Backend = "auto"
  BackoffBase = 1
  BackoffMax = 2
  PollEvery = 1
  Hints <- Unlocked
  Faults = {"kill", "error", "spawn", "crash", "session", "append"}
  MaxPipe = 1
  MaxQueue = 1
INVARIANTS TypeOK SingleWriter BackendMetaHonest IdleIsNeverMissed
PROPERTIES Supervised WatchConverges
