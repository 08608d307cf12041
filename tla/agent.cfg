SPECIFICATION LiveSpec
CONSTANTS
  w1 = w1
  w2 = w2
  w3 = w3
  Windows = {w1, w2, w3}
  NameMode = "throttled"
  Background = {w1, w2, w3}
  Coalesce = 1
  ProbeMin = 2
  NameThrottle = 4
  BackupEvery = 6
INVARIANTS TypeOK PendingIsScheduled ResultsAreSpaced
PROPERTIES FocusIsTold
