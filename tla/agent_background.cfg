SPECIFICATION Spec
CONSTANTS
  w1 = w1
  w2 = w2
  w3 = w3
  Windows = {w1, w2, w3}
  NameMode = "throttled"
  Background = {w1, w2, w3}
  Coalesce = 2
  ProbeMin = 4
  NameThrottle = 7
  BackupEvery = 9
PROPERTIES ActivateOutranksName
