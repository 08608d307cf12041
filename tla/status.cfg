SPECIFICATION StatusSpec
CONSTANTS
  OfflineThreshold = 2
  MaxAge = 4
  Score <- MCScore
  IsGeneric <- MCIsGeneric
  LooksAgent <- MCLooksAgent
  NamesDir <- MCNamesDir
  Windows <- MCWindows
  Panes <- MCPanes
  Sessions <- MCSessions
INVARIANTS DegradedIsExplained ConfidentActiveIsHealthy
PROPERTIES TimeOnlyTakesOffline LosingTheWatchNeverReassures FocusLinkConverges
