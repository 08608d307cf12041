SPECIFICATION LiveSpec
CONSTANTS
  Configs <- MCConfigs
  Files <- MCFiles
  Panes <- MCPanes
  Folders <- MCFolders
  Scans <- MCScans
  Refresh = 1
  Keyframe = 1
  PollEvery = 1
INVARIANTS TypeOK LockIsInBatch RegistryIsHonest ConfirmedRowWasSeen QuietIsNotDown
PROPERTIES JournalConverges
CHECK_DEADLOCK TRUE
