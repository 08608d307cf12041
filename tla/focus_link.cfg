SPECIFICATION LinkSpec
CONSTANTS
  Score <- MCScore
  IsGeneric <- MCIsGeneric
  LooksAgent <- MCLooksAgent
  NamesDir <- MCNamesDir
  Windows <- MCWindows
  Panes <- MCPanes
  Sessions <- MCSessions
PROPERTIES FocusRowsTellTheCwd
