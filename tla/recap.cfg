SPECIFICATION Spec
CONSTANTS
  IdleGap = 2
  MinDwell = 2
  TerminalApps <- MCTerminals
  TitleHint <- HintOf
  Days <- MCDays
  Facts <- FactsOf
  Threshold = 2
  DayEnd = 5
  MaxRows <- RowsOf
  Prior <- PriorOf
  RepoNames = {"r", "s"}
  MaxHold = 2
  RepoLabel <- LabelOf
  Hour = 3
  LongStay = {1, 3}
  PauseGap = 2
  StretchAge = 1
  RecentAway = 2
INVARIANTS TypeOK AwayIsIdleTime FocusIsAttributedOnce TotalsAddUp
  SessionsFollowEvidence SplitKeepsAway  AgentTimeIsWallTime
PROPERTIES PastStands PauseClockRuns
CHECK_DEADLOCK FALSE
