SPECIFICATION HistSpec
CONSTANTS
  Second = 3
  HistClockMax = 18
  HistGuardMax = 14
  HistSubMin = 4
  HistFrame = 2
  ResetClk = 1
  Keys = {"a"}
  Crowded = FALSE
  StartClk = 11
  Limits <- GhostLimits
PROPERTIES NoGhosts
CHECK_DEADLOCK FALSE
