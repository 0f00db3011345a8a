SPECIFICATION PartsSpec
CONSTANTS
  Alarm = {a1, a2, a3}
  NoCall = NoCall
  MaxPending = 2
  ClockMax = 31
  SubMin = 7
  ClkMaxValue = 24
  ClkBase = 0
  Frame = 2
  Horizon = 2
  Late = 2
  NeverEmpty = FALSE
  IntSource = {s1, s2}
  IntClockMax = 12
  IntGuardMax = 7
  IntSubMin = 4
  PushCycles = 2
  NumDrives = 1
  ClockSize = 24
  ClockSubMin = 3
  SkipAfter = 9
  SkipFrom = 2
  Factor = 3
  One = 2
  OpCycles = 2
  FrameCycles = 2
  MaxOwed = 9
  MaxGuards = 1
  StartClocks = {12}
  Idlings = {"no_idle"}
  Second = 3
  HistClockMax = 18
  HistGuardMax = 14
  HistSubMin = 4
  HistFrame = 2
  ResetClk = 1
  Keys = {"a"}
  Crowded = FALSE
  StartClk = 13
  Limits <- BenchLimits
SYMMETRY Symmetry
CHECK_DEADLOCK FALSE
INVARIANTS
  PartsTypeOK NoneMissed
  LinesCounted EdgeLatched ClocksTellAges
  DrivesKeepUp
  PlaybackReproduces
PROPERTIES
  InterruptsHaveCause PlaybackStopsThere
