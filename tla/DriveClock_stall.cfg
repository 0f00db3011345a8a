SPECIFICATION DriveSpec
CONSTANTS
  NumDrives = 1
  ClockSize = 24
  ClockSubMin = 3
  SkipAfter = 9
  SkipFrom = 2
  Factor = 3
  One = 2
  OpCycles = 2
  FrameCycles = 2
  MaxOwed = 9
  MaxGuards = 1
  StartClocks = {12}
  Idlings = {"no_idle"}
INVARIANT AlwaysKeepsUp
CHECK_DEADLOCK FALSE
