CONSTANTS
  key = key
  Input <- Keys
  Control <- BothKeys
  Deltas = {2}
  MaxFrames = 3
  MaxInputs = 0
  MaxMarks = 0
  MaxSessions = 1
  BreakIn = 0
SPECIFICATION Spec
CHECK_DEADLOCK FALSE
PROPERTY HookClosesOnce
