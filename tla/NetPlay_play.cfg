CONSTANTS
  key = key
  Input <- Keys
  Control <- BothKeys
  Deltas = {2, 3}
  MaxFrames = 3
  MaxInputs = 1
  MaxMarks = 1
  MaxSessions = 2
  BreakIn = 1
SPECIFICATION Spec
CHECK_DEADLOCK FALSE
INVARIANTS
  TypeOK
  SyncTestPasses
  StreamParses
PROPERTIES
  ImplementsLockStep
  FramesGoOn
