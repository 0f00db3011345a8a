SPECIFICATION Spec
CONSTANTS
  Frags = 8
  MaxPend = 3
  OpenMayFail = TRUE
  Menu <- AllItems
  PausedMenu <- AllItems
CHECK_DEADLOCK FALSE
INVARIANTS TypeOK SuspendedIsSilent FlushFindsFragment
