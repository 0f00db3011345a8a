SPECIFICATION Spec
CONSTANTS
  Frags = 8
  MaxPend = 3
  OpenMayFail = FALSE
  Menu <- OnlyMenu
  PausedMenu <- NoItem
CHECK_DEADLOCK FALSE
PROPERTY MenusKeepDevice
