SPECIFICATION FairSpec
CONSTANTS
  Frags = 8
  MaxPend = 3
  OpenMayFail = FALSE
  Menu <- NoEvent
  PausedMenu <- NoEventWarp
CHECK_DEADLOCK FALSE
INVARIANTS ReleasedWhilePaused DeviceHasTask OneAudioTask PausedStops
PROPERTY SidPreserved
  PauseTakesEffect AdvancePausesAgain
