CONSTANTS
  Frags = 3
  FragSize = 2
  a = a
  b = b
  Tag <- OneTag
  MaxWrite = 4
  WaitLoops = 2
SPECIFICATION StuckSpec
INVARIANTS
  TypeOK
  NoTornPlayback
  RequestsReturned
  OneFragmentHeard
  TaskHasRing
  CapacityCheckSuffices
  SpaceKept
  UsedFlagsTellFullFromEmpty
PROPERTIES
  PlayReturns
  QueuedFragmentsPlayed
  OpenAndCloseReturn
