CONSTANTS
  Frags = 3
  FragSize = 1
  a = a
  b = b
  Tag <- OneTag
  MaxWrite = 2
  WaitLoops = 2
SPECIFICATION StuckSpec
PROPERTIES
  StuckRequestFreezesNothing
