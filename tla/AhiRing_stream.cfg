CONSTANTS
  Frags = 3
  FragSize = 1
  a = a
  b = b
  Tag <- TwoTags
  MaxWrite = 2
  WaitLoops = 2
SPECIFICATION Spec
PROPERTIES
  ImplementsStream
