SPECIFICATION Spec
CONSTANTS
  Alarm = {a1, a2, a3}
  NoCall = NoCall
  MaxPending = 3
  ClockMax = 31
  SubMin = 7
  ClkMaxValue = 24
  ClkBase = 3
  Frame = 2
  Horizon = 2
  Late = 2
  NeverEmpty = TRUE
SYMMETRY Symmetry
INVARIANTS IndexesAgree NextIsEarliest DeadlinesNear
PROPERTY ImplementsTimers
