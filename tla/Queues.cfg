CONSTANTS
  Clients = {c1, c2}
  Workers = {w1, w2}
  High = 1
  Low = 1
  UIntMax = 5
  MaxTasks = 3
  MaxStarts = 2
  TimedTake = TRUE
  MayFail = TRUE
SPECIFICATION SpecAll
SYMMETRY Symmetry
INVARIANTS
  NoLostWakeup
  ExactlyOnce
  BuffersKept
PROPERTIES
  WaitIdleTrue
  JoinNeverBlocks
