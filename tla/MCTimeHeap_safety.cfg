SPECIFICATION Spec
CONSTANTS
  Timers = {t1, t2, t3, t4}
  MaxCapacity = 4
  MaxTime = 1
  MaxDelay = 1
  NULL = NULL
SYMMETRY Symmetry
INVARIANTS
  NothingLost
PROPERTIES
  TickDrains
  ImplementsTimerQueue
CHECK_DEADLOCK FALSE
