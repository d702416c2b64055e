SPECIFICATION Spec
CONSTANTS
  Clients = {c1, c2}
  Leavers = {c1, c2}
  SlowReaders = {}
  USER_LIMIT = 2
  MaxSaid = 1
  MayFail = FALSE
  Junk = Junk
  Blank = Blank
  NULL = NULL
  None = None
SYMMETRY Symmetry
INVARIANTS
  NotOwnWords
CHECK_DEADLOCK FALSE
