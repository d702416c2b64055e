SPECIFICATION Spec
CONSTANTS
  Clients = {c1, c2, c3}
  Leavers = {}
  SlowReaders = {}
  USER_LIMIT = 3
  MaxSaid = 2
  MayFail = FALSE
  Junk = Junk
  Blank = Blank
  NULL = NULL
  None = None
SYMMETRY Symmetry
INVARIANTS
  OthersInOrder
CHECK_DEADLOCK FALSE
