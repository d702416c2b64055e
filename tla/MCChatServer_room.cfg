SPECIFICATION Spec
CONSTANTS
  Clients = {c1, c2, c3}
  Leavers = {c1, c2, c3}
  SlowReaders = {c1, c2, c3}
  USER_LIMIT = 2
  MaxSaid = 1
  MayFail = TRUE
  Junk = Junk
  Blank = Blank
  NULL = NULL
  None = None
SYMMETRY Symmetry
INVARIANTS
  TableIsRoom
  
  EachEntryOnce
CHECK_DEADLOCK FALSE
