SPECIFICATION Spec
CONSTANTS
  Clients = {c1, c2}
  Leavers = {}
  SlowReaders = {}
  USER_LIMIT = 2
  MaxSaid = 1
  MayFail = FALSE
  Junk = Junk
  Blank = Blank
  NULL = NULL
  None = None
SYMMETRY Symmetry
PROPERTIES
  AfterSendOnlyInput
CHECK_DEADLOCK FALSE
