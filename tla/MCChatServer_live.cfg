SPECIFICATION FairSpec
CONSTANTS
  Clients = {c1, c2, c3}
  Leavers = {c1, c2}
  SlowReaders = {}
  USER_LIMIT = 2
  MaxSaid = 1
  MayFail = FALSE
  Junk = Junk
  Blank = Blank
  NULL = NULL
  None = None
PROPERTIES
  LeaversLeave
  PendingIsSent
CHECK_DEADLOCK FALSE
