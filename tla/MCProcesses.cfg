SPECIFICATION MCSpec
CONSTANTS
  m_process_number = 2
  MaxConns = 2
  MaxTerms = 1
  MaxCrashes = 1
  PROCESS_COUNT = 2
  Conns = {c1}
  Requests <- MCRequests
  Name = Name
  Ghost = Ghost
  End = End
  BUFFER_SIZE = 3
  MaxFailures = 1
  Clients = {d1, d2}
  Fds <- MCFds
  MaxThreads = 3
  MaxSaid = 1
  listenfd = listenfd
  Garbage = Garbage
  None = None
  Time = 2
INVARIANTS
  TypesOK
  NothingLeftUnread
  OneKeeper
  EndsAsShown
PROPERTIES
  NotificationsMatchConns
  SignalsTakeEffect
CHECK_DEADLOCK FALSE
