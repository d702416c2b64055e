SPECIFICATION FairSpec
CONSTANTS
  Clients = {c1, c2}
  Fds <- MCFds
  Workers = {w1}
  Kinds = {"part", "page", "badline"}
  MaxSends <- MCTalk
  MaxStalls = 0
  MaxFd = 1
  MaxRequests = 1
  ReadBufferSize = 3
  c1 = c1
  Listen = Listen
  None = None
INVARIANT OwnAnswers
PROPERTIES
  ClosedForCause
  FirstRequestAnswered
  HangUpNoticed
CHECK_DEADLOCK FALSE
