SPECIFICATION Spec
CONSTANTS
  Clients = {c1, c2, c3}
  Fds <- MCThreeFds
  Workers = {w1, w2}
  Kinds = {"part", "page"}
  MaxSends <- MCOneEach
  MaxStalls = 1
  MaxFd = 3
  MaxRequests = 1
  ReadBufferSize = 3
  c1 = c1
  Listen = Listen
  None = None
SYMMETRY Symmetry
INVARIANTS
  OneOwner
  NotStranded
CHECK_DEADLOCK FALSE
