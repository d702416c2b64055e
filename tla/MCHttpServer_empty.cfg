SPECIFICATION Spec
CONSTANTS
  Clients = {c1, c2, c3}
  Fds <- MCOneFd
  Workers = {w1, w2}
  Kinds = {"empty", "page"}
  MaxSends <- MCOneEach
  MaxStalls = 0
  MaxFd = 2
  MaxRequests = 1
  ReadBufferSize = 3
  c1 = c1
  Listen = Listen
  None = None
SYMMETRY Symmetry
INVARIANT StrandedByForget
PROPERTY CountWrongByRaceOnly
CHECK_DEADLOCK FALSE
