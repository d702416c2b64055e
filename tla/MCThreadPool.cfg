SPECIFICATION FairSpec
CONSTANTS
  Workers = {w1, w2}
  Callers = {c1, c2}
  r1 = r1
  r2 = r2
  r3 = r3
  r4 = r4
  Requests <- MCRequests
  NullRequests <- MCNullRequests
  MaxRequests = 1
  MaxInterrupts = 1
  None = None
INVARIANTS
  WakeupsMatch
PROPERTIES
  ImplementsJobQueue
  CallIsAnswered
  
CHECK_DEADLOCK FALSE
