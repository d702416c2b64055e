SPECIFICATION FairSpec
CONSTANTS
  BUFFER_SIZE = 9
  MaxPiece = 2
  CR = CR
  LF = LF
  Request = Request
  Text = Text
  Nul = Nul
  Clients = {c1, c2}
  Fds <- MCFds
  TIMESLOT = 1
  MaxSends = 1
  listenfd = listenfd
  pipefd = pipefd
  NULL = NULL
  KeepAlive = KeepAlive
  Length = Length
  Page = Page
  EmptyFile = EmptyFile
  Missing = Missing
  Secret = Secret
  Directory = Directory
  CONTENT_LENGTH = 3
  READ_BUFFER_SIZE = 16
  WRITE_BUFFER_SIZE = 8
  Messages <- MCMessages
  NoMap = NoMap
  MaxConns = 2
  MaxSaid = 2
  MaxShort = 1
  MAX_CONNECTION = 1
  Sizes = {"part", "full"}
  udpfd = udpfd
  Udp = Udp
  Beyond = Beyond
  None = None
  PIPE_SIZE = 2
  MaxSignals = 3
  MaxTyped = 2
  MaxSent = 2
  TIMEOUT = 3
  Ticks = 3
  MaxOutside = 2
INVARIANTS
  TypeOK
  CutsDoNotMatter
  TimerPerConnection
  VerdictOnRequest
  
  MappingsEnd
  PagePerRequest
  WaitsWithNothingLeft
  EchoIsOwn
PROPERTIES
  ClosedWhenIdle
  IdleIsClosed
  HangUpEndsClient
  OnTime
CHECK_DEADLOCK FALSE
