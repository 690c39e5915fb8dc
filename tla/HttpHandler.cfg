SPECIFICATION Spec
CONSTANTS
  x1 = x1
  d1 = d1
  f1 = f1
  Handlers = {x1}
  NoHandler = NoHandler
  Fds = {d1}
  NoFd = NoFd
  Files = {f1}
  NoPump = NoPump
  MaxConn = 2
  MaxQueue = 4
  MaxReads = 2
  KeepHandlers = 1
  Service <- AllServlets
  EarlyOutput = TRUE
INVARIANTS TypeOK WaitHasOutput AnswerMoves OneCompletionPerServlet NoSilentTruncation
PROPERTY ImplementsHttpConnection
CHECK_DEADLOCK FALSE
