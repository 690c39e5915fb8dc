SPECIFICATION FairSpec
CONSTANTS
  x1 = x1
  d1 = d1
  f1 = f1
  Handlers = {x1}
  NoHandler = NoHandler
  Fds = {d1}
  NoFd = NoFd
  Files = {f1}
  NoPump = NoPump
  MaxConn = 1
  MaxQueue = 3
  MaxReads = 2
  KeepHandlers = 0
  Service <- LiveServlets
  EarlyOutput = FALSE
PROPERTIES ClientGoneIsReclaimed AnswerEnds
CHECK_DEADLOCK FALSE
