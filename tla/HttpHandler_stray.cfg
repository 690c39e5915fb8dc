SPECIFICATION Spec
CONSTANTS
  x1 = x1
  d1 = d1
  f1 = f1
  Handlers = {x1}
  NoHandler = NoHandler
  Fds = {d1}
  NoFd = NoFd
  Files = {f1}
  NoPump = NoPump
  MaxConn = 2
  MaxQueue = 4
  MaxReads = 2
  KeepHandlers = 0
  Service <- FileServlets
  EarlyOutput = FALSE
INVARIANT NoStrayBytes
CHECK_DEADLOCK FALSE
