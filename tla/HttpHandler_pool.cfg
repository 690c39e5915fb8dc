SPECIFICATION Spec
CONSTANTS
  x1 = x1
  x2 = x2
  d1 = d1
  d2 = d2
  Handlers = {x1, x2}
  NoHandler = NoHandler
  Fds = {d1, d2}
  NoFd = NoFd
  Files = {}
  NoPump = NoPump
  MaxConn = 2
  MaxQueue = 1
  MaxReads = 2
  KeepHandlers = 1
  Service <- PoolServlets
  EarlyOutput = FALSE
SYMMETRY Symmetry
INVARIANTS PoolMatchesDescriptors CleanSlate IdleTimerIsOwn NoDeafHandler NoStrayBytes
CHECK_DEADLOCK FALSE
