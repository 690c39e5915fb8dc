SPECIFICATION Spec
CONSTANTS
  WorkProcessCount = 2
  MaxForks = 3
  MaxConn = 3
  MaxFd = 2
  MaxExits = 1
INVARIANT ClosedEverywhere
CHECK_DEADLOCK FALSE
