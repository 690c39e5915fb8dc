SPECIFICATION FairSpec
CONSTANTS
  WorkProcessCount = 2
  MaxForks = 3
  MaxConn = 3
  MaxFd = 2
  MaxExits = 1
INVARIANTS TypeOK InOnePlace CustodyUntilFailure PoolStaysWithinLimit
PROPERTY DispatchedIsServed
CHECK_DEADLOCK FALSE
