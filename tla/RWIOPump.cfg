SPECIFICATION FairSpec
CONSTANTS
  FileSize = 5
  BuffSize = 3
  Speeds = {0, 1}
  Offsets <- AllOffsets
  Lengths = {0, 2, 3, 4}
  MaxResets = 2
INVARIANTS TypeOK OutIsSource EndMeansAllSent OneBlockInFlight RunningIsCalledBack
PROPERTY TransferEnds
CHECK_DEADLOCK FALSE
