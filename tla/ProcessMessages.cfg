SPECIFICATION FairSpec
CONSTANTS
  HeaderSize = 2
  LongSize = 2
  UserSizes = {1}
  MaxMessages = 3
  MaxTotal = 2
INVARIANTS TypeOK MessagesArriveWhole OneReadOutstanding AnswersAreFresh
PROPERTIES ExitArrives DeathIsNoticed
CHECK_DEADLOCK FALSE
