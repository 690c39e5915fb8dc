SPECIFICATION Spec
CONSTANTS
  NoText = NoText
  Other = {"x"}
  Requests <- AllRequests
  LineMax = 24
  BufferSize = 40
INVARIANTS TypeOK SplitIndependent ParsedIsSent
CHECK_DEADLOCK FALSE
