SPECIFICATION Spec
CONSTANTS
  NoText = NoText
  Other = {"x"}
  Requests <- PlainEnds
  LineMax = 24
  BufferSize = 8
INVARIANT EndIsSeen
CHECK_DEADLOCK FALSE
