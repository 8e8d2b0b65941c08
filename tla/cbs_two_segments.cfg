SPECIFICATION Spec
CONSTANTS
  Byte = {"a", "nl", ";"}
  MaxSent = 3
  BufferSize = 3
  r1 = r1
  Readers = {r1}
  Conditions = {"newline", "semicolon"}
  Condition <- MCCondition
  MaxHandlers = 2
  Uses = {"readBlocking"}
INVARIANTS
  SegmentsComplete
CHECK_DEADLOCK FALSE
