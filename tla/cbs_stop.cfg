SPECIFICATION FairSpec
CONSTANTS
  Byte = {"a", "nl"}
  MaxSent = 2
  BufferSize = 2
  r1 = r1
  Readers = {r1}
  Conditions = {"newline"}
  Condition <- MCCondition
  MaxHandlers = 1
  Uses = {"readBlocking", "stopReads"}
PROPERTIES
  StopAbortsReads
CHECK_DEADLOCK FALSE
