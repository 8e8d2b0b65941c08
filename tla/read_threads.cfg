SPECIFICATION FairSpec
CONSTANTS
  Byte = {"a", "b"}
  MaxSent = 3
  t1 = t1
  t2 = t2
  Threads = {t1, t2}
  Lengths = {0, 1, 2}
  MaxCalls = 1
INVARIANTS
  ReadNeverBlocks
  BufferHoldsStream
  ExceptionsAreDue
PROPERTIES
  StopAbortsReads
CHECK_DEADLOCK FALSE
