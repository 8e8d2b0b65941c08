SPECIFICATION FairSpec
CONSTANTS
  Byte = {"a", "nl"}
  MaxSent = 3
  BufferSize = 2
  c1 = c1
  c2 = c2
  Callers = {c1, c2}
  Delimiter = "nl"
  Lengths = {1, 2, 3}
  Ops <- MCOps
INVARIANTS
  SpoiltByOverlap
PROPERTIES
  LengthAsAsked
  ImplementsByteStream
  StopEndsCalls
CHECK_DEADLOCK FALSE
