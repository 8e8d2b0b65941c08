SPECIFICATION FairSpec
CONSTANTS
  Byte = {"a", "nl"}
  MaxSent = 3
  BufferSize = 2
  r1 = r1
  r2 = r2
  Readers = {r1, r2}
  Conditions = {"newline"}
  Condition <- MCCondition
  MaxHandlers = 1
  Uses = {"readBlocking", "stopReads", "destroy"}
INVARIANTS
  TypeOK
  EventsMatchSegments
  NoSpuriousWakeup
  SegmentsComplete
  ClosedIsEndOrFull
PROPERTIES
  ImplementsSegmentedStream
  SegmentWakesReader
  ErrorWakesAReader
  EveryLineIsQueued
  StopEndsWorker
  DestructorReturns
CHECK_DEADLOCK FALSE
