SPECIFICATION Spec
CONSTANTS
  Byte = {"A", "Z"}
  MaxSent = 3
  BufferSize = 2
  r1 = r1
  r2 = r2
  Readers = {r1, r2}
  Conditions = {"discard"}
  Condition <- MCCondition
  MaxHandlers = 2
  Uses = {"read", "readBlocking", "timeouts", "stopReads", "destroy", "signals"}
SYMMETRY ReaderSymmetry
INVARIANTS
  BytesConserved
  NoStrandedSegment
  ErrorIsFinal
  AbortOnlyInDestructor
CHECK_DEADLOCK FALSE
