SPECIFICATION Spec
CONSTANTS
  Prefixes4 = {8, 24}
  Prefixes6 = {64, 128}
  MaxInterfaces = 3
INVARIANTS
  LocalhostIsLast
CHECK_DEADLOCK FALSE
