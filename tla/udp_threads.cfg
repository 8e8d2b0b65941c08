SPECIFICATION Spec
CONSTANTS
  o1 = o1
  o2 = o2
  r1 = r1
  r2 = r2
  NoObject = NoObject
  Objects = {o1, o2}
  Readers = {r1, r2}
  Sizes = {1}
  BufferSize = 1
  Timeouts <- MCTimeouts
  Versions = {"IPv4"}
  MaxSockets = 2
  MaxDatagrams = 2
SYMMETRY Symmetry
VIEW View
INVARIANTS
  ResultIsOneDatagram
  CaughtNeedsRival
PROPERTY
  TruncationNeedsMove
  NoFalsePollError
CHECK_DEADLOCK FALSE
