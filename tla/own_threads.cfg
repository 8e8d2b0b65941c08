SPECIFICATION Spec
CONSTANTS
  o1 = o1
  o2 = o2
  o3 = o3
  t1 = t1
  t2 = t2
  NoObject = NoObject
  Objects = {o1, o2, o3}
  Threads = {t1, t2}
  MaxFd = 4
SYMMETRY Symmetry
INVARIANTS
  SingleOwner
  NothingLost
  EventsNotShared
  CycleNeedsAssignment
CHECK_DEADLOCK FALSE
