SPECIFICATION FairSpec
CONSTANTS
  k1 = k1
  k2 = k2
  k3 = k3
  Clients = {k1, k2, k3}
  t1 = t1
  t2 = t2
  Threads = {t1, t2}
  s1 = s1
  s2 = s2
  Stoppers = {s1, s2}
INVARIANTS
  NoStreamAfterStop
  ClosedOnce
PROPERTIES
  StopEndsAccept
CHECK_DEADLOCK FALSE
