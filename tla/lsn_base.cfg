SPECIFICATION BaseFairSpec
CONSTANTS
  k1 = k1
  k2 = k2
  k3 = k3
  Clients = {k1, k2, k3}
INVARIANTS
  NoCallbackAfterStop
  CallbackHasObject
PROPERTIES
  StopReturns
CHECK_DEADLOCK FALSE
