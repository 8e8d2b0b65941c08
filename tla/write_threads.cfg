SPECIFICATION Spec
CONSTANTS
  w1 = w1
  w2 = w2
  Writers = {w1, w2}
  Sizes = {0, 1, 3}
  MaxAttempts = 3
INVARIANTS
  WireHoldsPrefix
  OutcomeMatchesWire
  TornOnlyByRetry
CHECK_DEADLOCK FALSE
