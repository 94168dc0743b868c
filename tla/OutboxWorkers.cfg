SPECIFICATION FairSpec
CONSTANTS
  w1 = w1
  w2 = w2
  b1 = b1
  b2 = b2
  Worker = {w1, w2}
  Bridge = {b1, b2}
  Limits = {1, 2}
  Delays = {0, 1}
  None = None
  MaxLog = 2
  MaxTime = 3
  MaxAttempts = 2
  MaxLosses = 1
CHECK_DEADLOCK FALSE
PROPERTIES DeliversOnceAcked EventsArrive
