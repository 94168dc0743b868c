SPECIFICATION RecoverySpec
CONSTANTS
  r1 = r1
  r2 = r2
  r3 = r3
  r4 = r4
  k1 = k1
  k2 = k2
  b1 = b1
  b2 = b2
  Request = {r1, r2, r4}
  Key = {k1, k2}
  Body = {b1, b2}
  KeyOf <- FewKeyOf
  BodyOf <- FewBodyOf
  None = None
  SharedStore = FALSE
  LedgerDurable = TRUE
  MaxCrashes = 1
  MaxFaults = 1
CHECK_DEADLOCK FALSE
INVARIANTS HandedOver LedgerTellsTruth
PROPERTIES SettledStays Delivered
