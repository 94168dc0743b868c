SPECIFICATION Spec
CONSTANTS
  r1 = r1
  r2 = r2
  r3 = r3
  r4 = r4
  k1 = k1
  k2 = k2
  b1 = b1
  b2 = b2
  Request = {r1, r2, r3, r4}
  Key = {k1, k2}
  Body = {b1, b2}
  KeyOf <- MCKeyOf
  BodyOf <- MCBodyOf
  None = None
  SharedStore = TRUE
  LedgerDurable = FALSE
  MaxCrashes = 1
  MaxFaults = 1
SYMMETRY Symmetry
CHECK_DEADLOCK FALSE
INVARIANTS AtMostOnce RepliesAgree
