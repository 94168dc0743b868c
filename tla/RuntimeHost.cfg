SPECIFICATION HostFairSpec
CONSTANTS
  a = a
  b = b
  town = town
  wood = wood
  Host = {a, b}
  World = {town, wood}
  None = None
  Sorted <- MCSorted
  CommandLines <- MCCommandLines
  Recovers = {a}
  Beats = {a}
  MaxCrashes = 2
CHECK_DEADLOCK FALSE
INVARIANTS NothingLeftBehind
PROPERTIES ServedAgain
