SPECIFICATION Spec
CONSTANTS
  a1 = a1
  a2 = a2
  i1 = i1
  i2 = i2
  i3 = i3
  Actor = {a1, a2}
  ActionId = {i1, i2}
  None = None
  Phase <- MCPhase
  Entry = "survey"
  Terminal = "inspect"
  Ticks <- MCTicks
  Longest <- MCLongest
  Gated <- MCGated
  Policy <- MCPolicy
  Branches <- MCBranches
  Delays = {1}
  LogMayFail = TRUE
  LastSubmit = 3
  MaxTick = 7
SYMMETRY Symmetry
CHECK_DEADLOCK FALSE
INVARIANTS OneLongActionPerActor LoggedWork EffectsOnce
PROPERTIES EndedStaysEnded
