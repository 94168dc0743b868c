SPECIFICATION FairWalkSpec
CONSTANTS
  Phase <- MCPhase
  Entry = 1
  Unknown = 0
  None = None
  Ticks <- MCTicks
  BranchLimit = 3
  Authored <- MCAuthored
  Order <- MCOrder
  Lines <- MCLines
  Policy <- MCPolicy
CHECK_DEADLOCK FALSE
INVARIANTS VerdictIsRight KernelCanRun
PROPERTIES WalksThePhases
