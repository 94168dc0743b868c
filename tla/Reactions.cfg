SPECIFICATION Spec
CONSTANTS
  p1 = p1
  p2 = p2
  guard = guard
  rat = rat
  key = key
  gift = gift
  door = door
  hall = hall
  vault = vault
  Player = {p1, p2}
  Creature = {guard, rat}
  Item = {key, gift}
  Door = {door}
  Room = {hall, vault}
  Quest = {"errand", "reach"}
  Machine = {"gate", "watch"}
  None = None
  Exits <- MCExits
  DoorRoom <- MCDoorRoom
  KeyOf <- MCKeyOf
  Portable = {key, gift}
  Gifted <- MCGifted
  Combatant = {p1, p2, guard, rat}
  MaxHealth = 2
  Swings <- MCSwings
  HastySwings <- MCHasty
  Damage = {1, 2}
  ShieldHp = 2
  Turns = 2
  Transitions <- MCTransitions
  Legacy <- MCLegacy
  Steps <- MCSteps
  Owner <- MCOwner
  Start <- MCStart
  MachineOrder <- MCMachineOrder
  QuestOrder <- MCQuestOrder
  QuestsFirst = FALSE
  Spawn = vault
  FirstPlayer = p1
  LogMayFail = TRUE
  Begin <- MCBegin
  Submitted <- MCSubmitted
  LateVerbs = {"take", "drop", "shield"}
  MaxLater = 2
  MaxCreated = 1
  MaxActions = 3
CHECK_DEADLOCK FALSE
INVARIANTS ItemsAccounted BodiesConsistent RewardsEarned TransitionsChain QuestsBelong
