SPECIFICATION FairLeaderSpec
CONSTANTS
  h1 = h1
  h2 = h2
  h3 = h3
  h4 = h4
  o1 = o1
  o2 = o2
  o3 = o3
  Host = {h1, h2, h3, h4}
  OwnerId = {o1, o2, o3}
  OwnerOf <- MCOwnerOf
  None = None
  TTL = 2
  Serial = TRUE
  Prunes = FALSE
  MaxTime = 5
  MaxLeases = 3
  Member = {o1, o2, o3}
  QuorumSize = 2
  MaxTerms = 2
CHECK_DEADLOCK FALSE
INVARIANTS ExclusiveOwnership LeadersElected
PROPERTIES FencingGrows OrphanIsFreed
