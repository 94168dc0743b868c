SPECIFICATION Spec
CONSTANTS
  m1 = m1
  m2 = m2
  p1 = p1
  p2 = p2
  x = x
  y = y
  agent = agent
  human = human
  k = k
  Scope <- MCScope
  Actor = {agent, human}
  RoleOf <- MCRoleOf
  Memory = {m1, m2}
  Content = {x, y}
  Proposal = {p1, p2}
  Candidate <- MCCandidate
  Valid = {p1, p2}
  References <- MCReferences
  Key = {k}
  None = None
  MaxLines = 6
  MaxFailures = 1
CHECK_DEADLOCK FALSE
INVARIANTS LedgerRebuilds Grounded PrivateStaysPrivate
PROPERTIES DecisionsStand
