SPECIFICATION Spec
CONSTANTS
  alice = alice
  r1 = r1
  r2 = r2
  Principal = {alice}
  PrincipalExp <- MCPrincipalExp
  Session = {s1}
  Req = {r1, r2}
  None = None
  TTL = 2
  Window = 2
  Limit = 1
  MaxTime = 3
  MaxTokens = 3
  MaxChanges = 2
SYMMETRY Threads
CHECK_DEADLOCK FALSE
INVARIANTS TokensFormAChain LateRequestsRefused RateHolds
PROPERTIES EndedStaysEnded ClosedIsQuiet
