SPECIFICATION FilesSpec
CONSTANTS
  p = p
  q = q
  Host = {p, q}
  None = None
  MaxBatches = 4
  MaxDeaths = 2
  MaxFaults = 2
SYMMETRY Symmetry
CHECK_DEADLOCK FALSE
INVARIANTS LogKeepsItsWord StateIsLogged
