CONSTANTS
  NumProd = 2
  NumCons = 1
  MaxElements = 3
  ArgQuit = FALSE
  CreateMayFail = TRUE
  ProgramName = "partone"
  Nodes = {n1, n2, n3}
  Values = {v1}
  NULL = NULL
CHECK_DEADLOCK FALSE
SYMMETRY Symmetry
SPECIFICATION Spec
INVARIANTS SlotAccounting RacesAreMains
