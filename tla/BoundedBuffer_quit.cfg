CONSTANTS
  NumProd = 2
  NumCons = 2
  MaxElements = 2
  ArgQuit = TRUE
  CreateMayFail = TRUE
  ProgramName = "project4a"
  Nodes = {n1, n2}
  Values = {v1, v2}
  NULL = NULL
CHECK_DEADLOCK FALSE
SYMMETRY Symmetry
SPECIFICATION Spec
INVARIANTS SemaphoresGuardQueue JoinedBeforeFreed
PROPERTIES ImplementsFifo
