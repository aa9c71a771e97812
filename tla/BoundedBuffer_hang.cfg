CONSTANTS
  NumProd = 1
  NumCons = 1
  MaxElements = 1
  ArgQuit = TRUE
  CreateMayFail = FALSE
  ProgramName = "project4a"
  Nodes = {n1}
  Values = {v1}
  NULL = NULL
CHECK_DEADLOCK FALSE
SPECIFICATION FairSpec
PROPERTIES ExitsAfterStop
