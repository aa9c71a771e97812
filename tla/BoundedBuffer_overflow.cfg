CONSTANTS
  NumProd = 2
  NumCons = 2
  MaxElements = 1
  ArgQuit = FALSE
  CreateMayFail = TRUE
  ProgramName = "project4a"
  Nodes = {n1, n2}
  Values = {v1}
  NULL = NULL
CHECK_DEADLOCK FALSE
SPECIFICATION FairSpec
INVARIANTS ItemAccounting QueueChainIntact
PROPERTIES TakesForever QuietAfterStop
