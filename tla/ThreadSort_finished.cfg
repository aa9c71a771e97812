CONSTANTS
  Trials = {1}
  Lists <- OneList
  Fallible = FALSE
  SortPiece <- MCSort
  MergeLists <- MCMerge
CHECK_DEADLOCK FALSE
SPECIFICATION Spec
INVARIANTS AllThreadsFinished
