CONSTANTS
  Trials = {1, 2}
  Lists <- MCLists
  Fallible = TRUE
  SortPiece <- MCSort
  MergeLists <- MCMerge
CHECK_DEADLOCK FALSE
SPECIFICATION Spec
INVARIANTS TypeOK MergedOnce AtMostOneLost
PROPERTIES UndisturbedFinish
