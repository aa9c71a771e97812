CONSTANTS
  NumChild = 2
  Batches = 2
  Chunk = 1
  Tokens = 1
  MaxRuns = 2
  Fallible = TRUE
  Values = {1}
  Lists <- MCLists
  SortPrefix <- merge_sort
CHECK_DEADLOCK FALSE
SPECIFICATION FairSpec
INVARIANTS NoTokenFromNothing KeepStep LeavesNoNames
PROPERTIES Finishes
