CONSTANTS
  NumChild = 2
  Batches = 1
  Chunk = 2
  Tokens = 2
  MaxRuns = 1
  Fallible = TRUE
  Values = {1, 2, 3}
  Lists <- MCLists
  SortPrefix <- merge_sort
CHECK_DEADLOCK FALSE
SPECIFICATION Spec
INVARIANTS PrefixSorted WrittenIsSorted
