CONSTANTS
  MaxMemory = 16
  MaxProcesses = 4
  MaxQuanta = 6
  RootSize = 3
  Sizes = {2, 3, 8}
CHECK_DEADLOCK FALSE
SPECIFICATION FairSpec
INVARIANTS UsedIsPrefix ExtentsHold NothingToSwap HolesAreInside
PROPERTIES ScanEnds
