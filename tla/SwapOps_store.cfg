CONSTANTS
  MaxMemory = 8
  MaxProcesses = 5
  MaxQuanta = 0
  RootSize = 2
  Sizes = {2, 3}
  Bursts = {1}
  BeforeStore = 0
  MaxRedrawn = 1
  MaxUsed = 12
CHECK_DEADLOCK FALSE
SPECIFICATION SortedSpec
INVARIANTS SwapTypeOK SwapsHold PlacesSuffice
PROPERTIES UsedFollowsCells HeadNeverTurns CompactionKeepsOrder CompactionEnds ImplementsStore
