CONSTANTS
  MaxMemory = 16
  MaxProcesses = 3
  MaxQuanta = 6
  RootSize = 3
  Sizes = {2, 8}
CHECK_DEADLOCK FALSE
SPECIFICATION FairSpec
PROPERTIES SimulationEnds
