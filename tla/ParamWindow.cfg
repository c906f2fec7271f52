SPECIFICATION ParamSpec
CONSTANTS
  nOfBackup = 2
  nOfLookup = 0
  nOfStates = 2
  StateDurations = {0, 1, 3}
  maxNumOfFrames = 10
  MaxModels = 4
INVARIANTS
  ParamTypeOK
  FramesFromOwnRows
  DynamicRowsAdjacent
