SPECIFICATION DurationSpec
CONSTANTS
  nOfStates = 3
  maxDuration = 7
  Means = {1, 4}
  Varis = {1, 9}
  Lengths = {2, 5, 8}
  InterpolationWeights <- MCWeights
  UpdateValues <- MCUpdateValues
  MaxEngines = 2
CHECK_DEADLOCK FALSE
INVARIANTS
  LengthDistributed
  DurationIsSum
PROPERTY LoopEnds
