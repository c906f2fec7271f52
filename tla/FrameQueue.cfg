SPECIFICATION FairFrameSpec
CONSTANTS
  length = 3
  MaxFrames = 6
  Item = {0, 1, 2, 3, 4, 5, 6}
  defaultFrameRate = 2
  maxHopLen = 3
  Speeds = {0, 2, 4}
INVARIANTS
  FrameTypeOK
  ChecksStayValid
  CountInRange
  NoSharedSlot
  FramesInOrder
PROPERTY
  GeneratorFinishes
