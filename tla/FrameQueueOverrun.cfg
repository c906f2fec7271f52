SPECIFICATION FrameSpec
CONSTANTS
  length = 2
  MaxFrames = 5
  Item = {0, 1, 2, 3, 4, 5}
  defaultFrameRate = 1
  maxHopLen = 1
  Speeds = {1}
INVARIANT
  WriteNeverPassesRead
