SPECIFICATION FairMageSpec
CONSTANTS
  maxLabelQueueLen = 2
  MaxLabels = 6
  Label = {1, 2, 3, 4, 5, 6}
  nOfBackup = 2
  maxNumOfFrames = 6
  maxFrameQueueLen = 2
  Durations = {0, 2}
INVARIANTS
  MageTypeOK
  ModelSlotFree
  LabelsSpokenInOrder
  LabelsFedInOrder
  WindowFits
  NoSelfBlock
PROPERTY
  LabelsAllSpoken
