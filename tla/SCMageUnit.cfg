SPECIFICATION FairUnitSpec
CONSTANTS
  MaxLabels = 3
  LabelFrames = 3
  maxFrameQueueLen = 2
  maxStrLen = 4
  maxLabelQueueLen = 2
  MaxSamples = 6
  MaxChannels = 2
INVARIANTS
  UnitTypeOK
  MageOutlivesUsers
  LabelsAsDocumented
  WellFormedParsedAlone
PROPERTIES
  DtorReturns
  BufferSpoken
