SPECIFICATION FairSpec
CONSTANTS
  Params = {"dur", "mgc"}
  maxNumOfArguments = 49
  MaxSpeakers = 2
INVARIANTS
  LoadsWhatWasNamed
  LastArgumentNeeded
PROPERTIES
  CompleteVoiceLoads
CHECK_DEADLOCK FALSE
