SPECIFICATION FairVocoderSpec
CONSTANTS
  Pitches = {2}
  Values <- MCValues
  Modes = {"noaction", "overwrite"}
  defaultPitch = 1
  SampleRate = 2
  MaxPitch = 4
PROPERTIES
  OverwriteSettles
  NoactionFollowsModel
