SPECIFICATION VocoderSpec
CONSTANTS
  Pitches = {2}
  Values = {3}
  Modes = {"noaction"}
  defaultPitch = 1
  SampleRate = 2
  MaxPitch = 4
INVARIANT
  ExcitationFinite
