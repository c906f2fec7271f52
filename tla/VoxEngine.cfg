SPECIFICATION Spec
CONSTANTS
  NPhrases = 2
  NCommands = 4
  MaxPlays = 1
  Controls = {"voice", "scale"}
  MaxVoice = 1
  MaxLevel = 2
  MaxPending = 2
INVARIANTS
  EngineTypeOK
  OnTimeSpeaksAsked
  EngineFollowsScreen
PROPERTY AllBuffersCreated
