SPECIFICATION MapSpec
CONSTANTS
  Names = {awb, slt}
  NoName = NoName
  MaxLoads = 3
  RemoveConcurrently = FALSE
CHECK_DEADLOCK FALSE
INVARIANTS
  GeneratorUsesLoaded
  ReadyHasDefault
  EnginesOwned
PROPERTY ResetRestores
