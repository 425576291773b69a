SPECIFICATION Spec
CONSTANTS
  Kinds <- MCKinds
  MaxChunks = 3
  HighWater = 2
  DumpLimit = 1
  LateError = FALSE
INVARIANTS IntactBody ConnectionIsFit
PROPERTIES EveryCallEnds
CHECK_DEADLOCK FALSE
