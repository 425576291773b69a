SPECIFICATION Spec
CONSTANTS
  Kinds <- MCKinds
  Limits = {0, 1, 2}
  StartLimit = 2
  Pipelining = 1
  DestroyLate = FALSE
CHECK_DEADLOCK FALSE
INVARIANTS
  StreamsMatchRequests
  AnsweredOnce
PROPERTIES
  EveryRequestEnds
