SPECIFICATION Spec
CONSTANTS
  Ids <- MCIds
  Requests <- MCRequests
  None = 0
  MaxWeight = 2
  Penalty = 1
  kSize = 2
  Undefined = 0
  Kinds <- MCKinds
  CanBeH2 = TRUE
  HasTtl = TRUE
  Depth = 2
  NestedCalls = {"dispatch", "close", "destroy"}
CHECK_DEADLOCK FALSE
INVARIANTS
  QueueIsFifo
  EndsAreOver
PROPERTIES
  EveryRequestServed
