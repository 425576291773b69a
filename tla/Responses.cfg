SPECIFICATION Spec
CONSTANTS
  BodyLen = 2
  MaxRetries = 1
  MaxBuffer = 1
  JoinLate = FALSE
  AbortLate = FALSE
  Overlap = FALSE
  Kinds <- MCKinds
INVARIANTS  OneOutcome
PROPERTY EveryUserAnswered
CHECK_DEADLOCK FALSE
