SPECIFICATION Spec
CONSTANTS
  Kinds <- MCKinds
  MaxSends = 2
  MaxFragments = 2
  SlowInflate = FALSE
  AbortLate = FALSE
  CancelPaused = FALSE
INVARIANTS MessagesIntact CloseIsHonest
PROPERTY EndIsReported
CHECK_DEADLOCK FALSE
