SPECIFICATION Spec
CONSTANTS
  Kinds <- MCKinds
  Statuses <- MCStatuses
  MaxChunks = 2
  RedirectLimit = 2
  ErrorWithHead = FALSE
  AbortWithHead = FALSE
  LateBare = FALSE
  LongRefusal = FALSE
INVARIANTS BodyIsHonest
PROPERTIES ExchangesGivenUp FetchEnds
CHECK_DEADLOCK FALSE
