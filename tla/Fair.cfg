CONSTANTS
  r1 = r1
  r2 = r2
  r3 = r3
  r4 = r4
  nameA = nameA
  nameB = nameB
  Null = Null
  NoName = NoName
  Requests = {r1, r2}
  Names = {nameA}
  Opt <- OptFair
  Pipelining = 2
  Pipelinings = {}
  MaxRequests = 0
  CompactAt = 256
  Secure = FALSE
  UserCalls <- TopCalls
  Faults <- FairFaults
SPECIFICATION FairSpec
CHECK_DEADLOCK FALSE
PROPERTIES
  EveryRequestEnds
  CallersAreTold
