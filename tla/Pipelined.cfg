CONSTANTS
  r1 = r1
  r2 = r2
  r3 = r3
  r4 = r4
  nameA = nameA
  nameB = nameB
  Null = Null
  NoName = NoName
  Requests = {r1, r2, r3, r4}
  Names = {nameA, nameB}
  Opt <- OptPipelined
  Pipelining = 2
  Pipelinings = {}
  MaxRequests = 2
  CompactAt = 0
  Secure = TRUE
  UserCalls <- PipelinedCalls
  Faults <- PipelinedFaults
SPECIFICATION Spec
CHECK_DEADLOCK FALSE
INVARIANTS
  NoRequestLost
  SentInTurn
  QueueIsOnWire
  ConnectionShared
  WaitIsTimed
PROPERTIES
  WritesToValidated
SYMMETRY Alike
