CONSTANTS
  r1 = r1
  r2 = r2
  r3 = r3
  r4 = r4
  nameA = nameA
  nameB = nameB
  Null = Null
  NoName = NoName
  Requests = {r1, r2, r3}
  Names = {nameA}
  Opt <- OptNested
  Pipelining = 1
  Pipelinings = {2}
  MaxRequests = 0
  CompactAt = 0
  Secure = FALSE
  UserCalls <- NestedCalls
  Faults <- AllFaults
SPECIFICATION Spec
CHECK_DEADLOCK FALSE
INVARIANTS
  TypeOK
  NoAssertFails
  ResumeNotNested
  EndsAreOver
