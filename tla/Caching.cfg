SPECIFICATION FairSpec
CONSTANTS
  Kinds <- MCKinds
  MaxVersion = 2
  Overtaken = FALSE
  MaxCount = 2
  MaxSize = 4
  MaxEntrySize = 2
INVARIANTS
  ReuseIsSound
  IntactBody
  StoreConsistent
PROPERTIES
  EveryUserAnswered
CHECK_DEADLOCK FALSE
