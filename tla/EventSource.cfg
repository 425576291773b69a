SPECIFICATION Spec
CONSTANTS
  Scripts <- MCScripts
  TimeOf <- MCTimeOf
  Unsendable <- MCUnsendable
  DefaultTime = 3
  MaxTime = 10
  MaxFaults = 2
  CloseWithHead = FALSE
INVARIANT EventsIntact
PROPERTIES ClosedForGood EveryEventArrives
CHECK_DEADLOCK FALSE
