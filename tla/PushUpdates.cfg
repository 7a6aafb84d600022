SPECIFICATION FairSpec
CONSTANTS
  NumElements = 2
  QueueSize = 2
  MaxPuts = 3
CHECK_DEADLOCK FALSE
INVARIANTS
  ValuesCounted
  WholeData
PROPERTIES
  NoPutMissed
  LastPutArrives
