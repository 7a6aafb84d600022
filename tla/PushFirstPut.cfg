SPECIFICATION FairSpec
CONSTANTS
  NumElements = 2
  QueueSize = 3
  MaxPuts = 1
CHECK_DEADLOCK FALSE
PROPERTIES
  FirstPutArrives
