SPECIFICATION FairSpec
CONSTANTS
  r1 = r1
  r2 = r2
  Readers = {r1, r2}
  BufferSize = 2
  MaxData = 5
  Calls <- MixedCalls
  SeekOffsets = {0, 1, 2}
CHECK_DEADLOCK FALSE
PROPERTIES
  EventsInOrder
  LossIsReported
  UpdatesAreFresh
  GetUpdateReturns
