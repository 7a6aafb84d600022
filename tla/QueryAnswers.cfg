SPECIFICATION FairSpec
CONSTANTS
  t1 = t1
  t2 = t2
  Threads = {t1, t2}
  MaxQueries = 2
  Reconnects = TRUE
  Disciplined = TRUE
CHECK_DEADLOCK FALSE
INVARIANTS
  MutexMatchesUse
  OkMeansAnswered
  
PROPERTIES
  OverdueCallReturns
