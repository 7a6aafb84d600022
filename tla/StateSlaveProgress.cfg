SPECIFICATION FairSpec
CONSTANTS
  t1 = t1
  t2 = t2
  Threads = {t1, t2}
  MainNames = {"Work", "Idle"}
  SubNames = {"drive"}
  Commands = {"SET_STATE"}
  RemoteStates = {"Neutral", "Work", "Idle", "Bogus"}
  LocalCommands = {"Alive", "FatalError", "Shutdown"}
  InitialNames = {}
  LockNames = {"neutral", "nonneutral"}
  LockCalls = {"tryAcquire"}
  SpuriousWakeups = FALSE
  Disciplined = TRUE
  QueueBound = 2
  MaxHeld = 2
  CountBound = 2
CHECK_DEADLOCK FALSE
PROPERTIES
  
  SetWaitStateReturns
