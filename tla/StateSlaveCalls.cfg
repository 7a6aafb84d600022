SPECIFICATION Spec
CONSTANTS
  t1 = t1
  t2 = t2
  Threads = {t1, t2}
  MainNames = {"Work", "Alive"}
  SubNames = {"drive", "nonneutral"}
  Commands = {"SET_STATE", "GET_CURRENT_STATE", "GET_MAIN_STATES", "GET_SUB_STATES", "UNKNOWN"}
  RemoteStates = {"Neutral", "Work", "Deactivated", "Bogus"}
  LocalCommands = {"Alive", "FatalError", "Shutdown", "Work"}
  InitialNames = {"Work"}
  LockNames = {"neutral", "nonneutral"}
  LockCalls = {"acquire", "tryAcquire"}
  SpuriousWakeups = FALSE
  Disciplined = FALSE
  QueueBound = 2
  MaxHeld = 2
  CountBound = 2
SYMMETRY ThreadSymmetry
CHECK_DEADLOCK FALSE
INVARIANTS
  CountedWaiterFindsActive
PROPERTIES
  ShutdownCallEndsInShutdown
