SPECIFICATION Spec
CONSTANTS
  t1 = t1
  t2 = t2
  Threads = {t1, t2}
  MainNames = {"Work"}
  SubNames = {"drive"}
  Commands = {"SET_STATE"}
  RemoteStates = {"Neutral", "Work", "Shutdown", "Deactivated"}
  LocalCommands = {"Alive", "FatalError"}
  InitialNames = {}
  LockNames = {"nonneutral"}
  LockCalls = {"acquire", "tryAcquire"}
  SpuriousWakeups = TRUE
  Disciplined = FALSE
  QueueBound = 2
  MaxHeld = 1
  CountBound = 2
SYMMETRY ThreadSymmetry
CHECK_DEADLOCK FALSE
INVARIANTS
  LocksAreCounted
  PendingIsBlocked
  ActionsAreFresh
  ActiveBelongs
PROPERTIES
  ImplementsLifecycle
  OkMeansReached
