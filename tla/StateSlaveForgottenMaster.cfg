SPECIFICATION Spec
CONSTANTS
  t1 = t1
  t2 = t2
  Threads = {t1, t2}
  MainNames = {"Work"}
  SubNames = {"drive"}
  Commands = {"SET_STATE"}
  RemoteStates = {"Work", "Neutral"}
  LocalCommands = {"Alive", "FatalError"}
  InitialNames = {}
  LockNames = {"nonneutral"}
  LockCalls = {"acquire", "tryAcquire"}
  SpuriousWakeups = FALSE
  Disciplined = FALSE
  QueueBound = 2
  MaxHeld = 1
  CountBound = 2
SYMMETRY ThreadSymmetry
CHECK_DEADLOCK FALSE
INVARIANTS
  NoMasterForgotten
