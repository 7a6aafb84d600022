SPECIFICATION FairSpec
CONSTANTS
  Users = {u1, u2}
  Names = {n1, n2}
  OwnName = n1
  MaxConns = 2
  Retries = 2
  MaxUrls = 1
CHECK_DEADLOCK FALSE
INVARIANTS
  HeldIsServed
  NothingLeftBehind
  FaultHasCause
PROPERTIES
  CallReturns
