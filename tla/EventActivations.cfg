SPECIFICATION FairSpec
CONSTANTS
  MaxActivations = 2
  QueueSize = 2
  MaxPuts = 2
CHECK_DEADLOCK FALSE
INVARIANTS
  EveryActivationTested
  LoneActivationFollowsTest
PROPERTIES
  ImplementsChannel
  EventArrives
