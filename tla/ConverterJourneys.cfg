SPECIFICATION Spec
CONSTANTS
  Roots <- AllRoots
  Descriptions <- AllWithin
  Rank <- Depth
  Leaves <- LeavesOf
  Objects <- ObjectsOf
  NodeIds <- MonitoredNodes
  Unmixed <- IsUnmixed
  NestedVariant <- CallToVariant
  NestedRead <- CallReadNestedItem
  NestedSurvives <- CallSurvives
  NestedShape <- CallHasShape
  ValuesOf <- BoundaryValues
  MaxLength = 2
  Paths = {"request", "answer", "push"}
CHECK_DEADLOCK FALSE
INVARIANTS
  TypeOK
  ArrivesUnchanged
  StaysAligned
  FaultSparesRest
  RequestsAreAccepted
  AcceptedIsReadable
