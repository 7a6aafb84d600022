SPECIFICATION FairSpec
CONSTANTS
  c1 = c1
  c2 = c2
  k1 = k1
  k2 = k2
  k3 = k3
  Components = {c1, c2}
  Clients = {k1, k2, k3}
  Home <- Homes
  PortNames = {"p", "q"}
  Requests <- SomeRequests
  NoClient = NoClient
  NoRequest = NoRequest
  NoAnswer = NoAnswer
  NoServer = NoServer
  ReAdded = {k3}
CHECK_DEADLOCK FALSE
INVARIANTS
  PortsBelong
  
  OkMeansConnected
PROPERTIES
  QueryAnswered
