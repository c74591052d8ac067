SPECIFICATION FairSpec
CONSTANTS
  c1 = c1
  c2 = c2
  Clients = {c1, c2}
  NumBackends = 2
  MaxRequests <- ThreeAndOne
  RequestsCap = 1
  BackendCap = 1
  OutputCap = 1
  FirstId = 100
  MaxFaults = 1
CHECK_DEADLOCK FALSE
INVARIANTS
  TablesConsistent
PROPERTIES
  ImplementsAbstractBalancer
  RequestsAnswered
