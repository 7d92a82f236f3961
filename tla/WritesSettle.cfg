SPECIFICATION FairSpec
CONSTANTS
  rest = rest
  grpc = grpc
  Api <- OneApi
  Worker = {w1, w2}
  Order = {1, 2, 3}
  Via <- ViaOne
  KnownCustomer = {1}
  Malformed = {}
  QueueCap = 2
  Faults = {"api", "db"}
  NoOrder = NoOrder
INVARIANTS
  BoundedOvertaking
PROPERTIES
  EveryAcceptedSettles
  KeepsPromise
CHECK_DEADLOCK FALSE
