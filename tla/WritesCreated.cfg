SPECIFICATION FairSpec
CONSTANTS
  rest = rest
  grpc = grpc
  Api <- OneApi
  Worker = {w1}
  Order = {1, 2, 3}
  Via <- ViaOne
  KnownCustomer = {1, 2}
  Malformed = {}
  QueueCap = 1
  Faults = {}
  NoOrder = NoOrder
PROPERTIES
  CreatedIsStored
CHECK_DEADLOCK FALSE
