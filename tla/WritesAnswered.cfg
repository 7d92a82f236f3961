SPECIFICATION HandlerFairSpec
CONSTANTS
  rest = rest
  grpc = grpc
  Api <- OneApi
  Worker = {w1}
  Order = {1, 2, 3, 4}
  Via <- ViaOne
  KnownCustomer = {1, 2, 4}
  Malformed = {4}
  QueueCap = 1
  Faults = {"api"}
  NoOrder = NoOrder
PROPERTIES
  EveryRequestAnswered
  CrashLossBounded
CHECK_DEADLOCK FALSE
