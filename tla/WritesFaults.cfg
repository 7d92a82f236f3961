SPECIFICATION Spec
CONSTANTS
  rest = rest
  grpc = grpc
  Api <- TwoApis
  Worker = {w1, w2}
  Order = {1, 2, 3}
  Via <- ViaTwo
  KnownCustomer = {1, 3}
  Malformed = {}
  QueueCap = 1
  Faults = {"api", "db"}
  NoOrder = NoOrder
SYMMETRY WorkerSymmetry
INVARIANTS
  TypeOK
  NoStoreAfterError
  AtMostOneCustodian
  Accounted
  Ledger
CHECK_DEADLOCK FALSE
