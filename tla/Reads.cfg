SPECIFICATION ReadsFairSpec
CONSTANTS
  u1 = u1
  w1 = w1
  User = {u1}
  Inserter = w1
  Client <- MCClient
  EnvValues <- MCEnvValues
  DefaultOpen = 2
  DefaultIdle = 2
  Attempts = 2
  MaxStops = 1
  Args <- MCArgs
  Pages <- MCPages
  Asked <- MCAsked
  DefaultLimit = 2
  Rows = 3
INVARIANTS
  TypeOK
  PoolBound
  WaitOnlyWhenFull
  NoChurnWhenEqual
  ReadsTypeOK
  Truthful
  PageLengths
PROPERTIES
  InsertEnds
  RequestsEnd
  BootEnds
\* A process that gave up stops for good.
CHECK_DEADLOCK FALSE
