SPECIFICATION FairSpec
CONSTANTS
  ConnectTimeout = 1
  ReadTimeout = 2
  TotalTimeout = 4
  MaxAttempts = 2
  DefaultDelay = 1
  MaxRetryAfter = 4
  RequestCost = 2
  Addresses = 2
  MaxResolve = 5
  Oversleep = 2
  Allowance = 3
INVARIANTS
  TypeOK
  EvidenceTellsTheCall
  ThrottleIsRespected
  DepletionEndsTheCall
PROPERTIES
  SocketsKeepDeadline
  CallsReturn
