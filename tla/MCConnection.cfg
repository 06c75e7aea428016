SPECIFICATION Spec
CONSTANTS
  MaxRetries = 0
  MaxConnects = 1
  MaxRequests = 1
  MaxAccepted = 2
  MaxIds = 2
  ClientArrivals = 1
  ServerArrivals = 3
INVARIANTS
  TypeOK
  AnnouncedFirst
  RemovedIsReported
  DispatchedOnce
CHECK_DEADLOCK FALSE
