SPECIFICATION Spec
CONSTANTS
  MaxRetries = 0
  MaxConnects = 1
  MaxRequests = 0
  MaxAccepted = 1
  MaxIds = 2
  ClientArrivals = 2
  ServerArrivals = 2
INVARIANTS
  ClosedStaysClosed
CHECK_DEADLOCK FALSE
