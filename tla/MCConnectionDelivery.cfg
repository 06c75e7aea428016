SPECIFICATION Spec
CONSTANTS
  MaxRetries = 0
  MaxConnects = 2
  MaxRequests = 2
  MaxAccepted = 1
  MaxIds = 2
  ClientArrivals = 3
  ServerArrivals = 4
INVARIANTS
  GuaranteedDelivery
CHECK_DEADLOCK FALSE
