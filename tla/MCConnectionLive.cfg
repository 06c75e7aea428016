SPECIFICATION FairSpec
CONSTANTS
  MaxRetries = 1
  MaxConnects = 1
  MaxRequests = 0
  MaxAccepted = 1
  MaxIds = 2
  ClientArrivals = 1
  ServerArrivals = 2
PROPERTIES
  ConnectResolves
  SilentRemoved
  SilenceNoticed
CHECK_DEADLOCK FALSE
