SPECIFICATION FairSpec
CONSTANTS
  Width = 2
  MaxHistory = 2
  Peers = {"client", "server"}
  Channels = {1}
  Workload <- MCMixedWorkload
  AckThreshold = 3
  MaxResend = 2
  AckIds <- MCAckIds
PROPERTIES
  AcceptedOrClosed
CHECK_DEADLOCK FALSE
