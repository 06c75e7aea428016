SPECIFICATION Spec
CONSTANTS
  Width = 2
  MaxHistory = 2
  Peers = {"client", "server"}
  Channels = {1, 2}
  Workload <- MCWorkload
  AckThreshold = 3
  MaxResend = 1
  AckIds <- MCAckIds
INVARIANTS
  TypeOK
  AcknowledgedWasAccepted
  AcceptedIsKept
PROPERTIES
  ImplementsOrderedChannel
CHECK_DEADLOCK FALSE
