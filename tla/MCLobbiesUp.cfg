SPECIFICATION Spec
CONSTANTS
  Sessions = {"s1", "s2"}
  LastId = 2
  PageSize = 2
  MaxPackets = 3
INVARIANTS
  ServerStaysUp
CHECK_DEADLOCK FALSE
