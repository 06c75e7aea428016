SPECIFICATION Spec
CONSTANTS
  Width = 3
  MaxHistory = 2
  SeqIds = {0, 1, 2, 3, 4, 5, 6, 7}
INVARIANTS
  TypeOK
  ReplayProtection
  NothingUnseenAcknowledged
