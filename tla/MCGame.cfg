SPECIFICATION Spec
CONSTANTS
  BlockBits = 2
  WordBytes = 2
  WavePool <- MCWavePool
  Income = 1
  Delays = {0}
  MaxCredits = 1
  Sessions = {"s1", "s2"}
  Me = "s1"
  MaxEntities = 4
  MaxInFlight = 1
  MaxFaults = 1
INVARIANTS
  TypeOK
  StorageAgrees
  EntitiesDecoded
  NobodyMissed
  GhostsExplained
  StateKnownUnlessLate
  WavesInRange
  LobbyFailsOnlyByWrongKill
PROPERTIES
  ClientEndsOnlyByJoinAck
  ImplementsReplica
CHECK_DEADLOCK FALSE
