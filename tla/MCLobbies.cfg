SPECIFICATION FairSpec
CONSTANTS
  Sessions = {"s1", "s2"}
  LastId = 2
  PageSize = 2
  MaxPackets = 3
INVARIANTS
  TypeOK
  LookupAgrees
  InputsFindTheirPlayer
  PlayersKnowTheState
  EmptyLobbiesStop
  EveryLobbyIsListed
PROPERTIES
  StoppedIsReaped
  GhostsVanish
CHECK_DEADLOCK FALSE
