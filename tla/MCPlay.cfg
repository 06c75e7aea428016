SPECIFICATION Spec
CONSTANTS
  Me = "me"
  Other = "other"
  LastId = 2
  Rooms = {1, 2}
  Spots <- MCSpots
  Chords <- MCChords
  Box <- MCBox
  ScreenWidth = 4
  ScreenHeight = 3
  MaxVelocity = 16
  Lines <- MCLines
  ZigzagPush = 1
  Margin = 1
  SpawnPoint <- MCSpawnPoint
  OtherPoints <- MCOtherPoints
  EnemyPoints <- MCEnemyPoints
  MoveSets = {0, 1}
  Slopes = {0}
  Muzzle <- MCMuzzle
  Speed = 1
  Far = 2
  Smooth = 2
  MaxEntities = 3
  MaxClicks = 3
  MaxInputs = 2
  MaxUp = 1
  MaxDown = 0
  MaxFaults = 1
INVARIANTS
  TypeOK
  ShotsArePresses
  TargetIsPosition
PROPERTIES
  PlayersStayApart
  OneRoomForGood
  BulletsLeave
  ShownSettles
CHECK_DEADLOCK FALSE
