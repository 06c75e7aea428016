------------------------------ MODULE GameEnums ------------------------------
(***************************************************************************)
(* The enumerations that the server and the client share.                  *)
(***************************************************************************)

\* game::state, a uint8_t that travels in fields of several widths.
GameMenu == 1
GameWaiting == 2
GameLobby == 3
GameRunning == 4
GameOver == 6

\* entity::state and entity::Type.
PlayerWaiting == 1
EntityAlive == 3
EntityDead == 4
kPlayer == 0
kEnemy == 1
kBullet == 2

\* menu::state.
MenuHome == 1
MenuJoin == 3
MenuLobby == 4

\* move::Set.
kStraightSlow == 0
kZigZag == 1
kHover == 2
kWave == 3
=============================================================================
