------------------------------- MODULE MCPlay -------------------------------
(***************************************************************************)
(* Properties of what a user does and sees, and the values TLC checks them *)
(* with.                                                                   *)
(***************************************************************************)
EXTENDS Play

At(x, y) == [x |-> x, y |-> y]

\* The unit is 75 pixels; the screen is smaller than the code's.
MCBox ==
  (kPlayer :> [width |-> 2, height |-> 1]) @@ (kEnemy :> [width |-> 2, height |-> 1])
    @@ (kBullet :> [width |-> 1, height |-> 1])
MCLines == [slow |-> 4, wave |-> 2, top |-> 1, bottom |-> 2]
MCSpawnPoint == At(1, 1)
\* To the right of where Me appears, across a corner, and a step away.
MCOtherPoints == {At(3, 1), At(3, 2), At(4, 1)}
MCEnemyPoints == {At(5, 1)}
MCMuzzle == At(1, 0)
MCChords == {{"right", "down"}, {"left", "up"}, {"left"}, {"up"}, {"space"}}

\* Play; the first room; Start (the eighth room would be there too); Create.
MCSpots == {At(800, 300), At(400, 400), At(750, 540), At(1500, 350)}

Shown == DOMAIN client.shown

(***************************************************************************)
(* Shapes; the user's packets wait one frame at most, and one at a time.   *)
(***************************************************************************)
TypeOK ==
  /\ server.rooms \in 1..(LastId + 1)
  /\ server.home \in 0..(server.rooms - 1) \cup {NoRoom}
  /\ server.next \in 0..MaxEntities
  /\ server.state \in {GameLobby, GameRunning, GameOver}
  /\ client.menu \in {MenuHome, MenuJoin, MenuLobby}
  /\ client.game \in {GameMenu, GameLobby, GameRunning, GameOver}
  /\ Len(client.queue) <= 1
  /\ Shown \subseteq 0..(server.next - 1)

(***************************************************************************)
(* Two players that do not overlap never come to, whichever way each of    *)
(* them moves (handlePlayerHorizontalMovement, handlePlayerVerticalMovement*)
(* and findCollider).  Players are put on the same place when they join.   *)
(***************************************************************************)
Overlapping(set, a, b) == Collide(Get(set, a).x, Get(set, a).y, kPlayer, Get(set, b))

PlayersStayApart ==
  [][\A s \in Players, t \in Players :
       LET a == server.players[s]
           b == server.players[t]
       IN  a # b /\ ~Overlapping(server.set, a, b) => ~Overlapping(server'.set, a, b)]_server

(***************************************************************************)
(* A held key does not repeat: the server has at most one bullet for every *)
(* time the user pressed space, whatever is lost (IO::apply, spawnBullet). *)
(***************************************************************************)
ShotsArePresses == seen.shots <= seen.presses

(***************************************************************************)
(* A user who keeps clicking asks for a room in every frame, and for a new *)
(* one if it is at Create: it gets one room and one entity, for good.  A   *)
(* lobby is created only for a session that is let into it, except the one *)
(* with the last id, which is created once, for a session that is refused  *)
(* (joinRoom, createLobby, Lobby::join).                                   *)
(***************************************************************************)
OneRoomForGood ==
  [][/\ server.home # NoRoom => UNCHANGED <<server.home, server.rooms, server.players>>
     /\ server'.rooms # server.rooms =>
          /\ server'.rooms = server.rooms + 1
          /\ server'.home = IF server.rooms = LastId THEN NoRoom ELSE server.rooms]_server

\* The UPDATE_POSITION packets of an entity that are on their way.
Updating(id) == \E i \in DOMAIN down : down[i].kind = "UPDATE_POSITION" /\ down[i].entity.id = id

(***************************************************************************)
(* Once no update is on its way, the client draws an entity towards the    *)
(* place where the server has it, unless an update of it was lost or came  *)
(* late, or made it jump (isUpdated, handleUpdatePosition).                *)
(***************************************************************************)
TargetIsPosition ==
  \A id \in (Shown \cap DOMAIN server.set.sparse) \ seen.missed :
    ~Updating(id) =>
      /\ client.shown[id].tx = Get(server.set, id).x
      /\ client.shown[id].ty = Get(server.set, id).y

\* An entity is where the server has it.
InPlace(id) ==
  id \in Shown \cap DOMAIN server.set.sparse =>
    client.shown[id].x = Get(server.set, id).x /\ client.shown[id].y = Get(server.set, id).y

(***************************************************************************)
(* When the user is done, the players end up, and stay, where the server   *)
(* has them, except those of TargetIsPosition (Interpolation).  An enemy   *)
(* never rests: off the screen it flies on.                                *)
(***************************************************************************)
ShownSettles ==
  <>[](\A id \in 0..(MaxEntities - 1) :
         id \in seen.missed \/ id \in Enemies(server.set) \/ InPlace(id))

Bullets == {id \in DOMAIN server.set.sparse : Get(server.set, id).type = kBullet}

(***************************************************************************)
(* No bullet flies for ever: it meets an enemy, or leaves the screen, and  *)
(* is removed (ApplyMovement, BroadcastDeadEntities), unless an enemy or a *)
(* player has left the screen, and the match is not followed to that point.*)
(***************************************************************************)
BulletsLeave ==
  []<>(Bullets = {}
         \/ \E id \in DOMAIN server.set.sparse \ Bullets : ~Near(Get(server.set, id)))
=============================================================================
