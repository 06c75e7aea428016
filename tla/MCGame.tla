------------------------------- MODULE MCGame -------------------------------
(***************************************************************************)
(* Properties of a match and of its replica, and the values TLC checks     *)
(* them with.                                                              *)
(***************************************************************************)
EXTENDS Game, FiniteSets

\* A wave of two groups, and one that is cheaper.
MCWavePool ==
  << [cost |-> 1, weight |-> 50, interval |-> 1, counts |-> <<1>>],
     [cost |-> 2, weight |-> 20, interval |-> 0, counts |-> <<1, 1>>] >>

(***************************************************************************)
(* Shapes.                                                                 *)
(***************************************************************************)
TypeOK ==
  /\ lobby.state \in {GameWaiting, GameLobby, GameRunning, GameOver}
  /\ DOMAIN lobby.players \subseteq Sessions
  /\ lobby.fate \in {"running", "no entity", "no position"}
  /\ client.state \in {GameMenu, GameLobby, GameRunning, GameOver}
  /\ client.fate \in {"running", "unknown entity", "underflow"}
  /\ Troubles \in 0..MaxFaults
  /\ unheard \subseteq 0..(lobby.world.next - 1)

------------------------------------------------------------------------------
(* The storage of the ECS.                                                 *)

\* Every bit that is on in a is on in b.
Within(a, b) == \A k \in DOMAIN a : a[k] = {} \/ (k \in DOMAIN b /\ a[k] \subseteq b[k])

(***************************************************************************)
(* In the server's world and in the client's, whatever was registered,     *)
(* swapped into a gap and destroyed: each component has a bit of its own,  *)
(* across the blocks of the masks, an entity's bit is on exactly if the    *)
(* component's sparse set has the entity, no set knows an entity that is   *)
(* gone, and no id is ahead of the counter (registerComponent,             *)
(* insertComponentInstance, destroyEntity, put, remove).                   *)
(***************************************************************************)
StorageAgrees ==
  \A w \in {lobby.world, client.world} :
    /\ \A c \in Components(w) :
         /\ \A d \in Components(w) \ {c} : ~Within(w.masks[c], w.masks[d])
         /\ Consistent(w.sets[c])
         /\ DOMAIN w.sets[c].sparse = {id \in Entities(w) : Within(w.masks[c], w.entities[id])}
    /\ \A id \in Entities(w) : id < w.next

------------------------------------------------------------------------------
(* The replica.                                                            *)

(***************************************************************************)
(* An entity that both sides have is the same on both: the mask that was   *)
(* serialized, the bytes of the components and the creators of the factory *)
(* line up, whichever packet brought it and whatever the two worlds went   *)
(* through (getEntityInfos, Spawn and WorldInit, Factory::apply).          *)
(***************************************************************************)
EntitiesDecoded ==
  \A id \in DOMAIN client.binding \cap Entities(lobby.world) :
    \A c \in {"MoveSet", "Owner", "Type"} :
      LET real == client.binding[id] IN
      /\ HasComponent(client.world, real, c) <=> HasComponent(lobby.world, id, c)
      /\ HasComponent(lobby.world, id, c) =>
           Component(client.world, real, c) = Component(lobby.world, id, c)

(***************************************************************************)
(* A player has, or is going to get, every entity of its lobby, those from *)
(* before it joined included (join, spawnEntity, handleSpawn): SPAWN and   *)
(* WORLD_INIT are reliable, and a DESTROY that comes early removes nothing *)
(* that lives.                                                             *)
(***************************************************************************)
NobodyMissed ==
  Me \in DOMAIN lobby.players /\ client.fate = "running" =>
    \A id \in Entities(lobby.world) : id \in DOMAIN client.binding \/ Expected(id)

(***************************************************************************)
(* What the client shows of the dead, it shows until the DESTROY arrives,  *)
(* or for ever because the DESTROY was lost, came before the entity, or    *)
(* was not sent to a session that was no player at the time (killEntity,   *)
(* restart, leave, clearEcs).                                              *)
(***************************************************************************)
GhostsExplained ==
  lobby.fate = "running" =>
    \A id \in DOMAIN client.binding \ Entities(lobby.world) :
      id \in unheard \/ \E i \in DOMAIN wire : wire[i] = Destroy(id)

\* The packets that set the game state of the client.
TellsState(p) == p.kind \in {"JOIN_ACK", "WORLD_INIT", "UPDATE_GAME_STATE"}

(***************************************************************************)
(* Once all that was sent has arrived, and nothing came late, the client   *)
(* of a player is in the game state of its lobby.  (These packets are      *)
(* reliable but not ordered: one that is late can leave the client in the  *)
(* menu of a running game.)                                                *)
(***************************************************************************)
StateKnownUnlessLate ==
  /\ Me \in DOMAIN lobby.players /\ client.fate = "running" /\ faults.late = 0
  /\ \A i \in DOMAIN wire : ~TellsState(wire[i])
  => client.state = lobby.state

(***************************************************************************)
(* Only a JOIN_ACK ends the client (handleJoinAck's at()): one that        *)
(* refuses, with an id 0 that is no entity the client has, or one that     *)
(* comes before the SPAWN of its entity or after its DESTROY, for which a  *)
(* packet must have been late.  A content always holds what its mask says  *)
(* (Factory::apply's reads).                                               *)
(***************************************************************************)
ClientEndsOnlyByJoinAck ==
  [][client'.fate # client.fate =>
       /\ client'.fate = "unknown entity"
       /\ Head(wire).kind = "JOIN_ACK"
       /\ Head(wire).status = Refused \/ faults.late > 0]_client

\* The lobby and the client of Me implement the abstract replica.
R == INSTANCE Replica WITH
       created <- 0..(lobby.world.next - 1),
       alive <- Entities(lobby.world),
       shown <- DOMAIN client.binding

(***************************************************************************)
(* The client is shown only what was created, nothing disappears from it   *)
(* that lives, and ids are never given twice (registerEntity, handleSpawn, *)
(* handleDestroy, serverToClient).                                         *)
(***************************************************************************)
ImplementsReplica == R!Spec

------------------------------------------------------------------------------
(* The lobby.                                                              *)

(***************************************************************************)
(* A wave is in a group it has, with fewer enemies spawned than the group  *)
(* counts, until it is finished; a finished one spawns no more, and no     *)
(* wave was paid with credits the director did not have (update,           *)
(* getPickedWaves).                                                        *)
(***************************************************************************)
WavesInRange ==
  /\ lobby.director.credits >= 0
  /\ \A i \in DOMAIN lobby.director.waves :
       LET wave == lobby.director.waves[i]
           counts == WavePool[wave.archetype].counts
       IN  IF wave.finished THEN wave.group = Len(counts) + 1
           ELSE wave.group \in DOMAIN counts /\ wave.spawned < counts[wave.group]

(***************************************************************************)
(* The only way a match ends the server's process is that the sweep of the *)
(* dead killed an entity it should not have: otherwise every player has an *)
(* entity with a State for restart() and a Position for the director, in   *)
(* any order of joins, leaves, starts and ticks.                           *)
(***************************************************************************)
LobbyFailsOnlyByWrongKill == lobby.fate # "running" => lobby.wronged
=============================================================================
