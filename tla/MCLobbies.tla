------------------------------ MODULE MCLobbies ------------------------------
(***************************************************************************)
(* Properties of the lobbies and their manager.                            *)
(***************************************************************************)
EXTENDS Lobbies

States == {Waiting, Open, Running, Over}
Actions == {"join", "leave", "start", "input"} \X Sessions

(***************************************************************************)
(* Shapes.  Only players are alive, a lobby that was never created has no  *)
(* players and no thread, and Manager::update never destroys lobby 0.      *)
(***************************************************************************)
TypeOK ==
  /\ manager.next \in 1..(LastId + 1)
  /\ 0 \in manager.lobbies /\ manager.lobbies \subseteq 0..(manager.next - 1)
  /\ manager.lookup \in [Sessions -> 0..(manager.next - 1) \cup {NoLobby}]
  /\ \A id \in Ids :
       /\ room[id].alive \subseteq room[id].players /\ room[id].players \subseteq Sessions
       /\ room[id].state \in States
       /\ \A i \in DOMAIN room[id].queue : room[id].queue[i] \in Actions
       /\ id >= manager.next => room[id] = NewRoom
  /\ main.index \in 0..LastId

(***************************************************************************)
(* Whether s is one of the players once a lobby with these players has run *)
(* this queue: the last join or leave of s in it decides.                  *)
(***************************************************************************)
PlaysAfter(queue, players, s) ==
  \/ \E i \in DOMAIN queue :
       /\ queue[i] = <<"join", s>>
       /\ \A j \in DOMAIN queue : j > i => queue[j] # <<"leave", s>>
  \/ /\ s \in players
     /\ \A i \in DOMAIN queue : queue[i] # <<"leave", s>>

(***************************************************************************)
(* The manager's lookup and the lobbies agree, up to what the queues hold: *)
(* a session is looked up in a lobby exactly if it plays there or will, so *)
(* in one lobby at most (joinRoom, leaveRoom, and the actions they queue). *)
(***************************************************************************)
LookupAgrees ==
  \A s \in Sessions, id \in Ids :
    manager.lookup[s] = id <=> PlaysAfter(room[id].queue, room[id].players, s)

(***************************************************************************)
(* The input of a session is run only while the session has a player, so   *)
(* handleUserInput never asks for the value of an absent id: an input      *)
(* cannot overtake the JOIN, nor be left behind by the leave, of its own   *)
(* session.                                                                *)
(***************************************************************************)
InputsFindTheirPlayer == fate # "no player"

(***************************************************************************)
(* A connected player is told of every change of the game state of its     *)
(* lobby, and of no other's: the last JOIN_ACK or UPDATE_GAME_STATE for it *)
(* holds the state its lobby is in (join, changeGameState, run).           *)
(***************************************************************************)
PlayersKnowTheState ==
  \A id \in Ids : \A s \in room[id].players :
    link[s] = "up" => LastTold(s) = <<[id |-> id, state |-> room[id].state]>>

(***************************************************************************)
(* No lobby runs for nobody: one without a player is stopped, or a player  *)
(* is about to join it (leave stops it in the step that empties it).  The  *)
(* exceptions are lobby 0 and the lobby with the highest id, which         *)
(* joinRoom creates for a session that it then refuses.                    *)
(***************************************************************************)
EmptyLobbiesStop ==
  \A id \in 1..(LastId - 1) :
    room[id].running /\ room[id].players = {} =>
      \E s \in Sessions : \E i \in DOMAIN room[id].queue : room[id].queue[i] = <<"join", s>>

\* The orders in which an unordered_map may hold these keys.
Orders(keys) ==
  {f \in [1..Cardinality(keys) -> keys] : \A key \in keys : \E i \in DOMAIN f : f[i] = key}

(***************************************************************************)
(* When a LOBBY_LIST may be dispatched: a client that asks for one page    *)
(* after the other, as many as the answers say there are, is told of every *)
(* lobby, on one page.  Also when the lobbies fill their pages exactly,    *)
(* whichever of them were reaped (getLobbiesId, getLobbiesMaxPage).        *)
(***************************************************************************)
EveryLobbyIsListed ==
  main.pc = "events" =>
    \A keys \in Orders(manager.lobbies) : \A id \in manager.lobbies :
      \E p \in 0..(LobbiesMaxPage - 1) : \A q \in 0..LobbiesMaxPage :
        LET ids == LobbyListAck(keys, q).roomIds
        IN  (\E i \in DOMAIN ids : ids[i] = id) <=> q = p

(***************************************************************************)
(* A lobby that stops leaves the map, unless the server ends before        *)
(* (Manager::update).  Stated of the lobbies a session is let into when it *)
(* creates them; lobby 0 never stops.                                      *)
(***************************************************************************)
StoppedIsReaped ==
  \A id \in 1..(LastId - 1) :
    (id \in manager.lobbies /\ ~room[id].running)
      ~> (id \notin manager.lobbies \/ fate # "running")

(***************************************************************************)
(* Nobody stays in a game after its session ended: the players of a        *)
(* session that is disconnected disappear, unless a JOIN of it was         *)
(* dispatched after its onDisconnect.                                      *)
(***************************************************************************)
GhostsVanish ==
  \A s \in Sessions :
    link[s] = "down" ~>
      (\/ link[s] = "late" \/ fate # "running"
       \/ \A id \in Ids : s \in room[id].players => room[id].thread = "ended")

(***************************************************************************)
(* What the subject demands of the server: it "run[s] regardless of what's *)
(* wrong".  No sequence of packets and disconnections ends the process, by *)
(* an exception that nobody catches or a lobby destroyed under its thread. *)
(***************************************************************************)
ServerStaysUp == fate = "running"
==============================================================================
