------------------------------- MODULE Lobbies -------------------------------
(***************************************************************************)
(* The game server above rtnt: the lobby Manager, the lobbies, and the     *)
(* main loop of App.  The main thread sends what the lobbies queued for    *)
(* the players (pc "send"), reaps the lobbies that have stopped ("reap"),  *)
(* and dispatches what Server::update hands it ("events").  Each lobby has *)
(* a thread of its own, which runs the queued actions ("actions") and then *)
(* the ticks that are due ("ticks"), for as long as the lobby is running.  *)
(*                                                                         *)
(* What a lobby's engine computes is left out but for the players, which   *)
(* of them are alive, and the game state; of the packets, those that tell  *)
(* a player the game state are kept.                                       *)
(***************************************************************************)
EXTENDS Integers, Sequences, FiniteSets

CONSTANTS
  Sessions,   (* The sessions of the rtnt server.                          *)
  LastId,     (* The highest id a lobby gets: 255 in the code.             *)
  PageSize,   (* The lobbies on one page of a list: 20 in the code.        *)
  MaxPackets  (* Bound: packets of clients that are dispatched.            *)

ASSUME LastIdAssumption == LastId \in Nat \ {0}
ASSUME PageSizeAssumption == PageSize \in Nat \ {0}
ASSUME MaxPacketsAssumption == MaxPackets \in Nat

Ids == 0..LastId

NoLobby == -1   \* a session that is not in _playerLookup

Waiting == "GameWaiting"
Open    == "GameLobby"
Running == "GameRunning"
Over    == "GameOver"

VARIABLES
  manager,   \* Manager: the keys of _lobbies, _playerLookup, nbLobbies
  room,      \* room[id]: the Lobby object with that id, and where its thread is
  outgoing,  \* the queue of packets from the lobbies to the main thread
  main,      \* where the main thread is, and the index of Manager::update
  link,      \* link[s]: "up", "down" after onDisconnect, "late" when a JOIN came after it
  packets,   \* packets dispatched so far
  told,      \* history variable: told[s], the last lobby and game state sent to s while up
  fate       \* "running", or why the process ended

vars == <<manager, room, outgoing, main, link, packets, told, fate>>

NewRoom ==
  [players |-> {}, alive |-> {}, state |-> Waiting, queue |-> << >>,
   running |-> FALSE, thread |-> "none"]

\* The constructor and Lobby::start.
Started == [NewRoom EXCEPT !.running = TRUE, !.thread = "actions"]

\* App's constructor creates lobby 0.
Init ==
  /\ manager = [lobbies |-> {0}, lookup |-> [s \in Sessions |-> NoLobby], next |-> 1]
  /\ room = [id \in Ids |-> IF id = 0 THEN Started ELSE NewRoom]
  /\ outgoing = << >>
  /\ main = [pc |-> "send", index |-> 0]
  /\ link = [s \in Sessions |-> "up"]
  /\ packets = 0
  /\ told = [s \in Sessions |-> << >>]
  /\ fate = "running"

\* A lobby that Manager::update destroyed.
Freed(id) == id < manager.next /\ id \notin manager.lobbies

------------------------------------------------------------------------------
(* The thread of a lobby.  A lobby that was destroyed under its thread is  *)
(* undefined behaviour: the thread goes on in memory that nobody has       *)
(* written to yet, or the process crashes (UseAfterFree).                  *)

\* The packets that tell the sessions in to the state of lobby id.
Tell(to, id, state) == IF to = {} THEN << >> ELSE <<[to |-> to, id |-> id, state |-> state]>>

Step(id, r, sent) ==
  /\ room' = [room EXCEPT ![id] = r]
  /\ outgoing' = outgoing \o sent
  /\ UNCHANGED <<manager, main, link, packets, told, fate>>

\* The action join() queues, as the lobby after it and what it sends.
Joined(id, r, s) ==
  LET state == IF r.state = Waiting THEN Open ELSE r.state
      opened == IF r.state = Waiting THEN Tell(r.players, id, Open) ELSE << >>
  IN  IF s \in r.players THEN <<r, << >>>>
      ELSE <<[r EXCEPT !.players = @ \cup {s}, !.state = state],
             opened \o Tell({s}, id, state)>>

\* Mutant: an empty lobby goes on.
LeftOpen(id, r, s) == [r EXCEPT !.players = @ \ {s}, !.alive = @ \ {s}]

\* Mutant: a player who left still counts as alive.
LeftAlive(id, r, s) ==
  LET rest == r.players \ {s}
      gone == [r EXCEPT !.players = rest]
  IN  IF s \notin r.players \/ rest # {} THEN gone
      ELSE [gone EXCEPT !.state = Waiting, !.running = @ /\ id = 0]

\* The action leave() queues: the last player closes a lobby that is not lobby 0.
Left(id, r, s) ==
  LET rest == r.players \ {s}
      gone == [r EXCEPT !.players = rest, !.alive = @ \ {s}]
  IN  IF s \notin r.players \/ rest # {} THEN gone
      ELSE [gone EXCEPT !.state = Waiting, !.running = @ /\ id = 0]

\* restart(): every player is alive.
Restarted(r, state) == [r EXCEPT !.state = state, !.alive = r.players]

\* The lobby after one queued action, and what it sends.
Perform(id, r, action) ==
  CASE action[1] = "join"  -> Joined(id, r, action[2])
    [] action[1] = "leave" -> <<Left(id, r, action[2]), << >>>>
    [] action[1] = "start" -> <<Restarted(r, Running), Tell(r.players, id, Running)>>
    [] OTHER               -> <<r, << >>>>

\* A user input of a session without a player: getPlayerId(session).value() throws.
Throws(r, action) == action[1] = "input" /\ action[2] \notin r.players

\* while (_actionQueue.pop(...))
Act(id) ==
  LET r == room[id]
      action == Head(r.queue)
      done == Perform(id, [r EXCEPT !.queue = Tail(@)], action)
  IN  /\ fate = "running"
      /\ r.thread = "actions"
      /\ r.queue # << >>
      /\ IF Throws(r, action)
         THEN fate' = "no player" /\ UNCHANGED <<manager, room, outgoing, main, link, packets, told>>
         ELSE Step(id, done[1], done[2])

ActionsDone(id) ==
  /\ fate = "running"
  /\ room[id].thread = "actions"
  /\ room[id].queue = << >>
  /\ Step(id, [room[id] EXCEPT !.thread = "ticks"], << >>)

\* Mutant: the players are not told that the game is over.
TickSilently(id, dead) ==
  LET r == room[id] IN
  /\ fate = "running"
  /\ r.thread = "ticks"
  /\ dead \subseteq r.alive
  /\ IF r.state = Running /\ r.alive = {}
     THEN dead = {} /\ Step(id, Restarted(r, Over), << >>)
     ELSE /\ r.state = Running /\ dead # {}
          /\ Step(id, [r EXCEPT !.alive = @ \ dead], << >>)

(***************************************************************************)
(* A tick: the game is over once nobody is alive, and starts anew; while   *)
(* it runs, the players in dead may hit something.                         *)
(***************************************************************************)
Tick(id, dead) ==
  LET r == room[id] IN
  /\ fate = "running"
  /\ r.thread = "ticks"
  /\ dead \subseteq r.alive
  /\ IF r.state = Running /\ r.alive = {}
     THEN dead = {} /\ Step(id, Restarted(r, Over), Tell(r.players, id, Over))
     ELSE /\ r.state = Running /\ dead # {}
          /\ Step(id, [r EXCEPT !.alive = @ \ dead], << >>)

\* Back to while (_isRunning), which nothing but the actions of this thread resets.
TicksDone(id) ==
  /\ fate = "running"
  /\ room[id].thread = "ticks"
  /\ Step(id, [room[id] EXCEPT !.thread = IF room[id].running THEN "actions" ELSE "ended"], << >>)

UseAfterFree(id) ==
  /\ fate = "running"
  /\ Freed(id)
  /\ room[id].thread # "ended"
  /\ fate' = "freed lobby"
  /\ UNCHANGED <<manager, room, outgoing, main, link, packets, told>>

LobbyThread(id) == Act(id) \/ ActionsDone(id) \/ TicksDone(id)

------------------------------------------------------------------------------
(* The main thread: packets to the players, and the lobbies that stopped.  *)

\* The last packet of the queue to s, or what s was told before.
LastTold(s) ==
  LET mine == {i \in DOMAIN outgoing : s \in outgoing[i].to}
  IN  IF mine = {} THEN told[s]
      ELSE LET last == CHOOSE i \in mine : \A j \in mine : j <= i
           IN  <<[id |-> outgoing[last].id, state |-> outgoing[last].state]>>

\* while (_outGoing.pop(...)): everything the queue holds by now.
Send ==
  /\ fate = "running"
  /\ main.pc = "send"
  /\ outgoing # << >>
  /\ outgoing' = << >>
  /\ told' = [s \in Sessions |-> IF link[s] = "up" THEN LastTold(s) ELSE << >>]
  /\ UNCHANGED <<manager, room, main, link, packets, fate>>

SendDone ==
  /\ fate = "running"
  /\ main.pc = "send"
  /\ outgoing = << >>
  /\ main' = [pc |-> "reap", index |-> Cardinality(manager.lobbies) - 1]
  /\ UNCHANGED <<manager, room, outgoing, link, packets, told, fate>>

\* Mutant: a lobby that stopped is stopped again but stays in the map.
ReapNever ==
  /\ fate = "running"
  /\ main.pc = "reap" /\ main.index > 0
  /\ main' = [main EXCEPT !.index = @ - 1]
  /\ UNCHANGED <<manager, room, outgoing, link, packets, told, fate>>

(***************************************************************************)
(* One turn of the loop in Manager::update: it takes the position for the  *)
(* id, so at(i) throws when a lower id has left the map.  stop() returns   *)
(* at once since the lobby does not run, and the lobby is destroyed.       *)
(***************************************************************************)
Reap ==
  LET id == main.index IN
  /\ fate = "running"
  /\ main.pc = "reap" /\ id > 0
  /\ IF id \notin manager.lobbies
     THEN fate' = "no lobby" /\ UNCHANGED <<manager, main>>
     ELSE /\ manager' = IF room[id].running THEN manager
                        ELSE [manager EXCEPT !.lobbies = @ \ {id}]
          /\ main' = [main EXCEPT !.index = @ - 1]
          /\ UNCHANGED fate
  /\ UNCHANGED <<room, outgoing, link, packets, told>>

ReapDone ==
  /\ fate = "running"
  /\ main.pc = "reap" /\ main.index = 0
  /\ main' = [main EXCEPT !.pc = "events"]
  /\ UNCHANGED <<manager, room, outgoing, link, packets, told, fate>>

------------------------------------------------------------------------------
(* The main thread: what Server::update dispatches.  Connection says in    *)
(* which order: a packet may still come after onDisconnect.                *)

Dispatch ==
  /\ fate = "running"
  /\ main.pc = "events"
  /\ packets < MaxPackets
  /\ packets' = packets + 1

\* Lobby::pushTask on lobby id, of the rooms in rooms.
Pushed(rooms, id, action) == [rooms EXCEPT ![id].queue = Append(@, action)]

\* joinRoom: a late JOIN is served like any other.
Late(s) == link' = [link EXCEPT ![s] = IF @ = "down" THEN "late" ELSE @]

\* Mutant: a session that is in a lobby may join another.
JoinRoomAgain(s, id) ==
  /\ Dispatch
  /\ id \in manager.lobbies
  /\ room' = Pushed(room, id, <<"join", s>>)
  /\ manager' = [manager EXCEPT !.lookup[s] = id]
  /\ Late(s)
  /\ UNCHANGED <<outgoing, main, told, fate>>

\* Manager::joinRoom of a lobby that exists (a room that does not exist is no answer at all).
JoinRoom(s, id) ==
  /\ Dispatch
  /\ manager.lookup[s] = NoLobby
  /\ id \in manager.lobbies
  /\ room' = Pushed(room, id, <<"join", s>>)
  /\ manager' = [manager EXCEPT !.lookup[s] = id]
  /\ Late(s)
  /\ UNCHANGED <<outgoing, main, told, fate>>

(***************************************************************************)
(* Manager::joinRoom of a new lobby.  The lobby with the highest id is     *)
(* created and started, but the session is refused as when there is none.  *)
(***************************************************************************)
JoinNewRoom(s) ==
  LET id == manager.next
      created == id <= LastId
      refused == id >= LastId
      rooms == IF created THEN [room EXCEPT ![id] = Started] ELSE room
  IN
  /\ Dispatch
  /\ manager.lookup[s] = NoLobby
  /\ manager' = [lobbies |-> IF created THEN manager.lobbies \cup {id} ELSE manager.lobbies,
                 lookup  |-> IF refused THEN manager.lookup ELSE [manager.lookup EXCEPT ![s] = id],
                 next    |-> IF created THEN id + 1 ELSE id]
  /\ room' = IF refused THEN rooms ELSE Pushed(rooms, id, <<"join", s>>)
  /\ outgoing' = IF refused THEN outgoing \o Tell({s}, 0, "GameMenu") ELSE outgoing
  /\ Late(s)
  /\ UNCHANGED <<main, told, fate>>

\* Manager::pushActionToLobby, for a START or a USER_INPUT: ignored outside a lobby.
PushAction(s, kind) ==
  LET id == manager.lookup[s] IN
  /\ Dispatch
  /\ id # NoLobby
  /\ room' = Pushed(room, id, <<kind, s>>)
  /\ UNCHANGED <<manager, outgoing, main, link, told, fate>>

\* Mutant: the session stays in _playerLookup.
DisconnectKeepingLookup(s) ==
  LET id == manager.lookup[s] IN
  /\ fate = "running"
  /\ main.pc = "events"
  /\ link[s] = "up"
  /\ told' = [told EXCEPT ![s] = << >>]
  /\ link' = [link EXCEPT ![s] = "down"]
  /\ room' = IF id = NoLobby THEN room ELSE Pushed(room, id, <<"leave", s>>)
  /\ UNCHANGED <<manager, outgoing, main, packets, fate>>

\* Mutant: the lobby is not asked to remove the player.
DisconnectWithoutLeave(s) ==
  /\ fate = "running"
  /\ main.pc = "events"
  /\ link[s] = "up"
  /\ told' = [told EXCEPT ![s] = << >>]
  /\ link' = [link EXCEPT ![s] = "down"]
  /\ manager' = [manager EXCEPT !.lookup[s] = NoLobby]
  /\ UNCHANGED <<room, outgoing, main, packets, fate>>

\* onDisconnect: Manager::leaveRoom.
Disconnect(s) ==
  LET id == manager.lookup[s] IN
  /\ fate = "running"
  /\ main.pc = "events"
  /\ link[s] = "up"
  /\ told' = [told EXCEPT ![s] = << >>]
  /\ link' = [link EXCEPT ![s] = "down"]
  /\ room' = IF id = NoLobby THEN room ELSE Pushed(room, id, <<"leave", s>>)
  /\ manager' = [manager EXCEPT !.lookup[s] = NoLobby]
  /\ UNCHANGED <<outgoing, main, packets, fate>>

\* A push to a lobby that was destroyed may crash the process instead.
PushToFreed(s) ==
  LET id == manager.lookup[s] IN
  /\ fate = "running"
  /\ main.pc = "events"
  /\ id # NoLobby /\ Freed(id)
  /\ link[s] = "up" \/ packets < MaxPackets
  /\ fate' = "freed lobby"
  /\ UNCHANGED <<manager, room, outgoing, main, link, packets, told>>

\* Mutant: the lobbies of a page that is not full are not counted.
LobbiesMaxPageFull == Cardinality(manager.lobbies) \div PageSize

LobbiesMaxPage == Cardinality(manager.lobbies) \div PageSize + 1

\* getLobbiesId, with the keys of the unordered_map in the order they have now.
LobbiesId(keys, page) ==
  LET offset == page * PageSize
      size == IF Len(keys) < offset + PageSize THEN Len(keys) - offset ELSE PageSize
  IN  [i \in 1..size |-> keys[offset + i]]

\* The answer to a LOBBY_LIST, which any session may ask for at any time and which changes nothing.
LobbyListAck(keys, page) ==
  [roomIds |-> LobbiesId(keys, page), page |-> page, maxPage |-> LobbiesMaxPage]

EventsDone ==
  /\ fate = "running"
  /\ main.pc = "events"
  /\ main' = [main EXCEPT !.pc = "send"]
  /\ UNCHANGED <<manager, room, outgoing, link, packets, told, fate>>

MainLoop == Send \/ SendDone \/ Reap \/ ReapDone \/ EventsDone

------------------------------------------------------------------------------

Next ==
  \/ MainLoop
  \/ \E s \in Sessions :
       \/ \E id \in Ids : JoinRoom(s, id)
       \/ JoinNewRoom(s)
       \/ \E kind \in {"start", "input"} : PushAction(s, kind)
       \/ Disconnect(s)
       \/ PushToFreed(s)
  \/ \E id \in Ids :
       \/ LobbyThread(id)
       \/ \E dead \in SUBSET Sessions : Tick(id, dead)
       \/ UseAfterFree(id)

Spec == Init /\ [][Next]_vars

(***************************************************************************)
(* Every thread is scheduled: the main loop goes round, and so does each   *)
(* lobby's, whose catching up on ticks ends.  Nothing is assumed of the    *)
(* clients.                                                                *)
(***************************************************************************)
Fairness ==
  /\ WF_vars(MainLoop)
  /\ \A id \in Ids : WF_vars(LobbyThread(id))

FairSpec == Spec /\ Fairness
==============================================================================
