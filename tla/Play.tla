-------------------------------- MODULE Play --------------------------------
(***************************************************************************)
(* A user at the client: keys, mouse, menus and the frames of App::run,    *)
(* what they make the server do, and what the client then shows of where   *)
(* the entities are.  Me is the session of that user.  Another player has  *)
(* joined the first lobby before and is somewhere in it; it sends nothing  *)
(* but USER_INPUT, it does not shoot, and it rests until Me joins.         *)
(*                                                                         *)
(* Left out: the creation of entities out of their components (Game), when *)
(* enemies come (LevelDirector), the threads of the server (Lobbies): a    *)
(* packet that is served has gone through the lobby's queue.  A reliable   *)
(* packet is neither lost nor late here (Game has what follows if it is).  *)
(***************************************************************************)
EXTENDS Movement

CONSTANTS
  Me, Other,     (* The sessions.                                           *)
  LastId,        (* The highest id a lobby gets: 255 in the code.           *)
  Rooms,         (* How many lobbies there may be at first: 0 and others,   *)
                 (* which are other people's.                               *)
  Spots,         (* The points of the screen the mouse is clicked at.       *)
  Chords,        (* The keys that are pressed together: sets of up, down,   *)
                 (* left, right, space.                                     *)
  SpawnPoint,    (* Where players appear.                                   *)
  OtherPoints,   (* Where the other player may be when all this begins.     *)
  EnemyPoints,   (* Where enemies appear.                                   *)
  MoveSets,      (* The patterns of enemies.                                *)
  Slopes,        (* What the cosines may give.                              *)
  Muzzle,        (* Where a bullet appears, from its player.                *)
  Speed,         (* Of a player, and half that of a bullet.                 *)
  Far,           (* A client that is further behind jumps.                  *)
  Smooth,        (* A frame goes one Smooth-th of the way.                  *)
  Margin,        (* Bound: how far off the screen a body is followed.       *)
  MaxEntities,   (* Bound: entities the lobby registers.                    *)
  MaxClicks,     (* Bound: frames with the mouse button down.               *)
  MaxInputs,     (* Bound: frames with a key down, and inputs of the other. *)
  MaxUp,         (* Bound: packets on their way to the server.              *)
  MaxDown,       (* Bound: packets on their way to Me when the lobby steps. *)
  MaxFaults      (* Bound: packets that are lost or late.                   *)

ASSUME RoomsAssumption == LastId \in 0..255 /\ Rooms \subseteq 1..(LastId + 1)

ASSUME PlayersAssumption == Me # Other /\ MaxEntities \in Nat \ {0, 1}

ASSUME PointsAssumption ==
  OtherPoints \cup EnemyPoints \cup {SpawnPoint, Muzzle} \cup Spots \subseteq [x : Int, y : Int]

ASSUME SpeedsAssumption ==
  /\ Speed \in Nat /\ Smooth \in Nat \ {0} /\ Slopes \subseteq Int
  /\ MoveSets \subseteq {kStraightSlow, kZigZag, kHover, kWave}

VARIABLES
  server,   \* rooms (how many were created), home (the lobby of Me), and that lobby
  up,       \* packets on their way to the server
  down,     \* packets on their way to Me
  client,   \* client::App
  seen      \* history: clicks, inputs, presses of space, shots of Me, faults, and the
            \* entities whose position on the client is out of date for good (missed)

vars == <<server, up, down, client, seen>>

\* Me has joined none: it is not in _playerLookup.
NoRoom == -1

\* The lobby that Me has joined, or before that the first one.
Players == DOMAIN server.players
BodyOf(s) == Get(server.set, server.players[s])

NewLobby(rooms) ==
  [set |-> EmptySet, next |-> 0, players |-> << >>, state |-> GameLobby,
   rooms |-> rooms, home |-> NoRoom]

\* What join() makes of a lobby.
Joined(lobby, s, at) ==
  [lobby EXCEPT !.set = Placed(@, lobby.next, Body(kPlayer, PlayerWaiting, at.x, at.y, 0, kHover)),
                !.next = @ + 1,
                !.players = With(@, s, lobby.next)]

NewServer(rooms, at) == Joined(NewLobby(rooms), Other, at)

NewClient ==
  [menu |-> MenuHome, game |-> GameMenu, rooms |-> << >>, buttons |-> << >>, queue |-> << >>,
   space |-> FALSE, shown |-> << >>, fate |-> "running"]

Init ==
  /\ \E rooms \in Rooms, at \in OtherPoints : server = NewServer(rooms, at)
  /\ up = << >>
  /\ down = << >>
  /\ client = NewClient
  /\ seen = [clicks |-> 0, inputs |-> 0, presses |-> 0, shots |-> 0, faults |-> 0, missed |-> {}]

------------------------------------------------------------------------------
(* Packets; of an entity, what the client shows.                           *)

Entity(set, id) == LET b == Get(set, id) IN [id |-> id, x |-> b.x, y |-> b.y]

Join(room) == [kind |-> "JOIN", room |-> room]
Start == [kind |-> "START"]
LobbyList == [kind |-> "LOBBY_LIST"]
UserInput(mask) == [kind |-> "USER_INPUT", mask |-> mask]
LobbyListAck(rooms) == [kind |-> "LOBBY_LIST_ACK", rooms |-> rooms]
Spawn(e) == [kind |-> "SPAWN", entity |-> e]
WorldInit(state, es) == [kind |-> "WORLD_INIT", state |-> state, entities |-> es]
JoinAck(id, state) == [kind |-> "JOIN_ACK", id |-> id, state |-> state]
UpdateGameState(state) == [kind |-> "UPDATE_GAME_STATE", state |-> state]
UpdatePosition(e) == [kind |-> "UPDATE_POSITION", entity |-> e]
Destroy(id) == [kind |-> "DESTROY", id |-> id]

\* kFlag: these may be lost, and may be late.
Unreliable(p) == p.kind \in {"JOIN", "START", "USER_INPUT", "UPDATE_POSITION", "DESTROY"}

CreateRoom == 256

------------------------------------------------------------------------------
(* The client: the user.                                                   *)

\* The mouse button is up.
NoSpot == [x |-> -1, y |-> -1]

\* The rectangles of the menus, with those of the rooms in rows of five.
Rectangle(x, y, w, h) == [x |-> x, y |-> y, w |-> w, h |-> h]
PlayButton == Rectangle(710, 240, 500, 150)
StartButton == Rectangle(710, 465, 500, 150)
CreateButton == Rectangle(1300, 300, 500, 150)
RoomButton(i) ==
  Rectangle(310 + (140 + 40) * ((i - 1) % 5), 340 + (116 + 40) * ((i - 1) \div 5), 140, 116)

\* Button::render and LobbyButton::render: as long as the mouse button is down.
Pressed(spot, r) == spot.x >= r.x /\ spot.x < r.x + r.w /\ spot.y >= r.y /\ spot.y < r.y + r.h

\* renderLobbyList: the buttons are made from the first list of rooms that is not empty.
WithButtons(c) == [c EXCEPT !.buttons = IF @ = << >> THEN c.rooms ELSE @]

\* The packets the menu of the client queues in a frame.
Clicked(c, spot) ==
  CASE c.menu = MenuHome -> IF Pressed(spot, PlayButton) THEN <<LobbyList>> ELSE << >>
    [] c.menu = MenuLobby -> IF Pressed(spot, StartButton) THEN <<Start>> ELSE << >>
    [] c.menu = MenuJoin ->
         LET hit == Kept(c.buttons, {i \in DOMAIN c.buttons : Pressed(spot, RoomButton(i))})
         IN  (IF Pressed(spot, CreateButton) THEN <<Join(CreateRoom)>> ELSE << >>)
               \o [k \in DOMAIN hit |-> Join(hit[k])]

\* MenuRenderer::apply
Menus(c, spot) ==
  LET drawn == IF c.menu = MenuJoin THEN WithButtons(c) ELSE c
      clicked == Clicked(drawn, spot)
  IN  IF c.game = GameRunning THEN c
      ELSE [drawn EXCEPT !.queue = @ \o clicked,
                         !.menu = IF clicked = <<LobbyList>> THEN MenuJoin ELSE @]

\* Mutant: space shoots as long as it is down.
MaskWhileDown(c, keys) == keys

\* The input_mask: a direction as long as its key is down, kShoot when space has been pressed.
Mask(c, keys) == IF c.space THEN keys \ {"space"} ELSE keys

\* IO::apply: an empty mask is not sent.
Inputs(c, keys) == IF Mask(c, keys) = {} THEN << >> ELSE <<UserInput(Mask(c, keys))>>

\* Mutant: never quite there.
ApproachedOnly(from, to) ==
  IF from = to THEN from ELSE IF from < to THEN Max({from, to - 1}) ELSE Min({from, to + 1})

\* Interpolation, which snaps to the target once it is close.
Approached(from, to) ==
  IF from <= to THEN to - (((to - from) * (Smooth - 1)) \div Smooth)
  ELSE to + (((from - to) * (Smooth - 1)) \div Smooth)

Interpolated(e) == [e EXCEPT !.x = Approached(@, e.tx), !.y = Approached(@, e.ty)]

\* Mutant: what is sent stays in the queue.
FlushedNothing(c) == c

\* The queue of service::Network once Network::apply has sent it.
Flushed(c) == [c EXCEPT !.queue = << >>]

(***************************************************************************)
(* A frame: the systems in the order of registerAllSystems.  What IO       *)
(* queues is sent in the same frame, what the menus queue in the next.     *)
(* (A click while the game runs would change nothing, and is left out.     *)
(* The user does not choose a lobby of other people.)                      *)
(***************************************************************************)
Frame(keys, spot) ==
  LET moved == [client EXCEPT !.shown = [id \in DOMAIN @ |-> Interpolated(@[id])]]
      sent == client.queue \o Inputs(client, keys)
  IN  /\ client.fate = "running"
      /\ UNCHANGED <<server, down>>
      /\ Len(up) + Len(sent) <= MaxUp
      /\ keys # {} => seen.inputs < MaxInputs
      /\ spot # NoSpot => seen.clicks < MaxClicks /\ client.game # GameRunning
      /\ client' = Menus([Flushed(moved) EXCEPT !.space = "space" \in keys], spot)
      /\ \A i \in DOMAIN client'.queue, room \in 1..LastId : client'.queue[i] # Join(room)
      /\ up' = up \o sent
      /\ seen' = [seen EXCEPT !.inputs = @ + (IF keys # {} THEN 1 ELSE 0),
                              !.clicks = @ + (IF spot # NoSpot THEN 1 ELSE 0),
                              !.presses = @ + (IF "space" \in keys /\ ~client.space THEN 1 ELSE 0)]

------------------------------------------------------------------------------
(* The client: what arrives.                                               *)

\* handleSpawn, with addGraphicalComponents.
Spawned(shown, e) ==
  IF e.id \in DOMAIN shown THEN shown
  ELSE With(shown, e.id, [x |-> e.x, y |-> e.y, tx |-> e.x, ty |-> e.y])

\* handleUpdatePosition: the entity jumps.
Jumps(shown, e) ==
  LET dx == e.x - shown[e.id].x
      dy == e.y - shown[e.id].y
  IN  e.id \in DOMAIN shown /\ dx * dx + dy * dy > Far * Far

\* handleUpdatePosition: an entity that jumps keeps its old target.
Repositioned(shown, e) ==
  IF e.id \notin DOMAIN shown THEN shown
  ELSE IF Jumps(shown, e) THEN [shown EXCEPT ![e.id].x = e.x, ![e.id].y = e.y]
  ELSE [shown EXCEPT ![e.id].tx = e.x, ![e.id].ty = e.y]

Handled(c, p) ==
  CASE p.kind = "LOBBY_LIST_ACK" -> [c EXCEPT !.rooms = p.rooms]
    [] p.kind = "SPAWN" -> [c EXCEPT !.shown = Spawned(@, p.entity)]
    [] p.kind = "WORLD_INIT" ->
         [c EXCEPT !.game = p.state,
                   !.shown = InTurn(LAMBDA shown, i : Spawned(shown, p.entities[i]),
                                    @, Len(p.entities))]
    [] p.kind = "JOIN_ACK" ->
         IF p.id \notin DOMAIN c.shown THEN [c EXCEPT !.fate = "unknown entity"]
         ELSE [c EXCEPT !.game = p.state, !.menu = MenuLobby]
    [] p.kind = "UPDATE_GAME_STATE" -> [c EXCEPT !.game = p.state]
    [] p.kind = "UPDATE_POSITION" -> [c EXCEPT !.shown = Repositioned(@, p.entity)]
    [] p.kind = "DESTROY" -> [c EXCEPT !.shown = [id \in DOMAIN @ \ {p.id} |-> @[id]]]

Jumped(p) ==
  IF p.kind = "UPDATE_POSITION" /\ Jumps(client.shown, p.entity) THEN {p.entity.id} ELSE {}

Deliver ==
  /\ UNCHANGED <<server, up>>
  /\ client.fate = "running"
  /\ down # << >>
  /\ client' = Handled(client, Head(down))
  /\ down' = Tail(down)
  /\ seen' = [seen EXCEPT !.missed = @ \cup Jumped(Head(down))]

------------------------------------------------------------------------------
(* The server: what arrives.                                               *)

\* The lobby becomes next, and its players are sent the packets.
LobbyStep(next, packets) ==
  /\ Len(down) <= MaxDown
  /\ server' = next
  /\ down' = IF Me \in DOMAIN next.players THEN down \o packets ELSE down

\* join() of the lobby that Me is going to be in.
EnteredRoom(s, room) ==
  LET lobby == IF room = 0 THEN s ELSE NewLobby(s.rooms)
      next == [Joined(lobby, Me, SpawnPoint) EXCEPT !.home = room]
      id == lobby.next
      all == [i \in DOMAIN next.set.entities |-> Entity(next.set, next.set.entities[i])]
  IN  LobbyStep(next,
        <<Spawn(Entity(next.set, id)), JoinAck(id, next.state)>>
          \o (IF id # 0 THEN <<WorldInit(next.state, all)>> ELSE << >>))

\* createLobby, up to the last id.
CreatedRoom == IF server.rooms > LastId THEN server ELSE [server EXCEPT !.rooms = @ + 1]

(***************************************************************************)
(* joinRoom of a new lobby.  The one with the last id is created, but its  *)
(* session is refused, as it is when there is no id left.                  *)
(***************************************************************************)
JoinNewRoom ==
  IF server.rooms < LastId THEN EnteredRoom(CreatedRoom, server.rooms)
  ELSE /\ Len(down) <= MaxDown
       /\ server' = CreatedRoom
       /\ down' = Append(down, JoinAck(0, GameMenu))

JoinRoom(room) ==
  IF room < server.rooms THEN EnteredRoom(server, room) ELSE LobbyStep(server, << >>)

\* Mutant: a lobby is created before the session is looked up.
ServeJoinTooLate(room) ==
  IF server.home # NoRoom
  THEN LobbyStep(IF room = CreateRoom THEN CreatedRoom ELSE server, << >>)
  ELSE IF room = CreateRoom THEN JoinNewRoom ELSE JoinRoom(room)

\* Manager::joinRoom; a session that has a lobby stays where it is.
ServeJoin(room) ==
  IF server.home # NoRoom THEN LobbyStep(server, << >>)
  ELSE IF room = CreateRoom THEN JoinNewRoom ELSE JoinRoom(room)

\* The enemies and bullets that removeAllOf finds, and restart() in a new state.
Removable(set) ==
  LET of(type) == Kept(set.entities, {i \in DOMAIN set.dense : set.dense[i].type = type})
  IN  of(kEnemy) \o of(kBullet)

Restarted(lobby, state) ==
  LET gone == Removable(lobby.set)
      left == InTurn(LAMBDA s, i : Removed(s, gone[i]), lobby.set, Len(gone))
      revived == InTurn(LAMBDA s, i : [s EXCEPT !.dense[i].state = EntityAlive],
                        left, Len(left.dense))
  IN  [lobby EXCEPT !.state = state, !.set = [revived EXCEPT !.tail = << >>]]

Restarting(lobby, state) ==
  LET gone == Removable(lobby.set)
  IN  <<UpdateGameState(state)>> \o [i \in DOMAIN gone |-> Destroy(gone[i])]

ServeStart ==
  IF server.home = NoRoom THEN LobbyStep(server, << >>)
  ELSE LobbyStep(Restarted(server, GameRunning), Restarting(server, GameRunning))

\* handleUserInput: the velocity that the mask gives.
Pushed(b, mask) ==
  LET way(plus, minus) == (IF plus \in mask THEN Speed ELSE 0) - (IF minus \in mask THEN Speed ELSE 0)
  IN  [b EXCEPT !.vx = way("right", "left"), !.vy = way("down", "up")]

PushedBy(s, mask) ==
  Placed(server.set, server.players[s], Pushed(BodyOf(s), mask))

\* handleUserInput of Me, with spawnBullet.
ServeInput(mask) ==
  LET pushed == [server EXCEPT !.set = PushedBy(Me, mask)]
      bullet == Body(kBullet, EntityAlive, BodyOf(Me).x + Muzzle.x, BodyOf(Me).y + Muzzle.y,
                     2 * Speed, kHover)
      shot == [pushed EXCEPT !.set = Placed(@, server.next, bullet), !.next = @ + 1]
  IN  IF server.home = NoRoom THEN LobbyStep(server, << >>)
      ELSE IF "space" \notin mask THEN LobbyStep(pushed, << >>)
      ELSE /\ server.next < MaxEntities
           /\ LobbyStep(shot, <<Spawn(Entity(shot.set, server.next))>>)

\* getLobbiesId(0): the first lobbies of an unordered_map.
Page == 20
FirstPages(rooms) ==
  {ids \in [1..Min({rooms, Page}) -> 0..(rooms - 1)] :
     \A i, j \in DOMAIN ids : ids[i] = ids[j] => i = j}

\* The answer to a LOBBY_LIST goes to the session, in a lobby or not.
ServeList ==
  /\ Len(down) <= MaxDown
  /\ \E ids \in FirstPages(server.rooms) : down' = Append(down, LobbyListAck(ids))
  /\ UNCHANGED server

Serve ==
  /\ up # << >> /\ up' = Tail(up) /\ UNCHANGED client
  /\ LET p == Head(up) IN
       /\ \/ p.kind = "JOIN" /\ ServeJoin(p.room)
          \/ p.kind = "START" /\ ServeStart
          \/ p.kind = "USER_INPUT" /\ ServeInput(p.mask)
          \/ p.kind = "LOBBY_LIST" /\ ServeList
       /\ seen' = [seen EXCEPT !.shots = @ + (IF server'.next > server.next
                                                 /\ p.kind = "USER_INPUT" THEN 1 ELSE 0)]

\* A USER_INPUT of the other player is served.
OtherMoves(mask) ==
  /\ server.home = 0
  /\ seen.inputs < MaxInputs
  /\ LobbyStep([server EXCEPT !.set = PushedBy(Other, mask)], << >>)
  /\ seen' = [seen EXCEPT !.inputs = @ + 1]
  /\ UNCHANGED <<up, client>>

------------------------------------------------------------------------------
(* The server: a tick of the lobby that Me is in.                          *)

Over ==
  /\ server.state = GameRunning
  /\ \A s \in Players : BodyOf(s).state # EntityAlive

\* The lobby with an enemy more: a wave is due.
WithEnemy(lobby, at, set) ==
  [lobby EXCEPT !.set = Placed(@, lobby.next, Body(kEnemy, EntityAlive, at.x, at.y, 0, set)),
                !.next = @ + 1]

\* The rest of a tick, once what may restart the game has; sent is what that sent.
Played(lobby, sent) ==
  \E slope \in [Enemies(lobby.set) -> Slopes] :
  \E moved \in {ApplyMovement(ApplyEnemyMovement(lobby.set, slope))} :
  \E swept \in {KillDead(Announced(moved))} :
    LET updates == UpdatedMovements(moved)
        packets == sent \o [i \in DOMAIN updates |-> UpdatePosition(updates[i])]
                        \o [i \in DOMAIN swept.killed |-> Destroy(swept.killed[i])]
        next == [lobby EXCEPT !.set = swept.set]
    IN  \/ LobbyStep(next, packets)
        \/ /\ lobby.state = GameRunning
           /\ lobby.next < MaxEntities
           /\ \E at \in EnemyPoints, set \in MoveSets :
                LET more == WithEnemy(next, at, set)
                IN  LobbyStep(more, Append(packets, Spawn(Entity(more.set, lobby.next))))

(***************************************************************************)
(* A match is followed while every body is near the screen.  (Off it, an   *)
(* enemy or a player goes on and on.)                                      *)
(***************************************************************************)
Near(b) ==
  /\ b.x \in -Margin..(ScreenWidth + Margin)
  /\ b.y \in -Margin..(ScreenHeight + Margin)

Followed(set) == \A i \in DOMAIN set.dense : Near(set.dense[i])

Tick ==
  /\ UNCHANGED <<up, client, seen>>
  /\ server.home # NoRoom
  /\ Followed(server.set)
  /\ IF Over THEN Played(Restarted(server, GameOver), Restarting(server, GameOver))
     ELSE Played(server, << >>)

------------------------------------------------------------------------------
(* The network: what the user sends and is lost, is as if it had not been  *)
(* sent.                                                                   *)

\* The entity whose position the client misses if the packet is lost or late.
Missed(p) == IF p.kind = "UPDATE_POSITION" THEN {p.entity.id} ELSE {}

Lose(i) ==
  /\ seen.faults < MaxFaults
  /\ Unreliable(down[i])
  /\ down' = RemoveAt(down, i)
  /\ seen' = [seen EXCEPT !.faults = @ + 1, !.missed = @ \cup Missed(down[i])]
  /\ UNCHANGED <<server, up, client>>

------------------------------------------------------------------------------

User ==
  \/ \E keys \in Chords \cup {{}} : Frame(keys, NoSpot)
  \/ \E spot \in Spots : Frame({}, spot)

Next ==
  \/ User
  \/ Deliver
  \/ Serve
  \/ \E keys \in Chords : "space" \notin keys /\ OtherMoves(keys)
  \/ Tick
  \/ \E i \in DOMAIN down : Lose(i)

(***************************************************************************)
(* The loops of the client and of the lobby never stop, and a packet that  *)
(* the network keeps is delivered (App::run, App::start, Lobby::run); the  *)
(* user takes a hand off the keys now and then.                            *)
(***************************************************************************)
Fairness == WF_vars(Frame({}, NoSpot)) /\ WF_vars(Deliver) /\ WF_vars(Serve) /\ WF_vars(Tick)

Spec == Init /\ [][Next]_vars /\ Fairness
==============================================================================
