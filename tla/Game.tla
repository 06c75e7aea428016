-------------------------------- MODULE Game --------------------------------
(***************************************************************************)
(* One match: lobby 0 of the server with its engine and level director,    *)
(* and the replica that the client of one of its sessions keeps.  An       *)
(* action of the lobby is one queued action or one tick of its thread      *)
(* (nothing else touches the lobby, so each is atomic).  What it sends to  *)
(* the session Me waits in wire: rtnt delivers a packet once, and sends it *)
(* again while it is reliable, but promises no order.                      *)
(*                                                                         *)
(* Left out: positions, velocities and hitboxes (a tick chooses who meets  *)
(* whom), UPDATE_POSITION, and the menus of the client.  The engine has    *)
(* fewer components than the code's, in the code's order: all players,     *)
(* enemies and bullets have a State and a Type, enemies also a MoveSet and *)
(* bullets an Owner.                                                       *)
(***************************************************************************)
EXTENDS Ecs, GamePackets, LevelDirector

CONSTANTS
  Sessions,     (* The sessions of the clients.                            *)
  Me,           (* The one whose client is modelled.                       *)
  MaxEntities,  (* Bound: entities the lobby registers.                    *)
  MaxInFlight,  (* Bound: packets on their way to Me when the lobby steps. *)
  MaxFaults     (* Bound: packets to Me lost or late, requests refused.    *)

ASSUME MeAssumption == Me \in Sessions

VARIABLES
  lobby,    \* the Lobby: its engine's world and game state, _players, _levelDirector
  wire,     \* the packets on their way to Me
  client,   \* client::App of Me: its engine's world and game state, serverToClient, its fate
  faults,   \* packets lost and late, and requests refused so far
  unheard   \* history variable: entities whose DESTROY did not reach Me in time

vars == <<lobby, wire, client, faults, unheard>>

\* How often something has gone wrong for Me.
Troubles == faults.lost + faults.late + faults.refused

\* components::GameComponents, then what the engine and the client's App register.
GameComponents == <<"MoveSet", "Owner", "State", "Type">>
EngineComponents == GameComponents \o <<"Behaviour">>
ClientComponents == <<"Me", "Sprite">>

NewEngine == RegisterComponents(NewWorld, EngineComponents)

\* Lobby::Lobby; nobody has been wronged, see Swept.
NewLobby ==
  [world |-> NewEngine, state |-> GameWaiting, players |-> << >>, director |-> Restarted,
   fate |-> "running", wronged |-> FALSE]

NewClient ==
  [world |-> RegisterComponents(NewEngine, ClientComponents), state |-> GameMenu,
   binding |-> << >>, fate |-> "running"]

Init ==
  /\ lobby = NewLobby
  /\ wire = << >>
  /\ client = NewClient
  /\ faults = [lost |-> 0, late |-> 0, refused |-> 0]
  /\ unheard = {}

------------------------------------------------------------------------------
(* What the engine sends of an entity: its mask, and the content of its    *)
(* components in the order of GameComponents.                              *)

\* What serialize() writes of a component.
Width(c) ==
  CASE c = "MoveSet" -> 1
    [] c = "Type" -> IntBytes
    [] c \in {"Owner", "State"} -> WordBytes

\* getEntityInfos
Infos(w, id) ==
  LET present == Kept(GameComponents,
                      {i \in DOMAIN GameComponents : HasComponent(w, id, GameComponents[i])})
  IN  [id |-> id, bits |-> Serialize(w.entities[id]),
       content |-> Chained([i \in DOMAIN present |->
                              Scalar(Component(w, id, present[i]), Width(present[i]))])]

\* The entities come in the order of an unordered_map.
World(w, state) ==
  LET ids == SetToSeq(Entities(w))
  IN  WorldInit(state, [i \in DOMAIN ids |-> Infos(w, ids[i])])

Destroys(ids) == [i \in DOMAIN ids |-> Destroy(ids[i])]

------------------------------------------------------------------------------
(* The lobby's thread.                                                     *)

IsType(w, id, type) == Component(w, id, "Type") = type
StateOf(w, id) == Component(w, id, "State")
WithState(w, id, state) == SetComponent(w, id, "State", state)

\* The world once these entities have that state, and once they are destroyed, one by one.
AllInState(w, ids, state) == InTurn(LAMBDA v, i : WithState(v, ids[i], state), w, Len(ids))
AllDestroyed(w, ids) == InTurn(LAMBDA v, i : DestroyEntity(v, ids[i]), w, Len(ids))

PlayerIds(l) == {l.players[s] : s \in DOMAIN l.players}
OfType(w, type) == {id \in Entities(w) : HasComponent(w, id, "Type") /\ IsType(w, id, type)}

(***************************************************************************)
(* A step of the lobby that sends the packets to the sessions in to.  What *)
(* dies while Me is no player, or when the last player leaves, dies        *)
(* unheard of.                                                             *)
(***************************************************************************)
LobbyStep(next, to, packets) ==
  /\ lobby.fate = "running"
  /\ Len(wire) <= MaxInFlight
  /\ lobby' = [next EXCEPT !.world = Settled(@)]
  /\ wire' = IF Me \in to THEN wire \o packets ELSE wire
  /\ LET dead == Entities(lobby.world) \ Entities(next.world)
     IN  unheard' = unheard \cup IF Me \notin to THEN dead
                                 ELSE IF next.players = << >> THEN dead \ PlayerIds(lobby) ELSE {}
  /\ UNCHANGED <<client, faults>>

\* An exception that nobody catches, or undefined behaviour that ends the process.
Fails(l, why) ==
  /\ lobby.fate = "running"
  /\ lobby' = [l EXCEPT !.fate = why]
  /\ UNCHANGED <<wire, client, faults, unheard>>

Pattern == 1   \* a move::Set

NewPlayer == [State |-> PlayerWaiting, Type |-> kPlayer]
NewEnemy == [MoveSet |-> Pattern, State |-> EntityAlive, Type |-> kEnemy]
NewBullet(owner) == [Owner |-> owner, State |-> EntityAlive, Type |-> kBullet]

(***************************************************************************)
(* The lobby once s has joined.  changeGameState(GameLobby) reaches nobody:*)
(* a lobby is in an earlier state only while it has no players.            *)
(***************************************************************************)
Joined(l, s) ==
  [l EXCEPT !.world = RegisterEntity(@, <<"Type", "State">>, NewPlayer),
            !.players = With(@, s, l.world.next),
            !.state = IF @ < GameLobby THEN GameLobby ELSE @]

\* Mutant: only the entity that joined is announced.
JoinWithoutWorld(s) ==
  LET next == Joined(lobby, s)
      id == lobby.world.next
  IN  /\ s \notin DOMAIN lobby.players
      /\ id < MaxEntities
      /\ LobbyStep(next, DOMAIN next.players,
           <<Spawn(Infos(next.world, id))>>
             \o (IF s = Me THEN <<JoinAck(id, next.state, Accepted)>> ELSE << >>))

\* Mutant: the session is told its id before the entity is announced.
JoinAckFirst(s) ==
  LET next == Joined(lobby, s)
      id == lobby.world.next
  IN  /\ s \notin DOMAIN lobby.players
      /\ id < MaxEntities
      /\ LobbyStep(next, DOMAIN next.players,
           (IF s = Me THEN <<JoinAck(id, next.state, Accepted)>> ELSE << >>)
             \o <<Spawn(Infos(next.world, id))>>
             \o (IF id # 0 THEN <<World(next.world, next.state)>> ELSE << >>))

(***************************************************************************)
(* The action join() queues: the player is announced to all, its session   *)
(* is told its id, and all are sent the whole world, unless the player is  *)
(* entity 0.                                                               *)
(***************************************************************************)
Join(s) ==
  LET next == Joined(lobby, s)
      id == lobby.world.next
  IN  /\ s \notin DOMAIN lobby.players
      /\ id < MaxEntities
      /\ LobbyStep(next, DOMAIN next.players,
           <<Spawn(Infos(next.world, id))>>
             \o (IF s = Me THEN <<JoinAck(id, next.state, Accepted)>> ELSE << >>)
             \o (IF id # 0 THEN <<World(next.world, next.state)>> ELSE << >>))

(***************************************************************************)
(* joinRoom of the Manager, for a session in no lobby that asks for a new  *)
(* one when all ids are used up: it is told so, with an id and a state     *)
(* that stand for nothing.                                                 *)
(***************************************************************************)
Refuse ==
  /\ lobby.fate = "running"
  /\ Me \notin DOMAIN lobby.players
  /\ Troubles < MaxFaults
  /\ Len(wire) <= MaxInFlight
  /\ wire' = Append(wire, JoinAck(0, GameMenu, Refused))
  /\ faults' = [faults EXCEPT !.refused = @ + 1]
  /\ UNCHANGED <<lobby, client, unheard>>

\* Mutant: the session that left is still a player.
PartedOnly(l, s) == [l EXCEPT !.world = DestroyEntity(@, l.players[s])]

Parted(l, s) == [l EXCEPT !.world = DestroyEntity(@, l.players[s]), !.players = Without(@, s)]

\* clearEcs(), which is broadcast to nobody: there is no player any more.
Cleared(l) ==
  [l EXCEPT !.world = AllDestroyed(@, SetToSeq(Entities(@))), !.state = GameWaiting]

\* The action leave() queues: the session that leaves is still told of the end of its entity.
Leave(s) ==
  LET gone == Parted(lobby, s) IN
  /\ s \in DOMAIN lobby.players
  /\ LobbyStep(IF gone.players = << >> THEN Cleared(gone) ELSE gone, DOMAIN lobby.players,
               <<Destroy(lobby.players[s])>>)

\* restart() asks for the State of every player.
CanRestart(l) == \A id \in PlayerIds(l) : HasComponent(l.world, id, "State")

\* What removeAllOf<Type> finds: the enemies, then the bullets.
Shot(w) == SetToSeq(OfType(w, kEnemy)) \o SetToSeq(OfType(w, kBullet))

\* restart(), in a new game state; the DESTROY packets are those of Shot.
RestartedAs(l, state) ==
  [l EXCEPT !.state = state, !.director = Restarted,
            !.world = AllDestroyed(AllInState(@, SetToSeq(PlayerIds(l)), EntityAlive), Shot(@))]

\* Mutant: nobody is told of the new state.
RestartingSilently(l, state) == Destroys(Shot(l.world))

\* Mutant: the bullets are removed without a word.
RestartingPartly(l, state) ==
  <<UpdateGameState(state)>> \o Destroys(SetToSeq(OfType(l.world, kEnemy)))

\* changeGameState(state), and what restart() broadcasts.
Restarting(l, state) == <<UpdateGameState(state)>> \o Destroys(Shot(l.world))

\* START: changeGameState(GameRunning) and restart().
Start(s) ==
  /\ s \in DOMAIN lobby.players
  /\ IF CanRestart(lobby)
     THEN LobbyStep(RestartedAs(lobby, GameRunning), DOMAIN lobby.players,
                    Restarting(lobby, GameRunning))
     ELSE Fails(lobby, "no entity")

\* USER_INPUT with kShoot: handleUserInput gives up if the player's entity has no velocity.
Shoot(s) ==
  LET owner == lobby.players[s]
      id == lobby.world.next
      world == RegisterEntity(lobby.world, <<"Type", "Owner", "State">>, NewBullet(owner))
  IN  /\ s \in DOMAIN lobby.players
      /\ owner \in Entities(lobby.world)
      /\ id < MaxEntities
      /\ LobbyStep([lobby EXCEPT !.world = world], DOMAIN lobby.players, <<Spawn(Infos(world, id))>>)

------------------------------------------------------------------------------
(* A tick: the end of the game, the systems, and the level director.       *)

\* hasPlayerAlive(), while the game is running.
PlayerAlive(l) ==
  \E id \in PlayerIds(l) :
    HasComponent(l.world, id, "State") /\ StateOf(l.world, id) = EntityAlive

(***************************************************************************)
(* What ApplyMovement may find: every bullet meets nothing, an enemy or    *)
(* the border of the screen, every enemy nothing or a player, dead or      *)
(* alive.  Both of two that meet are dead, see handleEntityMovement.       *)
(***************************************************************************)
Meets(w, id) ==
  IF IsType(w, id, kBullet) THEN {{}, {id}} \cup {{id, e} : e \in OfType(w, kEnemy)}
  ELSE {{}} \cup {{id, p} : p \in OfType(w, kPlayer)}

\* The sets of dead entities there may be once id has moved too.
Moved(w, dead, id) == {d \cup met : d \in dead, met \in Meets(w, id)}

Collisions(w) ==
  LET movers == Shot(w)
  IN  InTurn(LAMBDA dead, i : Moved(w, dead, movers[i]), {{}}, Len(movers))

Collided(w, dead) == AllInState(w, SetToSeq(dead), EntityDead)

\* What the callback of BroadcastDeadEntities makes of r; wronged says that it has killed an
\* entity which was a player or not dead.
Visited(group, r, id) ==
  IF \/ Referenced(r.world, group, id, "Type") = kPlayer
     \/ Referenced(r.world, group, id, "State") # EntityDead THEN r
  ELSE [world   |-> DestroyEntity(r.world, id),
        killed  |-> Append(r.killed, Destroy(id)),
        wronged |-> \/ r.wronged
                    \/ IsType(r.world, id, kPlayer) \/ StateOf(r.world, id) # EntityDead]

(***************************************************************************)
(* BroadcastDeadEntities: the callback kills entities while the group      *)
(* hands it references into the arrays that the kills change.              *)
(***************************************************************************)
Swept(w) ==
  LET cs == <<"State", "Type">>
      group == Group(w, cs)
      ids == GroupEntities(group, cs)
  IN  InTurn(LAMBDA r, i : Visited(group, r, ids[i]),
             [world |-> w, killed |-> << >>, wronged |-> FALSE], Len(ids))

\* The enemies that Director::update spawns.
WithEnemies(w, n) ==
  InTurn(LAMBDA v, i : RegisterEntity(v, <<"Type", "State", "MoveSet">>, NewEnemy), w, n)

\* The outcomes of Director::update, which runs while the game does.
Directed(l) ==
  IF l.state = GameRunning THEN Updated(l.director)
  ELSE {[director |-> l.director, spawned |-> 0, looks |-> FALSE]}

\* The rest of a tick, once what may restart the game has; sent is what that sent.
Played(l, sent) ==
  \E dead \in Collisions(l.world) : \E update \in Directed(l) :
    LET swept == Swept(Collided(l.world, dead))
        first == swept.world.next
        world == WithEnemies(swept.world, update.spawned)
        spawns == [i \in 1..update.spawned |-> Spawn(Infos(world, first + i - 1))]
        next == [l EXCEPT !.world = world, !.director = update.director,
                          !.wronged = @ \/ swept.wronged]
    IN  IF update.looks /\ PlayerIds(l) \cap Entities(swept.world) = {}
        THEN Fails([next EXCEPT !.world = l.world], "no position")
        ELSE /\ world.next <= MaxEntities
             /\ LobbyStep(next, DOMAIN l.players, sent \o swept.killed \o spawns)

Tick ==
  LET over == lobby.state = GameRunning /\ ~PlayerAlive(lobby) IN
  /\ lobby.director.credits <= MaxCredits
  /\ IF over /\ ~CanRestart(lobby) THEN Fails(lobby, "no entity")
     ELSE Played(IF over THEN RestartedAs(lobby, GameOver) ELSE lobby,
                 IF over THEN Restarting(lobby, GameOver) ELSE << >>)

------------------------------------------------------------------------------
(* The client: what its handlers make of a packet.                         *)

\* Mutant: the creators count the bits from the first one.
FactoryOffByOne(w, id, bits, content) ==
  InTurn(LAMBDA v, i : IF ~IsOn(bits, i - 1) THEN v
                       ELSE LET c == GameComponents[i]
                                r == Read(v.reader, Width(c))
                            IN  [reader |-> r, world |-> Insert(v.world, id, c, r.value)],
         [reader |-> Reader(content), world |-> w], Len(GameComponents))

(***************************************************************************)
(* Factory::apply: the creator of the i-th component, in slot i - 1, reads *)
(* it from the content if bit i is on.                                     *)
(***************************************************************************)
FactoryApply(w, id, bits, content) ==
  InTurn(LAMBDA v, i : IF ~IsOn(bits, i) THEN v
                       ELSE LET c == GameComponents[i]
                                r == Read(v.reader, Width(c))
                            IN  [reader |-> r, world |-> Insert(v.world, id, c, r.value)],
         [reader |-> Reader(content), world |-> w], Len(GameComponents))

\* addGraphicalComponents
Drawn(w, id) ==
  IF HasComponent(w, id, "Type") THEN Insert(w, id, "Sprite", Component(w, id, "Type")) ELSE w

\* handleSpawn; a packet::Reader that throws leaves App::run.
Spawned(c, e) ==
  LET real == c.world.next
      made == FactoryApply(PreRegisterEntity(c.world), real, Deserialize(e.bits), e.content)
  IN  IF e.id \in DOMAIN c.binding THEN c
      ELSE [c EXCEPT !.binding = With(@, e.id, real), !.world = Drawn(made.world, real),
                     !.fate = IF made.reader.thrown THEN "underflow" ELSE @]

\* Mutant: the server's id is taken for the client's.
DestroyedUnbound(c, id) ==
  [c EXCEPT !.world = DestroyEntity(@, id),
            !.binding = [e \in {f \in DOMAIN @ : @[f] # id} |-> @[e]]]

\* handleDestroy
Destroyed(c, id) ==
  IF id \notin DOMAIN c.binding THEN c
  ELSE [c EXCEPT !.world = DestroyEntity(@, c.binding[id]), !.binding = Without(@, id)]

\* handleJoinAck, which does not read the status: at(id) throws if the entity is unknown.
Acknowledged(c, id, state) ==
  IF id \notin DOMAIN c.binding THEN [c EXCEPT !.fate = "unknown entity"]
  ELSE [c EXCEPT !.state = state, !.world = Insert(@, c.binding[id], "Me", TRUE)]

\* handleWorldInit
Initialised(c, state, entities) ==
  InTurn(LAMBDA d, i : Spawned(d, entities[i]), [c EXCEPT !.state = state], Len(entities))

\* The action that the callback of the packet pushes, and handleUpdateGameState.
Handled(c, p) ==
  CASE p.kind = "SPAWN" -> Spawned(c, p.entity)
    [] p.kind = "WORLD_INIT" -> Initialised(c, p.state, p.entities)
    [] p.kind = "DESTROY" -> Destroyed(c, p.id)
    [] p.kind = "JOIN_ACK" -> Acknowledged(c, p.id, p.state)
    [] p.kind = "UPDATE_GAME_STATE" -> [c EXCEPT !.state = p.state]

\* The packets with which the entity may come to a client.
Carries(p, id) ==
  \/ p.kind = "SPAWN" /\ p.entity.id = id
  \/ p.kind = "WORLD_INIT" /\ \E i \in DOMAIN p.entities : p.entities[i].id = id

Expected(id) == \E i \in DOMAIN wire : Carries(wire[i], id)

(***************************************************************************)
(* A datagram arrives, the dispatcher parses its packet, and App::run      *)
(* performs the action that the callback pushed.  (Its bytes are worked    *)
(* out here: wire holds packets as the lobby knows them.)                  *)
(***************************************************************************)
Deliver ==
  LET p == Head(wire)
      late == Tail(wire)
      Handle(c, id, payload) ==
        LET found == Parsed(Kinds[id], payload)
        IN  IF found = {} THEN c ELSE Handled(c, CHOOSE q \in found : TRUE)
      Arrived(data) ==
        [Dispatched(client, data, DOMAIN Kinds, Handle) EXCEPT !.world = Settled(@)]
  IN  /\ client.fate = "running"
      /\ wire # << >>
      /\ client' \in {Arrived(data) : data \in {Sent(p)}}
      /\ wire' = late
      /\ unheard' = IF p.kind = "DESTROY" /\ \E i \in DOMAIN late : Carries(late[i], p.id)
                    THEN unheard \cup {p.id} ELSE unheard
      /\ UNCHANGED <<lobby, faults>>

\* The network may still do harm.
Faulty == client.fate = "running" /\ Troubles < MaxFaults

\* The packet at i is overtaken by those up to j: it was sent again, or the network kept it.
Delay(i, j) ==
  /\ Faulty
  /\ i < j
  /\ wire' = [k \in DOMAIN wire |->
                CASE k \in i..(j - 1) -> wire[k + 1] [] k = j -> wire[i] [] OTHER -> wire[k]]
  /\ faults' = [faults EXCEPT !.late = @ + 1]
  /\ UNCHANGED <<lobby, client, unheard>>

Lose(i) ==
  /\ Faulty
  /\ Unreliable(wire[i])
  /\ wire' = RemoveAt(wire, i)
  /\ unheard' = unheard \cup {wire[i].id}
  /\ faults' = [faults EXCEPT !.lost = @ + 1]
  /\ UNCHANGED <<lobby, client>>

------------------------------------------------------------------------------

Next ==
  \/ \E s \in Sessions : Join(s) \/ Leave(s) \/ Start(s) \/ Shoot(s)
  \/ Refuse
  \/ Tick
  \/ Deliver
  \/ \E i \in DOMAIN wire : Lose(i) \/ \E j \in DOMAIN wire : Delay(i, j)

Spec == Init /\ [][Next]_vars
=============================================================================
