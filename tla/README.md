# A verification project for R-Type (rtnt, rtecs, rteng, Server, Client)

This directory holds TLA+ models of the parts of R-Type whose correctness
depends on the order in which things happen, the TLC configurations that check
them on small instances, and theorems that TLAPS proves for every value of the
constants.  Line references are to the repository, as `src/...`.

Contents: 1 the system, 2 the modules, 3 the runs and what they show, 4 fairness,
5 the proofs, 6 where code and documents disagree, 7 what is not modelled,
8 the plan.

## 1. The system

R-Type is a client/server game over UDP.  `lib/rtnt` is the transport, `lib/rtecs`
an entity component system, `lib/rteng` a thin engine over it; `Server` and
`Client` are the two programs, and `common` holds the packets they exchange.

### Components

| Component | State | Operations | Interacts with | Hard behaviour | What makes it correct |
|---|---|---|---|---|---|
| rtnt receive window (`session.cpp` 341-420) | head id, 32-bit field, bounded history | `isDuplicate`, `updateAcknowledgeInfo`, header acks | called by Session | shifts at the width, late ids, evictions | at most once; nothing acknowledged that never came |
| rtnt Session (`session.cpp`) | send and receive counters, `_sentPackets`, reorder buffers, ack flags | `send`, `handleIncoming`, `update`, `disconnect` | Server or Client, under its own mutex; its peer by datagrams | loss, repetition and reordering; retransmission racing late acks | every ordered channel is a FIFO; nothing lost is taken for acknowledged; sending ends |
| rtnt Server (`server.cpp`) | map endpoint -> Session, event queue | `onReceive` (I/O thread), `update` (main thread), `broadcast`, `sendTo` | Peer calls it; it calls the application's onConnect, onDisconnect and packet handlers | two threads, two locks, a session used after it left the map | the application sees onConnect, packets, onDisconnect of a session in that order, once |
| rtnt Client (`client.cpp`) | session, `_isConnected`, retry counter, event queue | `connect`, `disconnect`, `send`, `update`, `onReceive` | as Server | retries replace the session while old answers travel | an attempt ends; silence is noticed; closed stays closed |
| rtnt internal packets | none | handlers of CONNECT, CONNECT_ACK, DISCONNECT, ACK, RICH_ACK | Session, Client, Server | run from the queue, late | as their component |
| rtnt Dispatcher | table id -> handler | `bind`, `dispatch` | Client, Server | filled before the threads start | an unknown id is ignored |
| rtnt Peer | socket, one receive buffer | `receive`, `send` | Asio | a second `start()` posts a second receive on the same buffer | a datagram is handled before the next one overwrites it |
| rtnt Packet, Header | bytes | serialisation, header parsing | Session | lengths, byte order, reads past the end | what was written is read, or nothing is |
| queues (`concurrent_queue`, thread-safe) | a FIFO under a mutex | push, pop | all threads | none beyond its users' | FIFO |
| statistics | counters | increments | GUI | none | not a behaviour |
| Server App (`Server/src/app.cpp`) | rtnt Server, lobby Manager, outgoing queue | main loop, packet callbacks, lists of lobbies | all of the server | callbacks on one thread, lobbies on others | packets of a lobby reach its players; every lobby is on one page of the list |
| Lobby manager | lobby list, player lookup, id counter | `createLobby`, `joinRoom`, `leaveRoom`, `update` | App, Lobby | a lobby reaped while players join it | a player is in at most one lobby, and it exists |
| Lobby | players, engine, action queue, state, thread | `join`, `leave`, `pushTask`, `start`, `stop`, `run` | Manager, the app's outgoing queue | detached thread, queued joins racing the last leave | a joined player is told; an empty lobby ends |
| Level director | level, credits, wave schedule | `load`, `update`, spawn queue | the lobby's engine | a loop that ends only if waves cost something | budget respected, each wave spawned once |
| Server systems | components in the ECS | one pass per tick | ECS, lobby's packet buffer | entities destroyed while being iterated; who moves first | players stay apart, bullets end, the dead and no others are removed, the last step is told |
| rtecs sparse set, view, group | dense array, sparse index, keys | `put`, `get`, `erase`, `has`, iteration | systems | swap-removal and references, removal while iterating | a partial map from entity to value |
| rtecs DynamicBitSet | blocks of 64 bits | set, reset, resize, compare | ECS signatures | sizes at multiples of 64 | a set of indices |
| rteng engine | an ECS, behaviours | register, run | Lobby, Client | none of its own | as ECS |
| Client App and handlers | server-to-local entity map, ECS, state | packet handlers, game loop | rtnt Client | SPAWN, DESTROY and JOIN_ACK with different reliability, none ordered | the client's entities are the lobby's, in the end |
| Client systems, GUI | menu, buttons, keys, targets of the interpolation, window, sounds | input, menus, sending, interpolation, drawing | Client App | buttons that act in every frame, one position per lossy packet | one room, one shot per press, entities drawn where they are |
| Game packets, components | data | serialise | everything | the reliability flag of each; masks whose bits stand for places in a list | a component arrives as itself |
| Command line, logging | options | start-up | everything | none | not modelled |

`PROJECT.json` lists the same components with their files, and every hazard
found in the code at its line, with the properties that cover it.

### How they interact

A datagram reaches `Peer` on the I/O thread, `Server::onReceive` looks its endpoint
up in the session map (one mutex), unlocks, and lets the `Session` handle it
(another mutex).  What the session hands up is pushed on the event queue.  The
main thread calls `Server::update` for ever: it drains the queue through the
Dispatcher, sweeps the map (erasing dead sessions and calling `Session::update` on
the others), then calls onDisconnect of the erased ones.  The application's
handlers run on that thread; each `Lobby` runs on a thread of its own and talks to
it through two queues.  `Client` has the same two threads, around one session.

A lobby's thread owns its engine: a tick runs the systems over the component arrays of
the ECS, and the level director, and queues packets (SPAWN, DESTROY, UPDATE_POSITION,
UPDATE_GAME_STATE) for its players.  An entity travels as its id, the mask of its
components as a list of bits, and the bytes of those components; the client rebuilds it
in an ECS of its own, under an id of its own, which `serverToClient` keeps.  Each frame of
the client runs the actions that the handlers of what arrived have pushed, and then the systems
in the order of `App::registerAllSystems`: the interpolation, the keys, the network, which sends
what is queued, and last the menus, so that what these queue leaves in the next frame.

## 2. The modules

| Module | Models | How |
|---|---|---|
| `AckWindow` | the receive window | pure operators; the bitfield is the set of distances below the head whose bit is set, the history a sequence |
| `ReplayWindow` | `handleIncoming` as replay protection alone | any id may arrive, at any time, any number of times |
| `AckWindowProofs`, `ReplayWindowProofs` | | theorems about the two modules above |
| `Session` | two Session objects facing each other | one action per method (each holds the session's mutex): `Send`, `HandleIncoming`, `Update` |
| `OrderedChannel` | what an ordered channel promises | one FIFO per direction and channel id |
| `MCSession` | | properties of `Session`, its refinement of `OrderedChannel`, values for TLC |
| `SessionProofs` | | theorems about `Session`, and its refinement |
| `Connection` | Client and Server, each with its I/O thread and its main thread | the critical sections and queue operations are the steps; a session is reduced to what a connection depends on |
| `MCConnection` | | properties of `Connection` |
| `ConnectionProofs` | | theorems about `Connection` |
| `Lobbies` | App's main loop, the lobby Manager, the lobbies with their threads | one action per callback, per queued action, per turn of a loop |
| `MCLobbies` | | properties of `Lobbies` |
| `LobbiesProofs` | | theorems about `Lobbies`: its invariant, and what a lobby promises its players |
| `BitSet` | DynamicBitSet | a sequence of blocks, each the set of bits that are on |
| `SparseSet` | SparseSet with its dense array, entities and sparse index | operators `Placed` and `Removed`; `Map` and `Consistent` say what they are for |
| `Loops` | the loops that go through numbered places in turn | functions of the number of turns taken, so that they can be proved about |
| `SparseSetProofs` | | theorems about `SparseSet`, and lemmas about `Loops` |
| `Ecs` | ECS, its masks, views and groups | operators on a record with the fields of the class |
| `Packet` | writing and reading the bytes of a packet | scalars in big endian, vectors with their length, a reader that may throw |
| `Datagrams` | the header of a datagram, and dispatch | the fields at their places in the struct; what becomes of a state when data arrives |
| `GameEnums`, `GamePackets` | the packets a lobby sends, field by field | records, with what `serialize` makes of them and what is read back |
| `LevelDirector` | level::Director | credits and waves; the picks of `getPickedWaves` as a set |
| `Game` | a lobby's engine, its packets to one client, and that client | one action per queued action, per tick, per packet that arrives |
| `Replica` | what a client may be shown of its lobby's entities | a set that follows another |
| `MCGame` | | properties of `Game`, its refinement of `Replica`, values for TLC |
| `GameProofs` | | lemmas about `BitSet`, `Ecs` and `LevelDirector`, and theorems about `Game` |
| `Movement` | the four systems of the server | operators on the sparse set of bodies, in the order of its slots |
| `Play` | a user at the client, and what it makes the server do | one action per frame, per packet that arrives at either end, per tick |
| `MCPlay` | | properties of `Play`, values for TLC |
| `PlayProofs` | | theorems about `Play` |

`Session` is built on `AckWindow`, as the class is.  `Connection` has a smaller
session of its own (the ids seen, the packets pending), justified by `Session`'s
properties: while fewer than `Width` ids are in use the window of `AckWindow` remembers
every id.  `Game` is built on `Ecs` (so on `BitSet` and `SparseSet`), `GamePackets` (so on
`Datagrams` and `Packet`) and `LevelDirector`; `Play` is built on `Movement`, which shares
`SparseSet` with it.  Both rest on `Lobbies` for the order in which a lobby's queue is run, and on
`Session` for what rtnt promises: a packet once, a reliable one in the end.  `map` in
`PROJECT.json` gives the lines each definition stands for.

State and code:

- `session[p]` in `Session` is the Session object field by field (`NewSession` names
  them); `sent` is `_sentPackets` with the retries of each entry, `reorder[c]` the
  reorder buffer of channel `c`, `rich` is `_pendingRichAcks`.
- `HandleIncoming` is one of two disjuncts, `DropDuplicate` and `AcceptPacket`, as
  `session.cpp` returns early at line 86 or goes on; the explicit ACK the threshold
  forces is part of the step, since the code sends it there.
- `Update(p, due, ackDue)` is the loop over `_sentPackets` and the ACK timer: `due`
  is the set of packets past RESEND_TIMEOUT.  A packet out of attempts ends the loop
  at once, after the packets before it have been sent again.
- in `Connection`, `client.pc` and `server.pc` say where each main thread is inside
  `update`; `clientIo.holds` and `serverIo.holds` are what the I/O thread took before
  it unlocked the map and will use after.

- `Lobbies` sits on top of `Connection`: what the main thread dispatches there (a packet
  of a session, its onDisconnect, and possibly a JOIN after it) is what `AnnouncedFirst`,
  `RemovedIsReported` and `DispatchedOnce` allow.  `room[id]` is the Lobby object with its
  action queue and the place of its thread; `manager` is the map of lobbies (its keys),
  `_playerLookup` and the counter of ids; `main` is the place of the main thread, with the
  loop variable of `Manager::update`; `fate` says whether the process still runs, and
  otherwise which exception or which destroyed lobby ended it.  `LobbyListAck` is the
  answer to a LOBBY_LIST, which changes nothing: `EveryLobbyIsListed` asks for it in every
  state in which one may be dispatched, for every order of the keys of the unordered_map.
- in `Game`, `lobby.world` is the ECS of the lobby's engine with its real masks and sparse
  sets, `lobby.director` the level director, `lobby.players` is `_players`; `client.world`
  and `client.binding` are the client's ECS and `serverToClient`.  `wire` holds the packets
  on their way to the client `Me` as the lobby knows them; `Deliver` works out the bytes of
  the datagram, parses its header, reads the packet from its payload and runs the handler.
  `Swept` is the iteration of `BroadcastDeadEntities` as it is: the group holds slots of the
  component arrays, and a slot may by then hold another entity's component, or lie past the
  end of the array, where it still reads what was there (`SparseSet`'s `tail`).
- in `Play`, `Frame(keys, spot)` is one turn of the client's loop with its systems in their
  order: interpolation, keys, network, menus.  What the keys queue leaves in the same frame,
  what the menus queue in the next one.  `server.rooms` counts the lobbies that were created, of
  which `server.home` is the one of `Me`; `ServeJoin` is `joinRoom` with the limit of
  `createLobby`, for a session in no lobby or in one.  `server.set` is the sparse set of the bodies; a tick is
  `ApplyEnemyMovement`, `ApplyMovement`, `BroadcastUpdatedMovements`, `BroadcastDeadEntities`.

### Abstractions

- The network is a set that only grows: a datagram may be delivered late, again,
  out of order or never.  Nothing distinguishes loss from delay.
- Time is abstract.  A timeout may have elapsed at any call that reads the clock;
  `fairness` (section 4) says only that clocks advance.  In `Connection`, the timeout
  of the whole session does not elapse inside one call of `update` or `onReceive`:
  it is seconds, the call is microseconds.
- Payloads are absent; a packet is its ids, its kind and its channel.
- Ids are natural numbers: they do not wrap at 2^32 (a session would have to send
  four thousand million packets; the code has no wrap handling at all).
- A RICH_ACK is one datagram; the code cuts it in chunks of at most the packet's
  capacity.
- RTT, byte counts and other statistics are left out.
- `Connection` has one client endpoint; the map of the server is that endpoint's
  entry.  Sessions of distinct endpoints share only the queue.
- `Connection` does not count retransmissions: a session with pending packets may run
  out of attempts at any update (`Session` does count them).
- Peer, the socket and Asio are the network.
- In `Lobbies`, an engine is its players, which of them are alive, and the game state.
  Of the packets a lobby sends, only those that carry the game state are kept.  The
  main thread takes all that is in the outgoing queue in one step; packets that a lobby
  pushes in the middle of that are taken by the next turn of the same loop.
  `_isRunning` is tested at the end of a turn: no other thread resets it while the
  server runs.
- In `Game`, a tick chooses who meets whom, since positions are in `Play`; the engine has
  fewer components than the code's, in the code's order; blocks of the masks have two bits and
  words two bytes, so that the masks have more than one block and the bytes of a word an order.
  The income of the director is constant.  That the lobby ids are used up, when the server
  refuses a request, is a choice there (`Refuse`); in `Play` and `Lobbies` it is the count.
- In `Play`, lengths are whole numbers of a unit of 75 pixels, the screen is smaller than the
  code's, and a cosine is a choice.  Nothing keeps a body on the screen: an
  enemy or a player that leaves it goes on and on.  A match is followed while every body is
  within `Margin` of the screen (`Followed`).  One array stands for the five component arrays all
  bodies share.  A reliable packet is not late there; in `Game` it may be.  The user does not
  choose a lobby of other people, of which there may be some (`Rooms`).
- A lobby destroyed under its thread is undefined behaviour.  Outcomes in the model: the
  process crashes, or the thread goes on, the memory being intact.  The same holds for
  a push through the dangling pointer of `_playerLookup`.

## 3. The runs

Each runs in less than three minutes on two workers.

| Run | Module | Instance | Distinct states | Shows |
|---|---|---|---|---|
| `replay` | ReplayWindow | Width 3, history 2, ids 0..7 | 2 239 | `ReplayProtection`, `NothingUnseenAcknowledged` |
| `replay_shift` | ReplayWindow | same | violation | the undefined shift makes false duplicates |
| `session` | MCSession | Width 2, 4 ordered packets on channels 1,2,1,1, ACK threshold 3, 1 resend | 367 609 | `AcknowledgedWasAccepted`, `AcceptedIsKept`, refinement of `OrderedChannel` |
| `session_live` | MCSession | Width 2, 2 packets of any kind, 2 resends | 3 628 | `AcceptedOrClosed` |
| `connection` | MCConnection | 1 connect, 1 request, 2 server sessions, 3 datagrams to the server, 1 to the client | 797 473 | `AnnouncedFirst`, `RemovedIsReported`, `DispatchedOnce` |
| `connection_live` | MCConnection | 1 connect and 1 retry, 2 and 1 datagrams | 74 114 | `ConnectResolves`, `SilentRemoved`, `SilenceNoticed` |
| `connection_closed` | MCConnection | | violation | a late CONNECT_ACK undoes disconnect() |
| `connection_delivery` | MCConnection | 2 connects, 2 requests | violation | a client that reconnects loses its reliable packets |
| `lobbies` | MCLobbies | 2 sessions, lobbies 0..2 (2 is the last id), 3 packets | 432 574 | `LookupAgrees`, `InputsFindTheirPlayer`, `PlayersKnowTheState`, `EmptyLobbiesStop`, `EveryLobbyIsListed`, `StoppedIsReaped`, `GhostsVanish` |
| `lobbies_up` | MCLobbies | same | violation | clients can end the server |
| `game` | MCGame | 2 sessions, 4 entities, 2 waves, at most 1 packet in flight when the lobby steps, 1 lost or late or a request refused | 250 651 | `StorageAgrees`, `EntitiesDecoded`, `NobodyMissed`, `GhostsExplained`, `StateKnownUnlessLate`, `ClientEndsOnlyByJoinAck`, `WavesInRange`, `LobbyFailsOnlyByWrongKill`, refinement of `Replica` |
| `play` | MCPlay | 2 players, 3 entities, the other player at 3 places, 5 chords, 3 frames with a click, 2 with keys, last lobby id 2, 1 or 2 lobbies at first, 1 packet lost | 310 170 | `ShotsArePresses`, `TargetIsPosition`, `PlayersStayApart`, `OneRoomForGood`, `BulletsLeave`, `ShownSettles` |

Why the bounds are enough for what they are meant to meet:

- *Replay.* With Width 3 and ids 0..7 the head can stay, move by one, to the middle,
  by exactly the width and beyond it, twice over; every branch of
  `updateAcknowledgeInfo` runs from non-empty fields, and a history of two evicts.
  The theorems of section 5 lift the result to every width.
- *Session.* Four packets, a field of two bits: the last packet may arrive first and
  throw the head beyond the window.  Two channels interleaved show that the order ids
  of one do not disturb the other.  The threshold of three makes the receiver send an
  explicit ACK or a RICH_ACK inside `handleIncoming`.
- *Session, liveness.* One kind of packet and one reliable packet are enough for a
  retransmission to race an acknowledgement and for the attempts to run out.
- *Connection.* Two sessions of the server for one client let the second be created
  by a repeated CONNECT while the I/O thread still holds a datagram of the first.
  Three deliveries are a CONNECT, a request or DISCONNECT, and a repetition of either.
- *Connection, liveness.* One retry lets the answer to the first attempt arrive at
  the second session.
- *Lobbies.* Three packets and two disconnections are: both sessions in one lobby and a
  START, with a player dying and leaving; a JOIN to a lobby whose last player has just
  left; a lobby created, closed and reaped while another one exists; the id limit reached
  and passed; an input among all of these.  The last id is 2, so one lobby can
  be created and used, and the next one is the one at the limit.  With two lobbies on a page,
  one, two and three lobbies make a page that is not full, one that is, and two.
- *Game.* Four entities are two players, an enemy and a bullet, or a player and three that
  may die: enough for a removal from the middle, from the end, and of two at once; for a player
  who joins after a bullet, and so lies behind it in the arrays; for a player who leaves and
  comes back while the client still shows the first life.  One packet that is lost or overtaken
  separates the properties that excuse a fault from those that do not.  A wave of two groups and a
  cheaper one are both affordable or one of them.  The masks take three or four blocks.  A refusal
  instead reaches a client that has nothing, or the ghost of an entity 0.
- *Play.* Three clicks are what it takes to come from the first menu into a room and start the
  game; a click held for two frames is a burst of two JOINs.  With two lobbies of ids 0..2 at first,
  the first JOIN for a new lobby is for the one with the last id and is refused, and so is the next
  one, for which there is no id; with one lobby at first, it is let in.  Two frames with keys are a
  move of each player, or two moves of one, or a move and a shot.  The other player starts beside
  `Me`, across a corner, or one step away; `Me` goes right and down, left and up, left, or up, and so
  does the other: they run into each other from either side, above and below, and both walk
  towards the same place in one tick.  (The theorem `PlayersStayApartAlways` has all the ways and
  places.)  The third entity is a bullet or an enemy.  The lobby steps only when the client has taken all
  that was sent (`MaxDown` = 0), but a step may send several packets, of which one may be lost.

Every bound is a constant declared as such (`Workload`, `AckIds`, `MaxConnects`,
`MaxRequests`, `MaxAccepted`, `MaxIds`, `ClientArrivals`, `ServerArrivals`,
`MaxPackets`; in `Game` and `Play` `MaxEntities`, `MaxInFlight`, `MaxCredits`,
`MaxClicks`, `MaxInputs`, `MaxUp`, `MaxDown`, `MaxFaults`, `Margin`).  The runs that
are bounded in these ways do not check for deadlock: the application may have nothing
left to say and the network nothing left to deliver; in `Lobbies` and `Game` the process may end, and in `play` the client, by a refusal.

What the properties say:

- `ReplayProtection`: what was processed is recognised as a duplicate from then on,
  until the bounded history has evicted its id.
- `NothingUnseenAcknowledged`: what never arrived is neither dropped nor
  acknowledged, unless the head once moved by exactly the width (finding 1).
- `AcknowledgedWasAccepted`: a reliable packet leaves `_sentPackets` only when the
  peer processed it, however acknowledgements are delayed and repeated.
- `AcceptedIsKept`: an ordered packet that was acknowledged, which nobody will send
  again, is delivered or waits in its reorder buffer.
- `ImplementsOrderedChannel`: the ids handed up on a channel are a prefix of the ids
  submitted on it, and they only grow.
- `AcceptedOrClosed`: a pending packet is processed by the peer, or the session closes.
- `AnnouncedFirst`, `RemovedIsReported`, `DispatchedOnce`: what the server application
  hears of one session: onConnect first and once; onDisconnect exactly for the sessions
  that left the map; each packet at most once.  (A packet *may* be dispatched after
  onDisconnect: the I/O thread may hold it while its session is erased.  `Lobbies`
  has such JOINs.)
- `ConnectResolves`, `SilentRemoved`, `SilenceNoticed`: an attempt ends; the server drops
  the session of a client that is gone, for good; a client notices that the server is
  gone.
- `LookupAgrees`: the manager looks a session up in a lobby exactly if the session plays
  there or will once the lobby has run its queue.  The two are changed by different
  threads at different times.
- `InputsFindTheirPlayer`: no input runs while its session has no player, which would
  throw in the lobby's thread.
- `PlayersKnowTheState`: the last game state queued for or sent to a connected player is
  that of its own lobby.
- `EmptyLobbiesStop`, `StoppedIsReaped`, `GhostsVanish`: no lobby runs for nobody, except
  lobby 0 and the one with the last id, which is started for a session that is refused; a
  lobby that stops leaves the map; the player of a disconnected session goes away,
  except when a JOIN of the session was dispatched after onDisconnect: that player stays,
  its lobby never ends, and nothing ever removes it.
- `EveryLobbyIsListed`: a client that asks for one page after the other, as many as it is told
  there are, is told of every lobby once, as long as none comes or goes in between.
- `StorageAgrees`: in both worlds, an entity's bit for a component is on exactly if the component's
  sparse set has it, the three arrays of each set agree, and no component's mask contains
  another's.
- `EntitiesDecoded`: an entity that lobby and client both have has the same components with the
  same values on both, through mask, bytes and factory.
- `NobodyMissed`: the client of a player has every entity of its lobby, or a packet with it is on its
  way.
- `GhostsExplained`: an entity the client shows and the lobby no longer has is one whose DESTROY is
  on its way, was lost, came before the entity, or was sent while the client's session was no
  player.  The last of these needs no fault of the network: `leave` and `clearEcs` remove the player
  first and broadcast afterwards, `serverToClient` is never cleared.
- `StateKnownUnlessLate`: when all packets that set it have arrived, in order, the client is in
  the game state of its lobby.
- `ClientEndsOnlyByJoinAck`: the client ends by an exception only when it handles a JOIN_ACK, for
  whose entity `at()` throws: one that refuses a request, or, if a packet came late, one that
  comes before the SPAWN of its entity or after its DESTROY.  No packet of the server makes a
  read of its content fail.
- `WavesInRange`: a wave indexes the groups it has until it is finished, and no wave is bought
  on credit.
- `LobbyFailsOnlyByWrongKill`: the two places where a match can end the server (`restart()`,
  which takes every player's State unchecked, and the director, which takes the last of the
  players' positions) are safe in any order of joins, leaves, starts, shots and ticks, unless
  the sweep of the dead has killed an entity that was a player or not dead.  That does
  happen: killing an entity that is not the last moves the last one into its slot, and the
  slot the last one had still reads as dead (`SparseSet`'s `tail`); a player who joined in
  the middle of a match is in such a slot.
- `ImplementsReplica`: the client is shown nothing that was not created, hides nothing that lives,
  and no id is given twice.
- `ShotsArePresses`: at most one bullet per press of space, whatever is lost.
- `TargetIsPosition`, `ShownSettles`: once no update of an entity is on its way the client draws it
  towards where the server has it, and, if it is a player or a bullet, in the end at that place,
  unless an update of it was lost or made it jump.  (An enemy never rests: off the screen it flies
  on, and is broadcast in every tick.)
- `PlayersStayApart`: two players that do not overlap never come to overlap, whichever way each of
  them moves.  (They do overlap at the start: every player appears in the same place.  With three
  players, moving out of one can put a player into another; the model has two.)
- `OneRoomForGood`: however many JOINs a held mouse button sends, a session gets one room and
  one entity; a lobby is created for a session that is let into it, except the one with the
  last id, which is created and started for a session that is refused.
- `BulletsLeave`: again and again there is no bullet: each meets an enemy or leaves the screen, at
  the right, since bullets fly to the right only.  The exception is a match that an enemy or a
  player has left (see `Followed`).

## 4. Fairness

`Session`: weak fairness of `Update` with a given pending packet among the due ones.
`Server::update` and `Client::update` are called by the main loop for ever and call
`Session::update` of every session that is not closing; the clock advances, so a packet
that stays pending is past its timeout again and again.

`Connection`: weak fairness of each main thread and of an I/O thread that holds a
datagram (threads are scheduled); strong fairness of the client's check with the
reconnection timeout elapsed, and of the two silences.  Strong, because the code
compares the clock at one point of its loop, so the step is enabled infinitely often
but not continuously; the loop is never so slow that the clock does not advance from
one turn to the next.  Nothing is assumed of the network; the bound on deliveries
makes it fall silent in the end, which is the case the three properties are about.

`Lobbies`: weak fairness of the main loop and of each lobby's thread; a lobby that catches
up on ticks is done at some time, which supposes that a tick takes less than its period.
No fairness for packets or disconnections.

`Play`: weak fairness of the lobby's tick, of the delivery of packets that were not lost, of the
server's serving of packets, and of a frame without keys or mouse: the loops of the client and of
the lobby never stop, and the user takes a hand off the keys now and then.  `Game` has no
liveness property and no fairness.

## 5. The proofs

Each property that a theorem states is a property of a run too: the run shows it on a small
instance, the theorem for every value of the constants.  TLC checked the inductive invariants
of the receive window and of `Session` (on 367,609 states) before they were proved.

### The receive window

`AckWindowProofs` and `ReplayWindowProofs`, for every `Width` and `MaxHistory` that are positive
naturals (`WidthAssumption`, `MaxHistoryAssumption`) and every set of ids `SeqIds`
contained in the naturals (`SeqIdsAssumption`):

- `UpdateCorrect`: what `updateAcknowledgeInfo` does to any well-formed window,
  whatever branch it takes.  One lemma per branch (`FirstPacket`, `InsideWindow`,
  `OutOfWindow`, `SlideNear`, `SlideFar`), each from facts about the listing of the bits
  that fall off (`FallenIdsFinite`, `DescendingRange`) and about the history
  (`AppendRange`, `PushOldRange`).
- `Invariance`: `Spec => []IInv`.
- `TypeCorrect`, `AtMostOnce`, `NoFalseAcknowledgement`: the three invariants of
  the run `replay`, from `IInv`.

`NothingUnseenAcknowledged` is not inductive: an id in the history that the head has not
passed by the width yet is consulted by nothing today, and becomes a duplicate when the
head moves.  `IInv` therefore says, of every id the window *knows* (head, bit or history:
`Known`), that it was accepted; and it adds the typing and the shape of the window
(`WindowOK`: no bit stands for an id below 0, and a session that has received nothing has
an empty field and history), which the arithmetic on distances needs.  The exception for
the full-width shift is needed, as `replay_shift` shows.

### Two sessions

`SessionProofs`, for every workload, width, threshold, number of retransmissions and of
channels, over a network that loses, duplicates and reorders.  The only assumption beyond the
ranges of the constants is that there are two ends (`PeersAssumption`).

- `SessionTypeOK`, `SessionAcknowledged`, `SessionKept`: the invariants of the run `session`.
- `SessionImplementsChannel`: the sessions implement an `OrderedChannel` in each direction and
  on each channel.  `SessionMapsInit` maps the initial states.  A `Send` of an ordered packet is
  the channel's `Submit` (`SendMaps`); an accepted packet hands up what the channel delivers, in
  one step, with everything that waited behind it (`AcceptMaps`); every other step stutters
  (`SessionMapsStep`).

The properties speak of what has left a session; what makes them true is what travels.  An
acknowledgement may arrive at any later time, also after it was repeated, so it must be true for
ever: `Acked` says that whatever a session's window knows, and whatever is acknowledged by a
datagram on its way, was accepted, and that a reliable packet which is no longer pending was.
It is conditioned on no full-width shift having happened, as the property is, and uses
`UpdateCorrect` for the window.  `Numbered` says that an id names one packet, `Submitted` that
the order id of an ordered packet is its place among those submitted, `Handed` that what
`applyOrdering` has handed up is what was submitted first and that only later packets wait in
the reorder buffer, `Kept` that an accepted ordered packet is in one of the two.  With `Typed`,
`Bounded` (the ids that the workload and the ACKs account for) and `Received` (only packets that
were sent are accepted) these are inductive.  `RunFacts` and `InOrderFacts` are about the loop that empties
the reorder buffer: it stops at the first gap.

### A connection

`ConnectionProofs`, for every bound on attempts, endpoints' ids and packets, and every
interleaving of the four threads:

- `ConnectionTypeOK`, `ConnectionAnnouncedFirst`, `ConnectionRemovedIsReported`,
  `ConnectionDispatchedOnce`: the four invariants of the run `connection`.

What the I/O thread has taken from the map and not used yet, and what waits in the event queue,
must be covered too.  `Announced` follows a session from the map through `serverIo` and the
events to the calls of the application: `onConnect` is called when the CONNECT is dispatched, and
no packet of the session is queued ahead of that event.  `Reported` does the same for the erased
sessions that `update` has not reported yet.  `Once` says that a packet in the event queue is one
its session has seen, is there once only and has not been dispatched.  `ClientTyped` and
`ServerTyped` are their types.

### The lobbies

`LobbiesProofs` is about `Spec` of `Lobbies`, for every set of sessions, every last id and every
number of packets (`LastIdAssumption`, `MaxPacketsAssumption`), and so for any number of lobby
threads beside the main thread.

- What a push and a pop do to `PlaysAfter`: `PushOther`, `PushOwn`, `PopHead`.  Running
  the head of a queue never changes who plays once the whole queue has run; a push does so
  only for the session whose join or leave it is.
- `ActRoom`, `PushedRoom`, `CreatedRooms`, `ReapShape`: what an action leaves of the rooms
  and of the manager, stated once.
- `LobbiesInvariance`: `Spec => []IInv`, with `IInv` = `Typed` and `LookupAgrees`.
  `LookupAgrees` alone is not inductive: a lobby that joinRoom creates must be empty, and
  no session may be looked up in it, which `TypeOK` says (`id >= next => room[id] = NewRoom`,
  `lookup` below `next`).  `Typed` adds the record types.  That a lobby is destroyed under
  its thread, or pushed to afterwards, does not disturb the argument as long as the process
  runs: nothing looks at the keys of the map.
- `LobbiesTypeOK`, `LookupAlwaysAgrees`: two invariants of the run `lobbies`.
  `StartIndex` bounds the count of the lobbies, from which `Manager::update` starts.
- `InputsAlwaysFindTheirPlayer`: a third.  `LookupAgrees` speaks of the end of a queue; an
  input may be anywhere in it, so `InputInv` adds `InputsAhead`: for each input in a queue,
  its session plays when the lobby comes to it (`PlaysBefore`).  At the push this is
  `LookupAgrees`; pops and later pushes keep it (`PushAhead`, `PopAhead`).
- `EmptyLobbiesAlwaysStop`: a fourth.  The invariant is inductive with the
  types of `IInv`.  A lobby other than lobby 0 comes to run without players only as
  joinRoom creates it, which pushes a join in the same step; a join in the queue stays there
  until it is run (`PushAwaited`, `PopAwaited`), which gives the lobby a player; and the leave of
  the last player stops the lobby (`LeftEmpty`).
- `PlayersAlwaysKnowTheState`: a fifth.  The last word a connected player was told must be of the
  lobby it plays in.  What could go wrong is a packet of *another* lobby after it: a connected
  session plays in one lobby at most (`PlaysInOne`, from `LookupAgrees` and `UpStays`: only a
  session that has ended leaves, so no connected session changes lobbies), and a lobby tells its
  own players only.  `Posted` has the types of what is queued.  `ToldAppend`, `ToldTell` and `PerformTells` are about
  the last word of a queue of packets.
- `EveryLobbyIsAlwaysListed`: a sixth, about `getLobbiesId` and `getLobbiesMaxPage`.  `OrderedOnce`: an
  order of the keys that holds each of them and is as long as they are many holds each once;
  `PageOf`: division by the page size puts each place on one page, one that is asked for.

### The sparse set, and loops

`SparseSetProofs` is about `SparseSet`, for every set of ids and of values:

- `PutUpdates`, `RemoveDeletes`: on a set that is `Consistent` (the sparse index and the list of
  entities are inverse to each other), `put` and `remove` leave one that is, and what it stands
  for (`Map`) changes at that id and nowhere else.  For `remove`, that includes the value that is
  swapped into the gap, and the case that the removed value is the last.  The empty set is
  consistent (`EmptySetIsEmpty`), so every set that is reached by puts and removals is.

It also has what the proofs of `Play` and `Game` need of loops.  A loop of the code is a function
of the number of turns taken (`Loops`).  The induction theorems of the library take an operator,
which no installed prover can instantiate; but `NatLessThanWellFounded` is about a relation, and
gives each nonempty set of naturals a least element (`LeastNat`), so that a *set* of naturals with 0
and the successor of each of its members is all of them (`NatSetInduction`).  From that, by sets:

- `Turns`: if each turn leads from `sets[i - 1]` to `sets[i]`, the loop is defined, and ends in
  `sets[n]`.  `sets` is the loop's invariant, one set of states for each turn.
- `SameRun`: two loops that begin alike and take like turns end alike.
- `KeptTurn`, `KeptInOrder`: what is kept of a sequence is in its order, and nothing else.

### A user at the client

`PlayProofs`, for every screen, all speeds, hitboxes and patterns, any number of rooms, entities,
clicks and lost packets.  It assumes of the constants what the code fixes: two sessions and room
for their players (`PlayersAssumption`), a last lobby id of at most 255 and lobbies at first that
have ids up to it (`RoomsAssumption`), points and lengths that are whole numbers (`PointsAssumption`,
`LengthsAssumption`) and speeds that are not negative (`SpeedsAssumption`).

- `TypeOKAlways`, `ShotsArePressesAlways`, `TargetIsPositionAlways`: three invariants of the run
  `play`.
- `OneRoomForGoodAlways`: an action property.  A session keeps the first room and entity it got,
  however many JOINs the clicks of its user send, and a lobby that is created is either the
  session's or the one with the last id.  Its invariant `Counted` says that the server's count of
  lobbies is between 1 and one more than the last id: a created lobby has that count as its id, so it
  is never the mark for having no room, by which the server knows a session it has not let in yet;
  and at the last id nothing is created any more.
- `PlayersStayApartAlways`: an action property, about two players on any screen, wherever they start.

The invariant of the first three is `PInv`.  Its parts, and why each is there:

- `LobbyOK`: every player has a body, ids of bodies are below the counter, the array of the bodies
  is consistent.  A tick goes through that array with systems that move, kill and remove;
  `Carried` says what survives each (the bodies are bodies that were there, of the same type, and
  no player's is missing), `CarriedInPlace` that they have not moved either.
- `SentOK`: what makes `TargetIsPosition` true is what travels.  For an entity whose updates were
  not lost, each packet on its way, and what the client shows, is either right about its place
  (`Right`) or followed by an update of it (`TrackedAt`).  A tick that moves a body sends
  an update in the same step (`isUpdated`), so packets that are right become packets that are
  followed.  `Follows` says what a handled packet leaves of that on the client.
- `Together` joins the two, with: a client in no room shows nothing and is sent lists of lobbies
  only.
- `Interface`: the menus queue one packet at most.  Two buttons of the list, or the
  button that creates a room, are never under the mouse at once (`RoomsApart`).
- `Paid`: shots so far, plus shots on their way to the server (`ShotsOf`), are no more than
  presses of space.  `ShotsArePresses` alone forgets those on their way.

`PlayersStayApartAlways` needs two more facts.  `Peopled` (of `Play`): a body with the type of a player
is that of a session in the lobby, so that there are two of them at most.  It is inductive with `PInv`:
joins add a body and a session together, shots and waves add other types, kills spare players.
And one about a turn of `ApplyMovement` (`MovedApart`): a player moves to the side first, and is
stopped by the body `findCollider` names, which can only be the other player, at the place where that
one is in this turn; so the two do not overlap after it (`WalkedApart`), and the same for
up and down from there.  The slots of two players are places of an array that the loop does not
reorder, so being apart (`Clear`) is kept from each turn to the next (`MovementApart`, by `Turns`).  What
comes before (enemies steer) and after (updates are announced, the dead are swept) moves no player
(`InPlaceApart`), and the restart of a game neither.

### A match

`GameProofs`, for all sessions, every pool of waves, blocks of masks of every size and any number
of entities, packets and faults:

- `LobbyFailsOnlyByWrongKillAlways`, `WavesInRangeAlways`: two invariants of the run `game`.

They assume that a wave costs something, that its intervals are naturals and that it has groups
of enemies, none empty (`WavePoolAssumption`), that the director's income and delays are not
negative (`IncomeAssumption`), and that a block has bits (`BlockBitsAssumption`).

Neither is inductive.  `Serving` is: `Attended(lobby)`, and the process runs unless
the lobby has wronged an entity.  The parts of `Attended`:

- The lobby is of the type `Lobbies`.  The director in it holds waves in range, and credits that
  are naturals: for that the picks of `getPickedWaves`, a recursive function of the credits, must
  exist and be what its equation says (`PicksAre`), and spend no more than there is
  (`PicksAffordable`).
- Its world is `Peopled`: `Sound`, with a State and a Type for each entity.  A world is sound if each
  component has one bit of its own, across the blocks of the masks; if a component's sparse set is
  consistent and has the entities whose mask has that bit; and if no id is ahead of the counter.
  So an entity of that world has a State to restart with, whatever was swapped where.
- The players are `Seated`: no two sessions have one entity, and each was created.  Otherwise
  the leave of one could destroy the entity of another, who then has no State for `restart()`.
- A running game has a player.  The last leave ends it (`Cleared`), which is why the director
  finds someone's position.
- Unless an entity was wronged, the entity of each player exists, with the type of a player.  The
  sweep of the dead spares that type, the removals of `restart()` look for others, and bullets
  and enemies get ids of their own.

Beneath it, and of use without it: what the operations of the ECS do to a sound world, for any
components.  `RegisterAll` (components are registered one by one, the masks grow by a block
when they must, and no bit is given twice), `InsertSound`, `PreRegisterSound`, `RegisterSound`, `WriteSound`,
`DestroySound`, `SettledSound`; `ViewListed` and `GroupListed`, what a view and a group go
through; `SweptAll`, what the iteration of `BroadcastDeadEntities` does to a world from which it
kills: it stays sound, and no entity is gone that it did not count as killed.

What a client reads of a packet is what the lobby wrote:

- `PacketsAreRead`: the payload of each packet of the set `Packets` is bytes, and reading those bytes by
  the kind of the packet gives that packet and nothing else; no read throws.  `Packets` has SPAWN,
  WORLD_INIT, DESTROY, JOIN_ACK (accepting and refusing) and UPDATE_GAME_STATE with every game state,
  ids, numbers in masks, and counts below 2^16, and contents of any bytes.  UPDATE_POSITION is not
  among them, and that a lobby's packets are is checked by `EntitiesDecoded` only.

A read takes its bytes from where the last one stopped.  `ScalarBytes` says that a number of one or two
bytes (with zeros before it in wider fields) is written in big endian order and read back from
memory as it was; `ScalarRead`, `NumbersRead` and `ListsRead` that a reader before a number, a vector or
a vector of vectors has read it and stands before what was written next.  The last two
go through loops, whose invariants are by `Turns`: what is left to read after so many of the
elements (`Tails`).  `ThreeFields` and `FourFields` put the fields of a packet one after the other.
`RawArrives` adds the header: with any id and flags, `Header::parse` accepts it, finds the id of the packet
and leaves the payload.  So `DeliverHandles`: a step in which a packet arrives does to the client what
its handler does with the packet that was sent.

### What is only model-checked

- Of `Game`: `TypeOK`, `StorageAgrees`, `EntitiesDecoded`, `NobodyMissed`, `GhostsExplained`,
  `StateKnownUnlessLate`, `ClientEndsOnlyByJoinAck`, `ImplementsReplica`.  All of them speak of the
  client's replica.  The lobby's half of `StorageAgrees` is what `Peopled` says, and `DeliverHandles` is
  what a delivery does; what is missing is that every packet a lobby sends is one of `Packets` (its
  masks have small numbers only) and what the client's handlers do to its own ECS.
- Every liveness property (`AcceptedOrClosed`, `ConnectResolves`, `SilentRemoved`, `SilenceNoticed`,
  `StoppedIsReaped`, `GhostsVanish`, `BulletsLeave`, `ShownSettles`): TLAPS has no means to reason
  about `ENABLED`, which fairness rests on.

## 6. Where code and documents disagree

1. `session.cpp:371` shifts a 32-bit field by 32 when a packet is exactly 32 ids ahead
   of the head.  That is undefined; on x86 and AArch64 the field stays as it is, its
   stale bits then stand for packets that never arrived, and those packets are dropped
   as duplicates when they do and acknowledged at once.  The model allows both
   outcomes a build can have (field kept, field cleared).  Run `replay_shift`.
2. `client.hpp:77` says disconnect() "immediately closes"; a CONNECT_ACK event that is
   in the queue, or in the hands of the I/O thread, sets `_isConnected` afterwards.  The
   client then has no session, `update()` returns early and `connect()` refuses: it cannot
   be used again until `disconnect()` is called once more.  Run `connection_closed`.
3. A client that reconnects before the server has erased its session talks to that
   session (`server.cpp:63`), whose window knows the first ids of the previous one: the
   new session's first reliable packets are dropped as duplicates and acknowledged.
   `packet.hpp:37` promises "Guaranteed delivery".  Run `connection_delivery`.
4. `subject.md:94` asks the server to "run regardless of what's wrong".  Two sequences of
   ordinary joins and leaves end it.  `leave` resets `_isRunning` in the lobby's own thread;
   `Manager::update` may then destroy the lobby while that detached thread still runs
   actions and ticks in it (and a session that joined in between keeps a dangling pointer
   in `_playerLookup`).  And once a lobby other than the newest has left the map, the loop of
   `Manager::update`, which counts positions, calls `_lobbies.at(i)` for an id that is gone:
   the exception leaves `main`.  Run `lobbies_up`.

Not runs, but of the same kind:

- `docs/rtntp.txt:181` asks the receiver to queue the id of an out-of-band packet for
  explicit acknowledgement; `session.cpp:381-394` pushes it to the history only.  Its
  sender sends it again, and the second copy, a duplicate, is queued.
- `handle_join_ack.cpp:18` logs "entity {} cannot try to join, entity not created." and returns;
  four lines before, `binding_map.at(packet.id)` has thrown `std::out_of_range` in that very case,
  which nothing catches.  A late packet is not needed: a refused request is answered by a JOIN_ACK of
  id 0 (`lobby_manager.cpp:92`), whose status, "a boolean" (`join_ack.hpp:22`), the handler does
  not read (`ClientEndsOnlyByJoinAck` says that this is how a client ends).
- The comment at `session.hpp:202-205` says an ACK is a RICH_ACK when the history is not
  empty; the code decides by `_pendingRichAcks`.
- `packet.hpp:99` calls the header's version one "to reject mismatch peers"; `Header::parse`
  compares the protocol's id only.

What the runs `game` and `play` excuse in their properties is behaviour of the code too, which no
document rules out: ghosts (`GhostsExplained`), a client that is told an old game state last, a lobby whose
sweep of the dead kills the wrong entity, an entity that jumps and is drawn back
(`handle_update_position.cpp:29` sets its position but not its target).

## 7. What is not modelled

`PROJECT.json` names every component and the reason.

- Drawing, animation, sounds, fonts, the command line, logging and the statistics: no state
  of theirs decides what the programs do.
- Asio and the socket's errors; several endpoints in `Connection`, whose sessions share the
  event queue only; `Server::broadcast`, which the programs do not call.
- Two threads of one application calling the same `Client`: the R-Type client calls
  it from one thread, so the race between `_internal_send` and `disconnect()`
  (`client.hpp:160`) is not met.
- Floating-point lengths: `Play` has whole numbers.  A frame that takes longer than a fifth of a
  second makes the interpolation swing away from its target (`interpolation.cpp:26`).
- Reading the waves: a wave that costs nothing would never let `getPickedWaves` return
  (`WavePoolAssumption` excludes it), and a missing key throws an exception that `load` does
  not catch.
- Sizes: a payload longer than the uint16 of the header, or than a datagram, such as the
  WORLD_INIT of a very full lobby, is sent again until the session gives up.
- Code without a caller: `SparseView::erase`, behaviours of the engine (`rteng.hpp:63` replaces
  the behaviour of every entity), the move pattern `hover`, the handlers of UPDATE_ENTITY_STATE and
  UPDATE_HEALTH, score and health.
- The paging of the sparse index, which only saves memory.
- The rooms a client shows: it makes their buttons once, from the first list that is not empty
  (`Menus.cpp:69`), and asks for page 0 only.
- The endless exchange of ACKs between idle peers (`session.cpp:395`) and the growth of the
  history past its bound (`session.cpp:388`): the models bound the ids, and no document says
  otherwise.

## 8. The plan

Done: the core of rtnt (`AckWindow` to `Connection`), the server's threads (`Lobbies`), the
match and its replica (`Game` with what it is built on), the user and the screen (`Play`), the
proofs of section 5.

What is left is the client's side of a match: that the wire holds `Packets` only, and
that the world of the client is sound, by the lemmas on sound worlds that `GameProofs` has.  With
them `StorageAgrees` of the client, `EntitiesDecoded` and the refinement of `Replica` come into
reach.
