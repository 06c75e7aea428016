------------------------------ MODULE PlayProofs ------------------------------
(***************************************************************************)
(* Proofs that a user gets one room for good, whatever it clicks, and, by  *)
(* an invariant of the lobby, the client and all that is on its way        *)
(* between them, that the types hold, that every shot was a press, that    *)
(* the client draws its entities towards the places they are at, and that  *)
(* no tick moves one player into the other.                                *)
(***************************************************************************)
EXTENDS MCPlay, SparseSetProofs, FiniteSetTheorems, SequenceTheorems

\* The fields of server.
Fields == {"set", "next", "players", "state", "rooms", "home"}

(***************************************************************************)
(* The inductive invariant: there is never a lobby beyond the last id.     *)
(***************************************************************************)
Counted == DOMAIN server = Fields /\ server.rooms \in 1..(LastId + 1)

\* A step of the lobby Me is in, which leaves the rooms and the players alone.
Stays(s, t) ==
  /\ DOMAIN t = DOMAIN s
  /\ t.home = s.home /\ t.rooms = s.rooms /\ t.players = s.players

\* A room more, for a session that is let into it unless the room is the last one.
Opened(s, t) ==
  t.rooms # s.rooms =>
    /\ t.rooms = s.rooms + 1
    /\ t.home = IF s.rooms = LastId THEN NoRoom ELSE s.rooms

\* A tick, with the restart of the game it may begin with.
LEMMA TickStays ==
  ASSUME Counted, Tick
  PROVE  Stays(server, server')
<1>1. ASSUME NEW lobby, NEW sent, Played(lobby, sent), Stays(server, lobby)
      PROVE  Stays(server, server')
  <2>1. PICK set, at, kind :
          \/ server' = [lobby EXCEPT !.set = set]
          \/ server' = WithEnemy([lobby EXCEPT !.set = set], at, kind)
    BY <1>1, Zenon DEF Played, LobbyStep
  <2> QED BY <1>1, <2>1 DEF Stays, WithEnemy, Counted, Fields
<1>2. CASE Over
  <2>1. Played(Restarted(server, GameOver), Restarting(server, GameOver))
    BY <1>2 DEF Tick
  <2>2. Stays(server, Restarted(server, GameOver))
    BY DEF Restarted, Stays, Counted, Fields
  <2> QED BY <1>1, <2>1, <2>2
<1>3. CASE ~Over
  <2>1. Played(server, << >>)
    BY <1>3 DEF Tick
  <2> QED BY <1>1, <2>1 DEF Stays
<1> QED BY <1>2, <1>3
\* join() of a lobby by Me: one it is let into for good.
LEMMA EnteredRoomCounts ==
  ASSUME NEW s, DOMAIN s = Fields, NEW room, EnteredRoom(s, room)
  PROVE  DOMAIN server' = Fields /\ server'.home = room /\ server'.rooms = s.rooms
<1> DEFINE lobby == IF room = 0 THEN s ELSE NewLobby(s.rooms)
<1>1. DOMAIN lobby = Fields /\ lobby.rooms = s.rooms
  BY DEF NewLobby, Fields
<1> HIDE DEF lobby
<1>2. server' = [Joined(lobby, Me, SpawnPoint) EXCEPT !.home = room]
  BY Zenon DEF EnteredRoom, LobbyStep, lobby
<1>3. PICK set, next, players :
        Joined(lobby, Me, SpawnPoint) =
          [lobby EXCEPT !.set = set, !.next = next, !.players = players]
  BY Zenon DEF Joined
<1> QED BY <1>1, <1>2, <1>3 DEF Fields

\* createLobby: the numbers of the rooms stay within those of the ids.
LEMMA CreatedRoomCounts ==
  ASSUME Counted
  PROVE  /\ DOMAIN CreatedRoom = Fields /\ CreatedRoom.home = server.home
         /\ CreatedRoom.players = server.players
         /\ CreatedRoom.rooms \in 1..(LastId + 1)
         /\ CreatedRoom.rooms = IF server.rooms > LastId THEN server.rooms ELSE server.rooms + 1
         /\ server.rooms \in Nat /\ LastId \in Nat /\ server.rooms <= LastId + 1
<1>1. LastId \in Nat /\ server.rooms \in 1..(LastId + 1)
  BY RoomsAssumption DEF Counted
<1>2. server.rooms \in Nat /\ server.rooms <= LastId + 1
  BY <1>1
<1>3. CASE server.rooms > LastId
  <2>1. CreatedRoom = server
    BY <1>3 DEF CreatedRoom
  <2> QED BY <1>1, <1>2, <1>3, <2>1 DEF Counted
<1>4. CASE ~(server.rooms > LastId)
  <2>1. CreatedRoom = [server EXCEPT !.rooms = @ + 1]
    BY <1>4 DEF CreatedRoom
  <2>2. /\ DOMAIN CreatedRoom = Fields /\ CreatedRoom.home = server.home
        /\ CreatedRoom.players = server.players /\ CreatedRoom.rooms = server.rooms + 1
    BY <2>1 DEF Counted, Fields
  <2> QED BY <1>1, <1>2, <1>4, <2>2
<1> QED BY <1>3, <1>4

\* Manager::joinRoom.
LEMMA ServeJoinCounts ==
  ASSUME Counted, NEW room, ServeJoin(room)
  PROVE  /\ Counted'
         /\ server.home # NoRoom => Stays(server, server')
         /\ Opened(server, server')
<1> USE CreatedRoomCounts
<1>1. CASE server.home # NoRoom
  <2>1. server' = server
    BY <1>1 DEF ServeJoin, LobbyStep
  <2> QED BY <2>1 DEF Counted, Stays, Opened
<1>2. CASE server.home = NoRoom /\ room = CreateRoom
  <2>1. JoinNewRoom
    BY <1>2 DEF ServeJoin
  <2>2. CASE server.rooms < LastId
    <3>1. EnteredRoom(CreatedRoom, server.rooms)
      BY <2>1, <2>2 DEF JoinNewRoom
    <3>2. /\ DOMAIN server' = Fields /\ server'.home = server.rooms
          /\ server'.rooms = CreatedRoom.rooms
      BY <3>1, EnteredRoomCounts
    <3> QED BY <1>2, <2>2, <3>2 DEF Counted, Opened
  <2>3. CASE ~(server.rooms < LastId)
    <3>1. server' = CreatedRoom
      BY <2>1, <2>3 DEF JoinNewRoom
    <3>2. /\ DOMAIN server' = Fields /\ server'.home = NoRoom
          /\ server'.rooms = CreatedRoom.rooms
      BY <1>2, <3>1
    <3> QED BY <1>2, <2>3, <3>2 DEF Counted, Opened
  <2> QED BY <2>2, <2>3
<1>3. CASE server.home = NoRoom /\ room # CreateRoom
  <2>1. JoinRoom(room)
    BY <1>3 DEF ServeJoin
  <2>2. CASE room < server.rooms
    <3>1. EnteredRoom(server, room)
      BY <2>1, <2>2 DEF JoinRoom
    <3>2. DOMAIN server' = Fields /\ server'.rooms = server.rooms
      BY <3>1, EnteredRoomCounts DEF Counted
    <3> QED BY <1>3, <3>2 DEF Counted, Opened
  <2>3. CASE ~(room < server.rooms)
    <3>1. server' = server
      BY <2>1, <2>3 DEF JoinRoom, LobbyStep
    <3> QED BY <1>3, <3>1 DEF Counted, Opened
  <2> QED BY <2>2, <2>3
<1> QED BY <1>1, <1>2, <1>3

\* Manager::pushActionToLobby, and the answer to a LOBBY_LIST.
LEMMA ServeOtherStays ==
  ASSUME Counted, ServeStart \/ (\E mask : ServeInput(mask)) \/ ServeList
  PROVE  Stays(server, server')
<1>1. CASE ServeStart
  <2>1. PICK set, state :
          server' = server \/ server' = [server EXCEPT !.state = state, !.set = set]
    BY <1>1, Zenon DEF ServeStart, LobbyStep, Restarted
  <2> QED BY <2>1 DEF Stays, Counted, Fields
<1>2. ASSUME NEW mask, ServeInput(mask) PROVE Stays(server, server')
  <2>1. PICK set, more, next :
          \/ server' = server
          \/ server' = [server EXCEPT !.set = set]
          \/ server' = [[server EXCEPT !.set = set] EXCEPT !.set = more, !.next = next]
    BY <1>2, Zenon DEF ServeInput, LobbyStep
  <2> QED BY <2>1 DEF Stays, Counted, Fields
<1>3. CASE ServeList
  BY <1>3 DEF ServeList, Stays
<1> QED BY <1>1, <1>2, <1>3

\* Every step.
LEMMA NextCounts ==
  ASSUME Counted, [Next]_vars
  PROVE  /\ Counted'
         /\ server.home # NoRoom => Stays(server, server')
         /\ Opened(server, server')
<1>1. ASSUME Stays(server, server')
      PROVE  /\ Counted'
             /\ server.home # NoRoom => Stays(server, server')
             /\ Opened(server, server')
  BY <1>1 DEF Stays, Counted, Opened
<1>2. CASE Serve
  <2> DEFINE p == Head(up)
  <2>1. CASE p.kind = "JOIN"
    <3>1. ServeJoin(p.room)
      BY <1>2, <2>1 DEF Serve
    <3> QED BY <3>1, ServeJoinCounts
  <2>2. CASE p.kind = "START"
    BY <1>1, <1>2, <2>2, ServeOtherStays DEF Serve
  <2>3. CASE p.kind = "USER_INPUT"
    BY <1>1, <1>2, <2>3, ServeOtherStays DEF Serve
  <2>4. CASE p.kind = "LOBBY_LIST"
    BY <1>1, <1>2, <2>4, ServeOtherStays DEF Serve
  <2> QED BY <1>2, <2>1, <2>2, <2>3, <2>4 DEF Serve
<1>3. ASSUME NEW keys, OtherMoves(keys) PROVE Stays(server, server')
  <2>1. PICK set : server' = [server EXCEPT !.set = set]
    BY <1>3, Zenon DEF OtherMoves, LobbyStep
  <2> QED BY <2>1 DEF Stays, Counted, Fields
<1>4. CASE Tick
  BY <1>1, <1>4, TickStays
<1>5. ASSUME UNCHANGED server PROVE Stays(server, server')
  BY <1>5 DEF Stays
<1>6. CASE User \/ Deliver \/ (\E i \in DOMAIN down : Lose(i)) \/ UNCHANGED vars
  BY <1>1, <1>5, <1>6 DEF User, Frame, Deliver, Lose, vars
<1> QED BY <1>1, <1>2, <1>3, <1>4, <1>6 DEF Next
\* The other player has joined the first lobby.
LEMMA InitCounts == Init => Counted
<1> SUFFICES ASSUME NEW rooms \in Rooms, NEW at, server = NewServer(rooms, at) PROVE Counted
  BY DEF Init
<1>1. PICK set, next, players :
        server = [NewLobby(rooms) EXCEPT !.set = set, !.next = next, !.players = players]
  BY Zenon DEF NewServer, Joined
<1> QED BY <1>1, RoomsAssumption DEF NewLobby, Counted, Fields

\* There is never a lobby beyond the last id.
LEMMA AlwaysCounted == Spec => []Counted
BY InitCounts, NextCounts, PTL DEF Spec

(***************************************************************************)
(* Whatever the user clicks, as often as it likes, and whatever the other  *)
(* player does: a session that has a lobby and an entity keeps them, and   *)
(* a lobby is only created for a session that is let into it, except the   *)
(* one with the last id, which is created once and whose session is        *)
(* refused (joinRoom, createLobby).                                        *)
(***************************************************************************)
THEOREM OneRoomForGoodAlways == Spec => OneRoomForGood
<1>1. Counted /\ [Next]_vars => Counted'
  BY NextCounts
<1>2. Counted /\ [Next]_vars =>
        [/\ server.home # NoRoom => UNCHANGED <<server.home, server.rooms, server.players>>
         /\ server'.rooms # server.rooms =>
              /\ server'.rooms = server.rooms + 1
              /\ server'.home = IF server.rooms = LastId THEN NoRoom ELSE server.rooms]_server
  BY NextCounts DEF Stays, Opened
<1> QED BY <1>1, <1>2, InitCounts, PTL DEF Spec, OneRoomForGood
------------------------------------------------------------------------------
(* The bodies of a lobby.                                                  *)

\* What a body is made of.
Bodies ==
  [type : {kPlayer, kEnemy, kBullet}, state : Nat, x : Int, y : Int, vx : Int, vy : Int,
   updated : BOOLEAN, set : {kStraightSlow, kZigZag, kHover, kWave}]

\* The players are the first in the arrays of the set.
PlayersFirst(set) ==
  \A i, j \in DOMAIN set.dense :
    i < j /\ set.dense[j].type = kPlayer => set.dense[i].type = kPlayer

BodySet(set) ==
  /\ set \in SparseSets(DOMAIN set.sparse, Bodies)
  /\ Consistent(set)
  /\ PlayersFirst(set)

\* The sets with the bodies of set, in their slots, each of its type, in whatever state and place.
Touched(set) ==
  {t \in SparseSets(DOMAIN set.sparse, Bodies) :
     /\ t.sparse = set.sparse /\ t.entities = set.entities /\ Len(t.dense) = Len(set.dense)
     /\ \A i \in DOMAIN set.dense : t.dense[i].type = set.dense[i].type}

\* The body is in the same place.
Unmoved(b, c) == c.x = b.x /\ c.y = b.y

\* What can be read of a set of bodies.
LEMMA BodySetShape ==
  ASSUME NEW set, BodySet(set)
  PROVE  /\ Len(set.dense) \in Nat /\ Len(set.entities) = Len(set.dense)
         /\ DOMAIN set.dense = 1..Len(set.dense) /\ DOMAIN set.entities = 1..Len(set.dense)
         /\ set.dense \in Seq(Bodies) /\ set.entities \in Seq(DOMAIN set.sparse)
         /\ \A e \in DOMAIN set.sparse :
              set.sparse[e] \in 1..Len(set.dense) /\ set.entities[set.sparse[e]] = e
         /\ \A i \in 1..Len(set.dense) :
              /\ set.dense[i] \in Bodies
              /\ set.entities[i] \in DOMAIN set.sparse /\ set.sparse[set.entities[i]] = i
<1> DEFINE ids == DOMAIN set.sparse
<1>1. set \in SparseSets(ids, Bodies) /\ Consistent(set)
  BY DEF BodySet
<1>2. /\ Len(set.dense) \in Nat /\ Len(set.entities) = Len(set.dense)
      /\ DOMAIN set.dense = 1..Len(set.dense) /\ DOMAIN set.entities = 1..Len(set.dense)
      /\ \A e \in ids : set.sparse[e] \in 1..Len(set.dense)
  <2> HIDE DEF ids
  <2> QED BY <1>1, SetPlaces
<1>3. set.dense \in Seq(Bodies) /\ set.entities \in Seq(ids)
  BY <1>1 DEF SparseSets
<1>4. \A e \in DOMAIN set.sparse : set.entities[set.sparse[e]] = e
  BY <1>1 DEF Consistent
<1>5. \A i \in 1..Len(set.dense) :
        set.entities[i] \in DOMAIN set.sparse /\ set.sparse[set.entities[i]] = i
  BY <1>1, <1>2 DEF Consistent
<1>6. \A i \in 1..Len(set.dense) : set.dense[i] \in Bodies
  <2> DEFINE B == Bodies
  <2> HIDE DEF B
  <2>1. set.dense \in Seq(B)
    BY <1>3 DEF B
  <2>2. \A i \in 1..Len(set.dense) : set.dense[i] \in B
    BY <2>1
  <2> QED BY <2>2 DEF B
<1> QED BY <1>2, <1>3, <1>4, <1>5, <1>6

\* Touching the bodies of a set leaves one, with the same entities.
LEMMA TouchedSet ==
  ASSUME NEW set, BodySet(set), NEW t \in Touched(set)
  PROVE  /\ BodySet(t) /\ t.sparse = set.sparse /\ t.entities = set.entities
         /\ DOMAIN t.dense = DOMAIN set.dense
         /\ \A i \in DOMAIN set.dense : t.dense[i].type = set.dense[i].type
         /\ t.dense \in Seq(Bodies)
         /\ \A e \in DOMAIN set.sparse : Get(t, e).type = Get(set, e).type
<1>1. /\ t \in SparseSets(DOMAIN set.sparse, Bodies)
      /\ t.sparse = set.sparse /\ t.entities = set.entities /\ Len(t.dense) = Len(set.dense)
      /\ \A i \in DOMAIN set.dense : t.dense[i].type = set.dense[i].type
  BY DEF Touched
<1>2. t.dense \in Seq(Bodies)
  BY <1>1 DEF SparseSets
<1>3. DOMAIN set.dense = 1..Len(set.dense) /\ DOMAIN t.dense = 1..Len(set.dense)
  BY <1>1, <1>2, BodySetShape
<1>4. Consistent(t)
  BY <1>1, <1>3 DEF Consistent, BodySet
<1>5. PlayersFirst(t)
  BY <1>1, <1>3 DEF PlayersFirst, BodySet
<1>6. \A e \in DOMAIN set.sparse : Get(t, e).type = Get(set, e).type
  BY <1>1, <1>3, BodySetShape DEF Get
<1> QED BY <1>1, <1>2, <1>3, <1>4, <1>5, <1>6 DEF BodySet

\* One body of a set touched.
LEMMA TouchOne ==
  ASSUME NEW set, BodySet(set), NEW t \in Touched(set), NEW i \in DOMAIN set.dense,
         NEW b \in Bodies, b.type = t.dense[i].type
  PROVE  LET u == [t EXCEPT !.dense[i] = b]
         IN  /\ u \in Touched(set)
             /\ u.dense[i] = b
             /\ \A k \in DOMAIN set.dense : k # i => u.dense[k] = t.dense[k]
<1> DEFINE u == [t EXCEPT !.dense[i] = b]
           n == Len(set.dense)
<1>1. /\ t \in SparseSets(DOMAIN set.sparse, Bodies) /\ t.dense \in Seq(Bodies)
      /\ DOMAIN t.dense = 1..n /\ DOMAIN set.dense = 1..n /\ n \in Nat
      /\ t.sparse = set.sparse /\ t.entities = set.entities
      /\ \A k \in 1..n : t.dense[k].type = set.dense[k].type
  BY TouchedSet, BodySetShape DEF Touched
<1>2. /\ u = [dense |-> [t.dense EXCEPT ![i] = b], entities |-> t.entities,
              sparse |-> t.sparse, tail |-> t.tail]
      /\ t.entities \in Seq(DOMAIN set.sparse) /\ t.sparse \in [DOMAIN set.sparse -> Nat]
      /\ t.tail \in Seq(Bodies)
  <2>1. PICK d, e, s, l : t = [dense |-> d, entities |-> e, sparse |-> s, tail |-> l]
                          /\ e \in Seq(DOMAIN set.sparse) /\ s \in [DOMAIN set.sparse -> Nat]
                          /\ l \in Seq(Bodies)
    BY <1>1 DEF SparseSets
  <2>2. t.dense = d /\ t.entities = e /\ t.sparse = s /\ t.tail = l
    BY <2>1
  <2>3. u = [dense |-> [d EXCEPT ![i] = b], entities |-> e, sparse |-> s, tail |-> l]
    BY <2>1
  <2> HIDE DEF u
  <2> QED BY <2>1, <2>2, <2>3
<1>3. /\ u.dense = [t.dense EXCEPT ![i] = b] /\ u.entities = t.entities
      /\ u.sparse = t.sparse /\ u.tail = t.tail
  BY <1>2
<1>4. /\ u.dense \in Seq(Bodies) /\ Len(u.dense) = n /\ u.dense[i] = b
      /\ \A k \in 1..n : k # i => u.dense[k] = t.dense[k]
  BY <1>1, <1>3
<1>5. u \in SparseSets(DOMAIN set.sparse, Bodies)
  <2> HIDE DEF u
  <2>1. u = [dense |-> u.dense, entities |-> u.entities, sparse |-> u.sparse, tail |-> u.tail]
    BY <1>2, <1>3
  <2> QED BY <1>2, <1>3, <1>4, <2>1 DEF SparseSets
<1> HIDE DEF u
<1>6. u \in Touched(set)
  BY <1>1, <1>3, <1>4, <1>5 DEF Touched
<1> QED BY <1>1, <1>4, <1>6 DEF u

\* A set is one of those its bodies can be touched into.
LEMMA TouchedSelf ==
  ASSUME NEW set, BodySet(set)
  PROVE  set \in Touched(set)
BY DEF BodySet, Touched

------------------------------------------------------------------------------
(* The systems that move bodies.                                           *)

\* The smallest of some places is one of them.
LEMMA MinPlace ==
  ASSUME NEW S \in SUBSET Nat, S # {}
  PROVE  Min(S) \in S
BY LeastNat DEF Min

\* The patterns of the enemies give them other velocities, and leave them in place.
LEMMA SteeredBody ==
  ASSUME NEW b \in Bodies, NEW slope \in Int
  PROVE  Steered(b, slope) \in Bodies /\ Steered(b, slope).type = b.type
         /\ Unmoved(b, Steered(b, slope)) /\ Steered(b, slope).updated = b.updated
<1>1. /\ MaxVelocity \in Nat /\ ZigzagPush \in Nat
      /\ Lines.slow \in Int /\ Lines.wave \in Int /\ Lines.top \in Int /\ Lines.bottom \in Int
  BY LengthsAssumption
<1>2. MaxVelocity \div 2 \in Int /\ MaxVelocity \div 4 \in Int
  BY <1>1
<1>3. ASSUME NEW vx \in Int, NEW vy \in Int, NEW c, c = [b EXCEPT !.vx = vx, !.vy = vy]
      PROVE  c \in Bodies /\ c.type = b.type /\ Unmoved(b, c) /\ c.updated = b.updated
  BY <1>3 DEF Bodies, Unmoved
<1>4. b.vx \in Int /\ b.vy \in Int /\ b.x \in Int /\ b.y \in Int
      /\ b.set \in {kStraightSlow, kZigZag, kHover, kWave}
  BY DEF Bodies
<1>5. CASE b.set = kHover
  <2>1. Steered(b, slope) = b
    BY <1>5 DEF Steered, kHover, kStraightSlow, kWave, kZigZag
  <2> QED BY <2>1 DEF Unmoved
<1>6. CASE b.set = kStraightSlow
  <2>1. Steered(b, slope) = StraightSlow(b)
    BY <1>6 DEF Steered, kHover, kStraightSlow, kWave, kZigZag
  <2>2. PICK vx \in Int : StraightSlow(b) = [b EXCEPT !.vx = vx]
    BY <1>1, <1>2, <1>4 DEF StraightSlow
  <2>3. [b EXCEPT !.vx = vx] = [b EXCEPT !.vx = vx, !.vy = b.vy]
    BY DEF Bodies
  <2>4. StraightSlow(b) = [b EXCEPT !.vx = vx, !.vy = b.vy]
    BY <2>2, <2>3
  <2>5. Steered(b, slope) = [b EXCEPT !.vx = vx, !.vy = b.vy] /\ b.vy \in Int
    BY <1>4, <2>1, <2>4
  <2>6. \A c : c = [b EXCEPT !.vx = vx, !.vy = b.vy] =>
                 c \in Bodies /\ c.type = b.type /\ Unmoved(b, c) /\ c.updated = b.updated
    BY <1>3, <2>5
  <2> QED BY <2>5, <2>6
<1>7. CASE b.set = kWave
  <2> DEFINE vx == IF b.x < Lines.wave /\ b.vx = 0 THEN MaxVelocity \div 2 ELSE -(MaxVelocity \div 2)
  <2>1. Steered(b, slope) = Wave(b, slope)
    BY <1>7 DEF Steered, kHover, kStraightSlow, kWave, kZigZag
  <2>2. Wave(b, slope) = [b EXCEPT !.vx = vx, !.vy = slope * vx]
    BY Zenon DEF Wave
  <2>3. vx \in Int
    BY <1>1, <1>2, <1>4
  <2> HIDE DEF vx
  <2>4. PICK vy \in Int : vy = slope * vx
    BY <2>3
  <2>5. Steered(b, slope) = [b EXCEPT !.vx = vx, !.vy = vy]
    BY <2>1, <2>2, <2>4, Zenon
  <2> QED BY <1>3, <2>3, <2>5, Zenon
<1>8. CASE b.set = kZigZag
  <2> DEFINE vx == IF b.vx = 0 THEN -(MaxVelocity \div 2) ELSE b.vx
             push == IF b.y < Lines.top THEN ZigzagPush
                     ELSE IF b.y > Lines.bottom THEN -ZigzagPush ELSE 0
  <2>1. Steered(b, slope) = Zigzag(b, slope)
    BY <1>8 DEF Steered, kHover, kStraightSlow, kWave, kZigZag
  <2>2. Zigzag(b, slope) = [b EXCEPT !.vx = vx, !.vy = slope * vx + push]
    BY Zenon DEF Zigzag
  <2>3. vx \in Int /\ push \in Int
    BY <1>1, <1>2, <1>4
  <2> HIDE DEF vx, push
  <2>4. PICK vy \in Int : vy = slope * vx + push
    BY <2>3
  <2>5. Steered(b, slope) = [b EXCEPT !.vx = vx, !.vy = vy]
    BY <2>1, <2>2, <2>4, Zenon
  <2> QED BY <1>3, <2>3, <2>5, Zenon
<1> QED BY <1>4, <1>5, <1>6, <1>7, <1>8

\* ApplyEnemyMovement moves nobody.
LEMMA EnemiesSteered ==
  ASSUME NEW set, BodySet(set), NEW slope \in [Enemies(set) -> Slopes]
  PROVE  /\ ApplyEnemyMovement(set, slope) \in Touched(set)
         /\ \A k \in DOMAIN set.dense :
              Unmoved(set.dense[k], ApplyEnemyMovement(set, slope).dense[k])
<1> DEFINE Same(t) == \A k \in DOMAIN set.dense : Unmoved(set.dense[k], t.dense[k])
<1> DEFINE turns == Len(set.dense)
           first == set
           States == {t \in Touched(set) : Same(t)}
           Step(x, i) == IF x.dense[i].type # kEnemy THEN x
                         ELSE [x EXCEPT !.dense[i] = Steered(@, slope[x.entities[i]])]
           sets == [i \in 0..turns |-> {t \in Touched(set) : Same(t)}]
           step == [i \in 1..turns |-> [x \in sets[i - 1] |-> Step(x, i)]]
           Eq(f) == f = [i \in 0..turns |-> IF i = 0 THEN first
                                             ELSE Given(f[i - 1], LAMBDA x : Step(x, i))]
<1>60. turns \in Nat
  BY BodySetShape
<1>61. ASSUME NEW i \in 1..turns, NEW x \in sets[i - 1] PROVE Step(x, i) \in sets[i]
  <2>1. i - 1 \in 0..turns /\ i \in 0..turns
    BY <1>60
  <2>2. x \in Touched(set) /\ Same(x)
    BY <2>1
  <2>3. i \in DOMAIN set.dense
    BY BodySetShape
  <2>4. CASE x.dense[i].type # kEnemy
    <3>1. Step(x, i) = x
      BY <2>4
    <3> HIDE DEF Step, turns, Same
    <3> QED BY <2>1, <2>2, <3>1
  <2>5. CASE x.dense[i].type = kEnemy
    <3> DEFINE b == x.dense[i]
               c == Steered(b, slope[x.entities[i]])
    <3>1. b \in Bodies /\ set.entities = x.entities /\ set.dense[i].type = kEnemy
      BY <2>2, <2>3, <2>5, TouchedSet, BodySetShape
    <3>2. slope[x.entities[i]] \in Int
      <4>1. set.entities[i] \in Enemies(set)
        BY <2>3, <3>1, Zenon DEF Enemies
      <4>2. slope[set.entities[i]] \in Slopes
        BY <4>1
      <4> QED BY <3>1, <4>2, SpeedsAssumption
    <3>3. c \in Bodies /\ c.type = b.type /\ Unmoved(b, c)
      BY <3>1, <3>2, SteeredBody
    <3>4. Step(x, i) = [x EXCEPT !.dense[i] = c]
      BY <2>5
    <3> HIDE DEF Step, turns, c
    <3>5. /\ Step(x, i) \in Touched(set) /\ Step(x, i).dense[i] = c
          /\ \A k \in DOMAIN set.dense : k # i => Step(x, i).dense[k] = x.dense[k]
      BY <2>2, <2>3, <3>3, <3>4, TouchOne
    <3>6. Same(Step(x, i))
      BY <2>2, <2>3, <3>3, <3>5 DEF Unmoved
    <3> QED BY <2>1, <3>5, <3>6
  <2> QED BY <2>4, <2>5
<1>62. first \in sets[0] /\ sets \in [0..turns -> SUBSET States]
  BY TouchedSelf DEF Unmoved
<1> HIDE DEF turns, first, States
<1>63. PICK f \in [0..turns -> States] : IsRun(f, turns, first, sets, step)
  <2>1. \A i \in 1..turns : \A x \in sets[i - 1] : step[i][x] \in sets[i]
    BY <1>61
  <2> HIDE DEF step, sets
  <2> QED BY <1>60, <1>62, <2>1, Turns
<1>64. \A i \in 1..turns : f[i] = Step(f[i - 1], i)
  <2> SUFFICES ASSUME NEW i \in 1..turns PROVE f[i] = Step(f[i - 1], i)
    OBVIOUS
  <2>1. i - 1 \in 0..turns
    BY <1>60
  <2>2. f[i] = step[i][f[i - 1]] /\ f[i - 1] \in sets[i - 1]
    BY <1>63, <2>1 DEF IsRun
  <2> HIDE DEF sets, Step
  <2> QED BY <2>2
<1>65. f[0] = first /\ f[turns] \in sets[turns]
  BY <1>60, <1>63 DEF IsRun
<1> HIDE DEF step, sets, Step
<1>66. Eq(f)
  <2>1. ASSUME NEW i \in 0..turns
        PROVE  f[i] = IF i = 0 THEN first ELSE Given(f[i - 1], LAMBDA x : Step(x, i))
    <3>1. CASE i = 0
      BY <1>65, <3>1
    <3>2. CASE i # 0
      <4>1. Given(f[i - 1], LAMBDA x : Step(x, i)) = Step(f[i - 1], i)
        BY DEF Given
      <4>2. i \in 1..turns
        BY <1>60, <3>2
      <4> QED BY <1>64, <3>2, <4>1, <4>2
    <3> QED BY <3>1, <3>2
  <2> QED BY <2>1
<1> DEFINE g == CHOOSE h : Eq(h)
<1>67. Eq(g)
  BY <1>66, Zenon
<1>68. ApplyEnemyMovement(set, slope) = g[turns]
  BY DEF InTurn, turns, first, Step, ApplyEnemyMovement
<1> HIDE DEF Eq, g
<1>69. g[0] = f[0] /\ \A i \in 1..turns : g[i - 1] = f[i - 1] => g[i] = f[i]
  <2>1. g = [i \in 0..turns |-> IF i = 0 THEN first
                                 ELSE CHOOSE r \in {Step(x, i) : x \in {g[i - 1]}} : TRUE]
    BY <1>67 DEF Eq, Given
  <2>2. g[0] = first
    BY <1>60, <2>1
  <2>3. \A i \in 1..turns : g[i] = Step(g[i - 1], i)
    <3> SUFFICES ASSUME NEW i \in 1..turns PROVE g[i] = Step(g[i - 1], i)
      OBVIOUS
    <3>1. g[i] = CHOOSE r \in {Step(x, i) : x \in {g[i - 1]}} : TRUE
      BY <1>60, <2>1
    <3> QED BY <3>1
  <2> QED BY <1>64, <1>65, <2>2, <2>3
<1>70. ApplyEnemyMovement(set, slope) \in sets[turns]
  BY <1>60, <1>65, <1>68, <1>69, SameRun
<1> QED BY <1>60, <1>70 DEF sets

\* findCollider finds another body, or none.
LEMMA ColliderPlace ==
  ASSUME NEW set, NEW n \in Nat, DOMAIN set.dense = 1..n, NEW i, NEW x, NEW y, NEW type
  PROVE  Collider(set, i, x, y, type) \in {0} \cup ((1..n) \ {i})
<1> DEFINE met == {j \in DOMAIN set.dense \ {i} :
                     /\ set.dense[j].type = type
                     /\ Collide(x, y, set.dense[i].type, set.dense[j])}
<1>1. Collider(set, i, x, y, type) = IF met = {} THEN 0 ELSE Min(met)
  BY DEF Collider
<1>2. met \subseteq (1..n) \ {i}
  OBVIOUS
<1> HIDE DEF met
<1>3. met # {} => Min(met) \in met
  BY <1>2, MinPlace
<1> QED BY <1>1, <1>2, <1>3

\* A body keeps its type and whether it is updated; it moves only along its velocity.
Steps(b, c) ==
  /\ c \in Bodies /\ c.type = b.type /\ c.updated = b.updated
  /\ c.x = b.x \/ b.vx # 0
  /\ c.y = b.y \/ b.vy # 0

\* The bodies of t and u are in the same slots, and all but the one in slot i in the same places.
OthersStay(t, u, i) ==
  \A k \in DOMAIN t.dense : k # i =>
    Unmoved(t.dense[k], u.dense[k]) /\ u.dense[k].updated = t.dense[k].updated

\* What the fields of a body are, and its hitbox.
LEMMA BodyFields ==
  ASSUME NEW b \in Bodies
  PROVE  /\ b.x \in Int /\ b.y \in Int
         /\ b.vx \in Int /\ b.vy \in Int /\ b.state \in Nat /\ b.updated \in BOOLEAN
         /\ Box[b.type].width \in Int /\ Box[b.type].height \in Int
<1>1. /\ b.x \in Int /\ b.y \in Int /\ b.vx \in Int /\ b.vy \in Int /\ b.state \in Nat
      /\ b.updated \in BOOLEAN /\ b.type \in {kPlayer, kEnemy, kBullet}
  BY DEF Bodies
<1>2. Box[b.type] \in [width : Nat, height : Nat]
  BY <1>1, LengthsAssumption
<1>3. Box[b.type].width \in Int /\ Box[b.type].height \in Int
  BY <1>2
<1> QED BY <1>1, <1>3

\* A body of which a place and a velocity, or the velocities and the state, are others.
LEMMA BodyWith ==
  ASSUME NEW b \in Bodies
  PROVE  /\ \A x \in Int, v \in Int : [b EXCEPT !.x = x, !.vx = v] \in Bodies
         /\ \A y \in Int, v \in Int : [b EXCEPT !.y = y, !.vy = v] \in Bodies
         /\ \A v, w \in Int, s \in Nat : [b EXCEPT !.vx = v, !.vy = w, !.state = s] \in Bodies
<1>1. ASSUME NEW x \in Int, NEW v \in Int PROVE [b EXCEPT !.x = x, !.vx = v] \in Bodies
  BY DEF Bodies
<1>2. ASSUME NEW y \in Int, NEW v \in Int PROVE [b EXCEPT !.y = y, !.vy = v] \in Bodies
  BY DEF Bodies
<1>3. ASSUME NEW v \in Int, NEW w \in Int, NEW s \in Nat
      PROVE  [b EXCEPT !.vx = v, !.vy = w, !.state = s] \in Bodies
  BY DEF Bodies
<1> QED BY <1>1, <1>2, <1>3

\* A step to the side.
LEMMA HorizontalStep ==
  ASSUME NEW set, BodySet(set), NEW t \in Touched(set), NEW i \in DOMAIN set.dense,
         NEW j \in {0} \cup DOMAIN set.dense
  PROVE  LET u == Horizontally(t, i, j)
         IN  /\ u \in Touched(set) /\ OthersStay(t, u, i)
             /\ Steps(t.dense[i], u.dense[i]) /\ u.dense[i].vy = t.dense[i].vy
             /\ u.dense[i].y = t.dense[i].y
<1> DEFINE b == t.dense[i]
           x == CASE j = 0 -> b.x + b.vx
                  [] j # 0 /\ b.vx > 0 -> t.dense[j].x - Box[b.type].width
                  [] j # 0 /\ b.vx < 0 -> t.dense[j].x + Box[t.dense[j].type].width
                  [] j # 0 /\ b.vx = 0 -> b.x
           c == [b EXCEPT !.x = x, !.vx = 0]
<1>1. /\ DOMAIN t.dense = DOMAIN set.dense /\ \A k \in DOMAIN set.dense : t.dense[k] \in Bodies
  BY TouchedSet
<1>2. /\ b \in Bodies /\ (j # 0 => t.dense[j] \in Bodies)
  BY <1>1
<1>3. /\ b.x \in Int /\ b.vx \in Int /\ Box[b.type].width \in Int
      /\ j # 0 => t.dense[j].x \in Int /\ Box[t.dense[j].type].width \in Int
  BY <1>2, BodyFields
<1>4. x \in Int /\ (b.vx = 0 => x = b.x)
  BY <1>3
<1>5. Horizontally(t, i, j) = [t EXCEPT !.dense[i] = c]
  BY Zenon DEF Horizontally
<1> HIDE DEF x, b
<1>7. Steps(b, c) /\ c.vy = b.vy /\ c.y = b.y
  <2>1. c \in Bodies
    <3>1. b \in Bodies /\ 0 \in Int
      BY <1>2
    <3> QED BY <1>4, <3>1, BodyWith, Zenon
  <2>2. c.type = b.type /\ c.updated = b.updated /\ c.x = x /\ c.y = b.y /\ c.vy = b.vy
    BY <1>2 DEF Bodies
  <2> HIDE DEF c
  <2> QED BY <1>4, <2>1, <2>2 DEF Steps
<1> HIDE DEF c
<1>8. /\ [t EXCEPT !.dense[i] = c] \in Touched(set) /\ [t EXCEPT !.dense[i] = c].dense[i] = c
      /\ \A k \in DOMAIN set.dense : k # i => [t EXCEPT !.dense[i] = c].dense[k] = t.dense[k]
  BY <1>7, TouchOne DEF Steps, b
<1> QED BY <1>1, <1>5, <1>7, <1>8 DEF OthersStay, Unmoved, b

\* A step up or down.
LEMMA VerticalStep ==
  ASSUME NEW set, BodySet(set), NEW t \in Touched(set), NEW i \in DOMAIN set.dense,
         NEW j \in {0} \cup DOMAIN set.dense
  PROVE  LET u == Vertically(t, i, j)
         IN  /\ u \in Touched(set) /\ OthersStay(t, u, i)
             /\ Steps(t.dense[i], u.dense[i]) /\ u.dense[i].x = t.dense[i].x
<1> DEFINE b == t.dense[i]
           y == CASE j = 0 -> b.y + b.vy
                  [] j # 0 /\ b.vy > 0 -> t.dense[j].y - Box[b.type].height
                  [] j # 0 /\ b.vy < 0 -> t.dense[j].y + Box[t.dense[j].type].height
                  [] j # 0 /\ b.vy = 0 -> b.y
           c == [b EXCEPT !.y = y, !.vy = 0]
<1>1. /\ DOMAIN t.dense = DOMAIN set.dense /\ \A k \in DOMAIN set.dense : t.dense[k] \in Bodies
  BY TouchedSet
<1>2. /\ b \in Bodies /\ (j # 0 => t.dense[j] \in Bodies)
  BY <1>1
<1>3. /\ b.y \in Int /\ b.vy \in Int /\ Box[b.type].height \in Int
      /\ j # 0 => t.dense[j].y \in Int /\ Box[t.dense[j].type].height \in Int
  BY <1>2, BodyFields
<1>4. y \in Int /\ (b.vy = 0 => y = b.y)
  BY <1>3
<1>5. Vertically(t, i, j) = [t EXCEPT !.dense[i] = c]
  BY Zenon DEF Vertically
<1> HIDE DEF y, b
<1>7. Steps(b, c) /\ c.x = b.x
  <2>1. c \in Bodies
    <3>1. b \in Bodies /\ 0 \in Int
      BY <1>2
    <3> QED BY <1>4, <3>1, BodyWith, Zenon
  <2>2. c.type = b.type /\ c.updated = b.updated /\ c.y = y /\ c.x = b.x
    BY <1>2 DEF Bodies
  <2> HIDE DEF c
  <2> QED BY <1>4, <2>1, <2>2 DEF Steps
<1> HIDE DEF c
<1>8. /\ [t EXCEPT !.dense[i] = c] \in Touched(set) /\ [t EXCEPT !.dense[i] = c].dense[i] = c
      /\ \A k \in DOMAIN set.dense : k # i => [t EXCEPT !.dense[i] = c].dense[k] = t.dense[k]
  BY <1>7, TouchOne DEF Steps, b
<1> QED BY <1>1, <1>5, <1>7, <1>8 DEF OthersStay, Unmoved, b

\* A player walks.
LEMMA WalkedStep ==
  ASSUME NEW set, BodySet(set), NEW t \in Touched(set), NEW i \in DOMAIN set.dense
  PROVE  LET u == Walked(t, i)
         IN  u \in Touched(set) /\ OthersStay(t, u, i) /\ Steps(t.dense[i], u.dense[i])
<1> DEFINE across == Horizontally(t, i, Beside(t, i))
           u == Vertically(across, i, Above(across, i))
<1>1. Walked(t, i) = u
  <2>1. Given(Beside(t, i), LAMBDA j : Horizontally(t, i, j)) = across
    BY DEF Given
  <2>2. Given(Above(across, i), LAMBDA j : Vertically(across, i, j)) = u
    BY DEF Given
  <2> HIDE DEF across, u
  <2>3. Given(across, LAMBDA a : Given(Above(a, i), LAMBDA j : Vertically(a, i, j)))
          = Given(Above(across, i), LAMBDA j : Vertically(across, i, j))
    BY DEF Given
  <2> QED BY <2>1, <2>2, <2>3 DEF Walked
<1>2. Len(set.dense) \in Nat /\ DOMAIN set.dense = 1..Len(set.dense) /\ DOMAIN t.dense = DOMAIN set.dense
  BY BodySetShape, TouchedSet
<1>3. Beside(t, i) \in {0} \cup DOMAIN set.dense
  BY <1>2, ColliderPlace DEF Beside
<1>4. /\ across \in Touched(set) /\ OthersStay(t, across, i)
      /\ Steps(t.dense[i], across.dense[i]) /\ across.dense[i].vy = t.dense[i].vy
      /\ across.dense[i].y = t.dense[i].y
  BY <1>3, HorizontalStep
<1> HIDE DEF across
<1>5. DOMAIN across.dense = DOMAIN set.dense
  BY <1>4, TouchedSet
<1>6. Above(across, i) \in {0} \cup DOMAIN set.dense
  BY <1>2, <1>5, ColliderPlace DEF Above
<1>7. /\ u \in Touched(set) /\ OthersStay(across, u, i)
      /\ Steps(across.dense[i], u.dense[i]) /\ u.dense[i].x = across.dense[i].x
  BY <1>4, <1>6, VerticalStep
<1> HIDE DEF u
<1>8. OthersStay(t, u, i) /\ Steps(t.dense[i], u.dense[i])
  BY <1>2, <1>4, <1>5, <1>7 DEF OthersStay, Steps, Unmoved
<1> QED BY <1>1, <1>7, <1>8

\* A bullet or an enemy flies, or meets the body in slot j.
LEMMA FlownStep ==
  ASSUME NEW set, BodySet(set), NEW t \in Touched(set), NEW i \in DOMAIN set.dense,
         NEW j \in {0} \cup (DOMAIN set.dense \ {i})
  PROVE  LET u == Flown(t, i, j)
         IN  u \in Touched(set) /\ OthersStay(t, u, i) /\ Steps(t.dense[i], u.dense[i])
<1> DEFINE b == t.dense[i]
           moved == [b EXCEPT !.x = @ + b.vx, !.y = @ + b.vy]
           flown == IF j = 0 THEN moved ELSE [b EXCEPT !.vx = 0, !.vy = 0, !.state = EntityDead]
           after == IF b.type = kBullet /\ OffScreen(flown) THEN [flown EXCEPT !.state = EntityDead]
                    ELSE flown
           met == IF j = 0 THEN t ELSE [t EXCEPT !.dense[j].state = EntityDead]
<1>1. /\ DOMAIN t.dense = DOMAIN set.dense /\ \A k \in DOMAIN set.dense : t.dense[k] \in Bodies
      /\ DOMAIN set.dense = 1..Len(set.dense)
  BY TouchedSet, BodySetShape
<1>2. Flown(t, i, j) = [met EXCEPT !.dense[i] = after]
  BY Zenon DEF Flown
<1>3. /\ b \in Bodies /\ b.x \in Int /\ b.y \in Int
      /\ b.vx \in Int /\ b.vy \in Int
  BY <1>1 DEF Bodies
<1>4. /\ b.x + b.vx \in Int /\ b.y + b.vy \in Int
      /\ b.vx = 0 => b.x + b.vx = b.x
      /\ b.vy = 0 => b.y + b.vy = b.y
  BY <1>3
<1>5. Steps(b, moved)
  BY <1>3, <1>4 DEF Bodies, Steps
<1>6. Steps(b, flown)
  <2>1. CASE j = 0
    BY <1>5, <2>1
  <2>2. CASE j # 0
    <3> HIDE DEF b
    <3>1. flown = [b EXCEPT !.vx = 0, !.vy = 0, !.state = EntityDead]
      BY <2>2
    <3> HIDE DEF flown
    <3>2. flown \in Bodies
      <4>1. b \in Bodies /\ 0 \in Int /\ EntityDead \in Nat
        BY <1>3 DEF EntityDead
      <4> QED BY <3>1, <4>1, BodyWith, Zenon
    <3>3. flown.type = b.type /\ flown.updated = b.updated /\ flown.x = b.x /\ flown.y = b.y
      BY <1>3, <3>1 DEF Bodies
    <3> QED BY <3>2, <3>3 DEF Steps
  <2> QED BY <2>1, <2>2
<1> HIDE DEF flown
<1>7. Steps(b, after)
  BY <1>6 DEF Bodies, Steps, EntityDead
<1> HIDE DEF after, b
<1>8. /\ met \in Touched(set) /\ met.dense[i] = t.dense[i]
      /\ \A k \in DOMAIN set.dense :
           Unmoved(t.dense[k], met.dense[k]) /\ met.dense[k].updated = t.dense[k].updated
  <2>1. CASE j = 0
    BY <2>1 DEF Unmoved
  <2>2. CASE j # 0
    <3> DEFINE c == [t.dense[j] EXCEPT !.state = EntityDead]
    <3>1. j \in DOMAIN set.dense /\ t.dense[j] \in Bodies
      BY <1>1, <2>2
    <3>2. /\ c \in Bodies /\ c.type = t.dense[j].type /\ c.updated = t.dense[j].updated
          /\ Unmoved(t.dense[j], c)
      BY <3>1 DEF Bodies, EntityDead, Unmoved
    <3>3. met = [t EXCEPT !.dense[j] = c]
      BY <2>2
    <3> HIDE DEF c, met
    <3>4. /\ met \in Touched(set) /\ met.dense[j] = c
          /\ \A k \in DOMAIN set.dense : k # j => met.dense[k] = t.dense[k]
      BY <3>1, <3>2, <3>3, TouchOne
    <3>5. met.dense[i] = t.dense[i]
      <4>1. i # j
        BY <2>2
      <4> QED BY <3>4, <4>1
    <3>6. ASSUME NEW k \in DOMAIN set.dense
          PROVE  Unmoved(t.dense[k], met.dense[k]) /\ met.dense[k].updated = t.dense[k].updated
      BY <3>2, <3>4 DEF Unmoved
    <3> QED BY <3>4, <3>5, <3>6
  <2> QED BY <2>1, <2>2
<1> HIDE DEF met
<1>9. /\ [met EXCEPT !.dense[i] = after] \in Touched(set)
      /\ [met EXCEPT !.dense[i] = after].dense[i] = after
      /\ \A k \in DOMAIN set.dense : k # i => [met EXCEPT !.dense[i] = after].dense[k] = met.dense[k]
  BY <1>7, <1>8, TouchOne DEF Steps, b
<1> QED BY <1>1, <1>2, <1>7, <1>8, <1>9 DEF OthersStay, b

\* The turn of a body begins: it is updated if it moves.
Marked(t, i) == [t EXCEPT !.dense[i].updated = t.dense[i].vx # 0 \/ t.dense[i].vy # 0]

\* Nobody has moved then.
LEMMA MarkedStep ==
  ASSUME NEW set, BodySet(set), NEW t \in Touched(set), NEW i \in DOMAIN set.dense
  PROVE  LET m == Marked(t, i)
         IN  /\ Moved(t, i) = MovedOn(m, i) /\ m \in Touched(set)
             /\ \A k \in DOMAIN set.dense : k # i => m.dense[k] = t.dense[k]
             /\ m.dense[i] \in Bodies /\ m.dense[i].type = t.dense[i].type
             /\ Unmoved(t.dense[i], m.dense[i])
             /\ m.dense[i].vx = t.dense[i].vx /\ m.dense[i].vy = t.dense[i].vy
             /\ m.dense[i].updated = (t.dense[i].vx # 0 \/ t.dense[i].vy # 0)
<1> DEFINE b == t.dense[i]
           c == [b EXCEPT !.updated = b.vx # 0 \/ b.vy # 0]
           m == Marked(t, i)
<1>1. m = [t EXCEPT !.dense[i] = c]
  BY DEF Marked
<1>2. b \in Bodies
  BY TouchedSet, BodySetShape
<1>3. /\ c \in Bodies /\ c.type = b.type /\ Unmoved(b, c) /\ c.vx = b.vx /\ c.vy = b.vy
      /\ c.updated = (b.vx # 0 \/ b.vy # 0)
  BY <1>2 DEF Bodies, Unmoved
<1>4. Moved(t, i) = MovedOn(m, i)
  <2> HIDE DEF m
  <2>1. Given(m, LAMBDA x : MovedOn(x, i)) = MovedOn(m, i)
    BY DEF Given
  <2> QED BY <2>1 DEF Moved, m, Marked
<1> HIDE DEF c, b, m
<1>5. /\ m \in Touched(set) /\ m.dense[i] = c
      /\ \A k \in DOMAIN set.dense : k # i => m.dense[k] = t.dense[k]
  BY <1>1, <1>3, TouchOne DEF b
<1> QED BY <1>3, <1>4, <1>5 DEF b, m

(***************************************************************************)
(* One turn of ApplyMovement: a body that is not where it was is updated.  *)
(***************************************************************************)
LEMMA MovedStep ==
  ASSUME NEW set, BodySet(set), NEW t \in Touched(set), NEW i \in DOMAIN set.dense
  PROVE  LET u == Moved(t, i)
         IN  /\ u \in Touched(set) /\ OthersStay(t, u, i)
             /\ Unmoved(t.dense[i], u.dense[i]) \/ u.dense[i].updated
<1> DEFINE m == Marked(t, i)
           u == MovedOn(m, i)
<1>1. /\ Moved(t, i) = u /\ m \in Touched(set)
      /\ \A k \in DOMAIN set.dense : k # i => m.dense[k] = t.dense[k]
      /\ m.dense[i] \in Bodies /\ Unmoved(t.dense[i], m.dense[i])
      /\ m.dense[i].vx = t.dense[i].vx /\ m.dense[i].vy = t.dense[i].vy
      /\ m.dense[i].updated = (t.dense[i].vx # 0 \/ t.dense[i].vy # 0)
  BY MarkedStep
<1> HIDE DEF m
<1>2. /\ DOMAIN t.dense = DOMAIN set.dense /\ DOMAIN m.dense = 1..Len(set.dense)
      /\ Len(set.dense) \in Nat /\ DOMAIN set.dense = 1..Len(set.dense)
  BY <1>1, TouchedSet, BodySetShape
<1>3. u \in Touched(set) /\ OthersStay(m, u, i) /\ Steps(m.dense[i], u.dense[i])
  <2>1. CASE m.dense[i].type = kPlayer
    <3>1. u = Walked(m, i)
      BY <2>1 DEF MovedOn
    <3> HIDE DEF u
    <3> QED BY <1>1, <3>1, WalkedStep
  <2>2. CASE m.dense[i].type # kPlayer
    <3> DEFINE j == Ahead(m, i)
    <3>1. u = Flown(m, i, j)
      <4>1. Given(j, LAMBDA k : Flown(m, i, k)) = Flown(m, i, j)
        BY DEF Given
      <4> QED BY <2>2, <4>1 DEF MovedOn
    <3>2. j \in {0} \cup (DOMAIN set.dense \ {i})
      BY <1>2, ColliderPlace DEF Ahead
    <3> HIDE DEF j, u
    <3> QED BY <1>1, <3>1, <3>2, FlownStep
  <2> QED BY <2>1, <2>2
<1> HIDE DEF u
<1>4. OthersStay(t, u, i)
  BY <1>1, <1>2, <1>3 DEF OthersStay
<1>5. Unmoved(t.dense[i], u.dense[i]) \/ u.dense[i].updated
  BY <1>1, <1>3 DEF Steps, Unmoved
<1> QED BY <1>1, <1>3, <1>4, <1>5

(***************************************************************************)
(* ApplyMovement, body after body: what each turn keeps up, all of them    *)
(* do.                                                                     *)
(***************************************************************************)
LEMMA MovementRun ==
  ASSUME NEW set, BodySet(set), NEW sets \in [0..Len(set.dense) -> SUBSET Touched(set)],
         set \in sets[0],
         \A i \in 1..Len(set.dense) : \A x \in sets[i - 1] : Moved(x, i) \in sets[i]
  PROVE  ApplyMovement(set) \in sets[Len(set.dense)]
<1> DEFINE turns == Len(set.dense)
           first == set
           States == Touched(set)
           Step(x, i) == Moved(x, i)
           step == [i \in 1..turns |-> [x \in sets[i - 1] |-> Step(x, i)]]
           Eq(f) == f = [i \in 0..turns |-> IF i = 0 THEN first
                                             ELSE Given(f[i - 1], LAMBDA x : Step(x, i))]
<1>60. turns \in Nat
  BY BodySetShape
<1>61. /\ \A i \in 1..turns : \A x \in sets[i - 1] : Step(x, i) \in sets[i]
       /\ sets \in [0..turns -> SUBSET States] /\ first \in sets[0]
  OBVIOUS
<1> HIDE DEF turns, first, States
<1>63. PICK f \in [0..turns -> States] : IsRun(f, turns, first, sets, step)
  <2>1. \A i \in 1..turns : \A x \in sets[i - 1] : step[i][x] \in sets[i]
    BY <1>61
  <2> HIDE DEF step
  <2> QED BY <1>60, <1>61, <2>1, Turns
<1>64. \A i \in 1..turns : f[i] = Step(f[i - 1], i)
  <2> SUFFICES ASSUME NEW i \in 1..turns PROVE f[i] = Step(f[i - 1], i)
    OBVIOUS
  <2>1. i - 1 \in 0..turns
    BY <1>60
  <2>2. f[i] = step[i][f[i - 1]] /\ f[i - 1] \in sets[i - 1]
    BY <1>63, <2>1 DEF IsRun
  <2> HIDE DEF Step
  <2> QED BY <2>2
<1>65. f[0] = first /\ f[turns] \in sets[turns]
  BY <1>60, <1>63 DEF IsRun
<1> HIDE DEF step, Step
<1>66. Eq(f)
  <2>1. ASSUME NEW i \in 0..turns
        PROVE  f[i] = IF i = 0 THEN first ELSE Given(f[i - 1], LAMBDA x : Step(x, i))
    <3>1. CASE i = 0
      BY <1>65, <3>1
    <3>2. CASE i # 0
      <4>1. Given(f[i - 1], LAMBDA x : Step(x, i)) = Step(f[i - 1], i)
        BY DEF Given
      <4>2. i \in 1..turns
        BY <1>60, <3>2
      <4> QED BY <1>64, <3>2, <4>1, <4>2
    <3> QED BY <3>1, <3>2
  <2> QED BY <2>1
<1> DEFINE g == CHOOSE h : Eq(h)
<1>67. Eq(g)
  BY <1>66, Zenon
<1>68. ApplyMovement(set) = g[turns]
  BY DEF InTurn, turns, first, Step, ApplyMovement
<1> HIDE DEF Eq, g
<1>69. g[0] = f[0] /\ \A i \in 1..turns : g[i - 1] = f[i - 1] => g[i] = f[i]
  <2>1. g = [i \in 0..turns |-> IF i = 0 THEN first
                                 ELSE CHOOSE r \in {Step(x, i) : x \in {g[i - 1]}} : TRUE]
    BY <1>67 DEF Eq, Given
  <2>2. g[0] = first
    BY <1>60, <2>1
  <2>3. \A i \in 1..turns : g[i] = Step(g[i - 1], i)
    <3> SUFFICES ASSUME NEW i \in 1..turns PROVE g[i] = Step(g[i - 1], i)
      OBVIOUS
    <3>1. g[i] = CHOOSE r \in {Step(x, i) : x \in {g[i - 1]}} : TRUE
      BY <1>60, <2>1
    <3> QED BY <3>1
  <2> QED BY <1>64, <1>65, <2>2, <2>3
<1>70. ApplyMovement(set) \in sets[turns]
  BY <1>60, <1>65, <1>68, <1>69, SameRun
<1> QED BY <1>70 DEF turns

(***************************************************************************)
(* ApplyMovement: whatever body is not where it was is marked as updated.  *)
(***************************************************************************)
LEMMA MovementMarks ==
  ASSUME NEW set, BodySet(set)
  PROVE  /\ ApplyMovement(set) \in Touched(set)
         /\ \A k \in DOMAIN set.dense :
              \/ Unmoved(set.dense[k], ApplyMovement(set).dense[k])
              \/ ApplyMovement(set).dense[k].updated
<1> DEFINE So(t, n) ==
             /\ \A k \in DOMAIN set.dense :
                  Unmoved(set.dense[k], t.dense[k]) \/ (k <= n /\ t.dense[k].updated)
           turns == Len(set.dense)
           sets == [i \in 0..turns |-> {t \in Touched(set) : So(t, i)}]
<1>1. turns \in Nat
  BY BodySetShape
<1>2. ASSUME NEW i \in 1..turns, NEW x \in sets[i - 1] PROVE Moved(x, i) \in sets[i]
  <2>1. i - 1 \in 0..turns /\ i \in 0..turns
    BY <1>1
  <2>2. x \in Touched(set) /\ So(x, i - 1)
    BY <2>1
  <2>3. i \in DOMAIN set.dense /\ DOMAIN set.dense = 1..Len(set.dense)
    BY BodySetShape
  <2>4. DOMAIN x.dense = DOMAIN set.dense
    BY <2>2, TouchedSet
  <2> DEFINE u == Moved(x, i)
  <2>5. /\ u \in Touched(set) /\ OthersStay(x, u, i)
        /\ Unmoved(x.dense[i], u.dense[i]) \/ u.dense[i].updated
    BY <2>2, <2>3, MovedStep
  <2> HIDE DEF u, turns
  <2>6. So(u, i)
    <3> SUFFICES ASSUME NEW k \in DOMAIN set.dense
                 PROVE  Unmoved(set.dense[k], u.dense[k]) \/ (k <= i /\ u.dense[k].updated)
      OBVIOUS
    <3>1. k \in Nat /\ i \in Nat
      BY <2>3, BodySetShape
    <3>2. Unmoved(set.dense[k], x.dense[k]) \/ (k <= i - 1 /\ x.dense[k].updated)
      BY <2>2
    <3>3. CASE k = i
      BY <2>5, <3>1, <3>2, <3>3 DEF Unmoved
    <3>4. CASE k # i
      BY <2>4, <2>5, <3>1, <3>2, <3>4 DEF OthersStay, Unmoved
    <3> QED BY <3>3, <3>4
  <2> QED BY <2>1, <2>5, <2>6 DEF u
<1>3. set \in sets[0] /\ sets \in [0..turns -> SUBSET Touched(set)]
  BY <1>1, TouchedSelf DEF Unmoved
<1>4. ApplyMovement(set) \in sets[turns]
  <2> HIDE DEF sets
  <2> QED BY <1>2, <1>3, MovementRun
<1> QED BY <1>1, <1>4

------------------------------------------------------------------------------
(* The systems that announce, revive and remove bodies.                    *)

\* The sets with the bodies of set, in their slots and places, each of its type.
Standing(set) ==
  {t \in Touched(set) : \A k \in DOMAIN set.dense : Unmoved(set.dense[k], t.dense[k])}

\* One body more of those that keep their places.
LEMMA StandTurn ==
  ASSUME NEW set, BodySet(set), NEW t \in Standing(set), NEW i \in DOMAIN set.dense,
         NEW c \in Bodies, c.type = t.dense[i].type, Unmoved(t.dense[i], c)
  PROVE  [t EXCEPT !.dense[i] = c] \in Standing(set)
<1> DEFINE u == [t EXCEPT !.dense[i] = c]
<1>1. t \in Touched(set) /\ \A k \in DOMAIN set.dense : Unmoved(set.dense[k], t.dense[k])
  BY DEF Standing
<1>2. /\ u \in Touched(set) /\ u.dense[i] = c
      /\ \A k \in DOMAIN set.dense : k # i => u.dense[k] = t.dense[k]
  BY <1>1, TouchOne
<1> HIDE DEF u
<1>3. \A k \in DOMAIN set.dense : Unmoved(set.dense[k], u.dense[k])
  BY <1>1, <1>2 DEF Unmoved
<1> QED BY <1>2, <1>3 DEF Standing, u

\* BroadcastUpdatedMovements moves nobody.
LEMMA AnnouncedStand ==
  ASSUME NEW set, BodySet(set)
  PROVE  Announced(set) \in Standing(set)
<1> DEFINE turns == Len(set.dense)
           first == set
           States == Standing(set)
           Step(x, i) == [x EXCEPT !.dense[i].updated = FALSE]
           sets == [i \in 0..turns |-> Standing(set)]
           step == [i \in 1..turns |-> [x \in sets[i - 1] |-> Step(x, i)]]
           Eq(f) == f = [i \in 0..turns |-> IF i = 0 THEN first
                                             ELSE Given(f[i - 1], LAMBDA x : Step(x, i))]
<1>60. turns \in Nat
  BY BodySetShape
<1>61. ASSUME NEW i \in 1..turns, NEW x \in sets[i - 1] PROVE Step(x, i) \in sets[i]
  <2>1. i - 1 \in 0..turns /\ i \in 0..turns
    BY <1>60
  <2>2. x \in Standing(set) /\ x \in Touched(set)
    BY <2>1 DEF Standing
  <2>3. i \in DOMAIN set.dense
    BY BodySetShape
  <2> DEFINE c == [x.dense[i] EXCEPT !.updated = FALSE]
  <2>4. x.dense[i] \in Bodies
    BY <2>2, <2>3, TouchedSet, BodySetShape
  <2>5. c \in Bodies /\ c.type = x.dense[i].type /\ Unmoved(x.dense[i], c)
    BY <2>4 DEF Bodies, Unmoved, EntityAlive
  <2>6. Step(x, i) = [x EXCEPT !.dense[i] = c]
    OBVIOUS
  <2> HIDE DEF Step, turns, c
  <2> QED BY <2>1, <2>2, <2>3, <2>5, <2>6, StandTurn
<1>62. first \in sets[0] /\ sets \in [0..turns -> SUBSET States]
  BY TouchedSelf DEF Unmoved, Standing
<1> HIDE DEF turns, first, States
<1>63. PICK f \in [0..turns -> States] : IsRun(f, turns, first, sets, step)
  <2>1. \A i \in 1..turns : \A x \in sets[i - 1] : step[i][x] \in sets[i]
    BY <1>61
  <2> HIDE DEF step, sets
  <2> QED BY <1>60, <1>62, <2>1, Turns
<1>64. \A i \in 1..turns : f[i] = Step(f[i - 1], i)
  <2> SUFFICES ASSUME NEW i \in 1..turns PROVE f[i] = Step(f[i - 1], i)
    OBVIOUS
  <2>1. i - 1 \in 0..turns
    BY <1>60
  <2>2. f[i] = step[i][f[i - 1]] /\ f[i - 1] \in sets[i - 1]
    BY <1>63, <2>1 DEF IsRun
  <2> HIDE DEF sets, Step
  <2> QED BY <2>2
<1>65. f[0] = first /\ f[turns] \in sets[turns]
  BY <1>60, <1>63 DEF IsRun
<1> HIDE DEF step, sets, Step
<1>66. Eq(f)
  <2>1. ASSUME NEW i \in 0..turns
        PROVE  f[i] = IF i = 0 THEN first ELSE Given(f[i - 1], LAMBDA x : Step(x, i))
    <3>1. CASE i = 0
      BY <1>65, <3>1
    <3>2. CASE i # 0
      <4>1. Given(f[i - 1], LAMBDA x : Step(x, i)) = Step(f[i - 1], i)
        BY DEF Given
      <4>2. i \in 1..turns
        BY <1>60, <3>2
      <4> QED BY <1>64, <3>2, <4>1, <4>2
    <3> QED BY <3>1, <3>2
  <2> QED BY <2>1
<1> DEFINE g == CHOOSE h : Eq(h)
<1>67. Eq(g)
  BY <1>66, Zenon
<1>68. Announced(set) = g[turns]
  BY DEF InTurn, turns, first, Step, Announced
<1> HIDE DEF Eq, g
<1>69. g[0] = f[0] /\ \A i \in 1..turns : g[i - 1] = f[i - 1] => g[i] = f[i]
  <2>1. g = [i \in 0..turns |-> IF i = 0 THEN first
                                 ELSE CHOOSE r \in {Step(x, i) : x \in {g[i - 1]}} : TRUE]
    BY <1>67 DEF Eq, Given
  <2>2. g[0] = first
    BY <1>60, <2>1
  <2>3. \A i \in 1..turns : g[i] = Step(g[i - 1], i)
    <3> SUFFICES ASSUME NEW i \in 1..turns PROVE g[i] = Step(g[i - 1], i)
      OBVIOUS
    <3>1. g[i] = CHOOSE r \in {Step(x, i) : x \in {g[i - 1]}} : TRUE
      BY <1>60, <2>1
    <3> QED BY <3>1
  <2> QED BY <1>64, <1>65, <2>2, <2>3
<1>70. Announced(set) \in sets[turns]
  BY <1>60, <1>65, <1>68, <1>69, SameRun
<1> QED BY <1>60, <1>70 DEF sets

\* What Restarted makes of those that are left.
Revived(set) ==
  InTurn(LAMBDA s, i : [s EXCEPT !.dense[i].state = EntityAlive], set, Len(set.dense))

\* Players that are revived stay where they are.
LEMMA RevivedStand ==
  ASSUME NEW set, BodySet(set)
  PROVE  Revived(set) \in Standing(set)
<1> DEFINE turns == Len(set.dense)
           first == set
           States == Standing(set)
           Step(x, i) == [x EXCEPT !.dense[i].state = EntityAlive]
           sets == [i \in 0..turns |-> Standing(set)]
           step == [i \in 1..turns |-> [x \in sets[i - 1] |-> Step(x, i)]]
           Eq(f) == f = [i \in 0..turns |-> IF i = 0 THEN first
                                             ELSE Given(f[i - 1], LAMBDA x : Step(x, i))]
<1>60. turns \in Nat
  BY BodySetShape
<1>61. ASSUME NEW i \in 1..turns, NEW x \in sets[i - 1] PROVE Step(x, i) \in sets[i]
  <2>1. i - 1 \in 0..turns /\ i \in 0..turns
    BY <1>60
  <2>2. x \in Standing(set) /\ x \in Touched(set)
    BY <2>1 DEF Standing
  <2>3. i \in DOMAIN set.dense
    BY BodySetShape
  <2> DEFINE c == [x.dense[i] EXCEPT !.state = EntityAlive]
  <2>4. x.dense[i] \in Bodies
    BY <2>2, <2>3, TouchedSet, BodySetShape
  <2>5. c \in Bodies /\ c.type = x.dense[i].type /\ Unmoved(x.dense[i], c)
    BY <2>4 DEF Bodies, Unmoved, EntityAlive
  <2>6. Step(x, i) = [x EXCEPT !.dense[i] = c]
    OBVIOUS
  <2> HIDE DEF Step, turns, c
  <2> QED BY <2>1, <2>2, <2>3, <2>5, <2>6, StandTurn
<1>62. first \in sets[0] /\ sets \in [0..turns -> SUBSET States]
  BY TouchedSelf DEF Unmoved, Standing
<1> HIDE DEF turns, first, States
<1>63. PICK f \in [0..turns -> States] : IsRun(f, turns, first, sets, step)
  <2>1. \A i \in 1..turns : \A x \in sets[i - 1] : step[i][x] \in sets[i]
    BY <1>61
  <2> HIDE DEF step, sets
  <2> QED BY <1>60, <1>62, <2>1, Turns
<1>64. \A i \in 1..turns : f[i] = Step(f[i - 1], i)
  <2> SUFFICES ASSUME NEW i \in 1..turns PROVE f[i] = Step(f[i - 1], i)
    OBVIOUS
  <2>1. i - 1 \in 0..turns
    BY <1>60
  <2>2. f[i] = step[i][f[i - 1]] /\ f[i - 1] \in sets[i - 1]
    BY <1>63, <2>1 DEF IsRun
  <2> HIDE DEF sets, Step
  <2> QED BY <2>2
<1>65. f[0] = first /\ f[turns] \in sets[turns]
  BY <1>60, <1>63 DEF IsRun
<1> HIDE DEF step, sets, Step
<1>66. Eq(f)
  <2>1. ASSUME NEW i \in 0..turns
        PROVE  f[i] = IF i = 0 THEN first ELSE Given(f[i - 1], LAMBDA x : Step(x, i))
    <3>1. CASE i = 0
      BY <1>65, <3>1
    <3>2. CASE i # 0
      <4>1. Given(f[i - 1], LAMBDA x : Step(x, i)) = Step(f[i - 1], i)
        BY DEF Given
      <4>2. i \in 1..turns
        BY <1>60, <3>2
      <4> QED BY <1>64, <3>2, <4>1, <4>2
    <3> QED BY <3>1, <3>2
  <2> QED BY <2>1
<1> DEFINE g == CHOOSE h : Eq(h)
<1>67. Eq(g)
  BY <1>66, Zenon
<1>68. Revived(set) = g[turns]
  BY DEF InTurn, turns, first, Step, Revived
<1> HIDE DEF Eq, g
<1>69. g[0] = f[0] /\ \A i \in 1..turns : g[i - 1] = f[i - 1] => g[i] = f[i]
  <2>1. g = [i \in 0..turns |-> IF i = 0 THEN first
                                 ELSE CHOOSE r \in {Step(x, i) : x \in {g[i - 1]}} : TRUE]
    BY <1>67 DEF Eq, Given
  <2>2. g[0] = first
    BY <1>60, <2>1
  <2>3. \A i \in 1..turns : g[i] = Step(g[i - 1], i)
    <3> SUFFICES ASSUME NEW i \in 1..turns PROVE g[i] = Step(g[i - 1], i)
      OBVIOUS
    <3>1. g[i] = CHOOSE r \in {Step(x, i) : x \in {g[i - 1]}} : TRUE
      BY <1>60, <2>1
    <3> QED BY <3>1
  <2> QED BY <1>64, <1>65, <2>2, <2>3
<1>70. Revived(set) \in sets[turns]
  BY <1>60, <1>65, <1>68, <1>69, SameRun
<1> QED BY <1>60, <1>70 DEF sets

\* The bodies of r are bodies of set, with the players in the slots they had.
Remains(set, r) ==
  /\ BodySet(r)
  /\ DOMAIN r.sparse \subseteq DOMAIN set.sparse
  /\ \A e \in DOMAIN r.sparse : Get(r, e) = Get(set, e)
  /\ \A k \in DOMAIN set.dense : set.dense[k].type = kPlayer =>
       k \in DOMAIN r.dense /\ r.dense[k] = set.dense[k]
  /\ \A e \in DOMAIN set.sparse : Get(set, e).type = kPlayer => e \in DOMAIN r.sparse

\* Removing a body that is no player's.
LEMMA RemovedBody ==
  ASSUME NEW set, BodySet(set), NEW id \in DOMAIN set.sparse, Get(set, id).type # kPlayer
  PROVE  LET u == Removed(set, id)
         IN  /\ BodySet(u) /\ DOMAIN u.sparse = DOMAIN set.sparse \ {id}
             /\ \A e \in DOMAIN u.sparse : Get(u, e) = Get(set, e)
             /\ \A k \in DOMAIN set.dense : set.dense[k].type = kPlayer =>
                  k \in DOMAIN u.dense /\ u.dense[k] = set.dense[k]
<1> DEFINE u == Removed(set, id)
           ids == DOMAIN set.sparse
           n == Len(set.dense)
           q == set.sparse[id]
<1>1. /\ n \in Nat /\ DOMAIN set.dense = 1..n /\ q \in 1..n /\ set.dense[q].type # kPlayer
      /\ set.dense \in Seq(Bodies)
  BY BodySetShape DEF Get
<1>2. /\ u \in SparseSets(ids \ {id}, Bodies) /\ Consistent(u)
      /\ Map(u) = Without(Map(set), id)
  <2> HIDE DEF u
  <2>1. set \in SparseSets(ids, Bodies) /\ Consistent(set)
    BY DEF BodySet
  <2> HIDE DEF ids
  <2> QED BY <2>1, RemoveDeletes DEF u
<1>3. u.dense = SubSeq([set.dense EXCEPT ![q] = set.dense[n]], 1, n - 1)
  BY Zenon DEF Removed, Has
<1> HIDE DEF u
<1>4. DOMAIN u.sparse = ids \ {id}
  <2> HIDE DEF ids
  <2> QED BY <1>2 DEF SparseSets
<1>5. \A e \in DOMAIN u.sparse : Get(u, e) = Get(set, e)
  <2> SUFFICES ASSUME NEW e \in ids \ {id} PROVE Get(u, e) = Get(set, e)
    BY <1>4
  <2>1. Map(u)[e] = Get(u, e)
    BY <1>4 DEF Map
  <2>2. Without(Map(set), id)[e] = Get(set, e)
    BY DEF Without, Map
  <2> QED BY <1>2, <2>1, <2>2
<1> HIDE DEF n, q
<1>6. /\ DOMAIN u.dense = 1..(n - 1)
      /\ \A k \in 1..(n - 1) : u.dense[k] = IF k = q THEN set.dense[n] ELSE set.dense[k]
  <2> DEFINE d == [set.dense EXCEPT ![q] = set.dense[n]]
  <2>1. d \in Seq(Bodies) /\ Len(d) = n
    BY <1>1 DEF n
  <2>2. \A k \in 1..n : d[k] = IF k = q THEN set.dense[n] ELSE set.dense[k]
    BY <1>1
  <2> HIDE DEF d
  <2> QED BY <1>1, <1>3, <2>1, <2>2 DEF d
<1>7. \A k, m \in 1..n : k < m /\ set.dense[m].type = kPlayer => set.dense[k].type = kPlayer
  BY <1>1 DEF BodySet, PlayersFirst
<1>8. \A k \in 1..n : set.dense[k].type = kPlayer => k < q
  BY <1>1, <1>7
<1>9. /\ \A k \in 1..n : set.dense[k].type = kPlayer => k \in 1..(n - 1) /\ u.dense[k] = set.dense[k]
      /\ \A k \in 1..(n - 1) : u.dense[k].type = kPlayer =>
           set.dense[k].type = kPlayer /\ k < q
  BY <1>1, <1>6, <1>8
<1>10. PlayersFirst(u)
  <2> SUFFICES ASSUME NEW k \in 1..(n - 1), NEW m \in 1..(n - 1), k < m,
                      u.dense[m].type = kPlayer
               PROVE  u.dense[k].type = kPlayer
    BY <1>6 DEF PlayersFirst
  <2>1. set.dense[m].type = kPlayer /\ m \in 1..n /\ k \in 1..n
    BY <1>1, <1>9
  <2> QED BY <1>7, <1>9, <2>1
<1>11. BodySet(u)
  BY <1>2, <1>4, <1>10 DEF BodySet
<1> QED BY <1>1, <1>4, <1>5, <1>6, <1>9, <1>11 DEF u

\* And more of them.
LEMMA RemainsTurn ==
  ASSUME NEW set, BodySet(set), NEW r, Remains(set, r),
         NEW id \in DOMAIN set.sparse, Get(set, id).type # kPlayer
  PROVE  Remains(set, Removed(r, id))
<1>1. CASE id \notin DOMAIN r.sparse
  <2>1. Removed(r, id) = r
    BY <1>1 DEF Removed, Has
  <2> QED BY <2>1
<1>2. CASE id \in DOMAIN r.sparse
  <2>1. BodySet(r) /\ Get(r, id).type # kPlayer
    BY <1>2 DEF Remains
  <2> DEFINE u == Removed(r, id)
  <2>2. /\ BodySet(u) /\ DOMAIN u.sparse = DOMAIN r.sparse \ {id}
        /\ \A e \in DOMAIN u.sparse : Get(u, e) = Get(r, e)
        /\ \A k \in DOMAIN r.dense : r.dense[k].type = kPlayer =>
             k \in DOMAIN u.dense /\ u.dense[k] = r.dense[k]
    BY <1>2, <2>1, RemovedBody
  <2> HIDE DEF u
  <2>3. \A e \in DOMAIN u.sparse : e \in DOMAIN set.sparse /\ Get(u, e) = Get(set, e)
    BY <2>2 DEF Remains
  <2>4. \A k \in DOMAIN set.dense : set.dense[k].type = kPlayer =>
          k \in DOMAIN u.dense /\ u.dense[k] = set.dense[k]
    BY <2>2 DEF Remains
  <2>5. \A e \in DOMAIN set.sparse : Get(set, e).type = kPlayer => e \in DOMAIN u.sparse
    BY <2>2 DEF Remains
  <2> QED BY <2>2, <2>3, <2>4, <2>5 DEF Remains, u
<1> QED BY <1>1, <1>2

\* What was taken off the end of the arrays is forgotten.
LEMMA TailForgotten ==
  ASSUME NEW set, BodySet(set)
  PROVE  LET t == [set EXCEPT !.tail = << >>]
         IN  t \in Standing(set) /\ t.dense = set.dense
<1> DEFINE t == [set EXCEPT !.tail = << >>]
           ids == DOMAIN set.sparse
<1>1. set \in SparseSets(ids, Bodies)
  BY DEF BodySet
<1> HIDE DEF ids
<1>2. PICK d \in Seq(Bodies), e \in Seq(ids), s \in [ids -> Nat], l \in Seq(Bodies) :
        set = [dense |-> d, entities |-> e, sparse |-> s, tail |-> l]
  BY <1>1 DEF SparseSets
<1>3. t = [dense |-> d, entities |-> e, sparse |-> s, tail |-> << >>]
  <2>1. t = [[dense |-> d, entities |-> e, sparse |-> s, tail |-> l] EXCEPT !.tail = << >>]
    BY <1>2
  <2> HIDE DEF t
  <2> QED BY <2>1
<1>4. << >> \in Seq(Bodies)
  OBVIOUS
<1>5. t \in SparseSets(ids, Bodies) /\ t.dense = set.dense /\ t.entities = set.entities
      /\ t.sparse = set.sparse
  <2>1. t.dense = d /\ t.entities = e /\ t.sparse = s
    BY <1>3
  <2>2. set.dense = d /\ set.entities = e /\ set.sparse = s
    BY <1>2
  <2>3. t \in SparseSets(ids, Bodies)
    BY <1>3, <1>4 DEF SparseSets
  <2> QED BY <2>1, <2>2, <2>3
<1> HIDE DEF t
<1>6. t \in Touched(set)
  BY <1>5 DEF Touched, ids
<1> QED BY <1>5, <1>6 DEF Standing, Unmoved, t

(***************************************************************************)
(* BroadcastDeadEntities: a body may be read in the slot of another, but   *)
(* no player's body is ever removed.                                       *)
(***************************************************************************)
LEMMA KillDeadRemains ==
  ASSUME NEW set, BodySet(set)
  PROVE  /\ Remains(set, KillDead(set).set)
         /\ KillDead(set).killed \in Seq(DOMAIN set.sparse)
<1> DEFINE ids == DOMAIN set.sparse
           Fine(r) == /\ DOMAIN r = {"set", "killed"} /\ Remains(set, r.set)
                      /\ r.killed \in Seq(ids)
           Rests == [set : {s \in UNION {SparseSets(I, Bodies) : I \in SUBSET ids} : Remains(set, s)},
                     killed : Seq(ids)]
           Visit(x, i) ==
             LET seen_ == Memory(x.set)[i]
                 id == set.entities[i]
             IN  IF seen_.type = kPlayer \/ seen_.state # EntityDead THEN x
                 ELSE [set |-> Removed(x.set, id), killed |-> Append(x.killed, id)]
           ran == InTurn(Visit, [set |-> set, killed |-> << >>], Len(set.dense))
<1>1. Remains(set, set)
  BY BodySetShape DEF Remains
<1>2. ASSUME NEW s, Remains(set, s)
      PROVE  s \in UNION {SparseSets(I, Bodies) : I \in SUBSET ids}
  <2>1. s \in SparseSets(DOMAIN s.sparse, Bodies) /\ DOMAIN s.sparse \in SUBSET ids
    BY <1>2 DEF Remains, BodySet
  <2> QED BY <2>1
<1>3. \A s, l : Remains(set, s) /\ l \in Seq(ids) => [set |-> s, killed |-> l] \in Rests
  BY <1>2
<1>4. ASSUME NEW x \in Rests, NEW i \in 1..Len(set.dense) PROVE Visit(x, i) \in Rests
  <2> DEFINE body == Memory(x.set)[i]
             id == set.entities[i]
  <2>1. Remains(set, x.set) /\ x.killed \in Seq(ids)
    OBVIOUS
  <2>2. CASE body.type = kPlayer \/ body.state # EntityDead
    BY <2>2, Zenon
  <2>3. CASE ~(body.type = kPlayer \/ body.state # EntityDead)
    <3>1. Visit(x, i) = [set |-> Removed(x.set, id), killed |-> Append(x.killed, id)]
      BY <2>3, Zenon
    <3> HIDE DEF Visit
    <3>2. id \in ids /\ set.sparse[id] = i /\ Get(set, id) = set.dense[i] /\ i \in DOMAIN set.dense
      BY BodySetShape DEF Get
    <3>3. Get(set, id).type # kPlayer
      <4> SUFFICES ASSUME set.dense[i].type = kPlayer PROVE FALSE
        BY <3>2
      <4>1. i \in DOMAIN x.set.dense /\ x.set.dense[i] = set.dense[i]
        BY <2>1, <3>2 DEF Remains
      <4>2. x.set.dense \in Seq(Bodies) /\ x.set.tail \in Seq(Bodies)
        BY <2>1 DEF Remains, BodySet, SparseSets
      <4>3. body = x.set.dense[i]
        <5> DEFINE d == x.set.dense
                   l == x.set.tail
        <5>1. d \in Seq(Bodies) /\ l \in Seq(Bodies) /\ i \in DOMAIN d
          BY <4>1, <4>2
        <5> HIDE DEF d, l
        <5>2. (d \o l)[i] = d[i]
          BY <5>1
        <5> QED BY <5>2 DEF Memory, d, l
      <4> QED BY <2>3, <4>1, <4>3
    <3>4. Remains(set, Removed(x.set, id))
      BY <2>1, <3>2, <3>3, RemainsTurn
    <3>5. Append(x.killed, id) \in Seq(ids)
      <4> DEFINE l == x.killed
      <4>1. l \in Seq(ids) /\ id \in ids
        BY <2>1, <3>2
      <4> HIDE DEF l, ids, id
      <4>2. Append(l, id) \in Seq(ids)
        BY <4>1
      <4> QED BY <4>2 DEF l
    <3> HIDE DEF Rests, id
    <3> QED BY <1>3, <3>1, <3>4, <3>5
  <2> QED BY <2>2, <2>3
<1>5. [set |-> set, killed |-> << >>] \in Rests
  <2>1. << >> \in Seq(ids)
    OBVIOUS
  <2> HIDE DEF Rests
  <2> QED BY <1>1, <1>3, <2>1
<1>6. KillDead(set) = [set |-> [ran.set EXCEPT !.tail = << >>], killed |-> ran.killed]
  BY DEF KillDead
<1> DEFINE loop == ran
<1> HIDE DEF Rests, Visit
<1> DEFINE turns == Len(set.dense)
           first == [set |-> set, killed |-> << >>]
           States == Rests
           Step(x, i) == Visit(x, i)
           sets == [i \in 0..turns |-> Rests]
           step == [i \in 1..turns |-> [x \in sets[i - 1] |-> Step(x, i)]]
           Eq(f) == f = [i \in 0..turns |-> IF i = 0 THEN first
                                             ELSE Given(f[i - 1], LAMBDA x : Step(x, i))]
<1>60. turns \in Nat
  BY BodySetShape
<1>61. ASSUME NEW i \in 1..turns, NEW x \in sets[i - 1] PROVE Step(x, i) \in sets[i]
  <2>1. i - 1 \in 0..turns /\ i \in 0..turns
    BY <1>60
  <2>2. x \in Rests
    BY <2>1
  <2> HIDE DEF Visit
  <2> QED BY <1>4, <2>1, <2>2
<1>62. first \in sets[0] /\ sets \in [0..turns -> SUBSET States]
  BY <1>5
<1> HIDE DEF turns, first, States
<1>63. PICK f \in [0..turns -> States] : IsRun(f, turns, first, sets, step)
  <2>1. \A i \in 1..turns : \A x \in sets[i - 1] : step[i][x] \in sets[i]
    BY <1>61
  <2> HIDE DEF step, sets
  <2> QED BY <1>60, <1>62, <2>1, Turns
<1>64. \A i \in 1..turns : f[i] = Step(f[i - 1], i)
  <2> SUFFICES ASSUME NEW i \in 1..turns PROVE f[i] = Step(f[i - 1], i)
    OBVIOUS
  <2>1. i - 1 \in 0..turns
    BY <1>60
  <2>2. f[i] = step[i][f[i - 1]] /\ f[i - 1] \in sets[i - 1]
    BY <1>63, <2>1 DEF IsRun
  <2> HIDE DEF sets, Step
  <2> QED BY <2>2
<1>65. f[0] = first /\ f[turns] \in sets[turns]
  BY <1>60, <1>63 DEF IsRun
<1> HIDE DEF step, sets, Step
<1>66. Eq(f)
  <2>1. ASSUME NEW i \in 0..turns
        PROVE  f[i] = IF i = 0 THEN first ELSE Given(f[i - 1], LAMBDA x : Step(x, i))
    <3>1. CASE i = 0
      BY <1>65, <3>1
    <3>2. CASE i # 0
      <4>1. Given(f[i - 1], LAMBDA x : Step(x, i)) = Step(f[i - 1], i)
        BY DEF Given
      <4>2. i \in 1..turns
        BY <1>60, <3>2
      <4> QED BY <1>64, <3>2, <4>1, <4>2
    <3> QED BY <3>1, <3>2
  <2> QED BY <2>1
<1> DEFINE g == CHOOSE h : Eq(h)
<1>67. Eq(g)
  BY <1>66, Zenon
<1>68. ran = g[turns]
  BY DEF InTurn, turns, first, Step, ran
<1> HIDE DEF Eq, g
<1>69. g[0] = f[0] /\ \A i \in 1..turns : g[i - 1] = f[i - 1] => g[i] = f[i]
  <2>1. g = [i \in 0..turns |-> IF i = 0 THEN first
                                 ELSE CHOOSE r \in {Step(x, i) : x \in {g[i - 1]}} : TRUE]
    BY <1>67 DEF Eq, Given
  <2>2. g[0] = first
    BY <1>60, <2>1
  <2>3. \A i \in 1..turns : g[i] = Step(g[i - 1], i)
    <3> SUFFICES ASSUME NEW i \in 1..turns PROVE g[i] = Step(g[i - 1], i)
      OBVIOUS
    <3>1. g[i] = CHOOSE r \in {Step(x, i) : x \in {g[i - 1]}} : TRUE
      BY <1>60, <2>1
    <3> QED BY <3>1
  <2> QED BY <1>64, <1>65, <2>2, <2>3
<1>70. ran \in sets[turns]
  BY <1>60, <1>65, <1>68, <1>69, SameRun
<1>71. ran \in Rests
  BY <1>60, <1>70 DEF sets
<1> HIDE DEF ran
<1>72. Remains(set, ran.set) /\ ran.killed \in Seq(ids) /\ BodySet(ran.set)
  BY <1>71 DEF Rests, Remains
<1> DEFINE t == [ran.set EXCEPT !.tail = << >>]
<1>73. BodySet(t) /\ t.sparse = ran.set.sparse /\ t.dense = ran.set.dense
  BY <1>72, TailForgotten, TouchedSet DEF Standing
<1>74. KillDead(set).set = t /\ KillDead(set).killed = ran.killed
  BY <1>6
<1> HIDE DEF t
<1>75. Remains(set, t)
  BY <1>72, <1>73 DEF Remains, Get
<1> QED BY <1>72, <1>74, <1>75

------------------------------------------------------------------------------
(* The lobby.                                                              *)

GameStates == {GameLobby, GameRunning, GameOver}

(***************************************************************************)
(* A lobby: the players have bodies, the ids of the bodies are below the   *)
(* counter, and before Me joins there is nobody but the other player.      *)
(***************************************************************************)
LobbyOK(l) ==
  /\ DOMAIN l = Fields
  /\ l.rooms \in Nat \ {0} /\ l.home \in 0..(l.rooms - 1) \cup {NoRoom}
  /\ l.state \in GameStates
  /\ l.next \in 1..MaxEntities
  /\ BodySet(l.set) /\ DOMAIN l.set.sparse \subseteq 0..(l.next - 1)
  /\ DOMAIN l.players \subseteq {Me, Other}
  /\ Me \in DOMAIN l.players <=> l.home # NoRoom
  /\ l.home \in {0, NoRoom} => Other \in DOMAIN l.players
  /\ \A s \in DOMAIN l.players :
       l.players[s] \in DOMAIN l.set.sparse /\ Get(l.set, l.players[s]).type = kPlayer
  /\ l.home = NoRoom =>
       l.next = 1 /\ \A i \in DOMAIN l.set.dense : l.set.dense[i].type = kPlayer

\* The bodies of t are bodies of set, each of its type, and no player's is missing.
Carried(set, t) ==
  /\ BodySet(t)
  /\ DOMAIN t.sparse \subseteq DOMAIN set.sparse
  /\ \A e \in DOMAIN t.sparse : Get(t, e).type = Get(set, e).type
  /\ \A e \in DOMAIN set.sparse : Get(set, e).type = kPlayer => e \in DOMAIN t.sparse

\* And they are in the places they had.
CarriedInPlace(set, t) ==
  Carried(set, t) /\ \A e \in DOMAIN t.sparse : Unmoved(Get(set, e), Get(t, e))

\* What is only removed from a set leaves the rest where it is.
LEMMA RemainsCarried ==
  ASSUME NEW set, NEW r, Remains(set, r)
  PROVE  CarriedInPlace(set, r)
BY DEF Remains, CarriedInPlace, Carried, Unmoved

\* Bodies that are written to are the same entities, with their types.
LEMMA TouchedCarried ==
  ASSUME NEW set, BodySet(set), NEW t \in Touched(set)
  PROVE  Carried(set, t) /\ DOMAIN t.sparse = DOMAIN set.sparse
BY TouchedSet DEF Carried

\* Bodies that are written to, but not moved, are where they were.
LEMMA StandingCarried ==
  ASSUME NEW set, BodySet(set), NEW t \in Standing(set)
  PROVE  CarriedInPlace(set, t)
<1>1. t \in Touched(set) /\ \A k \in DOMAIN set.dense : Unmoved(set.dense[k], t.dense[k])
  BY DEF Standing
<1>2. /\ t.sparse = set.sparse
      /\ \A e \in DOMAIN set.sparse : set.sparse[e] \in DOMAIN set.dense
  BY <1>1, TouchedSet, BodySetShape
<1>3. \A e \in DOMAIN set.sparse : Unmoved(Get(set, e), Get(t, e))
  BY <1>1, <1>2 DEF Get
<1> QED BY <1>1, <1>2, <1>3, TouchedCarried DEF CarriedInPlace

\* Two steps carry what each carries.
LEMMA CarriedTwice ==
  ASSUME NEW set, NEW t, NEW u, Carried(set, t), Carried(t, u)
  PROVE  /\ Carried(set, u)
         /\ CarriedInPlace(set, t) /\ CarriedInPlace(t, u) => CarriedInPlace(set, u)
<1>1. Carried(set, u)
  BY DEF Carried
<1>2. ASSUME CarriedInPlace(set, t), CarriedInPlace(t, u) PROVE CarriedInPlace(set, u)
  <2>1. \A e \in DOMAIN u.sparse :
          Unmoved(Get(set, e), Get(t, e)) /\ Unmoved(Get(t, e), Get(u, e))
    BY <1>2 DEF CarriedInPlace, Carried
  <2> QED BY <1>1, <2>1 DEF CarriedInPlace, Unmoved
<1> QED BY <1>1, <1>2

\* The lobby t is l but for its bodies and the state of its game.
Stayed(l, t) ==
  /\ DOMAIN t = Fields /\ t.next = l.next /\ t.home = l.home
  /\ t.players = l.players /\ t.rooms = l.rooms /\ t.state \in GameStates

\* A lobby stays one when its players are still there, with their types.
LEMMA LobbyWith ==
  ASSUME NEW l, LobbyOK(l), l.home # NoRoom, NEW t, Stayed(l, t), Carried(l.set, t.set)
  PROVE  LobbyOK(t)
<1>1. BodySet(t.set) /\ DOMAIN t.set.sparse \subseteq 0..(l.next - 1)
  BY DEF Carried, LobbyOK
<1>2. \A s \in DOMAIN l.players :
        l.players[s] \in DOMAIN t.set.sparse /\ Get(t.set, l.players[s]).type = kPlayer
  BY DEF Carried, LobbyOK
<1> QED BY <1>1, <1>2 DEF LobbyOK, Stayed

\* put() of an entity that is new.
LEMMA PlacedBody ==
  ASSUME NEW set, BodySet(set), NEW id, id \notin DOMAIN set.sparse, NEW b \in Bodies,
         b.type # kPlayer \/ \A i \in DOMAIN set.dense : set.dense[i].type = kPlayer
  PROVE  LET u == Placed(set, id, b)
         IN  /\ BodySet(u) /\ DOMAIN u.sparse = DOMAIN set.sparse \cup {id}
             /\ Get(u, id) = b
             /\ \A e \in DOMAIN set.sparse : Get(u, e) = Get(set, e)
             /\ u.dense = Append(set.dense, b)
<1> DEFINE u == Placed(set, id, b)
           ids == DOMAIN set.sparse
           n == Len(set.dense)
<1>1. n \in Nat /\ DOMAIN set.dense = 1..n /\ set.dense \in Seq(Bodies)
  BY BodySetShape
<1>2. /\ u \in SparseSets(ids \cup {id}, Bodies) /\ Consistent(u)
      /\ Map(u) = With(Map(set), id, b)
  <2> HIDE DEF u
  <2>1. set \in SparseSets(ids, Bodies) /\ Consistent(set)
    BY DEF BodySet
  <2> HIDE DEF ids
  <2> QED BY <2>1, PutUpdates DEF u
<1>3. u.dense = Append(set.dense, b)
  BY Zenon DEF Placed, Has
<1> HIDE DEF u
<1>4. DOMAIN u.sparse = ids \cup {id}
  <2> HIDE DEF ids
  <2> QED BY <1>2 DEF SparseSets
<1>5. /\ Get(u, id) = b
      /\ \A e \in ids : Get(u, e) = Get(set, e)
  <2>1. \A e \in ids \cup {id} : Map(u)[e] = Get(u, e)
    BY <1>4 DEF Map
  <2>2. /\ With(Map(set), id, b)[id] = b
        /\ \A e \in ids : e # id => With(Map(set), id, b)[e] = Get(set, e)
    BY DEF With, Map
  <2> QED BY <1>2, <2>1, <2>2
<1> HIDE DEF n
<1>6. /\ DOMAIN u.dense = 1..(n + 1) /\ u.dense[n + 1] = b
      /\ \A k \in 1..n : u.dense[k] = set.dense[k]
  BY <1>1, <1>3 DEF n
<1>7. PlayersFirst(u)
  <2> SUFFICES ASSUME NEW k \in 1..(n + 1), NEW m \in 1..(n + 1), k < m,
                      u.dense[m].type = kPlayer
               PROVE  u.dense[k].type = kPlayer
    BY <1>6 DEF PlayersFirst
  <2>1. k \in 1..n
    BY <1>1
  <2>2. CASE m = n + 1
    BY <1>1, <1>6, <2>1, <2>2
  <2>3. CASE m # n + 1
    <3>1. m \in 1..n
      BY <1>1, <2>3
    <3> QED BY <1>1, <1>6, <2>1, <3>1 DEF BodySet, PlayersFirst
  <2> QED BY <2>2, <2>3
<1>8. BodySet(u)
  BY <1>2, <1>4, <1>7 DEF BodySet
<1> QED BY <1>3, <1>4, <1>5, <1>8 DEF u

\* A body of a new entity of the lobby that is not a player's.
LEMMA LobbyWithMore ==
  ASSUME NEW l, LobbyOK(l), l.home # NoRoom, l.next < MaxEntities,
         NEW b \in Bodies, b.type # kPlayer,
         NEW t, DOMAIN t = Fields, t.set = Placed(l.set, l.next, b), t.next = l.next + 1,
         t.home = l.home, t.players = l.players, t.rooms = l.rooms, t.state = l.state
  PROVE  /\ LobbyOK(t)
         /\ DOMAIN t.set.sparse = DOMAIN l.set.sparse \cup {l.next}
         /\ Get(t.set, l.next) = b
         /\ \A e \in DOMAIN l.set.sparse : Get(t.set, e) = Get(l.set, e)
<1> DEFINE u == Placed(l.set, l.next, b)
<1>1. l.next \in Nat /\ l.next \notin DOMAIN l.set.sparse /\ MaxEntities \in Nat
  BY PlayersAssumption DEF LobbyOK
<1>2. /\ BodySet(u) /\ DOMAIN u.sparse = DOMAIN l.set.sparse \cup {l.next}
      /\ Get(u, l.next) = b
      /\ \A e \in DOMAIN l.set.sparse : Get(u, e) = Get(l.set, e)
  BY <1>1, PlacedBody DEF LobbyOK
<1> HIDE DEF u
<1>3. t.set = u
  BY DEF u
<1>4. DOMAIN u.sparse \subseteq 0..(t.next - 1) /\ t.next \in 1..MaxEntities
  BY <1>1, <1>2 DEF LobbyOK
<1>5. \A s \in DOMAIN l.players :
        l.players[s] \in DOMAIN u.sparse /\ Get(u, l.players[s]).type = kPlayer
  BY <1>2 DEF LobbyOK
<1>6. LobbyOK(t)
  BY <1>2, <1>3, <1>4, <1>5 DEF LobbyOK
<1> QED BY <1>2, <1>3, <1>6

\* The body of an enemy, and that of a bullet of Me.
LEMMA EnemyBody ==
  ASSUME NEW at \in EnemyPoints, NEW set \in MoveSets
  PROVE  LET b == Body(kEnemy, EntityAlive, at.x, at.y, 0, set)
         IN  b \in Bodies /\ b.type # kPlayer
<1> DEFINE b == Body(kEnemy, EntityAlive, at.x, at.y, 0, set)
<1>1. at.x \in Int /\ at.y \in Int
  BY PointsAssumption
<1>2. set \in {kStraightSlow, kZigZag, kHover, kWave}
  BY SpeedsAssumption
<1>3. b = [type |-> kEnemy, state |-> EntityAlive, x |-> at.x, y |-> at.y, vx |-> 0, vy |-> 0,
           updated |-> FALSE, set |-> set]
  BY DEF Body
<1>4. 0 \in Int /\ EntityAlive \in Nat /\ kEnemy # kPlayer
  BY DEF EntityAlive, kEnemy, kPlayer
<1> HIDE DEF b
<1>5. b \in Bodies
  BY <1>1, <1>2, <1>3, <1>4 DEF Bodies
<1>6. b.type = kEnemy
  BY <1>3
<1> QED BY <1>4, <1>5, <1>6 DEF b

\* A bullet starts from the body of Me.
LEMMA BulletBody ==
  ASSUME LobbyOK(server), Me \in DOMAIN server.players
  PROVE  LET bullet == Body(kBullet, EntityAlive, BodyOf(Me).x + Muzzle.x,
                            BodyOf(Me).y + Muzzle.y, 2 * Speed, kHover)
         IN  bullet \in Bodies /\ bullet.type # kPlayer
<1> DEFINE b == BodyOf(Me)
           x == b.x + Muzzle.x
           y == b.y + Muzzle.y
           vx == 2 * Speed
           bullet == Body(kBullet, EntityAlive, x, y, vx, kHover)
<1>1. b.x \in Int /\ b.y \in Int
  <2>1. b \in Bodies
    BY BodySetShape DEF LobbyOK, BodyOf, Get
  <2> HIDE DEF b
  <2> QED BY <2>1, BodyFields
<1>2. Muzzle.x \in Int /\ Muzzle.y \in Int /\ vx \in Int
  BY PointsAssumption, SpeedsAssumption
<1>3. x \in Int /\ y \in Int
  BY <1>1, <1>2
<1>4. bullet = [type |-> kBullet, state |-> EntityAlive, x |-> x, y |-> y, vx |-> vx, vy |-> 0,
                updated |-> FALSE, set |-> kHover]
  BY DEF Body
<1>5. 0 \in Int /\ EntityAlive \in Nat /\ kBullet # kPlayer
  BY DEF EntityAlive, kBullet, kPlayer
<1> HIDE DEF bullet, x, y, vx
<1>6. bullet \in Bodies
  BY <1>2, <1>3, <1>4, <1>5 DEF Bodies
<1>7. bullet.type = kBullet
  BY <1>4
<1> QED BY <1>5, <1>6, <1>7 DEF bullet, x, y, vx, b

\* What removeAllOf finds are entities without players.
LEMMA RemovableEntities ==
  ASSUME NEW set, BodySet(set)
  PROVE  /\ Removable(set) \in Seq(DOMAIN set.sparse)
         /\ \A i \in 1..Len(Removable(set)) : Get(set, Removable(set)[i]).type # kPlayer
<1> DEFINE places(type) == {i \in DOMAIN set.dense : set.dense[i].type = type}
           of(type) == Kept(set.entities, places(type))
           Some == {e \in DOMAIN set.sparse : Get(set, e).type # kPlayer}
<1>1. ASSUME NEW type \in {kEnemy, kBullet} PROVE of(type) \in Seq(Some)
  <2> DEFINE kept == of(type)
             P == places(type) \cap (1..Len(set.entities))
  <2>1. kept \in Seq(DOMAIN set.sparse) /\ InOrder(kept, set.entities, P)
    BY BodySetShape, KeptInOrder
  <2>2. type # kPlayer
    BY DEF kEnemy, kBullet, kPlayer
  <2> HIDE DEF kept
  <2>3. ASSUME NEW k \in 1..Len(kept) PROVE kept[k] \in Some
    <3>1. PICK at \in [1..Len(kept) -> P] : kept[k] = set.entities[at[k]]
      BY <2>1 DEF InOrder
    <3>2. at[k] \in DOMAIN set.dense /\ set.dense[at[k]].type = type
      BY <3>1
    <3>3. set.entities[at[k]] \in DOMAIN set.sparse /\ set.sparse[set.entities[at[k]]] = at[k]
      <4> DEFINE i == at[k]
      <4>1. i \in DOMAIN set.dense
        BY <3>2
      <4> HIDE DEF i
      <4>2. set.entities[i] \in DOMAIN set.sparse /\ set.sparse[set.entities[i]] = i
        BY <4>1, BodySetShape
      <4> QED BY <4>2 DEF i
    <3> QED BY <2>2, <3>1, <3>2, <3>3 DEF Get
  <2> HIDE DEF Some
  <2>4. kept \in Seq(Some)
    BY <2>1, <2>3
  <2> QED BY <2>4 DEF kept
<1>2. Removable(set) = of(kEnemy) \o of(kBullet)
  BY Zenon DEF Removable
<1> HIDE DEF of
<1>3. Some \subseteq DOMAIN set.sparse /\ \A e \in Some : Get(set, e).type # kPlayer
  OBVIOUS
<1> HIDE DEF Some
<1>4. Removable(set) \in Seq(Some)
  BY <1>1, <1>2
<1>5. \A i \in 1..Len(Removable(set)) : Removable(set)[i] \in Some
  BY <1>4
<1>6. Removable(set) \in Seq(DOMAIN set.sparse)
  BY <1>3, <1>4
<1> QED BY <1>3, <1>5, <1>6

\* removeAllOf, for both types.
Cleared(set) ==
  LET gone == Removable(set)
  IN  InTurn(LAMBDA s, i : Removed(s, gone[i]), set, Len(gone))

\* removeAllOf<Type>, for the enemies and the bullets: the players remain.
LEMMA ClearedRemains ==
  ASSUME NEW set, BodySet(set)
  PROVE  Remains(set, Cleared(set))
<1> DEFINE gone == Removable(set)
           Rests == {s \in UNION {SparseSets(I, Bodies) : I \in SUBSET DOMAIN set.sparse} :
                       Remains(set, s)}
<1>1. /\ gone \in Seq(DOMAIN set.sparse)
      /\ \A i \in 1..Len(gone) : Get(set, gone[i]).type # kPlayer
  BY RemovableEntities
<1>2. ASSUME NEW s, Remains(set, s)
      PROVE  s \in Rests
  <2>1. s \in SparseSets(DOMAIN s.sparse, Bodies) /\ DOMAIN s.sparse \in SUBSET DOMAIN set.sparse
    BY <1>2 DEF Remains, BodySet
  <2> QED BY <1>2, <2>1
<1>3. Remains(set, set)
  BY BodySetShape DEF Remains
<1>4. \A s \in Rests : Remains(set, s)
  OBVIOUS
<1>5. Cleared(set) = InTurn(LAMBDA s, i : Removed(s, gone[i]), set, Len(gone))
  BY DEF Cleared
<1> HIDE DEF gone, Rests
<1> DEFINE ran == InTurn(LAMBDA s, i : Removed(s, gone[i]), set, Len(gone))
<1> DEFINE turns == Len(gone)
           first == set
           States == Rests
           Step(x, i) == Removed(x, gone[i])
           sets == [i \in 0..turns |-> Rests]
           step == [i \in 1..turns |-> [x \in sets[i - 1] |-> Step(x, i)]]
           Eq(f) == f = [i \in 0..turns |-> IF i = 0 THEN first
                                             ELSE Given(f[i - 1], LAMBDA x : Step(x, i))]
<1>60. turns \in Nat
  BY <1>1
<1>61. ASSUME NEW i \in 1..turns, NEW x \in sets[i - 1] PROVE Step(x, i) \in sets[i]
  <2>1. i - 1 \in 0..turns /\ i \in 0..turns
    BY <1>60
  <2>2. x \in Rests /\ i \in 1..Len(gone)
    BY <2>1
  <2> HIDE DEF turns
  <2>3. Remains(set, x) /\ gone[i] \in DOMAIN set.sparse /\ Get(set, gone[i]).type # kPlayer
    BY <1>1, <1>4, <2>2
  <2>4. Remains(set, Removed(x, gone[i]))
    BY <2>3, RemainsTurn
  <2> QED BY <1>2, <2>1, <2>4
<1>62. first \in sets[0] /\ sets \in [0..turns -> SUBSET States]
  BY <1>2, <1>3
<1> HIDE DEF turns, first, States
<1>63. PICK f \in [0..turns -> States] : IsRun(f, turns, first, sets, step)
  <2>1. \A i \in 1..turns : \A x \in sets[i - 1] : step[i][x] \in sets[i]
    BY <1>61
  <2> HIDE DEF step, sets
  <2> QED BY <1>60, <1>62, <2>1, Turns
<1>64. \A i \in 1..turns : f[i] = Step(f[i - 1], i)
  <2> SUFFICES ASSUME NEW i \in 1..turns PROVE f[i] = Step(f[i - 1], i)
    OBVIOUS
  <2>1. i - 1 \in 0..turns
    BY <1>60
  <2>2. f[i] = step[i][f[i - 1]] /\ f[i - 1] \in sets[i - 1]
    BY <1>63, <2>1 DEF IsRun
  <2> HIDE DEF sets, Step
  <2> QED BY <2>2
<1>65. f[0] = first /\ f[turns] \in sets[turns]
  BY <1>60, <1>63 DEF IsRun
<1> HIDE DEF step, sets, Step
<1>66. Eq(f)
  <2>1. ASSUME NEW i \in 0..turns
        PROVE  f[i] = IF i = 0 THEN first ELSE Given(f[i - 1], LAMBDA x : Step(x, i))
    <3>1. CASE i = 0
      BY <1>65, <3>1
    <3>2. CASE i # 0
      <4>1. Given(f[i - 1], LAMBDA x : Step(x, i)) = Step(f[i - 1], i)
        BY DEF Given
      <4>2. i \in 1..turns
        BY <1>60, <3>2
      <4> QED BY <1>64, <3>2, <4>1, <4>2
    <3> QED BY <3>1, <3>2
  <2> QED BY <2>1
<1> DEFINE g == CHOOSE h : Eq(h)
<1>67. Eq(g)
  BY <1>66, Zenon
<1>68. ran = g[turns]
  BY DEF InTurn, turns, first, Step, ran
<1> HIDE DEF Eq, g
<1>69. g[0] = f[0] /\ \A i \in 1..turns : g[i - 1] = f[i - 1] => g[i] = f[i]
  <2>1. g = [i \in 0..turns |-> IF i = 0 THEN first
                                 ELSE CHOOSE r \in {Step(x, i) : x \in {g[i - 1]}} : TRUE]
    BY <1>67 DEF Eq, Given
  <2>2. g[0] = first
    BY <1>60, <2>1
  <2>3. \A i \in 1..turns : g[i] = Step(g[i - 1], i)
    <3> SUFFICES ASSUME NEW i \in 1..turns PROVE g[i] = Step(g[i - 1], i)
      OBVIOUS
    <3>1. g[i] = CHOOSE r \in {Step(x, i) : x \in {g[i - 1]}} : TRUE
      BY <1>60, <2>1
    <3> QED BY <3>1
  <2> QED BY <1>64, <1>65, <2>2, <2>3
<1>70. ran \in sets[turns]
  BY <1>60, <1>65, <1>68, <1>69, SameRun
<1> HIDE DEF ran
<1>71. ran \in Rests
  BY <1>60, <1>70 DEF sets
<1> QED BY <1>4, <1>5, <1>71 DEF ran

\* restart(): the players stay where they are.
LEMMA RestartedLobby ==
  ASSUME NEW l, LobbyOK(l), l.home # NoRoom, NEW state \in GameStates
  PROVE  LET t == Restarted(l, state)
         IN  LobbyOK(t) /\ CarriedInPlace(l.set, t.set) /\ Stayed(l, t)
<1> DEFINE left == Cleared(l.set)
           revived == Revived(left)
           set == [revived EXCEPT !.tail = << >>]
<1>1. Restarted(l, state) = [l EXCEPT !.state = state, !.set = set]
  BY DEF Restarted, Cleared, Revived
<1>2. BodySet(l.set)
  BY DEF LobbyOK
<1>3. Remains(l.set, left) /\ CarriedInPlace(l.set, left) /\ BodySet(left)
  <2>1. Remains(l.set, left)
    BY <1>2, ClearedRemains
  <2> HIDE DEF left
  <2> QED BY <2>1, RemainsCarried DEF Remains
<1> HIDE DEF left
<1>4. CarriedInPlace(left, revived) /\ BodySet(revived)
  <2>1. revived \in Standing(left)
    BY <1>3, RevivedStand
  <2> HIDE DEF revived
  <2>2. CarriedInPlace(left, revived)
    BY <1>3, <2>1, StandingCarried
  <2> QED BY <2>2 DEF CarriedInPlace, Carried
<1> HIDE DEF revived
<1>5. CarriedInPlace(revived, set)
  BY <1>4, TailForgotten, StandingCarried
<1> HIDE DEF set
<1>6. CarriedInPlace(l.set, revived)
  BY <1>3, <1>4, CarriedTwice DEF CarriedInPlace
<1>7. CarriedInPlace(l.set, set)
  BY <1>5, <1>6, CarriedTwice DEF CarriedInPlace
<1>8. DOMAIN l = Fields
  BY DEF LobbyOK
<1>9. Stayed(l, Restarted(l, state)) /\ Restarted(l, state).set = set
  BY <1>1, <1>8 DEF Stayed, Fields
<1>10. LobbyOK(Restarted(l, state))
  BY <1>7, <1>9, LobbyWith DEF CarriedInPlace
<1> QED BY <1>7, <1>9, <1>10

\* A USER_INPUT pushes a player, and moves nobody.
LEMMA PushedLobby ==
  ASSUME NEW s \in DOMAIN server.players, LobbyOK(server), server.home # NoRoom, NEW mask
  PROVE  CarriedInPlace(server.set, PushedBy(s, mask))
<1> DEFINE id == server.players[s]
           i == server.set.sparse[id]
           b == server.set.dense[i]
           c == Pushed(b, mask)
<1>1. BodySet(server.set) /\ id \in DOMAIN server.set.sparse
  BY DEF LobbyOK
<1>2. /\ i \in DOMAIN server.set.dense /\ b \in Bodies
  BY <1>1, BodySetShape
<1>3. c \in Bodies /\ c.type = b.type /\ Unmoved(b, c)
  <2> DEFINE vx == (IF "right" \in mask THEN Speed ELSE 0) - (IF "left" \in mask THEN Speed ELSE 0)
             vy == (IF "down" \in mask THEN Speed ELSE 0) - (IF "up" \in mask THEN Speed ELSE 0)
  <2>1. c = [b EXCEPT !.vx = vx, !.vy = vy]
    BY Zenon DEF Pushed
  <2>2. vx \in Int /\ vy \in Int
    BY SpeedsAssumption
  <2> HIDE DEF vx, vy, c, b
  <2>3. c.type = b.type /\ Unmoved(b, c)
    BY <1>2, <2>1 DEF Bodies, Unmoved
  <2>4. c \in Bodies
    BY <1>2, <2>1, <2>2 DEF Bodies
  <2> QED BY <2>3, <2>4
<1>4. PushedBy(s, mask) = [server.set EXCEPT !.dense[i] = c]
  <2>1. PushedBy(s, mask) = Placed(server.set, id, c)
    BY DEF PushedBy, BodyOf, Get
  <2> HIDE DEF c
  <2>2. Placed(server.set, id, c) = Written(server.set, i, c)
    BY <1>1 DEF Placed, Has
  <2>3. Written(server.set, i, c) = [server.set EXCEPT !.dense[i] = c]
    BY <1>2 DEF Written
  <2> QED BY <2>1, <2>2, <2>3
<1> HIDE DEF c, b, i
<1>5. server.set \in Standing(server.set)
  BY <1>1, TouchedSelf DEF Standing, Unmoved
<1>6. [server.set EXCEPT !.dense[i] = c] \in Standing(server.set)
  BY <1>1, <1>2, <1>3, <1>5, StandTurn DEF b
<1> QED BY <1>1, <1>4, <1>6, StandingCarried

------------------------------------------------------------------------------
(* What the packets on their way tell Me of the entities.                  *)

Whereabouts(next) == [id : 0..(next - 1), x : Int, y : Int]

\* The packets that a lobby with that many entities has sent.
Downs(next) ==
  [kind : {"LOBBY_LIST_ACK"}, rooms : Seq(Nat)]
    \cup [kind : {"SPAWN", "UPDATE_POSITION"}, entity : Whereabouts(next)]
    \cup [kind : {"WORLD_INIT"}, state : GameStates, entities : Seq(Whereabouts(next))]
    \cup [kind : {"JOIN_ACK"}, id : 0..(next - 1), state : GameStates \cup {GameMenu}]
    \cup [kind : {"UPDATE_GAME_STATE"}, state : GameStates]
    \cup [kind : {"DESTROY"}, id : 0..(next - 1)]

\* The kinds of packets that a session gets before it is let into a lobby.
Unplaced == {"LOBBY_LIST_ACK", "JOIN_ACK"}

Updates(p, id) == p.kind = "UPDATE_POSITION" /\ p.entity.id = id

\* Whatever the packet tells of where the entity is, is the place of b.
Right(p, id, b) ==
  /\ p.kind \in {"SPAWN", "UPDATE_POSITION"} /\ p.entity.id = id => Unmoved(b, p.entity)
  /\ p.kind = "WORLD_INIT" =>
       \A k \in 1..Len(p.entities) : p.entities[k].id = id => Unmoved(b, p.entities[k])

Target(e) == [x |-> e.tx, y |-> e.ty]

\* What the client knows, and each packet, is right, or an update comes after it.
TrackedAt(ps, shown, id, b) ==
  /\ \A i \in 1..Len(ps) :
       Right(ps[i], id, b) \/ \E j \in 1..Len(ps) : j > i /\ Updates(ps[j], id)
  /\ id \in DOMAIN shown =>
       Unmoved(b, Target(shown[id])) \/ \E j \in 1..Len(ps) : Updates(ps[j], id)

\* The packets of a lobby are packets of one with more entities.
LEMMA DownsGrow ==
  ASSUME NEW m \in Nat, NEW n \in Nat, m <= n
  PROVE  Downs(m) \subseteq Downs(n) /\ Seq(Downs(m)) \subseteq Seq(Downs(n))
<1>1. 0..(m - 1) \subseteq 0..(n - 1)
  OBVIOUS
<1>2. Whereabouts(m) \subseteq Whereabouts(n)
  BY <1>1 DEF Whereabouts
<1> DEFINE W == Whereabouts(m)
           X == Whereabouts(n)
<1>3. Seq(W) \subseteq Seq(X)
  <2> HIDE DEF W, X
  <2>1. W \subseteq X
    BY <1>2 DEF W, X
  <2> QED BY <2>1
<1>4. ASSUME NEW p \in Downs(m) PROVE p \in Downs(n)
  <2>1. CASE p \in [kind : {"LOBBY_LIST_ACK"}, rooms : Seq(Nat)]
    BY <2>1 DEF Downs
  <2>2. CASE p \in [kind : {"SPAWN", "UPDATE_POSITION"}, entity : Whereabouts(m)]
    <3>1. p \in [kind : {"SPAWN", "UPDATE_POSITION"}, entity : Whereabouts(n)]
      BY <1>2, <2>2
    <3> QED BY <3>1 DEF Downs
  <2>3. CASE p \in [kind : {"WORLD_INIT"}, state : GameStates, entities : Seq(Whereabouts(m))]
    <3>1. p \in [kind : {"WORLD_INIT"}, state : GameStates, entities : Seq(Whereabouts(n))]
      BY <1>3, <2>3
    <3> QED BY <3>1 DEF Downs
  <2>4. CASE p \in [kind : {"JOIN_ACK"}, id : 0..(m - 1), state : GameStates \cup {GameMenu}]
    <3>1. p \in [kind : {"JOIN_ACK"}, id : 0..(n - 1), state : GameStates \cup {GameMenu}]
      BY <1>1, <2>4
    <3> QED BY <3>1 DEF Downs
  <2>6. CASE p \in [kind : {"UPDATE_GAME_STATE"}, state : GameStates]
    BY <2>6 DEF Downs
  <2>5. CASE p \in [kind : {"DESTROY"}, id : 0..(m - 1)]
    <3>1. p \in [kind : {"DESTROY"}, id : 0..(n - 1)]
      BY <1>1, <2>5
    <3> QED BY <3>1 DEF Downs
  <2> QED BY <2>1, <2>2, <2>3, <2>4, <2>5, <2>6 DEF Downs
<1> DEFINE D == Downs(m)
           E == Downs(n)
<1>5. D \subseteq E
  BY <1>4
<1> HIDE DEF D, E
<1>6. Seq(D) \subseteq Seq(E)
  BY <1>5
<1> QED BY <1>5, <1>6 DEF D, E

\* The kinds of packets.
LEMMA DownKinds ==
  ASSUME NEW next \in Nat, NEW p \in Downs(next)
  PROVE  \/ p.kind = "LOBBY_LIST_ACK" /\ p.rooms \in Seq(Nat)
         \/ p.kind = "SPAWN" /\ p.entity \in Whereabouts(next)
         \/ p.kind = "UPDATE_POSITION" /\ p.entity \in Whereabouts(next)
         \/ p.kind = "WORLD_INIT" /\ p.state \in GameStates /\ p.entities \in Seq(Whereabouts(next))
         \/ p.kind = "JOIN_ACK" /\ p.state \in GameStates \cup {GameMenu}
         \/ p.kind = "UPDATE_GAME_STATE" /\ p.state \in GameStates
         \/ p.kind = "DESTROY" /\ p.id \in 0..(next - 1)
<1> DEFINE W == Whereabouts(next)
<1> HIDE DEF W
<1>1. CASE p \in [kind : {"LOBBY_LIST_ACK"}, rooms : Seq(Nat)]
  BY <1>1
<1>2. CASE p \in [kind : {"SPAWN", "UPDATE_POSITION"}, entity : W]
  BY <1>2 DEF W
<1>3. CASE p \in [kind : {"WORLD_INIT"}, state : GameStates, entities : Seq(W)]
  BY <1>3 DEF W
<1>4. CASE p \in [kind : {"JOIN_ACK"}, id : 0..(next - 1), state : GameStates \cup {GameMenu}]
  BY <1>4
<1>6. CASE p \in [kind : {"UPDATE_GAME_STATE"}, state : GameStates]
  BY <1>6
<1>5. CASE p \in [kind : {"DESTROY"}, id : 0..(next - 1)]
  BY <1>5
<1> QED BY <1>1, <1>2, <1>3, <1>4, <1>5, <1>6 DEF Downs, W

\* A packet that tells nothing of entities is right about them.
LEMMA QuietRight ==
  ASSUME NEW p, p.kind \notin {"SPAWN", "UPDATE_POSITION", "WORLD_INIT"}, NEW id, NEW b
  PROVE  Right(p, id, b)
BY DEF Right

\* One sequence after another.
LEMMA Joint ==
  ASSUME NEW S, NEW a \in Seq(S), NEW b \in Seq(S)
  PROVE  /\ a \o b \in Seq(S) /\ Len(a \o b) = Len(a) + Len(b)
         /\ \A k \in 1..Len(a) : k \in 1..Len(a \o b) /\ (a \o b)[k] = a[k]
         /\ \A k \in 1..Len(b) :
              Len(a) + k \in 1..Len(a \o b) /\ (a \o b)[Len(a) + k] = b[k]
         /\ \A i \in 1..Len(a \o b) :
              \/ i \in 1..Len(a) /\ (a \o b)[i] = a[i]
              \/ \E k \in 1..Len(b) : i = Len(a) + k /\ (a \o b)[i] = b[k]
<1>1. /\ a \o b \in Seq(S) /\ Len(a \o b) = Len(a) + Len(b) /\ Len(a) \in Nat /\ Len(b) \in Nat
      /\ \A i \in 1..(Len(a) + Len(b)) :
           (a \o b)[i] = IF i <= Len(a) THEN a[i] ELSE b[i - Len(a)]
  BY ConcatProperties, LenProperties
<1>2. \A k \in 1..Len(a) : k \in 1..Len(a \o b) /\ (a \o b)[k] = a[k]
  BY <1>1
<1>3. \A k \in 1..Len(b) :
        Len(a) + k \in 1..Len(a \o b) /\ (a \o b)[Len(a) + k] = b[k]
  BY <1>1
<1>4. ASSUME NEW i \in 1..Len(a \o b)
      PROVE  \/ i \in 1..Len(a) /\ (a \o b)[i] = a[i]
             \/ \E k \in 1..Len(b) : i = Len(a) + k /\ (a \o b)[i] = b[k]
  <2>1. CASE i <= Len(a)
    BY <1>1, <2>1
  <2>2. CASE i > Len(a)
    <3>1. i - Len(a) \in 1..Len(b) /\ i = Len(a) + (i - Len(a))
      BY <1>1, <2>2
    <3> QED BY <1>3, <3>1
  <2> QED BY <1>1, <2>1, <2>2
<1> QED BY <1>1, <1>2, <1>3, <1>4

(***************************************************************************)
(* The lobby sends packets, and an entity that is not where it was is      *)
(* among the updates.                                                      *)
(***************************************************************************)
LEMMA TrackedAppend ==
  ASSUME NEW S, NEW ps \in Seq(S), NEW qs \in Seq(S), NEW shown, NEW id, NEW b, NEW c,
         TrackedAt(ps, shown, id, b), \A i \in 1..Len(qs) : Right(qs[i], id, c),
         Unmoved(b, c) \/ \E i \in 1..Len(qs) : Updates(qs[i], id)
  PROVE  TrackedAt(ps \o qs, shown, id, c)
<1> DEFINE all == ps \o qs
<1>1. /\ Len(ps) \in Nat /\ Len(qs) \in Nat /\ Len(all) \in Nat
      /\ \A k \in 1..Len(ps) : k \in 1..Len(all) /\ all[k] = ps[k]
      /\ \A k \in 1..Len(qs) : Len(ps) + k \in 1..Len(all) /\ all[Len(ps) + k] = qs[k]
      /\ \A i \in 1..Len(all) :
           \/ i \in 1..Len(ps) /\ all[i] = ps[i]
           \/ \E k \in 1..Len(qs) : i = Len(ps) + k /\ all[i] = qs[k]
  BY Joint, LenProperties
<1> HIDE DEF all
<1>2. CASE \E i \in 1..Len(qs) : Updates(qs[i], id)
  <2>1. PICK k \in 1..Len(qs) : Updates(qs[k], id)
    BY <1>2
  <2>2. Len(ps) + k \in 1..Len(all) /\ Updates(all[Len(ps) + k], id)
    BY <1>1, <2>1
  <2>3. ASSUME NEW i \in 1..Len(all)
        PROVE  Right(all[i], id, c) \/ \E j \in 1..Len(all) : j > i /\ Updates(all[j], id)
    <3>1. CASE i \in 1..Len(ps)
      <4>1. Len(ps) + k > i
        BY <1>1, <3>1
      <4> QED BY <2>2, <4>1
    <3>2. CASE \E m \in 1..Len(qs) : i = Len(ps) + m /\ all[i] = qs[m]
      BY <3>2
    <3> QED BY <1>1, <3>1, <3>2
  <2> QED BY <2>2, <2>3 DEF TrackedAt, all
<1>3. CASE Unmoved(b, c)
  <2>1. \A p : Right(p, id, b) => Right(p, id, c)
    BY <1>3 DEF Right, Unmoved
  <2>2. ASSUME NEW i \in 1..Len(all)
        PROVE  Right(all[i], id, c) \/ \E j \in 1..Len(all) : j > i /\ Updates(all[j], id)
    <3>1. CASE i \in 1..Len(ps) /\ all[i] = ps[i]
      <4>1. Right(ps[i], id, b) \/ \E j \in 1..Len(ps) : j > i /\ Updates(ps[j], id)
        BY <3>1 DEF TrackedAt
      <4> QED BY <1>1, <2>1, <3>1, <4>1
    <3>2. CASE \E m \in 1..Len(qs) : i = Len(ps) + m /\ all[i] = qs[m]
      BY <3>2
    <3> QED BY <1>1, <3>1, <3>2
  <2>3. ASSUME id \in DOMAIN shown
        PROVE  Unmoved(c, Target(shown[id])) \/ \E j \in 1..Len(all) : Updates(all[j], id)
    <3>1. Unmoved(b, Target(shown[id])) \/ \E j \in 1..Len(ps) : Updates(ps[j], id)
      BY <2>3 DEF TrackedAt
    <3> QED BY <1>1, <1>3, <3>1 DEF Unmoved
  <2> QED BY <2>2, <2>3 DEF TrackedAt, all
<1> QED BY <1>2, <1>3

\* A packet arrives: shown is what the client showed before, and more what it shows then.
Follows(p, shown, more, id) ==
  id \in DOMAIN more =>
    \/ id \in DOMAIN shown /\ Target(more[id]) = Target(shown[id]) /\ ~Updates(p, id)
    \/ \A b : Right(p, id, b) => Unmoved(b, Target(more[id]))

\* What is known of an entity, once the first packet of those on their way is handled.
LEMMA TrackedTail ==
  ASSUME NEW S, NEW ps \in Seq(S), ps # << >>, NEW shown, NEW more, NEW id, NEW b,
         TrackedAt(ps, shown, id, b), Follows(Head(ps), shown, more, id)
  PROVE  TrackedAt(Tail(ps), more, id, b)
<1> DEFINE rest == Tail(ps)
<1>1. /\ Len(ps) \in Nat \ {0} /\ Len(rest) = Len(ps) - 1 /\ Head(ps) = ps[1]
      /\ \A i \in 1..Len(rest) : i + 1 \in 1..Len(ps) /\ rest[i] = ps[i + 1]
  BY HeadTailProperties, LenProperties
<1> HIDE DEF rest
<1>2. \A j \in 1..Len(ps) : j > 1 => j - 1 \in 1..Len(rest) /\ rest[j - 1] = ps[j]
  <2> SUFFICES ASSUME NEW j \in 1..Len(ps), j > 1
               PROVE  j - 1 \in 1..Len(rest) /\ rest[j - 1] = ps[j]
    OBVIOUS
  <2>1. j - 1 \in 1..Len(rest) /\ (j - 1) + 1 = j
    BY <1>1
  <2> QED BY <1>1, <2>1
<1>3. ASSUME NEW i \in 1..Len(rest)
      PROVE  Right(rest[i], id, b) \/ \E j \in 1..Len(rest) : j > i /\ Updates(rest[j], id)
  <2>1. i + 1 \in 1..Len(ps) /\ rest[i] = ps[i + 1]
    BY <1>1
  <2>2. CASE Right(ps[i + 1], id, b)
    BY <2>1, <2>2
  <2>3. CASE \E j \in 1..Len(ps) : j > i + 1 /\ Updates(ps[j], id)
    <3>1. PICK j \in 1..Len(ps) : j > i + 1 /\ Updates(ps[j], id)
      BY <2>3
    <3>2. j > 1 /\ j - 1 > i
      BY <1>1, <3>1
    <3> QED BY <1>2, <3>1, <3>2
  <2> QED BY <2>1, <2>2, <2>3 DEF TrackedAt
<1>4. ASSUME id \in DOMAIN more
      PROVE  Unmoved(b, Target(more[id])) \/ \E j \in 1..Len(rest) : Updates(rest[j], id)
  <2>1. 1 \in 1..Len(ps)
    BY <1>1
  <2>2. ASSUME NEW j \in 1..Len(ps), j > 1, Updates(ps[j], id)
        PROVE  \E k \in 1..Len(rest) : Updates(rest[k], id)
    BY <1>2, <2>2
  <2>3. CASE id \in DOMAIN shown /\ Target(more[id]) = Target(shown[id]) /\ ~Updates(ps[1], id)
    <3>1. Unmoved(b, Target(shown[id])) \/ \E j \in 1..Len(ps) : Updates(ps[j], id)
      BY <2>3 DEF TrackedAt
    <3>2. CASE Unmoved(b, Target(shown[id]))
      BY <2>3, <3>2
    <3>3. ASSUME NEW j \in 1..Len(ps), Updates(ps[j], id)
          PROVE  \E k \in 1..Len(rest) : Updates(rest[k], id)
      <4>1. j # 1
        BY <2>3, <3>3
      <4>2. j > 1
        BY <1>1, <4>1
      <4> QED BY <2>2, <3>3, <4>2
    <3> QED BY <3>1, <3>2, <3>3
  <2>4. CASE \A c : Right(ps[1], id, c) => Unmoved(c, Target(more[id]))
    <3>1. Right(ps[1], id, b) \/ \E j \in 1..Len(ps) : j > 1 /\ Updates(ps[j], id)
      BY <2>1 DEF TrackedAt
    <3> QED BY <2>2, <2>4, <3>1
  <2> QED BY <1>1, <1>4, <2>3, <2>4 DEF Follows
<1> QED BY <1>3, <1>4 DEF TrackedAt, rest

\* A packet that is no update of the entity is lost.
LEMMA TrackedWithout ==
  ASSUME NEW S, NEW ps \in Seq(S), NEW n \in 1..Len(ps), NEW shown, NEW id, NEW b,
         TrackedAt(ps, shown, id, b), ~Updates(ps[n], id)
  PROVE  TrackedAt(RemoveAt(ps, n), shown, id, b)
<1> DEFINE rest == RemoveAt(ps, n)
           at(i) == IF i < n THEN i ELSE i + 1
<1>1. /\ Len(ps) \in Nat /\ Len(rest) = Len(ps) - 1
      /\ \A i \in 1..(Len(ps) - 1) : rest[i] = ps[at(i)]
  <2> DEFINE u == SubSeq(ps, 1, n - 1)
             v == SubSeq(ps, n + 1, Len(ps))
  <2>1. Len(ps) \in Nat /\ n \in Nat
    BY LenProperties
  <2>2. /\ u \in Seq(S) /\ Len(u) = n - 1 /\ \A i \in 1..(n - 1) : u[i] = ps[i]
    BY <2>1
  <2>3. /\ v \in Seq(S) /\ Len(v) = Len(ps) - n /\ \A i \in 1..(Len(ps) - n) : v[i] = ps[n + i]
    BY <2>1
  <2>4. rest = u \o v
    BY DEF RemoveAt
  <2> HIDE DEF u, v, rest
  <2>5. /\ Len(rest) = Len(u) + Len(v)
        /\ \A i \in 1..(Len(u) + Len(v)) :
             rest[i] = IF i <= Len(u) THEN u[i] ELSE v[i - Len(u)]
    BY <2>2, <2>3, <2>4, ConcatProperties
  <2>6. ASSUME NEW i \in 1..(Len(ps) - 1) PROVE rest[i] = ps[at(i)]
    <3>1. CASE i < n
      <4>1. i \in 1..(n - 1) /\ i \in 1..(Len(u) + Len(v)) /\ i <= Len(u)
        BY <2>1, <2>2, <2>3, <3>1
      <4> QED BY <2>2, <2>5, <3>1, <4>1
    <3>2. CASE i >= n
      <4>1. /\ i - (n - 1) \in 1..(Len(ps) - n) /\ i \in 1..(Len(u) + Len(v)) /\ ~(i <= Len(u))
            /\ n + (i - (n - 1)) = i + 1
        BY <2>1, <2>2, <2>3, <3>2
      <4>2. rest[i] = v[i - (n - 1)]
        BY <2>2, <2>5, <4>1
      <4>3. v[i - (n - 1)] = ps[i + 1]
        BY <2>3, <4>1
      <4> QED BY <2>1, <3>2, <4>2, <4>3
    <3> QED BY <2>1, <3>1, <3>2
  <2> QED BY <2>1, <2>2, <2>3, <2>5, <2>6
<1> HIDE DEF rest
<1>2. \A i \in 1..(Len(ps) - 1) : at(i) \in 1..Len(ps)
  BY <1>1
<1>3. ASSUME NEW j \in 1..Len(ps), Updates(ps[j], id)
      PROVE  \E k \in 1..Len(rest) : at(k) = j /\ Updates(rest[k], id)
  <2>1. j # n
    BY <1>3
  <2> DEFINE k == IF j < n THEN j ELSE j - 1
  <2>2. k \in 1..(Len(ps) - 1) /\ at(k) = j
    BY <1>1, <2>1
  <2> HIDE DEF k, at
  <2>3. Updates(rest[k], id)
    BY <1>1, <1>3, <2>2
  <2> QED BY <1>1, <2>2, <2>3
<1>4. \A i, k \in 1..(Len(ps) - 1) : at(k) > at(i) => k > i
  BY <1>1
<1> HIDE DEF at
<1>5. ASSUME NEW i \in 1..Len(rest)
      PROVE  Right(rest[i], id, b) \/ \E j \in 1..Len(rest) : j > i /\ Updates(rest[j], id)
  <2>1. at(i) \in 1..Len(ps) /\ rest[i] = ps[at(i)]
    BY <1>1, <1>2
  <2>2. Right(ps[at(i)], id, b) \/ \E j \in 1..Len(ps) : j > at(i) /\ Updates(ps[j], id)
    BY <2>1 DEF TrackedAt
  <2>3. ASSUME NEW j \in 1..Len(ps), j > at(i), Updates(ps[j], id)
        PROVE  \E k \in 1..Len(rest) : k > i /\ Updates(rest[k], id)
    <3>1. PICK k \in 1..Len(rest) : at(k) = j /\ Updates(rest[k], id)
      BY <1>3, <2>3
    <3>2. k > i
      BY <1>1, <1>4, <2>3, <3>1
    <3> QED BY <3>1, <3>2
  <2> QED BY <2>1, <2>2, <2>3
<1>6. id \in DOMAIN shown =>
        Unmoved(b, Target(shown[id])) \/ \E j \in 1..Len(rest) : Updates(rest[j], id)
  BY <1>3 DEF TrackedAt
<1> QED BY <1>5, <1>6 DEF TrackedAt, rest

------------------------------------------------------------------------------
(* The packets of a lobby keep up with its bodies.                         *)

\* What Me is told, with the packets ps on their way, of the entities that are not missed.
SentOK(l, ps, shown, missed) ==
  /\ ps \in Seq(Downs(l.next))
  /\ \A id \in DOMAIN l.set.sparse \ missed : TrackedAt(ps, shown, id, Get(l.set, id))

\* An entity that the packets and the client do not know yet.
LEMMA UnknownTracked ==
  ASSUME NEW next \in Nat, NEW ps \in Seq(Downs(next)), NEW shown,
         DOMAIN shown \subseteq 0..(next - 1), NEW id, id \notin 0..(next - 1), NEW b
  PROVE  TrackedAt(ps, shown, id, b)
<1> DEFINE D == Downs(next)
           W == Whereabouts(next)
<1>1. \A i \in 1..Len(ps) : ps[i] \in D
  <2> HIDE DEF D
  <2>1. ps \in Seq(D)
    BY DEF D
  <2> QED BY <2>1
<1>2. ASSUME NEW e \in W PROVE e.id \in 0..(next - 1)
  BY DEF Whereabouts
<1>3. ASSUME NEW p \in D PROVE Right(p, id, b)
  <2>1. p.kind \in {"SPAWN", "UPDATE_POSITION"} => p.entity \in W
    BY DownKinds
  <2>2. p.kind = "WORLD_INIT" => p.entities \in Seq(W)
    BY DownKinds
  <2> HIDE DEF W, D
  <2>3. p.kind = "WORLD_INIT" => \A k \in 1..Len(p.entities) : p.entities[k] \in W
    BY <2>2
  <2> QED BY <1>2, <2>1, <2>3 DEF Right
<1> QED BY <1>1, <1>3 DEF TrackedAt

(***************************************************************************)
(* A lobby has become t and has sent qs: of an entity that Me may know of, *)
(* the body is where it was or an update has been sent.                    *)
(***************************************************************************)
LEMMA LobbySends ==
  ASSUME NEW l, NEW t, NEW ps, NEW qs, NEW shown, NEW missed,
         LobbyOK(l), LobbyOK(t), l.next <= t.next, SentOK(l, ps, shown, missed),
         DOMAIN shown \subseteq 0..(l.next - 1), qs \in Seq(Downs(t.next)),
         \A id \in DOMAIN t.set.sparse :
           /\ \A i \in 1..Len(qs) : Right(qs[i], id, Get(t.set, id))
           /\ \/ /\ id \in DOMAIN l.set.sparse
                 /\ \/ Unmoved(Get(l.set, id), Get(t.set, id))
                    \/ \E i \in 1..Len(qs) : Updates(qs[i], id)
              \/ id \notin 0..(l.next - 1)
  PROVE  SentOK(t, ps \o qs, shown, missed)
<1> DEFINE D == Downs(t.next)
           C == Downs(l.next)
<1>1. l.next \in Nat /\ t.next \in Nat
  BY DEF LobbyOK
<1>2. ps \in Seq(C) /\ Seq(C) \subseteq Seq(D)
  BY <1>1, DownsGrow DEF SentOK
<1> HIDE DEF C, D
<1>3. ps \in Seq(D) /\ qs \in Seq(D)
  BY <1>2 DEF D
<1>4. ps \o qs \in Seq(D)
  BY <1>3, Joint
<1>5. ASSUME NEW id \in DOMAIN t.set.sparse \ missed
      PROVE  TrackedAt(ps \o qs, shown, id, Get(t.set, id))
  <2> DEFINE c == Get(t.set, id)
             b == Get(l.set, id)
  <2>1. CASE /\ id \in DOMAIN l.set.sparse
             /\ Unmoved(b, c) \/ \E i \in 1..Len(qs) : Updates(qs[i], id)
    <3>1. TrackedAt(ps, shown, id, b)
      BY <2>1 DEF SentOK
    <3>2. \A i \in 1..Len(qs) : Right(qs[i], id, c)
      OBVIOUS
    <3> HIDE DEF b, c
    <3>3. TrackedAt(ps \o qs, shown, id, c)
      BY <1>3, <2>1, <3>1, <3>2, TrackedAppend
    <3> QED BY <3>3 DEF c
  <2>2. CASE id \notin 0..(l.next - 1)
    <3>1. TrackedAt(ps, shown, id, c)
      BY <1>1, <1>2, <2>2, UnknownTracked DEF C
    <3>2. \A i \in 1..Len(qs) : Right(qs[i], id, c)
      OBVIOUS
    <3>3. Unmoved(c, c)
      BY DEF Unmoved
    <3> HIDE DEF c
    <3>4. TrackedAt(ps \o qs, shown, id, c)
      BY <1>3, <3>1, <3>2, <3>3, TrackedAppend
    <3> QED BY <3>4 DEF c
  <2> QED BY <2>1, <2>2
<1> QED BY <1>4, <1>5 DEF SentOK, D

\* What a packet says of an entity of the set.
LEMMA EntityWhere ==
  ASSUME NEW set, BodySet(set), NEW next \in Nat, DOMAIN set.sparse \subseteq 0..(next - 1),
         NEW id \in DOMAIN set.sparse
  PROVE  /\ Entity(set, id) \in Whereabouts(next) /\ Entity(set, id).id = id
         /\ Unmoved(Get(set, id), Entity(set, id))
<1> DEFINE b == Get(set, id)
<1>1. b \in Bodies
  BY BodySetShape DEF Get
<1>2. b.x \in Int /\ b.y \in Int
  BY <1>1, BodyFields
<1>3. Entity(set, id) = [id |-> id, x |-> b.x, y |-> b.y]
  BY DEF Entity
<1> HIDE DEF b
<1>4. [id |-> id, x |-> b.x, y |-> b.y] \in Whereabouts(next)
  BY <1>2 DEF Whereabouts
<1> QED BY <1>3, <1>4 DEF Unmoved, b

\* BroadcastUpdatedMovements tells of every entity that is updated where it is.
LEMMA MovementsTold ==
  ASSUME NEW set, BodySet(set)
  PROVE  LET told == UpdatedMovements(set)
         IN  /\ Len(told) \in Nat /\ DOMAIN told = 1..Len(told)
             /\ \A k \in 1..Len(told) : \E e \in DOMAIN set.sparse : told[k] = Entity(set, e)
             /\ \A e \in DOMAIN set.sparse : Get(set, e).updated =>
                  \E k \in 1..Len(told) : told[k].id = e
<1> DEFINE n == Len(set.dense)
           all == [i \in DOMAIN set.dense |-> i]
           picked == {i \in DOMAIN set.dense : set.dense[i].updated}
           moved == Kept(all, picked)
           told == UpdatedMovements(set)
<1>1. n \in Nat /\ DOMAIN set.dense = 1..n
  BY BodySetShape
<1> HIDE DEF n
<1>2. all \in Seq(1..n) /\ Len(all) = n
  BY <1>1
<1>3. told = [k \in DOMAIN moved |->
                [id |-> set.entities[moved[k]], x |-> set.dense[moved[k]].x, y |-> set.dense[moved[k]].y]]
  BY Zenon DEF UpdatedMovements
<1>4. moved \in Seq(1..n) /\ InOrder(moved, all, picked \cap (1..n))
  <2> HIDE DEF all, picked, moved
  <2> QED BY <1>2, KeptInOrder DEF moved
<1>5. \A i \in 1..n : all[i] = i
  BY <1>1
<1> HIDE DEF moved, all, picked, told
<1>6. PICK at \in [1..Len(moved) -> picked \cap (1..n)] :
        /\ \A p \in picked \cap (1..n) : \E k \in 1..Len(moved) : at[k] = p
        /\ \A k \in 1..Len(moved) : moved[k] = all[at[k]]
  BY <1>4 DEF InOrder
<1>7. \A k \in 1..Len(moved) : moved[k] = at[k] /\ moved[k] \in 1..n
  BY <1>5, <1>6
<1>8. DOMAIN moved = 1..Len(moved) /\ Len(moved) \in Nat
  BY <1>4
<1>9. DOMAIN told = 1..Len(moved) /\ Len(told) = Len(moved)
  BY <1>3, <1>8
<1>10. ASSUME NEW k \in 1..Len(moved)
       PROVE  \E e \in DOMAIN set.sparse : told[k] = Entity(set, e)
  <2> DEFINE e == set.entities[moved[k]]
  <2>1. e \in DOMAIN set.sparse /\ set.sparse[e] = moved[k]
    BY <1>1, <1>7, BodySetShape DEF n
  <2>2. told[k] = [id |-> e, x |-> set.dense[moved[k]].x, y |-> set.dense[moved[k]].y]
    BY <1>3, <1>8
  <2> HIDE DEF e
  <2>3. told[k] = Entity(set, e)
    BY <2>1, <2>2 DEF Entity, Get
  <2> QED BY <2>1, <2>3
<1>11. ASSUME NEW e \in DOMAIN set.sparse, Get(set, e).updated
       PROVE  \E k \in 1..Len(moved) : told[k].id = e
  <2>1. set.sparse[e] \in 1..n /\ set.entities[set.sparse[e]] = e
    BY BodySetShape DEF n
  <2>2. set.sparse[e] \in picked \cap (1..n)
    BY <1>1, <1>11, <2>1 DEF Get, picked
  <2>3. PICK k \in 1..Len(moved) : at[k] = set.sparse[e]
    BY <1>6, <2>2
  <2>4. told[k].id = set.entities[moved[k]]
    BY <1>3, <1>8
  <2> QED BY <1>7, <2>1, <2>3, <2>4
<1> QED BY <1>8, <1>9, <1>10, <1>11 DEF told

(***************************************************************************)
(* A tick, until the bodies are swept: an entity that is left is where it  *)
(* was or is among the updates, which say where it is.                     *)
(***************************************************************************)
LEMMA SweptWhere ==
  ASSUME NEW set, BodySet(set), NEW slope \in [Enemies(set) -> Slopes],
         NEW moved, moved = ApplyMovement(ApplyEnemyMovement(set, slope)),
         NEW swept, swept = KillDead(Announced(moved))
  PROVE  /\ BodySet(moved) /\ DOMAIN moved.sparse = DOMAIN set.sparse
         /\ Carried(set, swept.set)
         /\ swept.killed \in Seq(DOMAIN set.sparse)
         /\ \A e \in DOMAIN swept.set.sparse :
              /\ Unmoved(Get(moved, e), Get(swept.set, e))
              /\ Unmoved(Get(set, e), Get(swept.set, e)) \/ Get(moved, e).updated
<1> DEFINE steered == ApplyEnemyMovement(set, slope)
           announced == Announced(moved)
<1>1. steered \in Standing(set)
  BY EnemiesSteered DEF Standing
<1> HIDE DEF steered
<1>2. CarriedInPlace(set, steered) /\ BodySet(steered) /\ DOMAIN steered.sparse = DOMAIN set.sparse
  <2>1. steered \in Touched(set)
    BY <1>1 DEF Standing
  <2> QED BY <1>1, <2>1, StandingCarried, TouchedSet
<1>3. /\ moved \in Touched(steered)
      /\ \A k \in DOMAIN steered.dense :
           Unmoved(steered.dense[k], moved.dense[k]) \/ moved.dense[k].updated
  BY <1>2, MovementMarks DEF steered
<1>4. /\ BodySet(moved) /\ Carried(steered, moved) /\ moved.sparse = steered.sparse
      /\ DOMAIN moved.sparse = DOMAIN set.sparse
  BY <1>2, <1>3, TouchedSet, TouchedCarried
<1>5. \A e \in DOMAIN set.sparse :
        Unmoved(Get(steered, e), Get(moved, e)) \/ Get(moved, e).updated
  BY <1>2, <1>3, <1>4, BodySetShape DEF Get
<1>6. announced \in Standing(moved)
  BY <1>4, AnnouncedStand
<1> HIDE DEF announced
<1>7. CarriedInPlace(moved, announced) /\ BodySet(announced)
      /\ DOMAIN announced.sparse = DOMAIN set.sparse
  <2>1. announced \in Touched(moved)
    BY <1>6 DEF Standing
  <2> QED BY <1>4, <1>6, <2>1, StandingCarried, TouchedSet
<1>8. Remains(announced, swept.set) /\ swept.killed \in Seq(DOMAIN announced.sparse)
  BY <1>7, KillDeadRemains DEF announced
<1>9. CarriedInPlace(announced, swept.set)
  BY <1>8, RemainsCarried
<1>10. CarriedInPlace(moved, swept.set)
  BY <1>7, <1>9, CarriedTwice DEF CarriedInPlace
<1>11. Carried(set, swept.set)
  <2>1. Carried(set, moved)
    BY <1>2, <1>4, CarriedTwice DEF CarriedInPlace
  <2> QED BY <1>10, <2>1, CarriedTwice DEF CarriedInPlace
<1>12. ASSUME NEW e \in DOMAIN swept.set.sparse
       PROVE  /\ Unmoved(Get(moved, e), Get(swept.set, e))
              /\ Unmoved(Get(set, e), Get(swept.set, e)) \/ Get(moved, e).updated
  <2>1. Unmoved(Get(moved, e), Get(swept.set, e)) /\ e \in DOMAIN set.sparse
    BY <1>4, <1>10 DEF CarriedInPlace, Carried
  <2>2. Unmoved(Get(set, e), Get(steered, e))
    BY <1>2, <2>1 DEF CarriedInPlace
  <2> QED BY <1>5, <2>1, <2>2 DEF Unmoved
<1> QED BY <1>4, <1>7, <1>8, <1>11, <1>12


------------------------------------------------------------------------------
(* The steps of the lobby.                                                 *)

\* Packets that tell nothing of where entities are.
Quiet(next) ==
  {p \in Downs(next) : p.kind \notin {"SPAWN", "UPDATE_POSITION", "WORLD_INIT"}}

\* The packets of BroadcastUpdatedMovements and of BroadcastDeadEntities.
Telling(told) == [i \in DOMAIN told |-> UpdatePosition(told[i])]
Destroying(killed) == [i \in DOMAIN killed |-> Destroy(killed[i])]

\* A packet that tells nothing of entities, or where one of them is.
TellsOf(p, moved, next) ==
  p \in Quiet(next) \/ \E e \in DOMAIN moved.sparse : p = UpdatePosition(Entity(moved, e))

TickSent(sent, moved, killed) ==
  sent \o Telling(UpdatedMovements(moved)) \o Destroying(killed)

\* What the packets of a tick are.
LEMMA TickPackets ==
  ASSUME NEW set, BodySet(set), NEW moved, BodySet(moved), NEW next \in Nat,
         DOMAIN set.sparse \subseteq 0..(next - 1), DOMAIN moved.sparse = DOMAIN set.sparse,
         NEW killed \in Seq(DOMAIN set.sparse), NEW sent \in Seq(Quiet(next))
  PROVE  LET packets == TickSent(sent, moved, killed)
         IN  /\ packets \in Seq(Downs(next))
             /\ \A i \in 1..Len(packets) : TellsOf(packets[i], moved, next)
             /\ \A e \in DOMAIN set.sparse : Get(moved, e).updated =>
                  \E i \in 1..Len(packets) : Updates(packets[i], e)
<1> DEFINE ids == DOMAIN set.sparse
           Q == Quiet(next)
           U == {UpdatePosition(Entity(moved, e)) : e \in ids}
           G == Q \cup U
           D == Downs(next)
           told == UpdatedMovements(moved)
           packets == TickSent(sent, moved, killed)
           u == [i \in DOMAIN told |-> UpdatePosition(told[i])]
           k == [i \in DOMAIN killed |-> Destroy(killed[i])]
<1>1. /\ Len(told) \in Nat /\ DOMAIN told = 1..Len(told)
      /\ \A i \in 1..Len(told) : \E e \in ids : told[i] = Entity(moved, e)
      /\ \A e \in ids : Get(moved, e).updated => \E i \in 1..Len(told) : told[i].id = e
  BY MovementsTold
<1> HIDE DEF told
<1>2. \A e \in ids : /\ Entity(moved, e) \in Whereabouts(next) /\ Entity(moved, e).id = e
  BY EntityWhere
<1>3. \A w \in Whereabouts(next) : UpdatePosition(w) \in D /\ UpdatePosition(w).entity = w
                                   /\ UpdatePosition(w).kind = "UPDATE_POSITION"
  BY DEF UpdatePosition, Downs
<1>4. \A e \in ids : Destroy(e) \in Q
  BY DEF Destroy, Downs, Quiet
<1>5. U \subseteq D /\ Q \subseteq D
  BY <1>2, <1>3 DEF Quiet
<1> HIDE DEF Q, D
<1>6. u \in Seq(U) /\ Len(u) = Len(told) /\ \A i \in 1..Len(told) : u[i] = UpdatePosition(told[i])
  <2>1. \A i \in 1..Len(told) : UpdatePosition(told[i]) \in U
    BY <1>1
  <2> HIDE DEF U
  <2> QED BY <1>1, <2>1
<1>7. k \in Seq(Q)
  <2> HIDE DEF ids
  <2>1. killed \in Seq(ids) /\ DOMAIN killed = 1..Len(killed) /\ Len(killed) \in Nat
    BY DEF ids
  <2>2. \A i \in 1..Len(killed) : killed[i] \in ids
    BY <2>1
  <2>3. \A i \in 1..Len(killed) : Destroy(killed[i]) \in Q
    BY <1>4, <2>2
  <2> QED BY <2>1, <2>3
<1>8. sent \in Seq(Q)
  BY DEF Q
<1>9. packets = (sent \o u) \o k
  BY DEF Telling, Destroying, TickSent, told
<1> HIDE DEF u, k, U, packets, told
<1>10. Q \subseteq G /\ U \subseteq G /\ G \subseteq D
  BY <1>5
<1> HIDE DEF G
<1>11. sent \in Seq(G) /\ u \in Seq(G) /\ k \in Seq(G)
  BY <1>6, <1>7, <1>8, <1>10
<1>12. sent \o u \in Seq(G)
  BY <1>11, Joint
<1>13. packets \in Seq(G)
  <2> DEFINE a == sent \o u
  <2>1. a \in Seq(G)
    BY <1>12
  <2> HIDE DEF a
  <2>2. a \o k \in Seq(G)
    BY <1>11, <2>1, Joint
  <2> QED BY <1>9, <2>2 DEF a
<1>14. packets \in Seq(D) /\ \A i \in 1..Len(packets) : packets[i] \in G
  BY <1>10, <1>13
<1>15. ASSUME NEW e \in ids, Get(moved, e).updated
       PROVE  \E i \in 1..Len(packets) : Updates(packets[i], e)
  <2>1. PICK i \in 1..Len(told) : told[i].id = e
    BY <1>1, <1>15
  <2>2. Updates(u[i], e)
    BY <1>1, <1>2, <1>3, <1>6, <2>1 DEF Updates
  <2>3. i \in 1..Len(u)
    BY <1>6, <2>1
  <2>4. /\ Len(sent) + i \in 1..Len(sent \o u) /\ (sent \o u)[Len(sent) + i] = u[i]
    BY <1>11, <2>3, Joint
  <2>5. /\ Len(sent) + i \in 1..Len(packets)
        /\ packets[Len(sent) + i] = (sent \o u)[Len(sent) + i]
    <3> DEFINE a == sent \o u
               m == Len(sent) + i
    <3>1. a \in Seq(G) /\ m \in 1..Len(a)
      BY <1>12, <2>4
    <3> HIDE DEF a, m
    <3>2. m \in 1..Len(a \o k) /\ (a \o k)[m] = a[m]
      BY <1>11, <3>1, Joint
    <3> QED BY <1>9, <3>2 DEF a, m
  <2> QED BY <2>2, <2>4, <2>5
<1>16. \A p \in G : TellsOf(p, moved, next)
  BY DEF G, U, Q, TellsOf
<1> QED BY <1>14, <1>15, <1>16 DEF D, packets

(***************************************************************************)
(* The rest of a tick.  What may have restarted the game before has left   *)
(* the bodies in their places, and has sent nothing that tells of them.    *)
(***************************************************************************)
LEMMA PlayedSends ==
  ASSUME NEW l, LobbyOK(l), l.home # NoRoom, NEW shown, NEW missed,
         DOMAIN shown \subseteq 0..(l.next - 1), SentOK(l, down, shown, missed),
         NEW lobby, LobbyOK(lobby), Stayed(l, lobby), CarriedInPlace(l.set, lobby.set),
         NEW sent \in Seq(Quiet(lobby.next)), Played(lobby, sent)
  PROVE  /\ LobbyOK(server') /\ SentOK(server', down', shown, missed)
         /\ server'.home = l.home /\ server'.next \in Nat /\ l.next <= server'.next
<1>1. SUFFICES ASSUME NEW slope \in [Enemies(lobby.set) -> Slopes],
                      NEW moved \in {ApplyMovement(ApplyEnemyMovement(lobby.set, slope))},
                      NEW swept \in {KillDead(Announced(moved))},
                      LET updates == UpdatedMovements(moved)
                          packets == sent \o [i \in DOMAIN updates |-> UpdatePosition(updates[i])]
                                          \o [i \in DOMAIN swept.killed |-> Destroy(swept.killed[i])]
                          next == [lobby EXCEPT !.set = swept.set]
                      IN  \/ LobbyStep(next, packets)
                          \/ /\ lobby.state = GameRunning
                             /\ lobby.next < MaxEntities
                             /\ \E at \in EnemyPoints, set \in MoveSets :
                                  LET more == WithEnemy(next, at, set)
                                  IN  LobbyStep(more,
                                        Append(packets, Spawn(Entity(more.set, lobby.next))))
               PROVE  /\ LobbyOK(server') /\ SentOK(server', down', shown, missed)
                      /\ server'.home = l.home /\ server'.next \in Nat /\ l.next <= server'.next
  BY Zenon DEF Played
<1> DEFINE updates == UpdatedMovements(moved)
           packets == sent \o [i \in DOMAIN updates |-> UpdatePosition(updates[i])]
                           \o [i \in DOMAIN swept.killed |-> Destroy(swept.killed[i])]
           next == [lobby EXCEPT !.set = swept.set]
           N == lobby.next
<1>2. BodySet(lobby.set) /\ N \in Nat /\ DOMAIN lobby.set.sparse \subseteq 0..(N - 1) /\ N = l.next
      /\ lobby.home # NoRoom /\ DOMAIN lobby = Fields
  BY DEF LobbyOK, Stayed
<1>3. /\ BodySet(moved) /\ DOMAIN moved.sparse = DOMAIN lobby.set.sparse
      /\ Carried(lobby.set, swept.set)
      /\ swept.killed \in Seq(DOMAIN lobby.set.sparse)
      /\ \A e \in DOMAIN swept.set.sparse :
           /\ Unmoved(Get(moved, e), Get(swept.set, e))
           /\ Unmoved(Get(lobby.set, e), Get(swept.set, e)) \/ Get(moved, e).updated
  BY <1>2, SweptWhere
<1>4. /\ packets \in Seq(Downs(N))
      /\ \A i \in 1..Len(packets) : TellsOf(packets[i], moved, N)
      /\ \A e \in DOMAIN lobby.set.sparse : Get(moved, e).updated =>
           \E i \in 1..Len(packets) : Updates(packets[i], e)
  <2>1. packets = TickSent(sent, moved, swept.killed)
    BY DEF TickSent, Telling, Destroying
  <2>2. sent \in Seq(Quiet(N))
    OBVIOUS
  <2> HIDE DEF packets, updates, N
  <2>3. /\ BodySet(lobby.set) /\ BodySet(moved) /\ N \in Nat
        /\ DOMAIN lobby.set.sparse \subseteq 0..(N - 1)
        /\ DOMAIN moved.sparse = DOMAIN lobby.set.sparse
        /\ swept.killed \in Seq(DOMAIN lobby.set.sparse)
    BY <1>2, <1>3
  <2> QED BY <2>1, <2>2, <2>3, TickPackets
<1> HIDE DEF updates, packets
<1>5. /\ Stayed(lobby, next) /\ next.set = swept.set /\ next.state = lobby.state
  BY <1>2 DEF Stayed, Fields, LobbyOK
<1> HIDE DEF next
<1>6. LobbyOK(next) /\ next.next = N /\ next.home = l.home /\ next.home # NoRoom
  BY <1>2, <1>3, <1>5, LobbyWith DEF Stayed
<1>7. ASSUME NEW id \in DOMAIN swept.set.sparse
      PROVE  /\ \A i \in 1..Len(packets) : Right(packets[i], id, Get(swept.set, id))
             /\ id \in DOMAIN l.set.sparse
             /\ \/ Unmoved(Get(l.set, id), Get(swept.set, id))
                \/ \E i \in 1..Len(packets) : Updates(packets[i], id)
  <2>1. id \in DOMAIN lobby.set.sparse /\ id \in DOMAIN l.set.sparse
    BY <1>3 DEF Carried, CarriedInPlace
  <2>2. Unmoved(Get(l.set, id), Get(lobby.set, id))
    BY <2>1 DEF CarriedInPlace
  <2>3. ASSUME NEW i \in 1..Len(packets) PROVE Right(packets[i], id, Get(swept.set, id))
    <3>1. CASE packets[i] \in Quiet(N)
      BY <3>1, QuietRight DEF Quiet
    <3>2. ASSUME NEW e \in DOMAIN lobby.set.sparse, packets[i] = UpdatePosition(Entity(moved, e))
          PROVE  Right(packets[i], id, Get(swept.set, id))
      <4>1. Entity(moved, e).id = e /\ Unmoved(Get(moved, e), Entity(moved, e))
        BY <1>2, <1>3, EntityWhere
      <4>2. packets[i].kind = "UPDATE_POSITION" /\ packets[i].entity = Entity(moved, e)
        BY <3>2 DEF UpdatePosition
      <4>3. e = id => Unmoved(Get(swept.set, id), Entity(moved, e))
        BY <1>3, <4>1 DEF Unmoved
      <4> QED BY <4>1, <4>2, <4>3 DEF Right
    <3> QED BY <1>3, <1>4, <3>1, <3>2 DEF TellsOf
  <2>4. \/ Unmoved(Get(l.set, id), Get(swept.set, id))
        \/ \E i \in 1..Len(packets) : Updates(packets[i], id)
    BY <1>3, <1>4, <2>1, <2>2 DEF Unmoved
  <2> QED BY <2>1, <2>3, <2>4
<1>8. ASSUME LobbyStep(next, packets)
      PROVE  /\ LobbyOK(server') /\ SentOK(server', down', shown, missed)
             /\ server'.home = l.home /\ server'.next = N
  <2>1. server' = next /\ down' = down \o packets
    BY <1>6, <1>8 DEF LobbyStep, LobbyOK
  <2>2. SentOK(next, down \o packets, shown, missed)
    BY <1>2, <1>4, <1>5, <1>6, <1>7, LobbySends
  <2> QED BY <1>6, <2>1, <2>2
<1>9. ASSUME NEW at \in EnemyPoints, NEW set \in MoveSets, N < MaxEntities,
             LobbyStep(WithEnemy(next, at, set),
                       Append(packets, Spawn(Entity(WithEnemy(next, at, set).set, N))))
      PROVE  /\ LobbyOK(server') /\ SentOK(server', down', shown, missed)
             /\ server'.home = l.home /\ server'.next = N + 1
  <2> DEFINE b == Body(kEnemy, EntityAlive, at.x, at.y, 0, set)
             more == WithEnemy(next, at, set)
             spawn == Spawn(Entity(more.set, N))
             all == Append(packets, spawn)
  <2>1. b \in Bodies /\ b.type # kPlayer
    BY EnemyBody
  <2>2. more = [next EXCEPT !.set = Placed(@, next.next, b), !.next = @ + 1]
    BY Zenon DEF WithEnemy
  <2> HIDE DEF b, more
  <2>3. /\ LobbyOK(more) /\ more.next = N + 1 /\ more.home = next.home
        /\ DOMAIN more.set.sparse = DOMAIN swept.set.sparse \cup {N}
        /\ Get(more.set, N) = b
        /\ \A e \in DOMAIN swept.set.sparse : Get(more.set, e) = Get(swept.set, e)
    <3>1. /\ DOMAIN more = Fields /\ more.set = Placed(next.set, next.next, b)
          /\ more.next = next.next + 1 /\ more.home = next.home /\ more.players = next.players
          /\ more.rooms = next.rooms /\ more.state = next.state
      BY <1>5, <2>2 DEF Stayed, Fields
    <3> QED BY <1>5, <1>6, <1>9, <2>1, <3>1, LobbyWithMore
  <2>4. /\ spawn.kind = "SPAWN" /\ spawn.entity.id = N /\ spawn \in Downs(N + 1)
        /\ Unmoved(Get(more.set, N), spawn.entity)
    <3>1. /\ BodySet(more.set) /\ N + 1 \in Nat /\ DOMAIN more.set.sparse \subseteq 0..((N + 1) - 1)
          /\ N \in DOMAIN more.set.sparse
      BY <1>2, <2>3 DEF LobbyOK
    <3>2. /\ Entity(more.set, N) \in Whereabouts(N + 1) /\ Entity(more.set, N).id = N
          /\ Unmoved(Get(more.set, N), Entity(more.set, N))
      BY <3>1, EntityWhere
    <3>3. spawn = [kind |-> "SPAWN", entity |-> Entity(more.set, N)]
      BY DEF Spawn
    <3> HIDE DEF spawn
    <3>4. spawn.kind = "SPAWN" /\ spawn.entity = Entity(more.set, N)
      BY <3>3
    <3>5. spawn \in Downs(N + 1)
      BY <3>2, <3>3 DEF Downs
    <3> QED BY <3>2, <3>4, <3>5
  <2> HIDE DEF spawn
  <2>5. packets \in Seq(Downs(N + 1))
    <3>1. N \in Nat /\ N + 1 \in Nat /\ N <= N + 1
      BY <1>2
    <3> HIDE DEF N
    <3> QED BY <1>4, <3>1, DownsGrow
  <2>6. /\ all \in Seq(Downs(N + 1)) /\ Len(packets) \in Nat /\ Len(all) = Len(packets) + 1
        /\ all[Len(packets) + 1] = spawn
        /\ \A i \in 1..Len(packets) : all[i] = packets[i]
    <3> DEFINE D == Downs(N + 1)
    <3>1. packets \in Seq(D) /\ spawn \in D
      BY <2>4, <2>5
    <3> HIDE DEF D
    <3>2. /\ all \in Seq(D) /\ Len(packets) \in Nat /\ Len(all) = Len(packets) + 1
          /\ all[Len(packets) + 1] = spawn
          /\ \A i \in 1..Len(packets) : all[i] = packets[i]
      BY <3>1
    <3> QED BY <3>2 DEF D
  <2> HIDE DEF all
  <2>7. N \notin 0..(l.next - 1)
    BY <1>2
  <2>8. ASSUME NEW id \in DOMAIN more.set.sparse
        PROVE  /\ \A i \in 1..Len(all) : Right(all[i], id, Get(more.set, id))
               /\ \/ /\ id \in DOMAIN l.set.sparse
                     /\ \/ Unmoved(Get(l.set, id), Get(more.set, id))
                        \/ \E i \in 1..Len(all) : Updates(all[i], id)
                  \/ id \notin 0..(l.next - 1)
    <3>1. CASE id = N
      <4>1. Right(spawn, id, Get(more.set, id))
        BY <2>4, <3>1 DEF Right
      <4>2. \A i \in 1..Len(packets) : Right(packets[i], id, Get(more.set, id))
        <5> SUFFICES ASSUME NEW i \in 1..Len(packets) PROVE Right(packets[i], id, Get(more.set, id))
          OBVIOUS
        <5>1. CASE packets[i] \in Quiet(N)
          BY <5>1, QuietRight DEF Quiet
        <5>2. ASSUME NEW e \in DOMAIN lobby.set.sparse, packets[i] = UpdatePosition(Entity(moved, e))
              PROVE  Right(packets[i], id, Get(more.set, id))
          <6>1. packets[i].kind = "UPDATE_POSITION" /\ packets[i].entity.id = e
            <7>1. Entity(moved, e).id = e
              BY <1>2, <1>3, EntityWhere
            <7> QED BY <5>2, <7>1 DEF UpdatePosition
          <6>2. e # N
            BY <1>2
          <6> QED BY <3>1, <6>1, <6>2 DEF Right
        <5> QED BY <1>3, <1>4, <5>1, <5>2 DEF TellsOf
      <4>3. \A i \in 1..Len(all) : i \in 1..Len(packets) \/ i = Len(packets) + 1
        BY <2>6
      <4> QED BY <2>6, <2>7, <3>1, <4>1, <4>2, <4>3
    <3>2. CASE id # N
      <4>1. id \in DOMAIN swept.set.sparse /\ Get(more.set, id) = Get(swept.set, id)
        BY <2>3, <3>2
      <4>2. Right(spawn, id, Get(more.set, id))
        BY <2>4, <3>2 DEF Right
      <4>3. \A i \in 1..Len(all) : i \in 1..Len(packets) \/ i = Len(packets) + 1
        BY <2>6
      <4>4. \A i \in 1..Len(all) : Right(all[i], id, Get(more.set, id))
        BY <1>7, <2>6, <4>1, <4>2, <4>3
      <4>5. \A i \in 1..Len(packets) : i \in 1..Len(all)
        BY <2>6
      <4> QED BY <1>7, <2>6, <4>1, <4>4, <4>5
    <3> QED BY <3>1, <3>2
  <2>9. SentOK(more, down \o all, shown, missed)
    <3>1. l.next <= more.next /\ all \in Seq(Downs(more.next))
      BY <1>2, <2>3, <2>6
    <3> QED BY <2>3, <2>8, <3>1, LobbySends
  <2>10. server' = more /\ down' = down \o all
    <3>1. LobbyStep(more, all)
      BY <1>9 DEF more, all, spawn
    <3> QED BY <1>6, <2>3, <3>1 DEF LobbyStep, LobbyOK
  <2> QED BY <1>6, <2>3, <2>9, <2>10
<1>10. \/ LobbyStep(next, packets)
       \/ /\ N < MaxEntities
          /\ \E at \in EnemyPoints, set \in MoveSets :
               LobbyStep(WithEnemy(next, at, set),
                         Append(packets, Spawn(Entity(WithEnemy(next, at, set).set, N))))
  BY <1>1 DEF updates, packets, next
<1>11. N \in Nat /\ N + 1 \in Nat /\ l.next <= N /\ l.next <= N + 1
  BY <1>2
<1> QED BY <1>8, <1>9, <1>10, <1>11

\* What a restart sends tells nothing of where entities are.
LEMMA RestartQuiet ==
  ASSUME NEW l, LobbyOK(l), NEW state \in GameStates
  PROVE  Restarting(l, state) \in Seq(Quiet(l.next))
<1> DEFINE gone == Removable(l.set)
           ids == DOMAIN l.set.sparse
           Q == Quiet(l.next)
<1>1. gone \in Seq(ids) /\ ids \subseteq 0..(l.next - 1)
  BY RemovableEntities DEF LobbyOK
<1>2. /\ \A e \in ids : Destroy(e) \in Q
      /\ UpdateGameState(state) \in Q
  BY <1>1 DEF Destroy, UpdateGameState, Downs, Quiet
<1>3. Restarting(l, state) = <<UpdateGameState(state)>> \o [i \in DOMAIN gone |-> Destroy(gone[i])]
  BY DEF Restarting
<1> HIDE DEF gone, ids, Q
<1>4. [i \in DOMAIN gone |-> Destroy(gone[i])] \in Seq(Q)
  <2>1. DOMAIN gone = 1..Len(gone) /\ Len(gone) \in Nat /\ \A i \in 1..Len(gone) : gone[i] \in ids
    BY <1>1
  <2>2. \A i \in 1..Len(gone) : Destroy(gone[i]) \in Q
    BY <1>2, <2>1
  <2> QED BY <2>1, <2>2
<1>5. <<UpdateGameState(state)>> \in Seq(Q)
  BY <1>2
<1> QED BY <1>3, <1>4, <1>5, Joint DEF Q

\* Quiet packets are packets.
LEMMA QuietDowns ==
  ASSUME NEW next, NEW ps \in Seq(Quiet(next)), NEW id, NEW b
  PROVE  ps \in Seq(Downs(next)) /\ \A i \in 1..Len(ps) : Right(ps[i], id, b)
<1> DEFINE Q == Quiet(next)
           D == Downs(next)
<1>1. Q \subseteq D /\ \A p \in Q : Right(p, id, b)
  BY QuietRight DEF Quiet
<1>2. ps \in Seq(Q)
  OBVIOUS
<1> HIDE DEF Q, D
<1>3. ps \in Seq(D) /\ \A i \in 1..Len(ps) : ps[i] \in Q
  BY <1>1, <1>2
<1> QED BY <1>1, <1>3 DEF D

\* A lobby in which nobody has moved has sent quiet packets.
LEMMA QuietSends ==
  ASSUME LobbyOK(server), server.home # NoRoom, NEW shown, NEW missed,
         DOMAIN shown \subseteq 0..(server.next - 1), SentOK(server, down, shown, missed),
         NEW t, Stayed(server, t), CarriedInPlace(server.set, t.set),
         NEW qs \in Seq(Quiet(server.next)), LobbyStep(t, qs)
  PROVE  /\ LobbyOK(server') /\ SentOK(server', down', shown, missed)
         /\ server'.home = server.home /\ server'.next = server.next
<1>1. LobbyOK(t) /\ t.next = server.next /\ t.home = server.home
  BY LobbyWith DEF CarriedInPlace, Stayed
<1>2. server' = t /\ down' = down \o qs
  BY <1>1 DEF LobbyStep, LobbyOK
<1>3. server.next \in Nat
  BY DEF LobbyOK
<1>4. qs \in Seq(Downs(t.next))
  BY <1>1, QuietDowns
<1>5. ASSUME NEW id \in DOMAIN t.set.sparse
      PROVE  /\ \A i \in 1..Len(qs) : Right(qs[i], id, Get(t.set, id))
             /\ id \in DOMAIN server.set.sparse
             /\ Unmoved(Get(server.set, id), Get(t.set, id))
  BY QuietDowns DEF CarriedInPlace, Carried
<1>6. SentOK(t, down \o qs, shown, missed)
  BY <1>1, <1>3, <1>4, <1>5, LobbySends
<1> QED BY <1>1, <1>2, <1>6

------------------------------------------------------------------------------
(* A player joins.                                                         *)

\* A lobby that a session may join first or second: it has only players.
Joinable(l) ==
  /\ DOMAIN l = Fields /\ l.rooms \in Nat \ {0} /\ l.state \in GameStates
  /\ l.next \in {0, 1}
  /\ BodySet(l.set) /\ DOMAIN l.set.sparse \subseteq 0..(l.next - 1)
  /\ \A i \in DOMAIN l.set.dense : l.set.dense[i].type = kPlayer
  /\ DOMAIN l.players \subseteq {Other}
  /\ \A s \in DOMAIN l.players : l.players[s] \in DOMAIN l.set.sparse

\* A new lobby.
LEMMA NewLobbyJoinable ==
  ASSUME NEW rooms \in Nat \ {0}
  PROVE  Joinable(NewLobby(rooms)) /\ DOMAIN NewLobby(rooms).players = {}
         /\ NewLobby(rooms).next = 0 /\ NewLobby(rooms).rooms = rooms
         /\ NewLobby(rooms).home = NoRoom
<1> DEFINE l == NewLobby(rooms)
<1>1. /\ DOMAIN l = Fields /\ l.set = EmptySet /\ l.next = 0 /\ l.players = << >>
      /\ l.state = GameLobby /\ l.rooms = rooms /\ l.home = NoRoom
  BY DEF NewLobby, Fields
<1> HIDE DEF l
<1>2. DOMAIN << >> = {} /\ EmptySet.dense = << >> /\ DOMAIN EmptySet.sparse = {}
  BY DEF EmptySet
<1>3. BodySet(EmptySet)
  <2>1. EmptySet \in SparseSets({}, Bodies) /\ Consistent(EmptySet)
    BY EmptySetIsEmpty
  <2>2. PlayersFirst(EmptySet)
    BY <1>2 DEF PlayersFirst
  <2> QED BY <1>2, <2>1, <2>2 DEF BodySet
<1> QED BY <1>1, <1>2, <1>3 DEF Joinable, GameStates, l

\* The lobby t is l once s has joined it, and Me may call it its own.
JoinedAs(l, s, at, home, t) ==
  \/ t = [Joined(l, s, at) EXCEPT !.home = home]
  \/ t = Joined(l, s, at) /\ home = l.home

\* join(): the new player has a body, and nothing else is different.
LEMMA JoinedLobby ==
  ASSUME NEW l, Joinable(l), NEW s \in {Me, Other}, NEW at \in [x : Int, y : Int], NEW home,
         NEW t, JoinedAs(l, s, at, home, t)
  PROVE  /\ DOMAIN t = Fields /\ t.rooms = l.rooms /\ t.state = l.state /\ t.home = home
         /\ t.next = l.next + 1 /\ t.next \in 1..MaxEntities
         /\ BodySet(t.set) /\ DOMAIN t.set.sparse \subseteq 0..(t.next - 1)
         /\ l.next \in DOMAIN t.set.sparse
         /\ \A i \in DOMAIN t.set.dense : t.set.dense[i].type = kPlayer
         /\ DOMAIN t.players = DOMAIN l.players \cup {s}
         /\ \A q \in DOMAIN t.players :
              t.players[q] \in DOMAIN t.set.sparse /\ Get(t.set, t.players[q]).type = kPlayer
         /\ t.players = With(l.players, s, l.next)
         /\ DOMAIN t.set.sparse = DOMAIN l.set.sparse \cup {l.next}
<1> DEFINE b == Body(kPlayer, PlayerWaiting, at.x, at.y, 0, kHover)
           u == Placed(l.set, l.next, b)
           p == With(l.players, s, l.next)
<1>1. b \in Bodies /\ b.type = kPlayer
  <2>1. b = [type |-> kPlayer, state |-> PlayerWaiting, x |-> at.x, y |-> at.y, vx |-> 0, vy |-> 0,
             updated |-> FALSE, set |-> kHover]
    BY DEF Body
  <2>2. at.x \in Int /\ at.y \in Int /\ 0 \in Int /\ PlayerWaiting \in Nat
    BY DEF PlayerWaiting
  <2> HIDE DEF b
  <2>3. b \in Bodies
    BY <2>1, <2>2 DEF Bodies
  <2>4. b.type = kPlayer
    BY <2>1
  <2> QED BY <2>3, <2>4
<1>2. /\ DOMAIN t = Fields /\ t.rooms = l.rooms /\ t.state = l.state /\ t.home = home
      /\ t.set = u /\ t.next = l.next + 1 /\ t.players = p
  <2> HIDE DEF b, u, p
  <2>1. Joined(l, s, at) = [l EXCEPT !.set = u, !.next = @ + 1, !.players = p]
    BY DEF Joined, u, p, b
  <2>2. DOMAIN l = Fields
    BY DEF Joinable
  <2>3. CASE t = [Joined(l, s, at) EXCEPT !.home = home]
    BY <2>1, <2>2, <2>3 DEF Fields
  <2>4. CASE t = Joined(l, s, at) /\ home = l.home
    BY <2>1, <2>2, <2>4 DEF Fields
  <2> QED BY <2>3, <2>4 DEF JoinedAs
<1> HIDE DEF b
<1>3. /\ BodySet(l.set) /\ l.next \notin DOMAIN l.set.sparse /\ l.next \in {0, 1}
      /\ \A i \in DOMAIN l.set.dense : l.set.dense[i].type = kPlayer
  BY DEF Joinable
<1>4. /\ BodySet(u) /\ DOMAIN u.sparse = DOMAIN l.set.sparse \cup {l.next}
      /\ u.dense = Append(l.set.dense, b)
  BY <1>1, <1>3, PlacedBody
<1> HIDE DEF u
<1>5. \A i \in DOMAIN u.dense : u.dense[i].type = kPlayer
  <2> DEFINE d == l.set.dense
  <2>1. d \in Seq(Bodies) /\ DOMAIN d = 1..Len(d)
    BY <1>3, BodySetShape
  <2>2. \A i \in 1..Len(d) : d[i].type = kPlayer
    BY <1>3, <2>1
  <2> HIDE DEF d
  <2>3. /\ DOMAIN Append(d, b) = 1..(Len(d) + 1) /\ Append(d, b)[Len(d) + 1] = b
        /\ \A i \in 1..Len(d) : Append(d, b)[i] = d[i] /\ Len(d) \in Nat
    BY <2>1
  <2>4. \A i \in 1..(Len(d) + 1) : i \in 1..Len(d) \/ i = Len(d) + 1
    BY <2>1
  <2> QED BY <1>1, <1>4, <2>2, <2>3, <2>4 DEF d
<1>6. \A e \in DOMAIN u.sparse : Get(u, e).type = kPlayer
  BY <1>4, <1>5, BodySetShape DEF Get
<1>7. /\ DOMAIN p = DOMAIN l.players \cup {s}
      /\ \A q \in DOMAIN p : p[q] = IF q = s THEN l.next ELSE l.players[q]
  BY DEF With
<1> HIDE DEF p
<1>8. \A q \in DOMAIN p : p[q] \in DOMAIN u.sparse
  BY <1>4, <1>7 DEF Joinable
<1>9. l.next + 1 \in 1..MaxEntities /\ DOMAIN u.sparse \subseteq 0..((l.next + 1) - 1)
  BY <1>3, <1>4, PlayersAssumption DEF Joinable
<1>10. t.players = With(l.players, s, l.next)
  BY <1>2 DEF p
<1> QED BY <1>2, <1>4, <1>5, <1>6, <1>7, <1>8, <1>9, <1>10

\* A lobby before Me joins one.
LEMMA FirstJoinable ==
  ASSUME NEW l, LobbyOK(l), l.home = NoRoom
  PROVE  Joinable(l) /\ Other \in DOMAIN l.players /\ l.next = 1
BY PlayersAssumption DEF LobbyOK, Joinable

(***************************************************************************)
(* Me is let into a lobby: it is told where everybody is.                  *)
(***************************************************************************)
LEMMA EnteredSends ==
  ASSUME NEW s, NEW room \in Nat, LobbyOK(s), s.home = NoRoom, room < s.rooms,
         EnteredRoom(s, room), NEW shown, DOMAIN shown = {}, NEW missed,
         NEW next \in Nat, down \in Seq(Downs(next)), next <= 1,
         \A i \in DOMAIN down : down[i].kind \in Unplaced
  PROVE  LobbyOK(server') /\ server'.home = room /\ SentOK(server', down', shown, missed)
<1> DEFINE lobby == IF room = 0 THEN s ELSE NewLobby(s.rooms)
           t == [Joined(lobby, Me, SpawnPoint) EXCEPT !.home = room]
           id == lobby.next
           all == [i \in DOMAIN t.set.entities |-> Entity(t.set, t.set.entities[i])]
           few == <<Spawn(Entity(t.set, id)), JoinAck(id, t.state)>>
           packets == few \o (IF id # 0 THEN <<WorldInit(t.state, all)>> ELSE << >>)
<1>1. LobbyStep(t, packets)
  BY Zenon DEF EnteredRoom
<1>2. /\ Joinable(lobby) /\ lobby.rooms = s.rooms
      /\ room = 0 => Other \in DOMAIN lobby.players
      /\ s.rooms \in Nat \ {0}
  <2>1. s.rooms \in Nat \ {0}
    BY DEF LobbyOK
  <2> QED BY <2>1, FirstJoinable, NewLobbyJoinable
<1> HIDE DEF lobby
<1>3. SpawnPoint \in [x : Int, y : Int]
  BY PointsAssumption
<1>4. /\ DOMAIN t = Fields /\ t.rooms = lobby.rooms /\ t.state = lobby.state /\ t.home = room
      /\ t.next = id + 1 /\ t.next \in 1..MaxEntities
      /\ BodySet(t.set) /\ DOMAIN t.set.sparse \subseteq 0..(t.next - 1)
      /\ id \in DOMAIN t.set.sparse
      /\ \A i \in DOMAIN t.set.dense : t.set.dense[i].type = kPlayer
      /\ DOMAIN t.players = DOMAIN lobby.players \cup {Me}
      /\ \A q \in DOMAIN t.players :
           t.players[q] \in DOMAIN t.set.sparse /\ Get(t.set, t.players[q]).type = kPlayer
  <2>1. t = [Joined(lobby, Me, SpawnPoint) EXCEPT !.home = room]
    OBVIOUS
  <2> HIDE DEF t
  <2>2. JoinedAs(lobby, Me, SpawnPoint, room, t)
    BY <2>1, Zenon DEF JoinedAs
  <2>3. Me \in {Me, Other}
    OBVIOUS
  <2> QED BY <1>2, <1>3, <2>2, <2>3, JoinedLobby
<1> HIDE DEF t, id
<1>5. LobbyOK(t)
  <2>1. room \in 0..(t.rooms - 1) /\ room # NoRoom
    BY <1>2, <1>4 DEF NoRoom
  <2>2. t.state \in GameStates /\ DOMAIN t.players \subseteq {Me, Other} /\ Me \in DOMAIN t.players
    BY <1>2, <1>4 DEF Joinable
  <2>3. room \in {0, NoRoom} => Other \in DOMAIN t.players
    BY <1>2, <1>4, <2>1
  <2> QED BY <1>2, <1>4, <2>1, <2>2, <2>3 DEF LobbyOK
<1>6. server' = t /\ down' = down \o packets
  BY <1>1, <1>4 DEF LobbyStep
<1> DEFINE N == t.next
           D == Downs(N)
<1>7. N \in Nat /\ next <= N /\ t.state \in GameStates
  BY <1>4, <1>5 DEF LobbyOK
<1>8. \A e \in DOMAIN t.set.sparse :
        /\ Entity(t.set, e) \in Whereabouts(N) /\ Entity(t.set, e).id = e
        /\ Unmoved(Get(t.set, e), Entity(t.set, e))
  BY <1>4, <1>7, EntityWhere
<1>9. /\ Spawn(Entity(t.set, id)) \in D /\ JoinAck(id, t.state) \in D
      /\ \A e \in DOMAIN t.set.sparse : /\ Right(Spawn(Entity(t.set, id)), e, Get(t.set, e))
                                        /\ Right(JoinAck(id, t.state), e, Get(t.set, e))
  <2>1. Spawn(Entity(t.set, id)) \in D
    BY <1>4, <1>8 DEF Spawn, Downs
  <2>2. JoinAck(id, t.state) \in D
    BY <1>4, <1>7 DEF JoinAck, Downs
  <2>3. \A e \in DOMAIN t.set.sparse : Right(Spawn(Entity(t.set, id)), e, Get(t.set, e))
    BY <1>4, <1>8 DEF Spawn, Right
  <2>4. \A e : Right(JoinAck(id, t.state), e, Get(t.set, e))
    BY QuietRight DEF JoinAck
  <2> QED BY <2>1, <2>2, <2>3, <2>4
<1>10. /\ all \in Seq(Whereabouts(N))
       /\ \A k \in 1..Len(all) : \E e \in DOMAIN t.set.sparse : all[k] = Entity(t.set, e)
  <2> DEFINE n == Len(t.set.dense)
             W == Whereabouts(N)
  <2>1. n \in Nat /\ DOMAIN t.set.entities = 1..n
        /\ \A k \in 1..n : t.set.entities[k] \in DOMAIN t.set.sparse
    BY <1>4, BodySetShape
  <2> HIDE DEF n, W
  <2>2. DOMAIN all = 1..n /\ \A k \in 1..n : all[k] = Entity(t.set, t.set.entities[k])
    BY <2>1
  <2>3. \A k \in 1..n : all[k] \in W
    BY <1>8, <2>1, <2>2 DEF W
  <2>4. all \in Seq(W) /\ Len(all) = n
    <3> HIDE DEF all
    <3>1. \E m \in Nat : DOMAIN all = 1..m
      BY <2>1, <2>2
    <3>2. all = [k \in 1..n |-> all[k]]
      BY <2>1, <2>2 DEF all
    <3> QED BY <2>1, <2>2, <2>3, <3>2
  <2> QED BY <2>1, <2>2, <2>4 DEF W
<1> DEFINE world == WorldInit(t.state, all)
<1> HIDE DEF all
<1>11. world \in D /\ \A e \in DOMAIN t.set.sparse : Right(world, e, Get(t.set, e))
  <2>1. world.kind = "WORLD_INIT" /\ world.entities = all
    BY DEF WorldInit
  <2>2. world \in D
    BY <1>7, <1>10 DEF WorldInit, Downs
  <2>3. ASSUME NEW e \in DOMAIN t.set.sparse, NEW k \in 1..Len(all), all[k].id = e
        PROVE  Unmoved(Get(t.set, e), all[k])
    BY <1>8, <1>10, <2>3
  <2> HIDE DEF world
  <2> QED BY <2>1, <2>2, <2>3 DEF Right
<1> HIDE DEF world, D
<1>12. packets \in Seq(D) /\ \A e \in DOMAIN t.set.sparse :
                               \A i \in 1..Len(packets) : Right(packets[i], e, Get(t.set, e))
  <2> DEFINE G == {p \in D : \A e \in DOMAIN t.set.sparse : Right(p, e, Get(t.set, e))}
             more == IF id # 0 THEN <<world>> ELSE << >>
  <2>1. Spawn(Entity(t.set, id)) \in G /\ JoinAck(id, t.state) \in G /\ world \in G
    BY <1>9, <1>11
  <2>2. G \subseteq D /\ \A p \in G : \A e \in DOMAIN t.set.sparse : Right(p, e, Get(t.set, e))
    OBVIOUS
  <2> HIDE DEF G
  <2>3. few \in Seq(G) /\ more \in Seq(G)
    BY <2>1
  <2>4. packets = few \o more
    BY DEF world
  <2> HIDE DEF few, more, packets
  <2>5. packets \in Seq(G)
    BY <2>3, <2>4, Joint
  <2>6. packets \in Seq(D) /\ \A i \in 1..Len(packets) : packets[i] \in G
    BY <2>2, <2>5
  <2> QED BY <2>2, <2>6
<1> HIDE DEF packets
<1>13. down \in Seq(D)
  BY <1>7, DownsGrow DEF D
<1>14. ASSUME NEW e \in DOMAIN t.set.sparse
       PROVE  TrackedAt(down \o packets, shown, e, Get(t.set, e))
  <2> DEFINE b == Get(t.set, e)
  <2>1. TrackedAt(down, shown, e, b)
    <3>1. DOMAIN down = 1..Len(down)
      BY <1>13
    <3>2. \A i \in 1..Len(down) : Right(down[i], e, b)
      BY <3>1, QuietRight DEF Unplaced
    <3> QED BY <3>2 DEF TrackedAt
  <2>2. Unmoved(b, b)
    BY DEF Unmoved
  <2>3. \A i \in 1..Len(packets) : Right(packets[i], e, b)
    BY <1>12
  <2> HIDE DEF b
  <2>4. TrackedAt(down \o packets, shown, e, b)
    BY <1>12, <1>13, <2>1, <2>2, <2>3, TrackedAppend
  <2> QED BY <2>4 DEF b
<1>15. down \o packets \in Seq(D)
  BY <1>12, <1>13, Joint
<1> QED BY <1>4, <1>5, <1>6, <1>14, <1>15 DEF SentOK, D, N

------------------------------------------------------------------------------
(* The server and what it has sent.                                        *)

\* The lobby, the packets ps on their way, and what the client shows.
Together(l, ps, shown, missed) ==
  /\ LobbyOK(l)
  /\ SentOK(l, ps, shown, missed)
  /\ DOMAIN shown \subseteq 0..(l.next - 1)
  /\ l.home = NoRoom =>
       DOMAIN shown = {} /\ \A i \in DOMAIN ps : ps[i].kind \in Unplaced

\* A step of the server keeps the lobby and what it has sent together.
Caught(shown, missed) ==
  /\ Together(server', down', shown, missed)
  /\ server.next \in Nat /\ server'.next \in Nat /\ server.next <= server'.next

\* A step that sends nothing to anyone.
LEMMA NothingServed ==
  ASSUME NEW shown, NEW missed, Together(server, down, shown, missed), LobbyStep(server, << >>)
  PROVE  Caught(shown, missed)
<1>1. server' = server /\ down \in Seq(Downs(server.next)) /\ server.next \in Nat
  BY DEF LobbyStep, Together, SentOK, LobbyOK
<1>2. down' = down
  <2> DEFINE D == Downs(server.next)
  <2> HIDE DEF D
  <2>1. down \in Seq(D)
    BY <1>1 DEF D
  <2>2. down \o << >> = down
    BY <2>1
  <2> QED BY <1>1, <2>2 DEF LobbyStep
<1> QED BY <1>1, <1>2 DEF Caught, Together

\* A step of a lobby in which nobody has moved.
LEMMA QuietServed ==
  ASSUME NEW shown, NEW missed, Together(server, down, shown, missed), server.home # NoRoom,
         NEW t, Stayed(server, t), CarriedInPlace(server.set, t.set),
         NEW qs \in Seq(Quiet(server.next)), LobbyStep(t, qs)
  PROVE  Caught(shown, missed)
<1>1. /\ LobbyOK(server') /\ SentOK(server', down', shown, missed)
      /\ server'.home = server.home /\ server'.next = server.next
  BY QuietSends DEF Together
<1>2. server.next \in Nat
  BY DEF Together, LobbyOK
<1> QED BY <1>1, <1>2 DEF Caught, Together

\* A player is pushed.
LEMMA PushServed ==
  ASSUME NEW shown, NEW missed, Together(server, down, shown, missed), server.home # NoRoom,
         NEW s \in DOMAIN server.players, NEW mask,
         LobbyStep([server EXCEPT !.set = PushedBy(s, mask)], << >>)
  PROVE  Caught(shown, missed)
<1> DEFINE set == PushedBy(s, mask)
           t == [server EXCEPT !.set = set]
<1>1. LobbyOK(server) /\ DOMAIN server = Fields /\ server.state \in GameStates
  BY DEF Together, LobbyOK
<1>2. CarriedInPlace(server.set, set)
  BY <1>1, PushedLobby
<1> HIDE DEF set
<1>3. Stayed(server, t) /\ t.set = set
  BY <1>1 DEF Stayed, Fields
<1>4. LobbyStep(t, << >>)
  BY DEF set
<1> HIDE DEF t
<1>5. << >> \in Seq(Quiet(server.next))
  OBVIOUS
<1> QED BY <1>2, <1>3, <1>4, <1>5, QuietServed

\* Me shoots: the bullet is a new entity, and Me is told of it.
LEMMA ShotServed ==
  ASSUME NEW shown, NEW missed, Together(server, down, shown, missed), server.home # NoRoom,
         NEW mask, ServeInput(mask), "space" \in mask
  PROVE  Caught(shown, missed)
<1> DEFINE set == PushedBy(Me, mask)
           pushed == [server EXCEPT !.set = set]
           bullet == Body(kBullet, EntityAlive, BodyOf(Me).x + Muzzle.x,
                          BodyOf(Me).y + Muzzle.y, 2 * Speed, kHover)
           shot == [pushed EXCEPT !.set = Placed(@, server.next, bullet), !.next = @ + 1]
           N == server.next
           spawn == Spawn(Entity(shot.set, N))
<1>1. N < MaxEntities /\ LobbyStep(shot, <<spawn>>)
  BY DEF ServeInput
<1>2. /\ LobbyOK(server) /\ DOMAIN server = Fields /\ server.state \in GameStates
      /\ BodySet(server.set) /\ N \in Nat /\ Me \in DOMAIN server.players
      /\ server.players[Me] \in DOMAIN server.set.sparse
      /\ DOMAIN server.set.sparse \subseteq 0..(N - 1)
  BY DEF Together, LobbyOK
<1>3. CarriedInPlace(server.set, set)
  BY <1>2, PushedLobby
<1>4. bullet \in Bodies /\ bullet.type # kPlayer
  BY <1>2, BulletBody
<1> HIDE DEF set, bullet
<1>5. Stayed(server, pushed) /\ pushed.set = set /\ pushed.state = server.state
  BY <1>2 DEF Stayed, Fields
<1>6. /\ DOMAIN shot = Fields /\ shot.set = Placed(pushed.set, pushed.next, bullet)
      /\ shot.next = pushed.next + 1 /\ shot.home = pushed.home /\ shot.players = pushed.players
      /\ shot.rooms = pushed.rooms /\ shot.state = pushed.state
  <2> HIDE DEF pushed
  <2>1. DOMAIN pushed = Fields /\ pushed.next = N
    BY <1>5 DEF Stayed
  <2> QED BY <2>1 DEF Fields
<1> HIDE DEF shot, pushed
<1>7. LobbyOK(pushed) /\ pushed.next = N /\ pushed.home = server.home
  BY <1>2, <1>3, <1>5, LobbyWith DEF CarriedInPlace, Stayed
<1>8. /\ LobbyOK(shot)
      /\ DOMAIN shot.set.sparse = DOMAIN set.sparse \cup {N}
      /\ Get(shot.set, N) = bullet
      /\ \A e \in DOMAIN set.sparse : Get(shot.set, e) = Get(set, e)
  BY <1>1, <1>4, <1>5, <1>6, <1>7, LobbyWithMore
<1>9. shot.next = N + 1 /\ shot.home = server.home
  BY <1>6, <1>7
<1>10. /\ spawn.kind = "SPAWN" /\ spawn.entity.id = N /\ spawn \in Downs(N + 1)
       /\ Unmoved(Get(shot.set, N), spawn.entity)
  <2>1. /\ BodySet(shot.set) /\ N + 1 \in Nat /\ DOMAIN shot.set.sparse \subseteq 0..((N + 1) - 1)
        /\ N \in DOMAIN shot.set.sparse
    BY <1>2, <1>8, <1>9 DEF LobbyOK
  <2>2. /\ Entity(shot.set, N) \in Whereabouts(N + 1) /\ Entity(shot.set, N).id = N
        /\ Unmoved(Get(shot.set, N), Entity(shot.set, N))
    BY <2>1, EntityWhere
  <2>3. spawn = [kind |-> "SPAWN", entity |-> Entity(shot.set, N)]
    BY DEF Spawn
  <2> HIDE DEF spawn
  <2>4. spawn.kind = "SPAWN" /\ spawn.entity = Entity(shot.set, N)
    BY <2>3
  <2>5. spawn \in Downs(N + 1)
    BY <2>2, <2>3 DEF Downs
  <2> QED BY <2>2, <2>4, <2>5
<1>11. server' = shot /\ down' = down \o <<spawn>>
  BY <1>1, <1>8, <1>9 DEF LobbyStep, LobbyOK
<1> HIDE DEF spawn
<1> DEFINE qs == <<spawn>>
<1>12. qs \in Seq(Downs(shot.next)) /\ Len(qs) = 1 /\ qs[1] = spawn
  BY <1>9, <1>10
<1> HIDE DEF qs
<1>13. ASSUME NEW id \in DOMAIN shot.set.sparse
       PROVE  /\ \A i \in 1..Len(qs) : Right(qs[i], id, Get(shot.set, id))
              /\ \/ /\ id \in DOMAIN server.set.sparse
                    /\ \/ Unmoved(Get(server.set, id), Get(shot.set, id))
                       \/ \E i \in 1..Len(qs) : Updates(qs[i], id)
                 \/ id \notin 0..(server.next - 1)
  <2>1. Right(spawn, id, Get(shot.set, id))
    BY <1>10 DEF Right
  <2>2. \A i \in 1..Len(qs) : Right(qs[i], id, Get(shot.set, id))
    BY <1>12, <2>1
  <2>3. CASE id = N
    BY <1>2, <2>2, <2>3
  <2>4. CASE id # N
    <3>1. id \in DOMAIN set.sparse
      BY <1>8, <2>4
    <3>2. id \in DOMAIN server.set.sparse /\ Unmoved(Get(server.set, id), Get(set, id))
      BY <1>3, <3>1 DEF CarriedInPlace, Carried
    <3> QED BY <1>8, <2>2, <3>1, <3>2
  <2> QED BY <2>3, <2>4
<1>14. SentOK(shot, down \o qs, shown, missed)
  <2>1. SentOK(server, down, shown, missed) /\ DOMAIN shown \subseteq 0..(server.next - 1)
        /\ server.next <= shot.next
    BY <1>2, <1>9 DEF Together
  <2> QED BY <1>2, <1>8, <1>12, <1>13, <2>1, LobbySends
<1>15. DOMAIN shown \subseteq 0..(shot.next - 1) /\ N <= shot.next /\ shot.next \in Nat
  BY <1>2, <1>9 DEF Together
<1> QED BY <1>2, <1>8, <1>9, <1>11, <1>14, <1>15 DEF Caught, Together, qs

\* A packet to a session without a lobby, or of a lobby in which nobody has moved.
LEMMA ToldServed ==
  ASSUME NEW shown, NEW missed, Together(server, down, shown, missed),
         NEW t, LobbyOK(t), t.set = server.set, t.next = server.next, t.home = server.home,
         NEW p \in Downs(server.next), p.kind \in Unplaced, server' = t, down' = Append(down, p)
  PROVE  Caught(shown, missed)
<1> DEFINE qs == <<p>>
           D == Downs(server.next)
<1>1. LobbyOK(server) /\ server.next \in Nat /\ down \in Seq(D) /\ p \in D
  BY DEF Together, LobbyOK, SentOK
<1> HIDE DEF D
<1>2. down' = down \o qs /\ qs \in Seq(D) /\ Len(qs) = 1 /\ qs[1] = p
  BY <1>1
<1>3. /\ DOMAIN down' = 1..(Len(down) + 1) /\ DOMAIN down = 1..Len(down) /\ Len(down) \in Nat
      /\ \A i \in 1..Len(down) : down'[i] = down[i]
      /\ down'[Len(down) + 1] = p
  BY <1>1
<1> HIDE DEF qs
<1>4. ASSUME NEW id \in DOMAIN t.set.sparse
      PROVE  /\ \A i \in 1..Len(qs) : Right(qs[i], id, Get(t.set, id))
             /\ Unmoved(Get(server.set, id), Get(t.set, id))
  <2>1. Right(p, id, Get(t.set, id))
    BY QuietRight DEF Unplaced
  <2>2. \A i \in 1..Len(qs) : qs[i] = p
    BY <1>2
  <2> QED BY <2>1, <2>2 DEF Unmoved
<1>5. SentOK(t, down \o qs, shown, missed)
  BY <1>1, <1>2, <1>4, LobbySends DEF D, Together
<1>6. ASSUME \A i \in DOMAIN down : down[i].kind \in Unplaced
      PROVE  \A i \in DOMAIN down' : down'[i].kind \in Unplaced
  <2> SUFFICES ASSUME NEW i \in 1..(Len(down) + 1) PROVE down'[i].kind \in Unplaced
    BY <1>3
  <2>1. i \in 1..Len(down) \/ i = Len(down) + 1
    BY <1>3
  <2> QED BY <1>3, <1>6, <2>1
<1> QED BY <1>1, <1>2, <1>5, <1>6 DEF Caught, Together

\* The answer to a LOBBY_LIST.
LEMMA ListServed ==
  ASSUME NEW shown, NEW missed, Together(server, down, shown, missed), ServeList
  PROVE  Caught(shown, missed)
<1>1. LobbyOK(server) /\ server.rooms \in Nat \ {0}
  BY DEF Together, LobbyOK
<1>2. PICK ids \in FirstPages(server.rooms) : down' = Append(down, LobbyListAck(ids))
  BY DEF ServeList
<1>3. ids \in Seq(Nat)
  <2> DEFINE n == Min({server.rooms, Page})
  <2>1. ids \in [1..n -> 0..(server.rooms - 1)]
    BY <1>2 DEF FirstPages
  <2>2. n \in Nat
    <3>1. {server.rooms, Page} \in SUBSET Nat /\ {server.rooms, Page} # {}
      BY <1>1 DEF Page
    <3>2. n \in {server.rooms, Page}
      BY <3>1, MinPlace
    <3> QED BY <3>1, <3>2
  <2> HIDE DEF n
  <2> QED BY <1>1, <2>1, <2>2
<1> DEFINE p == LobbyListAck(ids)
<1>4. p.kind \in Unplaced /\ p \in Downs(server.next)
  BY <1>3 DEF LobbyListAck, Downs, Unplaced
<1>5. server' = server /\ down' = Append(down, p)
  BY <1>2 DEF ServeList
<1> HIDE DEF p
<1> QED BY <1>1, <1>4, <1>5, ToldServed

\* createLobby: a lobby more, or none, and nothing else.
LEMMA CreatedLobby ==
  ASSUME LobbyOK(server)
  PROVE  /\ LobbyOK(CreatedRoom) /\ CreatedRoom.set = server.set
         /\ CreatedRoom.next = server.next /\ CreatedRoom.home = server.home
         /\ CreatedRoom.rooms \in Nat /\ server.rooms <= CreatedRoom.rooms
         /\ server.rooms < LastId => CreatedRoom.rooms = server.rooms + 1
<1>1. /\ DOMAIN server = Fields /\ server.rooms \in Nat \ {0} /\ LastId \in Nat
  BY RoomsAssumption DEF LobbyOK
<1>2. CASE server.rooms > LastId
  <2>1. CreatedRoom = server
    BY <1>2 DEF CreatedRoom
  <2> QED BY <1>1, <1>2, <2>1
<1>3. CASE ~(server.rooms > LastId)
  <2> DEFINE t == [server EXCEPT !.rooms = @ + 1]
  <2>1. CreatedRoom = t
    BY <1>3 DEF CreatedRoom
  <2>2. /\ DOMAIN t = Fields /\ t.set = server.set /\ t.next = server.next
        /\ t.home = server.home /\ t.players = server.players /\ t.state = server.state
        /\ t.rooms = server.rooms + 1
    BY <1>1 DEF Fields
  <2> HIDE DEF t
  <2>3. /\ t.rooms \in Nat \ {0} /\ server.rooms <= t.rooms
        /\ 0..(server.rooms - 1) \subseteq 0..(t.rooms - 1)
    BY <1>1, <2>2
  <2>4. LobbyOK(t)
    BY <2>2, <2>3 DEF LobbyOK
  <2> QED BY <2>1, <2>2, <2>3, <2>4
<1> QED BY <1>2, <1>3

\* Me is let into a lobby that is as the server's, but for the lobbies that there are.
LEMMA EnteredServed ==
  ASSUME NEW shown, NEW missed, Together(server, down, shown, missed), server.home = NoRoom,
         NEW s, LobbyOK(s), s.set = server.set, s.next = server.next, s.home = server.home,
         NEW room \in Nat, room < s.rooms, EnteredRoom(s, room)
  PROVE  Caught(shown, missed)
<1>1. /\ DOMAIN shown = {} /\ down \in Seq(Downs(server.next)) /\ server.next = 1
      /\ \A i \in DOMAIN down : down[i].kind \in Unplaced
  BY FirstJoinable DEF Together, SentOK
<1>2. 1 \in Nat /\ 1 <= 1 /\ down \in Seq(Downs(1))
  BY <1>1
<1>3. LobbyOK(server') /\ server'.home = room /\ SentOK(server', down', shown, missed)
  BY <1>1, <1>2, EnteredSends
<1>4. room # NoRoom /\ server'.next \in Nat /\ server.next <= server'.next
  BY <1>1, <1>3 DEF NoRoom, LobbyOK
<1> QED BY <1>1, <1>3, <1>4 DEF Caught, Together

\* A player joins, or may not.
LEMMA JoinServed ==
  ASSUME NEW shown, NEW missed, Together(server, down, shown, missed),
         NEW room \in Nat, ServeJoin(room)
  PROVE  Caught(shown, missed)
<1>1. LobbyOK(server) /\ server.rooms \in Nat \ {0}
  BY DEF Together, LobbyOK
<1>2. CASE server.home # NoRoom
  <2>1. LobbyStep(server, << >>)
    BY <1>2 DEF ServeJoin
  <2> QED BY <2>1, NothingServed
<1>3. CASE server.home = NoRoom /\ room = CreateRoom
  <2>1. /\ LobbyOK(CreatedRoom) /\ CreatedRoom.set = server.set
        /\ CreatedRoom.next = server.next /\ CreatedRoom.home = server.home
        /\ server.rooms < LastId => CreatedRoom.rooms = server.rooms + 1
    BY <1>1, CreatedLobby
  <2>2. JoinNewRoom
    BY <1>3 DEF ServeJoin
  <2>3. CASE server.rooms < LastId
    <3>1. EnteredRoom(CreatedRoom, server.rooms)
      BY <2>2, <2>3 DEF JoinNewRoom
    <3>2. server.rooms \in Nat /\ CreatedRoom.rooms = server.rooms + 1
      BY <1>1, <2>1, <2>3
    <3>3. server.rooms < CreatedRoom.rooms
      BY <3>2
    <3> QED BY <1>3, <2>1, <3>1, <3>2, <3>3, EnteredServed
  <2>4. CASE ~(server.rooms < LastId)
    <3> DEFINE p == JoinAck(0, GameMenu)
    <3>1. server' = CreatedRoom /\ down' = Append(down, p)
      BY <2>2, <2>4 DEF JoinNewRoom
    <3>2. p \in Downs(server.next)
      <4>1. server.next \in Nat /\ server.next = 1
        BY <1>1, <1>3, FirstJoinable
      <4> QED BY <4>1 DEF JoinAck, Downs
    <3>3. p.kind \in Unplaced
      BY DEF JoinAck, Unplaced
    <3> HIDE DEF p
    <3> QED BY <2>1, <3>1, <3>2, <3>3, ToldServed
  <2> QED BY <2>3, <2>4
<1>4. CASE server.home = NoRoom /\ room # CreateRoom
  <2>1. JoinRoom(room)
    BY <1>4 DEF ServeJoin
  <2>2. CASE room < server.rooms
    <3>1. EnteredRoom(server, room)
      BY <2>1, <2>2 DEF JoinRoom
    <3> QED BY <1>1, <1>4, <2>2, <3>1, EnteredServed
  <2>3. CASE ~(room < server.rooms)
    <3>1. LobbyStep(server, << >>)
      BY <2>1, <2>3 DEF JoinRoom
    <3> QED BY <3>1, NothingServed
  <2> QED BY <2>2, <2>3
<1> QED BY <1>2, <1>3, <1>4

\* START: the lobby is restarted.
LEMMA StartServed ==
  ASSUME NEW shown, NEW missed, Together(server, down, shown, missed), ServeStart
  PROVE  Caught(shown, missed)
<1>1. CASE server.home = NoRoom
  BY <1>1, NothingServed DEF ServeStart
<1>2. CASE server.home # NoRoom
  <2>1. LobbyOK(server) /\ GameRunning \in GameStates
    BY DEF Together, GameStates
  <2>2. /\ CarriedInPlace(server.set, Restarted(server, GameRunning).set)
        /\ Stayed(server, Restarted(server, GameRunning))
    BY <1>2, <2>1, RestartedLobby
  <2>3. Restarting(server, GameRunning) \in Seq(Quiet(server.next))
    BY <2>1, RestartQuiet
  <2>4. LobbyStep(Restarted(server, GameRunning), Restarting(server, GameRunning))
    BY <1>2 DEF ServeStart
  <2> QED BY <1>2, <2>2, <2>3, <2>4, QuietServed
<1> QED BY <1>1, <1>2

\* A USER_INPUT of Me.
LEMMA InputServed ==
  ASSUME NEW shown, NEW missed, Together(server, down, shown, missed), NEW mask, ServeInput(mask)
  PROVE  Caught(shown, missed)
<1>1. CASE server.home = NoRoom
  BY <1>1, NothingServed DEF ServeInput
<1>2. CASE server.home # NoRoom /\ "space" \notin mask
  <2>1. Me \in DOMAIN server.players
    BY <1>2 DEF Together, LobbyOK
  <2>2. LobbyStep([server EXCEPT !.set = PushedBy(Me, mask)], << >>)
    BY <1>2 DEF ServeInput
  <2> QED BY <1>2, <2>1, <2>2, PushServed
<1>3. CASE server.home # NoRoom /\ "space" \in mask
  BY <1>3, ShotServed
<1> QED BY <1>1, <1>2, <1>3

\* A USER_INPUT of the other player.
LEMMA OtherServed ==
  ASSUME NEW shown, NEW missed, Together(server, down, shown, missed), NEW mask, OtherMoves(mask)
  PROVE  Caught(shown, missed)
<1>1. server.home # NoRoom /\ Other \in DOMAIN server.players
  BY DEF OtherMoves, Together, LobbyOK, NoRoom
<1>2. LobbyStep([server EXCEPT !.set = PushedBy(Other, mask)], << >>)
  BY DEF OtherMoves
<1> QED BY <1>1, <1>2, PushServed

\* A tick of the lobby.
LEMMA TickServed ==
  ASSUME NEW shown, NEW missed, Together(server, down, shown, missed), Tick
  PROVE  Caught(shown, missed)
<1>1. LobbyOK(server) /\ server.home # NoRoom /\ server.next \in Nat /\ GameOver \in GameStates
  BY DEF Together, LobbyOK, Tick, GameStates
<1>2. ASSUME NEW lobby, LobbyOK(lobby), Stayed(server, lobby),
             CarriedInPlace(server.set, lobby.set),
             NEW sent \in Seq(Quiet(lobby.next)), Played(lobby, sent)
      PROVE  Caught(shown, missed)
  <2>1. DOMAIN shown \subseteq 0..(server.next - 1) /\ SentOK(server, down, shown, missed)
    BY DEF Together
  <2>2. /\ LobbyOK(server') /\ SentOK(server', down', shown, missed)
        /\ server'.home = server.home /\ server'.next \in Nat /\ server.next <= server'.next
    BY <1>1, <1>2, <2>1, PlayedSends
  <2>3. DOMAIN shown \subseteq 0..(server'.next - 1)
    BY <1>1, <2>1, <2>2
  <2> QED BY <1>1, <2>2, <2>3 DEF Caught, Together
<1>3. CASE Over
  <2> DEFINE lobby == Restarted(server, GameOver)
             sent == Restarting(server, GameOver)
  <2>1. LobbyOK(lobby) /\ CarriedInPlace(server.set, lobby.set) /\ Stayed(server, lobby)
    BY <1>1, RestartedLobby
  <2>2. sent \in Seq(Quiet(server.next))
    BY <1>1, RestartQuiet
  <2>3. Played(lobby, sent)
    BY <1>3 DEF Tick
  <2> HIDE DEF lobby, sent
  <2>4. sent \in Seq(Quiet(lobby.next))
    BY <2>1, <2>2 DEF Stayed
  <2> QED BY <1>2, <2>1, <2>3, <2>4
<1>4. CASE ~Over
  <2>1. Played(server, << >>)
    BY <1>4 DEF Tick
  <2>2. Stayed(server, server) /\ BodySet(server.set)
    BY <1>1 DEF Stayed, LobbyOK
  <2>3. CarriedInPlace(server.set, server.set)
    BY <2>2 DEF CarriedInPlace, Carried, Unmoved
  <2>4. << >> \in Seq(Quiet(server.next))
    OBVIOUS
  <2> QED BY <1>1, <1>2, <2>1, <2>2, <2>3, <2>4
<1> QED BY <1>3, <1>4

------------------------------------------------------------------------------
(* What the client shows.                                                  *)

Drawing == [x : Int, y : Int, tx : Int, ty : Int]

\* Entities below the counter, each with where it is drawn and where it goes.
Drawings(next) == UNION {[D -> Drawing] : D \in SUBSET (0..(next - 1))}

\* A lobby with more entities may be drawn as before.
LEMMA DrawingsGrow ==
  ASSUME NEW m \in Nat, NEW n \in Nat, m <= n
  PROVE  Drawings(m) \subseteq Drawings(n)
<1>1. 0..(m - 1) \subseteq 0..(n - 1)
  OBVIOUS
<1> QED BY <1>1 DEF Drawings

\* What is drawn, entity by entity.
LEMMA DrawingsOf ==
  ASSUME NEW next, NEW shown
  PROVE  shown \in Drawings(next) <=>
           /\ shown = [id \in DOMAIN shown |-> shown[id]]
           /\ DOMAIN shown \subseteq 0..(next - 1)
           /\ \A id \in DOMAIN shown : shown[id] \in Drawing
<1>1. shown \in Drawings(next) <=>
        \E D \in SUBSET (0..(next - 1)) : shown \in [D -> Drawing]
  BY DEF Drawings
<1>2. shown \in Drawings(next) <=>
        DOMAIN shown \in SUBSET (0..(next - 1)) /\ shown \in [DOMAIN shown -> Drawing]
  <2> HIDE DEF Drawing
  <2> QED BY <1>1
<1> HIDE DEF Drawing
<1> QED BY <1>2

\* A frame goes a part of the way.
LEMMA ApproachedPlace ==
  ASSUME NEW a \in Int, NEW b \in Int
  PROVE  Approached(a, b) \in Int
<1>1. Smooth \in Nat \ {0} /\ Smooth - 1 \in Int
  BY SpeedsAssumption
<1>2. PICK v \in Int : v = (b - a) * (Smooth - 1)
  BY <1>1
<1>3. PICK w \in Int : w = (a - b) * (Smooth - 1)
  BY <1>1
<1>4. v \div Smooth \in Int /\ w \div Smooth \in Int
  BY <1>1
<1>5. CASE a <= b
  <2>1. Approached(a, b) = b - (((b - a) * (Smooth - 1)) \div Smooth)
    BY <1>5, Zenon DEF Approached
  <2>2. Approached(a, b) = b - (v \div Smooth)
    BY <1>2, <2>1, Zenon
  <2> QED BY <1>4, <2>2
<1>6. CASE ~(a <= b)
  <2>1. Approached(a, b) = b + (((a - b) * (Smooth - 1)) \div Smooth)
    BY <1>6, Zenon DEF Approached
  <2>2. Approached(a, b) = b + (w \div Smooth)
    BY <1>3, <2>1, Zenon
  <2> QED BY <1>4, <2>2
<1> QED BY <1>5, <1>6

\* Interpolation does not turn an entity elsewhere.
LEMMA InterpolatedTarget ==
  ASSUME NEW e \in Drawing
  PROVE  Interpolated(e) \in Drawing /\ Target(Interpolated(e)) = Target(e)
<1> DEFINE x == Approached(e.x, e.tx)
           y == Approached(e.y, e.ty)
<1>1. x \in Int /\ y \in Int
  BY ApproachedPlace DEF Drawing
<1>2. Interpolated(e) = [e EXCEPT !.x = x, !.y = y]
  BY Zenon DEF Interpolated
<1> HIDE DEF x, y
<1>3. Interpolated(e).tx = e.tx /\ Interpolated(e).ty = e.ty
  BY <1>2 DEF Drawing
<1>4. Interpolated(e) \in Drawing
  BY <1>1, <1>2 DEF Drawing
<1> QED BY <1>3, <1>4 DEF Target

\* handleSpawn: an entity that is not shown yet is put where the packet says.
LEMMA SpawnedShown ==
  ASSUME NEW next, NEW shown \in Drawings(next), NEW e \in Whereabouts(next)
  PROVE  /\ Spawned(shown, e) \in Drawings(next)
         /\ \A id \in DOMAIN Spawned(shown, e) :
              \/ id \in DOMAIN shown /\ Spawned(shown, e)[id] = shown[id]
              \/ id = e.id /\ Target(Spawned(shown, e)[id]) = [x |-> e.x, y |-> e.y]
<1>1. CASE e.id \in DOMAIN shown
  BY <1>1 DEF Spawned
<1>2. CASE e.id \notin DOMAIN shown
  <2> DEFINE d == [x |-> e.x, y |-> e.y, tx |-> e.x, ty |-> e.y]
             s == With(shown, e.id, d)
  <2>1. Spawned(shown, e) = s
    BY <1>2 DEF Spawned
  <2>2. e.x \in Int /\ e.y \in Int /\ e.id \in 0..(next - 1)
    BY DEF Whereabouts
  <2>3. d \in Drawing /\ Target(d) = [x |-> e.x, y |-> e.y]
    BY <2>2 DEF Drawing, Target
  <2> HIDE DEF d
  <2>4. /\ DOMAIN s = DOMAIN shown \cup {e.id} /\ s = [id \in DOMAIN s |-> s[id]]
        /\ \A id \in DOMAIN s : s[id] = IF id = e.id THEN d ELSE shown[id]
    BY DEF With
  <2> HIDE DEF s
  <2>5. /\ DOMAIN shown \subseteq 0..(next - 1)
        /\ \A id \in DOMAIN shown : shown[id] \in Drawing
    BY DrawingsOf
  <2>6. DOMAIN s \subseteq 0..(next - 1) /\ \A id \in DOMAIN s : s[id] \in Drawing
    BY <2>2, <2>3, <2>4, <2>5
  <2>7. s \in Drawings(next)
    BY <2>4, <2>6, DrawingsOf
  <2>8. \A id \in DOMAIN s :
          \/ id \in DOMAIN shown /\ s[id] = shown[id]
          \/ id = e.id /\ Target(s[id]) = [x |-> e.x, y |-> e.y]
    BY <2>3, <2>4
  <2> QED BY <2>1, <2>7, <2>8
<1> QED BY <1>1, <1>2

\* The entity is where it was shown, or where one of the entities in es is.
ShownOrTold(shown, es, t, id) ==
  \/ id \in DOMAIN shown /\ t[id] = shown[id]
  \/ \E k \in 1..Len(es) : es[k].id = id /\ Target(t[id]) = [x |-> es[k].x, y |-> es[k].y]

\* handleWorldInit.
LEMMA WorldShown ==
  ASSUME NEW next, NEW shown \in Drawings(next), NEW es \in Seq(Whereabouts(next))
  PROVE  LET t == InTurn(LAMBDA s, i : Spawned(s, es[i]), shown, Len(es))
         IN  /\ t \in Drawings(next)
             /\ \A id \in DOMAIN t : ShownOrTold(shown, es, t, id)
<1> DEFINE Good == {t \in Drawings(next) : \A id \in DOMAIN t : ShownOrTold(shown, es, t, id)}
           ran == InTurn(LAMBDA s, i : Spawned(s, es[i]), shown, Len(es))
<1>1. Len(es) \in Nat /\ \A k \in 1..Len(es) : es[k] \in Whereabouts(next)
  <2> DEFINE W == Whereabouts(next)
  <2>1. es \in Seq(W)
    OBVIOUS
  <2> HIDE DEF W
  <2>2. Len(es) \in Nat /\ \A k \in 1..Len(es) : es[k] \in W
    BY <2>1
  <2> QED BY <2>2 DEF W
<1>2. shown \in Good
  BY DEF ShownOrTold
<1>3. ASSUME NEW t \in Good, NEW i \in 1..Len(es) PROVE Spawned(t, es[i]) \in Good
  <2> DEFINE u == Spawned(t, es[i])
  <2>1. /\ u \in Drawings(next)
        /\ \A id \in DOMAIN u :
             \/ id \in DOMAIN t /\ u[id] = t[id]
             \/ id = es[i].id /\ Target(u[id]) = [x |-> es[i].x, y |-> es[i].y]
    BY <1>1, SpawnedShown
  <2> HIDE DEF u
  <2>2. ASSUME NEW id \in DOMAIN u PROVE ShownOrTold(shown, es, u, id)
    <3>1. CASE id \in DOMAIN t /\ u[id] = t[id]
      <4>1. ShownOrTold(shown, es, t, id)
        BY <3>1
      <4> QED BY <3>1, <4>1 DEF ShownOrTold
    <3>2. CASE id = es[i].id /\ Target(u[id]) = [x |-> es[i].x, y |-> es[i].y]
      BY <3>2 DEF ShownOrTold
    <3> QED BY <2>1, <3>1, <3>2
  <2> QED BY <2>1, <2>2 DEF u
<1>4. \A t \in Good : t \in Drawings(next) /\ \A id \in DOMAIN t : ShownOrTold(shown, es, t, id)
  OBVIOUS
<1> HIDE DEF Good
<1> DEFINE turns == Len(es)
           first == shown
           States == Good
           Step(x, i) == Spawned(x, es[i])
           sets == [i \in 0..turns |-> Good]
           step == [i \in 1..turns |-> [x \in sets[i - 1] |-> Step(x, i)]]
           Eq(f) == f = [i \in 0..turns |-> IF i = 0 THEN first
                                             ELSE Given(f[i - 1], LAMBDA x : Step(x, i))]
<1>60. turns \in Nat
  BY <1>1
<1>61. ASSUME NEW i \in 1..turns, NEW x \in sets[i - 1] PROVE Step(x, i) \in sets[i]
  <2>1. i - 1 \in 0..turns /\ i \in 0..turns
    BY <1>60
  <2>2. x \in Good
    BY <2>1
  <2> QED BY <1>3, <2>1, <2>2
<1>62. first \in sets[0] /\ sets \in [0..turns -> SUBSET States]
  BY <1>2
<1> HIDE DEF turns, first, States
<1>63. PICK f \in [0..turns -> States] : IsRun(f, turns, first, sets, step)
  <2>1. \A i \in 1..turns : \A x \in sets[i - 1] : step[i][x] \in sets[i]
    BY <1>61
  <2> HIDE DEF step, sets
  <2> QED BY <1>60, <1>62, <2>1, Turns
<1>64. \A i \in 1..turns : f[i] = Step(f[i - 1], i)
  <2> SUFFICES ASSUME NEW i \in 1..turns PROVE f[i] = Step(f[i - 1], i)
    OBVIOUS
  <2>1. i - 1 \in 0..turns
    BY <1>60
  <2>2. f[i] = step[i][f[i - 1]] /\ f[i - 1] \in sets[i - 1]
    BY <1>63, <2>1 DEF IsRun
  <2> HIDE DEF sets, Step
  <2> QED BY <2>2
<1>65. f[0] = first /\ f[turns] \in sets[turns]
  BY <1>60, <1>63 DEF IsRun
<1> HIDE DEF step, sets, Step
<1>66. Eq(f)
  <2>1. ASSUME NEW i \in 0..turns
        PROVE  f[i] = IF i = 0 THEN first ELSE Given(f[i - 1], LAMBDA x : Step(x, i))
    <3>1. CASE i = 0
      BY <1>65, <3>1
    <3>2. CASE i # 0
      <4>1. Given(f[i - 1], LAMBDA x : Step(x, i)) = Step(f[i - 1], i)
        BY DEF Given
      <4>2. i \in 1..turns
        BY <1>60, <3>2
      <4> QED BY <1>64, <3>2, <4>1, <4>2
    <3> QED BY <3>1, <3>2
  <2> QED BY <2>1
<1> DEFINE g == CHOOSE h : Eq(h)
<1>67. Eq(g)
  BY <1>66, Zenon
<1>68. ran = g[turns]
  BY DEF InTurn, turns, first, Step, ran
<1> HIDE DEF Eq, g
<1>69. g[0] = f[0] /\ \A i \in 1..turns : g[i - 1] = f[i - 1] => g[i] = f[i]
  <2>1. g = [i \in 0..turns |-> IF i = 0 THEN first
                                 ELSE CHOOSE r \in {Step(x, i) : x \in {g[i - 1]}} : TRUE]
    BY <1>67 DEF Eq, Given
  <2>2. g[0] = first
    BY <1>60, <2>1
  <2>3. \A i \in 1..turns : g[i] = Step(g[i - 1], i)
    <3> SUFFICES ASSUME NEW i \in 1..turns PROVE g[i] = Step(g[i - 1], i)
      OBVIOUS
    <3>1. g[i] = CHOOSE r \in {Step(x, i) : x \in {g[i - 1]}} : TRUE
      BY <1>60, <2>1
    <3> QED BY <3>1
  <2> QED BY <1>64, <1>65, <2>2, <2>3
<1>70. ran \in sets[turns]
  BY <1>60, <1>65, <1>68, <1>69, SameRun
<1> HIDE DEF ran
<1>71. ran \in Good
  BY <1>60, <1>70 DEF sets
<1> QED BY <1>4, <1>71 DEF ran

\* handleUpdatePosition.
LEMMA RepositionedShown ==
  ASSUME NEW next, NEW shown \in Drawings(next), NEW e \in Whereabouts(next)
  PROVE  LET t == Repositioned(shown, e)
         IN  /\ t \in Drawings(next) /\ DOMAIN t = DOMAIN shown
             /\ \A id \in DOMAIN shown : id # e.id => t[id] = shown[id]
             /\ e.id \in DOMAIN shown /\ ~Jumps(shown, e) =>
                  Target(t[e.id]) = [x |-> e.x, y |-> e.y]
<1> DEFINE t == Repositioned(shown, e)
           id == e.id
<1>1. /\ shown = [i \in DOMAIN shown |-> shown[i]]
      /\ DOMAIN shown \subseteq 0..(next - 1) /\ \A i \in DOMAIN shown : shown[i] \in Drawing
  BY DrawingsOf
<1>2. e.x \in Int /\ e.y \in Int
  BY DEF Whereabouts
<1>3. ASSUME NEW d \in Drawing, id \in DOMAIN shown, t = [shown EXCEPT ![id] = d],
             ~Jumps(shown, e) => Target(d) = [x |-> e.x, y |-> e.y]
      PROVE  /\ t \in Drawings(next) /\ DOMAIN t = DOMAIN shown
             /\ \A i \in DOMAIN shown : i # id => t[i] = shown[i]
             /\ ~Jumps(shown, e) => Target(t[id]) = [x |-> e.x, y |-> e.y]
  <2> HIDE DEF t
  <2>1. /\ DOMAIN t = DOMAIN shown /\ t = [i \in DOMAIN t |-> t[i]]
        /\ t[id] = d /\ \A i \in DOMAIN shown : i # id => t[i] = shown[i]
    BY <1>3
  <2>2. \A i \in DOMAIN t : t[i] \in Drawing
    BY <1>1, <2>1
  <2> QED BY <1>1, <1>3, <2>1, <2>2, DrawingsOf
<1>4. CASE id \notin DOMAIN shown
  BY <1>4 DEF Repositioned
<1>5. CASE id \in DOMAIN shown /\ Jumps(shown, e)
  <2> DEFINE d == [shown[id] EXCEPT !.x = e.x, !.y = e.y]
  <2>1. t = [shown EXCEPT ![id].x = e.x, ![id].y = e.y]
    BY <1>5 DEF Repositioned
  <2>2. [shown EXCEPT ![id].x = e.x, ![id].y = e.y] = [shown EXCEPT ![id] = d]
    BY <1>1, <1>5
  <2>3. d \in Drawing
    BY <1>1, <1>2, <1>5 DEF Drawing
  <2> HIDE DEF d, t
  <2>4. t = [shown EXCEPT ![id] = d]
    BY <2>1, <2>2
  <2> QED BY <1>3, <1>5, <2>3, <2>4 DEF t
<1>6. CASE id \in DOMAIN shown /\ ~Jumps(shown, e)
  <2> DEFINE d == [shown[id] EXCEPT !.tx = e.x, !.ty = e.y]
  <2>1. t = [shown EXCEPT ![id].tx = e.x, ![id].ty = e.y]
    BY <1>6 DEF Repositioned
  <2>2. [shown EXCEPT ![id].tx = e.x, ![id].ty = e.y] = [shown EXCEPT ![id] = d]
    BY <1>1, <1>6
  <2>3. d \in Drawing
    BY <1>1, <1>2, <1>6 DEF Drawing
  <2>4. Target(d) = [x |-> e.x, y |-> e.y]
    BY <1>1, <1>6 DEF Target, Drawing
  <2> HIDE DEF d, t
  <2>5. t = [shown EXCEPT ![id] = d]
    BY <2>1, <2>2
  <2> QED BY <1>3, <1>6, <2>3, <2>4, <2>5 DEF t
<1> QED BY <1>4, <1>5, <1>6

------------------------------------------------------------------------------
(* The client.                                                             *)

ClientFields == {"menu", "game", "rooms", "buttons", "queue", "space", "shown", "fate"}

\* What the menus queue.
Asks == [kind : {"JOIN"}, room : Nat] \cup [kind : {"START", "LOBBY_LIST"}]

\* The state of the client but for what it shows.
Interface(c) ==
  /\ DOMAIN c = ClientFields
  /\ c.menu \in {MenuHome, MenuJoin, MenuLobby} /\ c.game \in GameStates \cup {GameMenu}
  /\ c.rooms \in Seq(Nat) /\ c.buttons \in Seq(Nat)
  /\ c.queue \in Seq(Asks) /\ Len(c.queue) <= 1
  /\ c.space \in BOOLEAN /\ c.fate \in {"running", "unknown entity"}

\* What a packet makes of the client, but for an entity that jumps.
LEMMA HandledPacket ==
  ASSUME NEW next \in Nat, NEW p \in Downs(next), Interface(client), client.shown \in Drawings(next)
  PROVE  LET c == Handled(client, p)
         IN  /\ Interface(c) /\ c.shown \in Drawings(next)
             /\ \A id : id \notin Jumped(p) => Follows(p, client.shown, c.shown, id)
<1> DEFINE c == Handled(client, p)
           shown == client.shown
<1>1. DOMAIN client = ClientFields
  BY DEF Interface
<1>2. ASSUME c.shown = shown, ~(p.kind = "UPDATE_POSITION")
      PROVE  \A id : Follows(p, shown, c.shown, id)
  BY <1>2 DEF Follows, Updates
<1>3. CASE p.kind = "LOBBY_LIST_ACK"
  <2>1. c = [client EXCEPT !.rooms = p.rooms] /\ p.rooms \in Seq(Nat)
    BY <1>3, DownKinds DEF Handled
  <2> HIDE DEF c
  <2>2. c.shown = shown
    BY <1>1, <2>1 DEF ClientFields
  <2>3. Interface(c)
    BY <1>1, <2>1 DEF Interface, ClientFields
  <2> QED BY <1>2, <1>3, <2>2, <2>3 DEF c
<1>4. CASE p.kind = "SPAWN"
  <2> DEFINE s == Spawned(shown, p.entity)
  <2>1. p.entity \in Whereabouts(next)
    BY <1>4, DownKinds
  <2>2. c = [client EXCEPT !.shown = s]
    BY <1>4 DEF Handled
  <2>3. /\ s \in Drawings(next)
        /\ \A id \in DOMAIN s :
             \/ id \in DOMAIN shown /\ s[id] = shown[id]
             \/ id = p.entity.id /\ Target(s[id]) = [x |-> p.entity.x, y |-> p.entity.y]
    BY <2>1, SpawnedShown
  <2> HIDE DEF s, c
  <2>4. c.shown = s
    BY <1>1, <2>2 DEF ClientFields
  <2>5. Interface(c)
    BY <1>1, <2>2 DEF Interface, ClientFields
  <2>6. \A id : Follows(p, shown, s, id)
    BY <1>4, <2>3 DEF Follows, Updates, Right, Unmoved
  <2> QED BY <2>3, <2>4, <2>5, <2>6 DEF c
<1>5. CASE p.kind = "WORLD_INIT"
  <2> DEFINE s == InTurn(LAMBDA r, i : Spawned(r, p.entities[i]), shown, Len(p.entities))
  <2>1. p.entities \in Seq(Whereabouts(next)) /\ p.state \in GameStates
    BY <1>5, DownKinds
  <2>2. c = [client EXCEPT !.game = p.state, !.shown = s]
    BY <1>5 DEF Handled
  <2>3. /\ s \in Drawings(next)
        /\ \A id \in DOMAIN s : ShownOrTold(shown, p.entities, s, id)
    BY <2>1, WorldShown
  <2> HIDE DEF s, c
  <2>4. c.shown = s
    BY <1>1, <2>2 DEF ClientFields
  <2>5. Interface(c)
    BY <1>1, <2>1, <2>2 DEF Interface, ClientFields
  <2>6. ASSUME NEW id \in DOMAIN s PROVE Follows(p, shown, s, id)
    <3>1. CASE id \in DOMAIN shown /\ s[id] = shown[id]
      BY <1>5, <3>1 DEF Follows, Updates
    <3>2. ASSUME NEW k \in 1..Len(p.entities), p.entities[k].id = id,
                 Target(s[id]) = [x |-> p.entities[k].x, y |-> p.entities[k].y]
          PROVE  Follows(p, shown, s, id)
      BY <1>5, <3>2 DEF Follows, Right, Unmoved
    <3> QED BY <2>3, <3>1, <3>2 DEF ShownOrTold
  <2>7. \A id : Follows(p, shown, s, id)
    BY <2>6 DEF Follows
  <2> QED BY <2>3, <2>4, <2>5, <2>7 DEF c
<1>6. CASE p.kind \in {"JOIN_ACK", "UPDATE_GAME_STATE"}
  <2>1. /\ \/ c = [client EXCEPT !.game = p.state, !.menu = MenuLobby]
           \/ c = [client EXCEPT !.game = p.state]
           \/ c = [client EXCEPT !.fate = "unknown entity"]
        /\ p.state \in GameStates \cup {GameMenu}
    BY <1>6, DownKinds DEF Handled
  <2> HIDE DEF c
  <2>2. c.shown = shown
    BY <1>1, <2>1 DEF ClientFields
  <2>3. Interface(c)
    BY <1>1, <2>1 DEF Interface, ClientFields
  <2> QED BY <1>2, <1>6, <2>2, <2>3 DEF c
<1>7. CASE p.kind = "UPDATE_POSITION"
  <2> DEFINE e == p.entity
             s == Repositioned(shown, e)
  <2>1. e \in Whereabouts(next)
    BY <1>7, DownKinds
  <2>2. c = [client EXCEPT !.shown = s]
    BY <1>7 DEF Handled
  <2>3. /\ s \in Drawings(next) /\ DOMAIN s = DOMAIN shown
        /\ \A id \in DOMAIN shown : id # e.id => s[id] = shown[id]
        /\ e.id \in DOMAIN shown /\ ~Jumps(shown, e) => Target(s[e.id]) = [x |-> e.x, y |-> e.y]
    BY <2>1, RepositionedShown
  <2>4. Jumped(p) = IF Jumps(shown, e) THEN {e.id} ELSE {}
    BY <1>7 DEF Jumped
  <2> HIDE DEF s, c
  <2>5. c.shown = s
    BY <1>1, <2>2 DEF ClientFields
  <2>6. Interface(c)
    BY <1>1, <2>2 DEF Interface, ClientFields
  <2>7. ASSUME NEW id, id \notin Jumped(p) PROVE Follows(p, shown, s, id)
    <3>1. CASE id # e.id
      BY <2>3, <3>1 DEF Follows, Updates
    <3>2. CASE id = e.id
      BY <1>7, <2>3, <2>4, <2>7, <3>2 DEF Follows, Right, Unmoved
    <3> QED BY <3>1, <3>2
  <2> QED BY <2>3, <2>5, <2>6, <2>7 DEF c
<1>8. CASE p.kind = "DESTROY"
  <2> DEFINE s == [id \in DOMAIN shown \ {p.id} |-> shown[id]]
  <2>1. c = [client EXCEPT !.shown = s]
    BY <1>8 DEF Handled
  <2>2. /\ DOMAIN s = DOMAIN shown \ {p.id} /\ s = [id \in DOMAIN s |-> s[id]]
        /\ \A id \in DOMAIN s : s[id] = shown[id]
    OBVIOUS
  <2> HIDE DEF s, c
  <2>3. s \in Drawings(next)
    BY <2>2, DrawingsOf
  <2>4. c.shown = s
    BY <1>1, <2>1 DEF ClientFields
  <2>5. Interface(c)
    BY <1>1, <2>1 DEF Interface, ClientFields
  <2>6. \A id : Follows(p, shown, s, id)
    BY <1>8, <2>2 DEF Follows, Updates
  <2> QED BY <2>3, <2>4, <2>5, <2>6 DEF c
<1> QED BY <1>3, <1>4, <1>5, <1>6, <1>7, <1>8, DownKinds

------------------------------------------------------------------------------
(* What the user sends.                                                    *)

\* The packets of the user.
Ups == Asks \cup [kind : {"USER_INPUT"}, mask : SUBSET UNION Chords]

Shoots(p) == p.kind = "USER_INPUT" /\ "space" \in p.mask

\* The packets that shoot.
ShotsOf(ps) == {i \in 1..Len(ps) : Shoots(ps[i])}

SeenFields == {"clicks", "inputs", "presses", "shots", "faults", "missed"}

\* What has been shot and what is on its way to be, has been pressed for.
Paid(s, ps) ==
  /\ DOMAIN s = SeenFields /\ s.presses \in Nat /\ s.shots \in Nat
  /\ s.shots + Cardinality(ShotsOf(ps)) <= s.presses

\* There are finitely many.
LEMMA ShotsCount ==
  ASSUME NEW ps, Len(ps) \in Nat
  PROVE  IsFiniteSet(ShotsOf(ps)) /\ Cardinality(ShotsOf(ps)) \in Nat
<1>1. IsFiniteSet(1..Len(ps))
  BY FS_Interval
<1>2. ShotsOf(ps) \subseteq 1..Len(ps)
  BY DEF ShotsOf
<1> QED BY <1>1, <1>2, FS_Subset, FS_CardinalityType

\* More packets of which at most one shoots.
LEMMA ShotsJoined ==
  ASSUME NEW S, NEW a \in Seq(S), NEW b \in Seq(S), NEW m, ShotsOf(b) \subseteq {m}
  PROVE  Cardinality(ShotsOf(a \o b)) <= Cardinality(ShotsOf(a)) + (IF ShotsOf(b) = {} THEN 0 ELSE 1)
<1> DEFINE all == a \o b
           more == IF ShotsOf(b) = {} THEN ShotsOf(a) ELSE ShotsOf(a) \cup {Len(a) + m}
<1>1. /\ Len(a) \in Nat /\ Len(all) \in Nat
      /\ \A i \in 1..Len(all) :
           \/ i \in 1..Len(a) /\ all[i] = a[i]
           \/ \E k \in 1..Len(b) : i = Len(a) + k /\ all[i] = b[k]
  BY Joint, LenProperties
<1>2. ShotsOf(all) \subseteq more
  <2> SUFFICES ASSUME NEW i \in 1..Len(all), Shoots(all[i]) PROVE i \in more
    BY DEF ShotsOf
  <2>1. CASE i \in 1..Len(a) /\ all[i] = a[i]
    BY <2>1 DEF ShotsOf
  <2>2. ASSUME NEW k \in 1..Len(b), i = Len(a) + k, all[i] = b[k] PROVE i \in more
    <3>1. k \in ShotsOf(b)
      BY <2>2 DEF ShotsOf
    <3>2. k = m
      BY <3>1
    <3> QED BY <2>2, <3>1, <3>2
  <2> QED BY <1>1, <2>1, <2>2
<1>3. IsFiniteSet(ShotsOf(a)) /\ Cardinality(ShotsOf(a)) \in Nat
  BY <1>1, ShotsCount
<1>4. Cardinality(ShotsOf(all)) \in Nat
  BY <1>1, ShotsCount
<1>5. /\ IsFiniteSet(more) /\ Cardinality(more) \in Nat
      /\ Cardinality(more) <= Cardinality(ShotsOf(a)) + (IF ShotsOf(b) = {} THEN 0 ELSE 1)
  <2>1. CASE ShotsOf(b) = {}
    BY <1>3, <2>1
  <2>2. CASE ShotsOf(b) # {}
    <3> DEFINE u == ShotsOf(a) \cup {Len(a) + m}
    <3>1. /\ IsFiniteSet(u)
          /\ Cardinality(u) = Cardinality(ShotsOf(a)) \/ Cardinality(u) = Cardinality(ShotsOf(a)) + 1
      BY <1>3, FS_AddElement
    <3>2. more = u
      BY <2>2
    <3> HIDE DEF more, u
    <3>3. Cardinality(more) = Cardinality(ShotsOf(a)) \/ Cardinality(more) = Cardinality(ShotsOf(a)) + 1
      BY <3>1, <3>2
    <3> QED BY <1>3, <2>2, <3>1, <3>2, <3>3
  <2> QED BY <2>1, <2>2
<1> HIDE DEF more, all
<1>6. Cardinality(ShotsOf(all)) <= Cardinality(more)
  BY <1>2, <1>5, FS_Subset
<1>7. Cardinality(ShotsOf(all)) <= Cardinality(ShotsOf(a)) + (IF ShotsOf(b) = {} THEN 0 ELSE 1)
  BY <1>3, <1>4, <1>5, <1>6
<1> QED BY <1>7 DEF all

\* One packet less.
LEMMA ShotsTail ==
  ASSUME NEW S, NEW ps \in Seq(S), ps # << >>
  PROVE  Cardinality(ShotsOf(Tail(ps))) + (IF Shoots(Head(ps)) THEN 1 ELSE 0)
           <= Cardinality(ShotsOf(ps))
<1> DEFINE rest == Tail(ps)
           A == ShotsOf(ps) \ {1}
           B == ShotsOf(rest)
           before == [i \in A |-> i - 1]
<1>1. /\ Len(ps) \in Nat \ {0} /\ Len(rest) = Len(ps) - 1 /\ Head(ps) = ps[1]
      /\ \A i \in 1..Len(rest) : i + 1 \in 1..Len(ps) /\ rest[i] = ps[i + 1]
  BY HeadTailProperties, LenProperties
<1> HIDE DEF rest
<1>2. /\ IsFiniteSet(ShotsOf(ps)) /\ Cardinality(ShotsOf(ps)) \in Nat
      /\ IsFiniteSet(B) /\ Cardinality(B) \in Nat
  <2>1. Len(ps) \in Nat /\ Len(rest) \in Nat
    BY <1>1
  <2> QED BY <2>1, ShotsCount
<1>3. /\ IsFiniteSet(A) /\ Cardinality(A) \in Nat
      /\ Cardinality(A) = IF 1 \in ShotsOf(ps) THEN Cardinality(ShotsOf(ps)) - 1
                          ELSE Cardinality(ShotsOf(ps))
  <2>1. /\ IsFiniteSet(A)
        /\ Cardinality(A) = IF 1 \in ShotsOf(ps) THEN Cardinality(ShotsOf(ps)) - 1
                            ELSE Cardinality(ShotsOf(ps))
    BY <1>2, FS_RemoveElement
  <2> QED BY <2>1, FS_CardinalityType
<1>4. \A i \in B : i + 1 \in A /\ before[i + 1] = i
  BY <1>1 DEF ShotsOf
<1>5. \A i \in A : i - 1 \in B
  <2> SUFFICES ASSUME NEW i \in A PROVE i - 1 \in B
    OBVIOUS
  <2>1. i \in 1..Len(ps) /\ i # 1 /\ Shoots(ps[i])
    BY DEF ShotsOf
  <2>2. i - 1 \in 1..Len(rest) /\ (i - 1) + 1 = i
    BY <1>1, <2>1
  <2> HIDE DEF A
  <2>3. rest[i - 1] = ps[i]
    BY <1>1, <2>2
  <2> QED BY <2>1, <2>2, <2>3 DEF ShotsOf
<1> HIDE DEF A, B
<1>6. before \in Surjection(A, B)
  BY <1>4, <1>5 DEF Surjection
<1>7. Cardinality(B) <= Cardinality(A)
  BY <1>3, <1>6, FS_Surjection
<1>8. Shoots(Head(ps)) => 1 \in ShotsOf(ps)
  BY <1>1 DEF ShotsOf
<1>9. Cardinality(B) + (IF Shoots(Head(ps)) THEN 1 ELSE 0) <= Cardinality(ShotsOf(ps))
  BY <1>2, <1>3, <1>7, <1>8
<1> QED BY <1>9 DEF B, rest

------------------------------------------------------------------------------
(* A frame of the client.                                                  *)

\* Two buttons of rooms have no point in common, and none with the one at Create.
LEMMA RoomsApart ==
  ASSUME NEW i \in Nat \ {0}, NEW spot, spot.x \in Int, spot.y \in Int,
         Pressed(spot, RoomButton(i))
  PROVE  /\ ~Pressed(spot, CreateButton)
         /\ \A j \in Nat \ {0} : Pressed(spot, RoomButton(j)) => i = j
<1> DEFINE col(n) == (n - 1) % 5
           row(n) == (n - 1) \div 5
<1>1. ASSUME NEW n \in Nat \ {0}
      PROVE  /\ col(n) \in 0..4 /\ row(n) \in Nat /\ n = 5 * row(n) + col(n) + 1
             /\ Pressed(spot, RoomButton(n)) =>
                  /\ spot.x >= 310 + 180 * col(n) /\ spot.x < 310 + 180 * col(n) + 140
                  /\ spot.y >= 340 + 156 * row(n) /\ spot.y < 340 + 156 * row(n) + 116
  BY DEF Pressed, RoomButton, Rectangle
<1>2. ~Pressed(spot, CreateButton)
  <2>1. Pressed(spot, CreateButton) => spot.x >= 1300
    BY DEF Pressed, CreateButton, Rectangle
  <2>2. col(i) \in 0..4 /\ spot.x < 310 + 180 * col(i) + 140
    BY <1>1
  <2> HIDE DEF col
  <2>3. spot.x < 1300
    BY <2>2
  <2> QED BY <2>1, <2>3
<1>3. ASSUME NEW j \in Nat \ {0}, Pressed(spot, RoomButton(j)) PROVE i = j
  <2> HIDE DEF col, row
  <2>1. /\ spot.x >= 310 + 180 * col(i) /\ spot.x < 310 + 180 * col(i) + 140
        /\ spot.x >= 310 + 180 * col(j) /\ spot.x < 310 + 180 * col(j) + 140
        /\ spot.y >= 340 + 156 * row(i) /\ spot.y < 340 + 156 * row(i) + 116
        /\ spot.y >= 340 + 156 * row(j) /\ spot.y < 340 + 156 * row(j) + 116
        /\ col(i) \in 0..4 /\ row(i) \in Nat /\ col(j) \in 0..4 /\ row(j) \in Nat
    BY <1>1, <1>3
  <2>2. col(i) = col(j)
    BY <2>1
  <2>3. row(i) = row(j)
    BY <2>1
  <2> QED BY <1>1, <2>2, <2>3
<1> QED BY <1>2, <1>3

\* A click asks for one thing at most.
LEMMA ClickedOnce ==
  ASSUME NEW c, c.menu \in {MenuHome, MenuJoin, MenuLobby}, c.buttons \in Seq(Nat),
         NEW spot, spot.x \in Int, spot.y \in Int
  PROVE  Clicked(c, spot) \in Seq(Asks) /\ Len(Clicked(c, spot)) <= 1
<1>1. << >> \in Seq(Asks) /\ Len(<< >>) = 0
  OBVIOUS
<1>2. CASE c.menu = MenuHome
  <2>1. LobbyList \in Asks
    BY DEF LobbyList, Asks
  <2>2. <<LobbyList>> \in Seq(Asks) /\ Len(<<LobbyList>>) = 1
    BY <2>1
  <2>3. Clicked(c, spot) = IF Pressed(spot, PlayButton) THEN <<LobbyList>> ELSE << >>
    BY <1>2 DEF Clicked, MenuHome, MenuLobby, MenuJoin
  <2> QED BY <1>1, <2>2, <2>3
<1>3. CASE c.menu = MenuLobby
  <2>1. Start \in Asks
    BY DEF Start, Asks
  <2>2. <<Start>> \in Seq(Asks) /\ Len(<<Start>>) = 1
    BY <2>1
  <2>3. Clicked(c, spot) = IF Pressed(spot, StartButton) THEN <<Start>> ELSE << >>
    BY <1>3 DEF Clicked, MenuHome, MenuLobby, MenuJoin
  <2> QED BY <1>1, <2>2, <2>3
<1>4. CASE c.menu = MenuJoin
  <2> DEFINE P == {i \in DOMAIN c.buttons : Pressed(spot, RoomButton(i))}
             hit == Kept(c.buttons, P)
             rooms == [k \in DOMAIN hit |-> Join(hit[k])]
             create == IF Pressed(spot, CreateButton) THEN <<Join(CreateRoom)>> ELSE << >>
             n == Len(c.buttons)
  <2>0. MenuJoin # MenuHome /\ MenuJoin # MenuLobby
    BY DEF MenuHome, MenuLobby, MenuJoin
  <2>1. Clicked(c, spot) = create \o rooms
    BY <1>4, <2>0, Zenon DEF Clicked
  <2>2. n \in Nat /\ DOMAIN c.buttons = 1..n
    BY LenProperties
  <2>3. hit \in Seq(Nat) /\ InOrder(hit, c.buttons, P \cap (1..n))
    <3> HIDE DEF P
    <3> QED BY KeptInOrder
  <2>4. \A i, j \in P \cap (1..n) : i = j /\ ~Pressed(spot, CreateButton)
    BY <2>2, RoomsApart
  <2> HIDE DEF hit, P
  <2>5. PICK at \in [1..Len(hit) -> P \cap (1..n)] :
          \A j, k \in 1..Len(hit) : j < k => at[j] < at[k]
    BY <2>3 DEF InOrder
  <2>6. Len(hit) \in Nat /\ DOMAIN hit = 1..Len(hit) /\ \A k \in 1..Len(hit) : hit[k] \in Nat
    BY <2>3
  <2>7. Len(hit) <= 1
    <3> SUFFICES ASSUME ~(Len(hit) <= 1) PROVE FALSE
      OBVIOUS
    <3>1. 1 \in 1..Len(hit) /\ 2 \in 1..Len(hit)
      BY <2>6
    <3>2. at[1] < at[2] /\ at[1] \in P \cap (1..n) /\ at[2] \in P \cap (1..n)
      BY <2>5, <3>1
    <3> QED BY <2>2, <2>4, <3>2
  <2>8. Pressed(spot, CreateButton) => Len(hit) = 0
    <3> SUFFICES ASSUME Len(hit) # 0 PROVE ~Pressed(spot, CreateButton)
      OBVIOUS
    <3>1. 1 \in 1..Len(hit)
      BY <2>6
    <3>2. at[1] \in P \cap (1..n)
      BY <2>5, <3>1
    <3> QED BY <2>4, <3>2
  <2>9. \A r \in Nat : Join(r) \in Asks
    BY DEF Join, Asks
  <2>10. CreateRoom \in Nat
    BY DEF CreateRoom
  <2>11. create \in Seq(Asks) /\ Len(create) = IF Pressed(spot, CreateButton) THEN 1 ELSE 0
    BY <2>9, <2>10
  <2>12. rooms \in Seq(Asks) /\ Len(rooms) = Len(hit)
    BY <2>6, <2>9
  <2> HIDE DEF create, rooms
  <2>13. create \o rooms \in Seq(Asks) /\ Len(create \o rooms) = Len(create) + Len(rooms)
    <3>1. create \in Seq(Asks) /\ rooms \in Seq(Asks)
      BY <2>11, <2>12
    <3> DEFINE A == Asks
    <3>2. create \in Seq(A) /\ rooms \in Seq(A)
      BY <3>1
    <3> HIDE DEF A
    <3>3. create \o rooms \in Seq(A) /\ Len(create \o rooms) = Len(create) + Len(rooms)
      BY <3>2, ConcatProperties
    <3> QED BY <3>3 DEF A
  <2> QED BY <2>1, <2>6, <2>7, <2>8, <2>11, <2>12, <2>13
<1> QED BY <1>2, <1>3, <1>4

\* MenuRenderer::apply, when nothing is queued.
LEMMA MenusInterface ==
  ASSUME NEW c, Interface(c), c.queue = << >>, NEW spot, spot.x \in Int, spot.y \in Int
  PROVE  LET t == Menus(c, spot)
         IN  Interface(t) /\ t.shown = c.shown /\ t.space = c.space
<1> DEFINE drawn == IF c.menu = MenuJoin THEN WithButtons(c) ELSE c
           clicked == Clicked(drawn, spot)
           menu == IF clicked = <<LobbyList>> THEN MenuJoin ELSE drawn.menu
           t == [drawn EXCEPT !.queue = @ \o clicked,
                              !.menu = IF clicked = <<LobbyList>> THEN MenuJoin ELSE @]
<1>1. Interface(drawn) /\ drawn.shown = c.shown /\ drawn.space = c.space /\ drawn.queue = << >>
  <2>1. CASE c.menu = MenuJoin
    <3>1. drawn = [c EXCEPT !.buttons = IF @ = << >> THEN c.rooms ELSE @]
      BY <2>1, Zenon DEF WithButtons
    <3> HIDE DEF drawn
    <3> QED BY <3>1 DEF Interface, ClientFields
  <2>2. CASE c.menu # MenuJoin
    BY <2>2
  <2> QED BY <2>1, <2>2
<1> HIDE DEF drawn
<1>2. clicked \in Seq(Asks) /\ Len(clicked) <= 1
  <2>1. drawn.menu \in {MenuHome, MenuJoin, MenuLobby} /\ drawn.buttons \in Seq(Nat)
    BY <1>1, Zenon DEF Interface
  <2> QED BY <2>1, ClickedOnce
<1> HIDE DEF clicked
<1>3. drawn.queue \o clicked = clicked
  BY <1>1, <1>2
<1>4. /\ DOMAIN t = ClientFields /\ t.queue = clicked /\ t.menu = menu /\ t.game = drawn.game
      /\ t.rooms = drawn.rooms /\ t.buttons = drawn.buttons /\ t.space = drawn.space
      /\ t.shown = drawn.shown /\ t.fate = drawn.fate
  BY <1>1, <1>3 DEF Interface, ClientFields
<1>5. menu \in {MenuHome, MenuJoin, MenuLobby}
  BY <1>1 DEF Interface
<1> HIDE DEF menu, t
<1>6. Interface(t)
  BY <1>1, <1>2, <1>4, <1>5 DEF Interface
<1>7. Menus(c, spot) = IF c.game = GameRunning THEN c ELSE t
  BY Zenon DEF Menus, t, clicked, drawn
<1> QED BY <1>1, <1>4, <1>6, <1>7

------------------------------------------------------------------------------
(* The inductive invariant.                                                *)

PInv ==
  /\ Together(server, down, client.shown, seen.missed)
  /\ Interface(client) /\ client.shown \in Drawings(server.next)
  /\ up \in Seq(Ups)
  /\ Paid(seen, up)

\* What is drawn of the same entities, on their way to the same places.
LEMMA DrawnAgain ==
  ASSUME NEW l, NEW ps, NEW shown, NEW missed, Together(l, ps, shown, missed),
         NEW more, DOMAIN more = DOMAIN shown,
         \A id \in DOMAIN shown : Target(more[id]) = Target(shown[id])
  PROVE  Together(l, ps, more, missed)
<1>1. ASSUME NEW id, NEW b, TrackedAt(ps, shown, id, b) PROVE TrackedAt(ps, more, id, b)
  BY <1>1 DEF TrackedAt
<1> QED BY <1>1 DEF Together, SentOK

\* The other player waits in the first lobby.
LEMMA InitPInv == Init => PInv
<1> SUFFICES ASSUME Init PROVE PInv
  OBVIOUS
<1>1. PICK rooms \in Rooms, at \in OtherPoints : server = Joined(NewLobby(rooms), Other, at)
  BY Zenon DEF Init, NewServer
<1>2. /\ Joinable(NewLobby(rooms)) /\ DOMAIN NewLobby(rooms).players = {}
      /\ NewLobby(rooms).next = 0 /\ NewLobby(rooms).rooms = rooms
      /\ NewLobby(rooms).home = NoRoom /\ rooms \in Nat \ {0}
  <2>1. rooms \in Nat \ {0}
    BY RoomsAssumption
  <2> QED BY <2>1, NewLobbyJoinable
<1>3. at \in [x : Int, y : Int]
  BY PointsAssumption
<1>4. /\ DOMAIN server = Fields /\ server.rooms = rooms /\ server.state = NewLobby(rooms).state
      /\ server.home = NoRoom /\ server.next = 0 + 1 /\ server.next \in 1..MaxEntities
      /\ BodySet(server.set) /\ DOMAIN server.set.sparse \subseteq 0..(server.next - 1)
      /\ \A i \in DOMAIN server.set.dense : server.set.dense[i].type = kPlayer
      /\ DOMAIN server.players = {} \cup {Other}
      /\ \A q \in DOMAIN server.players :
           /\ server.players[q] \in DOMAIN server.set.sparse
           /\ Get(server.set, server.players[q]).type = kPlayer
  <2> DEFINE l == NewLobby(rooms)
  <2>1. /\ Joinable(l) /\ DOMAIN l.players = {} /\ l.next = 0 /\ l.rooms = rooms
        /\ l.home = NoRoom /\ server = Joined(l, Other, at) /\ Other \in {Me, Other}
    BY <1>1, <1>2
  <2> HIDE DEF l
  <2>2. JoinedAs(l, Other, at, NoRoom, server)
    BY <2>1, Zenon DEF JoinedAs
  <2>3. /\ DOMAIN server = Fields /\ server.rooms = l.rooms /\ server.state = l.state
        /\ server.home = NoRoom /\ server.next = l.next + 1 /\ server.next \in 1..MaxEntities
        /\ BodySet(server.set) /\ DOMAIN server.set.sparse \subseteq 0..(server.next - 1)
        /\ \A i \in DOMAIN server.set.dense : server.set.dense[i].type = kPlayer
        /\ DOMAIN server.players = DOMAIN l.players \cup {Other}
        /\ \A q \in DOMAIN server.players :
             /\ server.players[q] \in DOMAIN server.set.sparse
             /\ Get(server.set, server.players[q]).type = kPlayer
    BY <1>3, <2>1, <2>2, JoinedLobby
  <2> QED BY <2>1, <2>3 DEF l
<1>5. LobbyOK(server)
  <2>1. server.state \in GameStates /\ server.rooms \in Nat \ {0}
    BY <1>2, <1>4 DEF Joinable
  <2>2. Me \notin DOMAIN server.players
    BY <1>4, PlayersAssumption
  <2> QED BY <1>4, <2>1, <2>2 DEF LobbyOK
<1>6. /\ up = << >> /\ down = << >> /\ client = NewClient
      /\ seen = [clicks |-> 0, inputs |-> 0, presses |-> 0, shots |-> 0, faults |-> 0,
                 missed |-> {}]
  BY DEF Init
<1>7. Interface(client) /\ client.shown = << >>
  BY <1>6 DEF NewClient, Interface, ClientFields, GameStates
<1>8. << >> \in Drawings(server.next) /\ DOMAIN << >> = {}
  <2>1. /\ << >> = [id \in DOMAIN << >> |-> << >>[id]]
        /\ DOMAIN << >> = {}
    OBVIOUS
  <2> QED BY <2>1, DrawingsOf
<1>9. Together(server, down, << >>, seen.missed)
  <2>1. down \in Seq(Downs(server.next)) /\ Len(down) = 0
    BY <1>6
  <2>2. \A id, b : TrackedAt(down, << >>, id, b)
    BY <1>8, <2>1 DEF TrackedAt
  <2>3. DOMAIN down = {}
    BY <1>6
  <2> QED BY <1>5, <1>8, <2>1, <2>2, <2>3 DEF Together, SentOK
<1>10. up \in Seq(Ups) /\ Paid(seen, up)
  <2>1. ShotsOf(up) = {}
    BY <1>6 DEF ShotsOf
  <2>2. Cardinality(ShotsOf(up)) = 0
    BY <2>1, FS_EmptySet
  <2>3. DOMAIN seen = SeenFields /\ seen.presses = 0 /\ seen.shots = 0
    BY <1>6 DEF SeenFields
  <2> QED BY <1>6, <2>2, <2>3 DEF Paid
<1> QED BY <1>7, <1>8, <1>9, <1>10 DEF PInv

\* A frame.
LEMMA FramePInv ==
  ASSUME PInv, NEW keys \in Chords \cup {{}}, NEW spot, spot.x \in Int, spot.y \in Int,
         Frame(keys, spot)
  PROVE  PInv'
<1> DEFINE shown == client.shown
           more == [id \in DOMAIN shown |-> Interpolated(shown[id])]
           moved == [client EXCEPT !.shown = [id \in DOMAIN @ |-> Interpolated(@[id])]]
           ready == [Flushed(moved) EXCEPT !.space = "space" \in keys]
           mask == Mask(client, keys)
           inputs == Inputs(client, keys)
           sent == client.queue \o inputs
<1>1. /\ UNCHANGED <<server, down>> /\ client' = Menus(ready, spot) /\ up' = up \o sent
      /\ seen' = [seen EXCEPT !.inputs = @ + (IF keys # {} THEN 1 ELSE 0),
                              !.clicks = @ + (IF spot # NoSpot THEN 1 ELSE 0),
                              !.presses = @ + (IF "space" \in keys /\ ~client.space THEN 1 ELSE 0)]
  BY Zenon DEF Frame
<1>2. Interface(client) /\ shown \in Drawings(server.next) /\ DOMAIN client = ClientFields
  BY DEF PInv, Interface
<1>3. /\ DOMAIN more = DOMAIN shown /\ more \in Drawings(server.next)
      /\ \A id \in DOMAIN shown : Target(more[id]) = Target(shown[id])
  <2>1. DOMAIN more = DOMAIN shown /\ \A id \in DOMAIN shown : more[id] = Interpolated(shown[id])
    OBVIOUS
  <2>2. DOMAIN shown \subseteq 0..(server.next - 1) /\ \A id \in DOMAIN shown : shown[id] \in Drawing
    BY <1>2, DrawingsOf
  <2>3. \A id \in DOMAIN shown : more[id] \in Drawing /\ Target(more[id]) = Target(shown[id])
    BY <2>1, <2>2, InterpolatedTarget
  <2>4. more = [id \in DOMAIN more |-> more[id]]
    OBVIOUS
  <2> HIDE DEF more
  <2> QED BY <2>1, <2>2, <2>3, <2>4, DrawingsOf
<1>4. /\ Interface(ready) /\ ready.shown = more /\ ready.queue = << >>
  <2>1. moved = [client EXCEPT !.shown = more]
    OBVIOUS
  <2> HIDE DEF more, moved
  <2>2. ready = [[moved EXCEPT !.queue = << >>] EXCEPT !.space = "space" \in keys]
    BY DEF Flushed
  <2>3. ("space" \in keys) \in BOOLEAN /\ << >> \in Seq(Asks) /\ Len(<< >>) = 0
    OBVIOUS
  <2> HIDE DEF ready
  <2>4. /\ DOMAIN moved = ClientFields /\ moved.shown = more /\ moved.menu = client.menu
        /\ moved.game = client.game /\ moved.rooms = client.rooms
        /\ moved.buttons = client.buttons /\ moved.fate = client.fate
    BY <1>2, <2>1 DEF ClientFields
  <2>5. /\ DOMAIN ready = ClientFields /\ ready.shown = more /\ ready.menu = client.menu
        /\ ready.game = client.game /\ ready.rooms = client.rooms
        /\ ready.buttons = client.buttons /\ ready.queue = << >>
        /\ ready.space = ("space" \in keys) /\ ready.fate = client.fate
    <3>1. DOMAIN ready = ClientFields /\ ready.shown = more /\ ready.queue = << >>
      BY <2>2, <2>4 DEF ClientFields
    <3>2. /\ ready.menu = client.menu /\ ready.game = client.game
          /\ ready.rooms = client.rooms
      BY <2>2, <2>4 DEF ClientFields
    <3>3. /\ ready.buttons = client.buttons /\ ready.fate = client.fate
          /\ ready.space = ("space" \in keys)
      BY <2>2, <2>4 DEF ClientFields
    <3> QED BY <3>1, <3>2, <3>3
  <2>6. /\ DOMAIN ready = ClientFields
        /\ ready.menu \in {MenuHome, MenuJoin, MenuLobby} /\ ready.game \in GameStates \cup {GameMenu}
        /\ ready.rooms \in Seq(Nat) /\ ready.buttons \in Seq(Nat)
        /\ ready.fate \in {"running", "unknown entity"}
    BY <1>2, <2>5, Zenon DEF Interface
  <2>7. ready.queue \in Seq(Asks) /\ Len(ready.queue) <= 1 /\ ready.space \in BOOLEAN
    <3>1. Len(ready.queue) = 0 /\ ready.queue \in Seq(Asks)
      BY <2>3, <2>5
    <3>2. ready.space \in BOOLEAN
      BY <2>3, <2>5, Zenon
    <3> QED BY <3>1, <3>2
  <2>8. Interface(ready)
    BY <2>6, <2>7, Zenon DEF Interface
  <2> QED BY <2>5, <2>8
<1> HIDE DEF ready, more
<1>5. Interface(client') /\ client'.shown = more
  BY <1>1, <1>4, MenusInterface
<1>6. /\ mask \in SUBSET UNION Chords
      /\ "space" \in mask => "space" \in keys /\ ~client.space
  <2>1. keys \subseteq UNION Chords
    OBVIOUS
  <2> QED BY <2>1 DEF Mask
<1>7. inputs = IF mask = {} THEN << >> ELSE <<UserInput(mask)>>
  BY DEF Inputs
<1> HIDE DEF mask, inputs, sent
<1>8. inputs \in Seq(Ups) /\ Len(inputs) <= 1 /\ Len(inputs) \in Nat
      /\ \A i \in 1..Len(inputs) : inputs[i] = UserInput(mask)
  <2>1. UserInput(mask) \in Ups
    <3> DEFINE Masks == SUBSET UNION Chords
    <3>1. mask \in Masks
      BY <1>6
    <3> HIDE DEF Masks
    <3>2. UserInput(mask) \in [kind : {"USER_INPUT"}, mask : Masks]
      BY <3>1 DEF UserInput
    <3> QED BY <3>2 DEF Ups, Masks
  <2>2. CASE mask = {}
    BY <1>7, <2>2
  <2>3. CASE mask # {}
    BY <1>7, <2>1, <2>3
  <2> QED BY <2>2, <2>3
<1>9. client.queue \in Seq(Ups) /\ client.queue \in Seq(Asks)
  <2>1. client.queue \in Seq(Asks) /\ Asks \subseteq Ups
    BY <1>2 DEF Interface, Ups
  <2> QED BY <2>1
<1>10. sent \in Seq(Ups) /\ up \in Seq(Ups) /\ up' \in Seq(Ups)
  <2> DEFINE U == Ups
  <2>1. client.queue \in Seq(U) /\ inputs \in Seq(U) /\ up \in Seq(U)
    BY <1>8, <1>9 DEF PInv
  <2> HIDE DEF U
  <2>2. sent \in Seq(U)
    BY <2>1, ConcatProperties DEF sent
  <2>3. up \o sent \in Seq(U)
    BY <2>1, <2>2, ConcatProperties
  <2> QED BY <1>1, <2>1, <2>2, <2>3 DEF U
<1>11. ShotsOf(sent) \subseteq {Len(client.queue) + 1} /\ ("space" \notin mask => ShotsOf(sent) = {})
  <2> SUFFICES ASSUME NEW i \in 1..Len(sent), Shoots(sent[i])
               PROVE  i = Len(client.queue) + 1 /\ "space" \in mask
    BY DEF ShotsOf
  <2>1. \/ i \in 1..Len(client.queue) /\ sent[i] = client.queue[i]
        \/ \E k \in 1..Len(inputs) : i = Len(client.queue) + k /\ sent[i] = inputs[k]
    <3> DEFINE U == Ups
    <3>1. client.queue \in Seq(U) /\ inputs \in Seq(U)
      BY <1>8, <1>9
    <3> HIDE DEF U
    <3> DEFINE q == client.queue
    <3>2. q \in Seq(U) /\ sent = q \o inputs
      BY <3>1 DEF sent
    <3> HIDE DEF q
    <3>3. \A j \in 1..Len(q \o inputs) :
            \/ j \in 1..Len(q) /\ (q \o inputs)[j] = q[j]
            \/ \E k \in 1..Len(inputs) : j = Len(q) + k /\ (q \o inputs)[j] = inputs[k]
      BY <3>1, <3>2, Joint
    <3>4. \A j \in 1..Len(sent) :
            \/ j \in 1..Len(q) /\ sent[j] = q[j]
            \/ \E k \in 1..Len(inputs) : j = Len(q) + k /\ sent[j] = inputs[k]
      BY <3>2, <3>3
    <3> QED BY <3>4 DEF q
  <2>2. ASSUME i \in 1..Len(client.queue), sent[i] = client.queue[i] PROVE FALSE
    <3>1. sent[i] \in Asks
      BY <1>9, <2>2
    <3>2. sent[i].kind # "USER_INPUT"
      BY <3>1 DEF Asks
    <3> QED BY <3>2 DEF Shoots
  <2>3. ASSUME NEW k \in 1..Len(inputs), i = Len(client.queue) + k, sent[i] = inputs[k]
        PROVE  i = Len(client.queue) + 1 /\ "space" \in mask
    <3>1. k = 1 /\ inputs[k] = UserInput(mask)
      BY <1>8
    <3> QED BY <2>3, <3>1 DEF Shoots, UserInput
  <2> QED BY <2>1, <2>2, <2>3
<1>12. Cardinality(ShotsOf(up')) <= Cardinality(ShotsOf(up)) + (IF ShotsOf(sent) = {} THEN 0 ELSE 1)
  BY <1>1, <1>10, <1>11, ShotsJoined
<1>13. Paid(seen', up')
  <2>1. DOMAIN seen = SeenFields /\ seen.presses \in Nat /\ seen.shots \in Nat
        /\ seen.shots + Cardinality(ShotsOf(up)) <= seen.presses
    BY DEF PInv, Paid
  <2>2. /\ DOMAIN seen' = SeenFields /\ seen'.shots = seen.shots
        /\ seen'.presses = seen.presses + (IF "space" \in keys /\ ~client.space THEN 1 ELSE 0)
    BY <1>1, <2>1 DEF SeenFields
  <2>3. Cardinality(ShotsOf(up)) \in Nat /\ Cardinality(ShotsOf(up')) \in Nat
    <3>1. Len(up) \in Nat /\ Len(up') \in Nat
      BY <1>10, LenProperties
    <3> QED BY <3>1, ShotsCount
  <2>4. CASE ShotsOf(sent) = {}
    <3>1. seen'.shots + Cardinality(ShotsOf(up')) <= seen'.presses /\ seen'.presses \in Nat
      BY <1>12, <2>1, <2>2, <2>3, <2>4
    <3> QED BY <2>1, <2>2, <3>1 DEF Paid
  <2>5. CASE ShotsOf(sent) # {}
    <3>0. "space" \in mask
      BY <1>11, <2>5, Zenon
    <3>1. seen'.presses = seen.presses + 1
      BY <1>6, <2>2, <3>0
    <3>2. seen'.shots + Cardinality(ShotsOf(up')) <= seen'.presses /\ seen'.presses \in Nat
      BY <1>12, <2>1, <2>2, <2>3, <2>5, <3>1
    <3> QED BY <2>1, <2>2, <3>2 DEF Paid
  <2> QED BY <2>4, <2>5
<1>14. seen'.missed = seen.missed
  BY <1>1 DEF PInv, Paid, SeenFields
<1>15. Together(server, down, more, seen.missed)
  BY <1>3, DrawnAgain DEF PInv
<1> QED BY <1>1, <1>3, <1>5, <1>10, <1>13, <1>14, <1>15 DEF PInv

\* A packet arrives at the client.
LEMMA DeliverPInv ==
  ASSUME PInv, Deliver
  PROVE  PInv'
<1> DEFINE p == Head(down)
           N == server.next
           missed == seen.missed \cup Jumped(p)
<1>1. /\ UNCHANGED <<server, up>> /\ down # << >> /\ client' = Handled(client, p)
      /\ down' = Tail(down) /\ seen' = [seen EXCEPT !.missed = missed]
  BY Zenon DEF Deliver
<1>2. /\ Interface(client) /\ client.shown \in Drawings(N) /\ N \in Nat
      /\ down \in Seq(Downs(N)) /\ Together(server, down, client.shown, seen.missed)
      /\ up \in Seq(Ups) /\ Paid(seen, up)
  BY DEF PInv, Together, SentOK, LobbyOK
<1>3. /\ p \in Downs(N) /\ Tail(down) \in Seq(Downs(N))
      /\ \A i \in DOMAIN Tail(down) : i + 1 \in DOMAIN down /\ Tail(down)[i] = down[i + 1]
      /\ 1 \in DOMAIN down /\ p = down[1]
  <2> DEFINE D == Downs(N)
  <2>1. down \in Seq(D) /\ down # << >>
    BY <1>1, <1>2
  <2> HIDE DEF D
  <2>2. /\ Len(down) \in Nat \ {0} /\ DOMAIN down = 1..Len(down)
        /\ Head(down) = down[1] /\ down[1] \in D
        /\ Tail(down) \in Seq(D) /\ Len(Tail(down)) = Len(down) - 1
        /\ \A i \in 1..Len(Tail(down)) : Tail(down)[i] = down[i + 1]
    BY <2>1, HeadTailProperties, LenProperties, ElementOfSeq
  <2>3. DOMAIN Tail(down) = 1..Len(Tail(down))
    BY <2>2
  <2> QED BY <2>2, <2>3 DEF D
<1>4. /\ Interface(client') /\ client'.shown \in Drawings(N)
      /\ \A id : id \notin Jumped(p) => Follows(p, client.shown, client'.shown, id)
  BY <1>1, <1>2, <1>3, HandledPacket
<1> HIDE DEF N
<1>5. /\ seen'.missed = missed /\ Paid(seen', up)
  BY <1>1, <1>2 DEF Paid, SeenFields
<1>6. SentOK(server, Tail(down), client'.shown, missed)
  <2> SUFFICES ASSUME NEW id \in DOMAIN server.set.sparse \ missed
               PROVE  TrackedAt(Tail(down), client'.shown, id, Get(server.set, id))
    BY <1>3 DEF SentOK, N
  <2>1. TrackedAt(down, client.shown, id, Get(server.set, id))
    BY <1>2 DEF Together, SentOK
  <2>2. Follows(p, client.shown, client'.shown, id)
    BY <1>4
  <2> QED BY <1>1, <1>2, <2>1, <2>2, TrackedTail
<1>7. ASSUME server.home = NoRoom
      PROVE  DOMAIN client'.shown = {} /\ \A i \in DOMAIN Tail(down) : Tail(down)[i].kind \in Unplaced
  <2>1. DOMAIN client.shown = {} /\ \A i \in DOMAIN down : down[i].kind \in Unplaced
    BY <1>2, <1>7 DEF Together
  <2>2. p.kind \in Unplaced
    BY <1>3, <2>1
  <2>3. \/ client' = [client EXCEPT !.rooms = p.rooms]
        \/ client' = [client EXCEPT !.game = p.state, !.menu = MenuLobby]
        \/ client' = [client EXCEPT !.fate = "unknown entity"]
    BY <1>1, <2>2 DEF Handled, Unplaced
  <2>4. client'.shown = client.shown
    BY <1>2, <2>3 DEF Interface, ClientFields
  <2> QED BY <1>3, <2>1, <2>4
<1>8. DOMAIN client'.shown \subseteq 0..(server.next - 1) /\ LobbyOK(server)
  BY <1>2, <1>4, DrawingsOf DEF Together, N
<1> QED BY <1>1, <1>2, <1>4, <1>5, <1>6, <1>7, <1>8 DEF PInv, Together, N

\* A packet of the user is served.
LEMMA ServePInv ==
  ASSUME PInv, Serve
  PROVE  PInv'
<1> DEFINE p == Head(up)
           shown == client.shown
           missed == seen.missed
<1>1. /\ up # << >> /\ up' = Tail(up) /\ client' = client
      /\ \/ p.kind = "JOIN" /\ ServeJoin(p.room)
         \/ p.kind = "START" /\ ServeStart
         \/ p.kind = "USER_INPUT" /\ ServeInput(p.mask)
         \/ p.kind = "LOBBY_LIST" /\ ServeList
      /\ seen' = [seen EXCEPT !.shots = @ + (IF server'.next > server.next
                                                /\ p.kind = "USER_INPUT" THEN 1 ELSE 0)]
  BY Zenon DEF Serve
<1>2. /\ Together(server, down, shown, missed) /\ Interface(client)
      /\ shown \in Drawings(server.next) /\ up \in Seq(Ups) /\ Paid(seen, up)
      /\ DOMAIN seen = SeenFields
  BY DEF PInv, Paid
<1>3. p \in Ups /\ Tail(up) \in Seq(Ups) /\ Len(up) \in Nat /\ Len(Tail(up)) \in Nat
  <2> DEFINE U == Ups
  <2>1. up \in Seq(U) /\ up # << >>
    BY <1>1, <1>2
  <2> HIDE DEF U
  <2>2. Head(up) \in U /\ Tail(up) \in Seq(U) /\ Len(up) \in Nat /\ Len(Tail(up)) \in Nat
    BY <2>1, HeadTailProperties, LenProperties, ElementOfSeq
  <2> QED BY <2>2 DEF U
<1>4. p.kind = "JOIN" => p.room \in Nat
  BY <1>3 DEF Ups, Asks
<1>5. Caught(shown, missed)
  BY <1>1, <1>2, <1>4, JoinServed, StartServed, InputServed, ListServed
<1>6. ASSUME server'.next > server.next, p.kind = "USER_INPUT" PROVE Shoots(p)
  <2>1. ServeInput(p.mask)
    BY <1>1, <1>6
  <2> SUFFICES ASSUME "space" \notin p.mask PROVE FALSE
    BY <1>6 DEF Shoots
  <2>2. server' = server \/ server' = [server EXCEPT !.set = PushedBy(Me, p.mask)]
    BY <2>1 DEF ServeInput, LobbyStep
  <2>3. DOMAIN server = Fields /\ server.next \in Nat
    BY <1>2 DEF Together, LobbyOK
  <2>4. server'.next = server.next
    BY <2>2, <2>3 DEF Fields
  <2> QED BY <1>6, <2>3, <2>4
<1>7. Paid(seen', up') /\ seen'.missed = missed
  <2>1. /\ DOMAIN seen' = SeenFields /\ seen'.presses = seen.presses /\ seen'.missed = missed
        /\ seen'.shots = seen.shots + (IF server'.next > server.next
                                          /\ p.kind = "USER_INPUT" THEN 1 ELSE 0)
    BY <1>1, <1>2 DEF SeenFields
  <2>2. Cardinality(ShotsOf(up)) \in Nat /\ Cardinality(ShotsOf(Tail(up))) \in Nat
    BY <1>3, ShotsCount
  <2>3. Cardinality(ShotsOf(Tail(up))) + (IF Shoots(p) THEN 1 ELSE 0) <= Cardinality(ShotsOf(up))
    BY <1>1, <1>2, ShotsTail
  <2>4. seen.shots \in Nat /\ seen.presses \in Nat
        /\ seen.shots + Cardinality(ShotsOf(up)) <= seen.presses
    BY <1>2 DEF Paid
  <2> HIDE DEF p
  <2>5. seen'.shots + Cardinality(ShotsOf(Tail(up))) <= seen.presses /\ seen'.shots \in Nat
    BY <1>6, <2>1, <2>2, <2>3, <2>4
  <2> QED BY <1>1, <2>1, <2>4, <2>5 DEF Paid
<1>8. shown \in Drawings(server'.next) /\ Together(server', down', shown, missed)
  BY <1>2, <1>5, DrawingsGrow DEF Caught
<1> QED BY <1>1, <1>2, <1>3, <1>7, <1>8 DEF PInv

\* The other player moves, and the lobby ticks.
LEMMA LobbyPInv ==
  ASSUME PInv, (\E mask : OtherMoves(mask)) \/ Tick
  PROVE  PInv'
<1>1. /\ Together(server, down, client.shown, seen.missed) /\ Interface(client)
      /\ client.shown \in Drawings(server.next) /\ up \in Seq(Ups) /\ Paid(seen, up)
      /\ DOMAIN seen = SeenFields
  BY DEF PInv, Paid
<1>2. Caught(client.shown, seen.missed)
  BY <1>1, OtherServed, TickServed
<1>3. UNCHANGED <<up, client>>
  BY DEF OtherMoves, Tick
<1>4. \/ seen' = [seen EXCEPT !.inputs = @ + 1]
      \/ seen' = seen
  BY DEF OtherMoves, Tick
<1>5. seen'.missed = seen.missed /\ Paid(seen', up)
  BY <1>1, <1>4 DEF Paid, SeenFields
<1>6. client.shown \in Drawings(server'.next) /\ Together(server', down', client.shown, seen.missed)
  BY <1>1, <1>2, DrawingsGrow DEF Caught
<1> QED BY <1>1, <1>3, <1>5, <1>6 DEF PInv

\* A packet is lost.
LEMMA LosePInv ==
  ASSUME PInv, NEW n \in DOMAIN down, Lose(n)
  PROVE  PInv'
<1> DEFINE rest == RemoveAt(down, n)
           missed == seen.missed \cup Missed(down[n])
<1>1. /\ down' = rest /\ UNCHANGED <<server, up, client>>
      /\ seen' = [seen EXCEPT !.faults = @ + 1, !.missed = missed]
  BY Zenon DEF Lose
<1>2. /\ Interface(client) /\ client.shown \in Drawings(server.next)
      /\ down \in Seq(Downs(server.next)) /\ Together(server, down, client.shown, seen.missed)
      /\ up \in Seq(Ups) /\ Paid(seen, up) /\ DOMAIN seen = SeenFields
  BY DEF PInv, Together, SentOK, Paid
<1>3. /\ n \in 1..Len(down) /\ rest \in Seq(Downs(server.next))
      /\ \A i \in DOMAIN rest : \E j \in DOMAIN down : rest[i] = down[j]
  <2> DEFINE D == Downs(server.next)
             u == SubSeq(down, 1, n - 1)
             v == SubSeq(down, n + 1, Len(down))
  <2>1. down \in Seq(D)
    BY <1>2
  <2> HIDE DEF D
  <2>2. Len(down) \in Nat /\ DOMAIN down = 1..Len(down) /\ n \in 1..Len(down)
    BY <2>1
  <2>3. /\ u \in Seq(D) /\ Len(u) = n - 1 /\ \A i \in 1..(n - 1) : u[i] = down[i]
    BY <2>1, <2>2
  <2>4. /\ v \in Seq(D) /\ Len(v) = Len(down) - n /\ \A i \in 1..(Len(down) - n) : v[i] = down[n + i]
    BY <2>1, <2>2
  <2>5. rest = u \o v
    BY DEF RemoveAt
  <2> HIDE DEF u, v, rest
  <2>6. /\ rest \in Seq(D)
        /\ \A i \in 1..Len(rest) :
             \/ i \in 1..Len(u) /\ rest[i] = u[i]
             \/ \E k \in 1..Len(v) : i = Len(u) + k /\ rest[i] = v[k]
    <3>1. u \in Seq(D) /\ v \in Seq(D)
      BY <2>3, <2>4
    <3>2. u \o v \in Seq(D)
      BY <3>1, ConcatProperties
    <3>3. \A i \in 1..Len(u \o v) :
            \/ i \in 1..Len(u) /\ (u \o v)[i] = u[i]
            \/ \E k \in 1..Len(v) : i = Len(u) + k /\ (u \o v)[i] = v[k]
      BY <3>1, Joint
    <3> QED BY <2>5, <3>2, <3>3
  <2>7. \A i \in 1..Len(rest) : \E j \in DOMAIN down : rest[i] = down[j]
    <3> SUFFICES ASSUME NEW i \in 1..Len(rest) PROVE \E j \in DOMAIN down : rest[i] = down[j]
      OBVIOUS
    <3>1. CASE i \in 1..Len(u) /\ rest[i] = u[i]
      <4>1. i \in DOMAIN down /\ u[i] = down[i]
        BY <2>2, <2>3, <3>1
      <4> QED BY <3>1, <4>1
    <3>2. ASSUME NEW k \in 1..Len(v), rest[i] = v[k] PROVE \E j \in DOMAIN down : rest[i] = down[j]
      <4>1. n + k \in DOMAIN down /\ v[k] = down[n + k]
        BY <2>2, <2>4
      <4> QED BY <3>2, <4>1
    <3> QED BY <2>6, <3>1, <3>2
  <2> QED BY <2>2, <2>6, <2>7 DEF D
<1>4. seen'.missed = missed /\ Paid(seen', up)
  BY <1>1, <1>2 DEF Paid, SeenFields
<1>5. SentOK(server, rest, client.shown, missed)
  <2> SUFFICES ASSUME NEW id \in DOMAIN server.set.sparse \ missed
               PROVE  TrackedAt(rest, client.shown, id, Get(server.set, id))
    BY <1>3 DEF SentOK
  <2>1. TrackedAt(down, client.shown, id, Get(server.set, id))
    BY <1>2 DEF Together, SentOK
  <2>2. ~Updates(down[n], id)
    BY DEF Missed, Updates
  <2> QED BY <1>2, <1>3, <2>1, <2>2, TrackedWithout
<1> HIDE DEF rest
<1>6. server.home = NoRoom =>
        DOMAIN client.shown = {} /\ \A i \in DOMAIN rest : rest[i].kind \in Unplaced
  BY <1>2, <1>3 DEF Together
<1>7. Together(server, rest, client.shown, missed)
  BY <1>2, <1>5, <1>6 DEF Together
<1> QED BY <1>1, <1>2, <1>4, <1>7 DEF PInv

\* Every step.
LEMMA NextPInv == PInv /\ [Next]_vars => PInv'
<1> SUFFICES ASSUME PInv, [Next]_vars PROVE PInv'
  OBVIOUS
<1>1. CASE User
  <2>1. ASSUME NEW keys \in Chords \cup {{}}, Frame(keys, NoSpot) PROVE PInv'
    <3>1. NoSpot.x \in Int /\ NoSpot.y \in Int
      BY DEF NoSpot
    <3> QED BY <2>1, <3>1, FramePInv
  <2>2. ASSUME NEW spot \in Spots, Frame({}, spot) PROVE PInv'
    <3>1. spot.x \in Int /\ spot.y \in Int
      BY PointsAssumption
    <3>2. {} \in Chords \cup {{}}
      OBVIOUS
    <3> QED BY <2>2, <3>1, <3>2, FramePInv
  <2> QED BY <1>1, <2>1, <2>2 DEF User
<1>2. CASE Deliver
  BY <1>2, DeliverPInv
<1>3. CASE Serve
  BY <1>3, ServePInv
<1>4. CASE (\E keys \in Chords : "space" \notin keys /\ OtherMoves(keys)) \/ Tick
  BY <1>4, LobbyPInv
<1>5. CASE \E i \in DOMAIN down : Lose(i)
  BY <1>5, LosePInv
<1>6. CASE UNCHANGED vars
  <2>1. server' = server /\ up' = up /\ down' = down /\ client' = client /\ seen' = seen
    BY <1>6 DEF vars
  <2> QED BY <2>1 DEF PInv
<1> QED BY <1>1, <1>2, <1>3, <1>4, <1>5, <1>6 DEF Next

\* The invariant of a match is one.
LEMMA AlwaysPInv == Spec => []PInv
BY InitPInv, NextPInv, PTL DEF Spec

(***************************************************************************)
(* Every session is in a lobby that there is or in none, ids are below the *)
(* lobby's counter, also those that the client shows, and the menu queues  *)
(* one packet at a time, wherever the user clicks: the rectangles of the   *)
(* buttons have no point in common (Lobby, MenuRenderer, LobbyButton).     *)
(***************************************************************************)
THEOREM TypeOKAlways == Spec => []TypeOK
<1>1. PInv /\ Counted => TypeOK
  <2> SUFFICES ASSUME PInv, Counted PROVE TypeOK
    OBVIOUS
  <2>1. LobbyOK(server) /\ Interface(client) /\ DOMAIN client.shown \subseteq 0..(server.next - 1)
    BY DEF PInv, Together
  <2>2. server.next \in 0..MaxEntities
    BY <2>1, PlayersAssumption DEF LobbyOK
  <2> QED BY <2>1, <2>2 DEF TypeOK, LobbyOK, Interface, GameStates, Shown, Counted
<1> QED BY <1>1, AlwaysPInv, AlwaysCounted, PTL

(***************************************************************************)
(* However many keys are pressed and held, and whatever is lost, there are *)
(* no more bullets of Me than times that space was pressed: what has been  *)
(* shot and the shots that are still on their way have been pressed for    *)
(* (IO::apply, handleUserInput, spawnBullet).                              *)
(***************************************************************************)
THEOREM ShotsArePressesAlways == Spec => []ShotsArePresses
<1>1. PInv => ShotsArePresses
  <2> SUFFICES ASSUME PInv PROVE ShotsArePresses
    OBVIOUS
  <2>1. /\ seen.shots \in Nat /\ seen.presses \in Nat
        /\ seen.shots + Cardinality(ShotsOf(up)) <= seen.presses
    BY DEF PInv, Paid
  <2>2. Len(up) \in Nat
    BY LenProperties DEF PInv
  <2>3. Cardinality(ShotsOf(up)) \in Nat
    BY <2>2, ShotsCount
  <2> QED BY <2>1, <2>3 DEF ShotsArePresses
<1> QED BY <1>1, AlwaysPInv, PTL

(***************************************************************************)
(* In lobbies of any number of entities, with any boxes, speeds and        *)
(* points: what the client knows of an entity, and every packet that tells *)
(* of it, is where the entity is or is followed by an update.  So once no  *)
(* update is on its way, the client draws it towards its place, unless an  *)
(* update of it was lost or late, or made it jump (MovementSystem,         *)
(* BroadcastUpdatedMovements, handleUpdatePosition).                       *)
(***************************************************************************)
THEOREM TargetIsPositionAlways == Spec => []TargetIsPosition
<1>1. PInv => TargetIsPosition
  <2> SUFFICES ASSUME PInv, NEW id \in (Shown \cap DOMAIN server.set.sparse) \ seen.missed,
                      ~Updating(id)
               PROVE  /\ client.shown[id].tx = Get(server.set, id).x
                      /\ client.shown[id].ty = Get(server.set, id).y
    BY DEF TargetIsPosition
  <2>1. /\ TrackedAt(down, client.shown, id, Get(server.set, id))
        /\ down \in Seq(Downs(server.next))
    BY DEF PInv, Together, SentOK
  <2>2. DOMAIN down = 1..Len(down)
    <3> DEFINE D == Downs(server.next)
    <3>1. down \in Seq(D)
      BY <2>1
    <3> HIDE DEF D
    <3> QED BY <3>1
  <2>3. ~\E j \in 1..Len(down) : Updates(down[j], id)
    BY <2>2 DEF Updating, Updates
  <2>4. Unmoved(Get(server.set, id), Target(client.shown[id]))
    BY <2>1, <2>3 DEF TrackedAt, Shown
  <2> QED BY <2>4 DEF Unmoved, Target
<1> QED BY <1>1, AlwaysPInv, PTL

------------------------------------------------------------------------------
(* Two players.                                                            *)

\* The bodies in slots p and q, of players, do not overlap.
Clear(t, p, q) ==
  ~Collide(t.dense[p].x, t.dense[p].y, kPlayer, t.dense[q])

\* There are no players but those in slots p and q.
TwoSlots(set, p, q) ==
  /\ p \in DOMAIN set.dense /\ q \in DOMAIN set.dense /\ p # q
  /\ \A k \in DOMAIN set.dense : set.dense[k].type = kPlayer <=> k \in {p, q}

\* Whether two players overlap can be asked of either.
LEMMA ClearOfEachOther ==
  ASSUME NEW t, NEW p, NEW q, t.dense[p] \in Bodies, t.dense[q] \in Bodies,
         t.dense[p].type = kPlayer, t.dense[q].type = kPlayer
  PROVE  Clear(t, p, q) <=> Clear(t, q, p)
<1>1. /\ t.dense[p].x \in Int /\ t.dense[p].y \in Int
      /\ t.dense[q].x \in Int /\ t.dense[q].y \in Int
      /\ Box[kPlayer].width \in Int /\ Box[kPlayer].height \in Int
  BY BodyFields
<1> QED BY <1>1 DEF Clear, Collide

\* The two players keep their slots.
LEMMA PlayerSlots ==
  ASSUME NEW set, BodySet(set), NEW t \in Touched(set), NEW i, NEW o, TwoSlots(set, i, o)
  PROVE  /\ i \in DOMAIN t.dense /\ o \in DOMAIN t.dense /\ i # o
         /\ t.dense[i] \in Bodies /\ t.dense[o] \in Bodies
         /\ t.dense[i].type = kPlayer /\ t.dense[o].type = kPlayer
         /\ \A k \in DOMAIN t.dense : t.dense[k].type = kPlayer => k \in {i, o}
         /\ DOMAIN t.dense \subseteq Nat \ {0} /\ 0 \notin DOMAIN t.dense
         /\ DOMAIN t.dense = DOMAIN set.dense
<1>1. /\ DOMAIN t.dense = DOMAIN set.dense /\ t.dense \in Seq(Bodies)
      /\ \A k \in DOMAIN set.dense : t.dense[k].type = set.dense[k].type
  BY TouchedSet
<1>2. DOMAIN set.dense = 1..Len(set.dense) /\ Len(set.dense) \in Nat
  BY BodySetShape
<1>3. \A k \in DOMAIN t.dense : t.dense[k] \in Bodies
  <2> DEFINE B == Bodies
  <2> HIDE DEF B
  <2>1. t.dense \in Seq(B)
    BY <1>1 DEF B
  <2>2. \A k \in DOMAIN t.dense : t.dense[k] \in B
    BY <2>1
  <2> QED BY <2>2 DEF B
<1>4. /\ i \in DOMAIN set.dense /\ o \in DOMAIN set.dense /\ i # o
      /\ \A k \in DOMAIN set.dense : set.dense[k].type = kPlayer <=> k \in {i, o}
  BY DEF TwoSlots
<1>5. t.dense[i].type = kPlayer /\ t.dense[o].type = kPlayer
  BY <1>1, <1>4
<1>6. \A k \in DOMAIN t.dense : t.dense[k].type = kPlayer => k \in {i, o}
  BY <1>1, <1>4
<1> QED BY <1>1, <1>2, <1>3, <1>4, <1>5, <1>6

\* findCollider: the other player, or none that the body would overlap.
LEMMA ColliderOfTwo ==
  ASSUME NEW set, BodySet(set), NEW t \in Touched(set), NEW i, NEW o, TwoSlots(set, i, o),
         NEW x, NEW y
  PROVE  LET j == Collider(t, i, x, y, kPlayer)
         IN  /\ j \in {0, o}
             /\ j = 0 => ~Collide(x, y, kPlayer, t.dense[o])
             /\ j = o => Collide(x, y, kPlayer, t.dense[o])
<1> DEFINE met == {j \in DOMAIN t.dense \ {i} :
                     /\ t.dense[j].type = kPlayer
                     /\ Collide(x, y, t.dense[i].type, t.dense[j])}
<1>1. Collider(t, i, x, y, kPlayer) = IF met = {} THEN 0 ELSE Min(met)
  BY DEF Collider
<1>2. /\ t.dense[i].type = kPlayer /\ t.dense[o].type = kPlayer /\ o \in DOMAIN t.dense /\ i # o
      /\ \A k \in DOMAIN t.dense : t.dense[k].type = kPlayer => k \in {i, o}
      /\ DOMAIN t.dense \subseteq Nat \ {0}
  BY PlayerSlots
<1>3. ASSUME NEW j \in met PROVE j = o /\ Collide(x, y, kPlayer, t.dense[o])
  BY <1>2
<1>4. Collide(x, y, kPlayer, t.dense[o]) => o \in met
  BY <1>2
<1> HIDE DEF met
<1>5. met # {} => Min(met) \in met
  <2>1. met \in SUBSET Nat
    BY <1>2, <1>3
  <2> QED BY <2>1, MinPlace
<1> QED BY <1>1, <1>2, <1>3, <1>4, <1>5

\* What a player meets beside it, and above or below it.
LEMMA BesideOfTwo ==
  ASSUME NEW set, BodySet(set), NEW t \in Touched(set), NEW i, NEW o, TwoSlots(set, i, o)
  PROVE  /\ Beside(t, i) \in {0, o}
         /\ Beside(t, i) = 0 => ~Collide(t.dense[i].x + t.dense[i].vx, t.dense[i].y, kPlayer, t.dense[o])
         /\ Beside(t, i) = o => Collide(t.dense[i].x + t.dense[i].vx, t.dense[i].y, kPlayer, t.dense[o])
BY ColliderOfTwo DEF Beside

\* The same of its step up or down.
LEMMA AboveOfTwo ==
  ASSUME NEW set, BodySet(set), NEW t \in Touched(set), NEW i, NEW o, TwoSlots(set, i, o)
  PROVE  /\ Above(t, i) \in {0, o}
         /\ Above(t, i) = 0 => ~Collide(t.dense[i].x, t.dense[i].y + t.dense[i].vy, kPlayer, t.dense[o])
         /\ Above(t, i) = o => Collide(t.dense[i].x, t.dense[i].y + t.dense[i].vy, kPlayer, t.dense[o])
BY ColliderOfTwo DEF Above

\* A player steps to the side, up to the other one.
LEMMA HorizontalApart ==
  ASSUME NEW set, BodySet(set), NEW t \in Touched(set), NEW i, NEW o, TwoSlots(set, i, o),
         Clear(t, i, o)
  PROVE  LET u == Horizontally(t, i, Beside(t, i))
         IN  u.dense[o] = t.dense[o] /\ Clear(u, i, o)
<1> DEFINE j == Beside(t, i)
           b == t.dense[i]
           x == CASE j = 0 -> b.x + b.vx
                  [] j # 0 /\ b.vx > 0 -> t.dense[j].x - Box[b.type].width
                  [] j # 0 /\ b.vx < 0 -> t.dense[j].x + Box[t.dense[j].type].width
                  [] j # 0 /\ b.vx = 0 -> b.x
           c == [b EXCEPT !.x = x, !.vx = 0]
           u == Horizontally(t, i, j)
<1>1. /\ i \in DOMAIN t.dense /\ o \in DOMAIN t.dense /\ i # o
      /\ b \in Bodies /\ t.dense[o] \in Bodies /\ b.type = kPlayer /\ t.dense[o].type = kPlayer
  BY PlayerSlots
<1>2. /\ j \in {0, o}
      /\ j = 0 => ~Collide(b.x + b.vx, b.y, kPlayer, t.dense[o])
      /\ j = o => Collide(b.x + b.vx, b.y, kPlayer, t.dense[o])
  BY BesideOfTwo
<1>3. u = [t EXCEPT !.dense[i] = c]
  BY Zenon DEF Horizontally
<1>4. /\ b.x \in Int /\ b.vx \in Int /\ b.y \in Int /\ Box[kPlayer].width \in Int
      /\ t.dense[o].x \in Int /\ 0 \notin DOMAIN t.dense
  BY <1>1, BodyFields, PlayerSlots
<1> HIDE DEF j
<1>5. ~Collide(x, b.y, kPlayer, t.dense[o])
  <2>1. CASE j = 0
    <3>1. x = b.x + b.vx
      BY <2>1
    <3> QED BY <1>2, <2>1, <3>1
  <2>2. CASE j = o
    <3>0. o # 0
      BY <1>1, <1>4
    <3>1. /\ b.vx > 0 => x = t.dense[o].x - Box[kPlayer].width
          /\ b.vx < 0 => x = t.dense[o].x + Box[kPlayer].width
          /\ b.vx = 0 => x = b.x
      BY <1>1, <1>4, <2>2, <3>0
    <3> HIDE DEF x
    <3>2. CASE b.vx > 0
      BY <1>1, <1>4, <3>1, <3>2 DEF Collide
    <3>3. CASE b.vx < 0
      BY <1>1, <1>4, <3>1, <3>3 DEF Collide
    <3>4. CASE b.vx = 0
      BY <3>1, <3>4 DEF Clear
    <3> QED BY <1>4, <3>2, <3>3, <3>4
  <2> QED BY <1>2, <2>1, <2>2
<1> HIDE DEF x
<1>6. /\ u.dense[i] = c /\ u.dense[o] = t.dense[o]
  <2> HIDE DEF u, c
  <2> QED BY <1>1, <1>3
<1>7. c.x = x /\ c.y = b.y
  <2> HIDE DEF b
  <2> QED BY <1>1 DEF Bodies
<1> HIDE DEF c, u, b
<1> QED BY <1>5, <1>6, <1>7 DEF Clear, u, j

\* A player steps up or down, up to the other one.
LEMMA VerticalApart ==
  ASSUME NEW set, BodySet(set), NEW t \in Touched(set), NEW i, NEW o, TwoSlots(set, i, o),
         Clear(t, i, o)
  PROVE  LET u == Vertically(t, i, Above(t, i))
         IN  u.dense[o] = t.dense[o] /\ Clear(u, i, o)
<1> DEFINE j == Above(t, i)
           b == t.dense[i]
           y == CASE j = 0 -> b.y + b.vy
                  [] j # 0 /\ b.vy > 0 -> t.dense[j].y - Box[b.type].height
                  [] j # 0 /\ b.vy < 0 -> t.dense[j].y + Box[t.dense[j].type].height
                  [] j # 0 /\ b.vy = 0 -> b.y
           c == [b EXCEPT !.y = y, !.vy = 0]
           u == Vertically(t, i, j)
<1>1. /\ i \in DOMAIN t.dense /\ o \in DOMAIN t.dense /\ i # o
      /\ b \in Bodies /\ t.dense[o] \in Bodies /\ b.type = kPlayer /\ t.dense[o].type = kPlayer
  BY PlayerSlots
<1>2. /\ j \in {0, o}
      /\ j = 0 => ~Collide(b.x, b.y + b.vy, kPlayer, t.dense[o])
      /\ j = o => Collide(b.x, b.y + b.vy, kPlayer, t.dense[o])
  BY AboveOfTwo
<1>3. u = [t EXCEPT !.dense[i] = c]
  BY Zenon DEF Vertically
<1>4. /\ b.y \in Int /\ b.vy \in Int /\ b.x \in Int /\ Box[kPlayer].height \in Int
      /\ t.dense[o].y \in Int /\ 0 \notin DOMAIN t.dense
  BY <1>1, BodyFields, PlayerSlots
<1> HIDE DEF j
<1>5. ~Collide(b.x, y, kPlayer, t.dense[o])
  <2>1. CASE j = 0
    <3>1. y = b.y + b.vy
      BY <2>1
    <3> QED BY <1>2, <2>1, <3>1
  <2>2. CASE j = o
    <3>0. o # 0
      BY <1>1, <1>4
    <3>1. /\ b.vy > 0 => y = t.dense[o].y - Box[kPlayer].height
          /\ b.vy < 0 => y = t.dense[o].y + Box[kPlayer].height
          /\ b.vy = 0 => y = b.y
      BY <1>1, <1>4, <2>2, <3>0
    <3> HIDE DEF y
    <3>2. CASE b.vy > 0
      BY <1>1, <1>4, <3>1, <3>2 DEF Collide
    <3>3. CASE b.vy < 0
      BY <1>1, <1>4, <3>1, <3>3 DEF Collide
    <3>4. CASE b.vy = 0
      BY <3>1, <3>4 DEF Clear
    <3> QED BY <1>4, <3>2, <3>3, <3>4
  <2> QED BY <1>2, <2>1, <2>2
<1> HIDE DEF y
<1>6. /\ u.dense[i] = c /\ u.dense[o] = t.dense[o]
  <2> HIDE DEF u, c
  <2> QED BY <1>1, <1>3
<1>7. c.y = y /\ c.x = b.x
  <2> HIDE DEF b
  <2> QED BY <1>1 DEF Bodies
<1> HIDE DEF c, u, b
<1> QED BY <1>5, <1>6, <1>7 DEF Clear, u, j

\* A player walks, and does not come to overlap the other one.
LEMMA WalkedApart ==
  ASSUME NEW set, BodySet(set), NEW t \in Touched(set), NEW i, NEW o, TwoSlots(set, i, o),
         Clear(t, i, o)
  PROVE  Clear(Walked(t, i), i, o)
<1> DEFINE across == Horizontally(t, i, Beside(t, i))
           u == Vertically(across, i, Above(across, i))
<1>1. Walked(t, i) = u
  <2>1. Given(Beside(t, i), LAMBDA j : Horizontally(t, i, j)) = across
    BY DEF Given
  <2>2. Given(Above(across, i), LAMBDA j : Vertically(across, i, j)) = u
    BY DEF Given
  <2> HIDE DEF across, u
  <2>3. Given(across, LAMBDA a : Given(Above(a, i), LAMBDA j : Vertically(a, i, j)))
          = Given(Above(across, i), LAMBDA j : Vertically(across, i, j))
    BY DEF Given
  <2> QED BY <2>1, <2>2, <2>3 DEF Walked
<1>2. i \in DOMAIN set.dense /\ o \in DOMAIN set.dense
  BY DEF TwoSlots
<1>3. Beside(t, i) \in {0} \cup DOMAIN set.dense
  BY <1>2, BesideOfTwo
<1>4. across \in Touched(set)
  BY <1>2, <1>3, HorizontalStep
<1>5. Clear(across, i, o)
  BY HorizontalApart
<1> HIDE DEF across
<1>6. Clear(u, i, o)
  BY <1>4, <1>5, VerticalApart
<1> QED BY <1>1, <1>6

\* Players that stay where they are do not come to overlap.
LEMMA ClearStays ==
  ASSUME NEW t, NEW u, NEW p, NEW q, Clear(t, p, q),
         Unmoved(t.dense[p], u.dense[p]), Unmoved(t.dense[q], u.dense[q]),
         u.dense[q].type = t.dense[q].type
  PROVE  Clear(u, p, q)
BY DEF Clear, Collide, Unmoved

\* One turn of ApplyMovement.
LEMMA MovedApart ==
  ASSUME NEW set, BodySet(set), NEW t \in Touched(set), NEW p, NEW q, TwoSlots(set, p, q),
         Clear(t, p, q), NEW i \in DOMAIN set.dense
  PROVE  Clear(Moved(t, i), p, q)
<1> DEFINE m == Marked(t, i)
           u == Moved(t, i)
<1>1. /\ u = MovedOn(m, i) /\ m \in Touched(set)
      /\ \A k \in DOMAIN set.dense : k # i => m.dense[k] = t.dense[k]
      /\ m.dense[i].type = t.dense[i].type /\ Unmoved(t.dense[i], m.dense[i])
  BY MarkedStep
<1>2. u \in Touched(set) /\ OthersStay(t, u, i)
  BY MovedStep
<1> HIDE DEF m, u
<1>3. p \in DOMAIN set.dense /\ q \in DOMAIN set.dense /\ p # q /\ TwoSlots(set, q, p)
  BY DEF TwoSlots
<1>4. /\ t.dense[p].type = kPlayer /\ t.dense[q].type = kPlayer
      /\ m.dense[p] \in Bodies /\ m.dense[q] \in Bodies
      /\ m.dense[p].type = kPlayer /\ m.dense[q].type = kPlayer
      /\ u.dense[p] \in Bodies /\ u.dense[q] \in Bodies
      /\ u.dense[p].type = kPlayer /\ u.dense[q].type = kPlayer
      /\ DOMAIN t.dense = DOMAIN set.dense
  BY <1>1, <1>2, PlayerSlots
<1>5. Clear(m, p, q)
  <2>1. Unmoved(t.dense[p], m.dense[p]) /\ Unmoved(t.dense[q], m.dense[q])
    BY <1>1, <1>3 DEF Unmoved
  <2> QED BY <1>4, <2>1, ClearStays
<1>6. CASE i = p
  <2>1. u = Walked(m, p)
    BY <1>1, <1>4, <1>6 DEF MovedOn
  <2> QED BY <1>1, <1>5, <2>1, WalkedApart DEF u
<1>7. CASE i = q
  <2>1. u = Walked(m, q)
    BY <1>1, <1>4, <1>7 DEF MovedOn
  <2>2. Clear(m, q, p)
    BY <1>4, <1>5, ClearOfEachOther
  <2>3. Clear(u, q, p)
    BY <1>1, <1>3, <2>1, <2>2, WalkedApart
  <2> QED BY <1>4, <2>3, ClearOfEachOther DEF u
<1>8. CASE i # p /\ i # q
  <2>1. Unmoved(t.dense[p], u.dense[p]) /\ Unmoved(t.dense[q], u.dense[q])
    BY <1>2, <1>3, <1>4, <1>8 DEF OthersStay
  <2> QED BY <1>4, <2>1, ClearStays DEF u
<1> QED BY <1>6, <1>7, <1>8

\* ApplyMovement, in whatever order the bodies are.
LEMMA MovementApart ==
  ASSUME NEW set, BodySet(set), NEW p, NEW q, TwoSlots(set, p, q), Clear(set, p, q)
  PROVE  Clear(ApplyMovement(set), p, q)
<1> DEFINE sets == [i \in 0..Len(set.dense) |-> {t \in Touched(set) : Clear(t, p, q)}]
<1>1. Len(set.dense) \in Nat /\ DOMAIN set.dense = 1..Len(set.dense)
  BY BodySetShape
<1>2. ASSUME NEW i \in 1..Len(set.dense), NEW x \in sets[i - 1] PROVE Moved(x, i) \in sets[i]
  <2>1. i - 1 \in 0..Len(set.dense) /\ i \in 0..Len(set.dense) /\ i \in DOMAIN set.dense
    BY <1>1
  <2>2. x \in Touched(set) /\ Clear(x, p, q)
    BY <2>1
  <2>3. Moved(x, i) \in Touched(set) /\ Clear(Moved(x, i), p, q)
    BY <2>1, <2>2, MovedStep, MovedApart
  <2> QED BY <2>1, <2>3
<1>3. set \in sets[0] /\ sets \in [0..Len(set.dense) -> SUBSET Touched(set)]
  BY <1>1, TouchedSelf
<1>4. ApplyMovement(set) \in sets[Len(set.dense)]
  <2> HIDE DEF sets
  <2> QED BY <1>2, <1>3, MovementRun
<1> QED BY <1>1, <1>4

------------------------------------------------------------------------------
(* The two players stay apart.                                             *)

\* Every body of a player is that of a player of the lobby.
Peopled(l) ==
  \A e \in DOMAIN l.set.sparse :
    Get(l.set, e).type = kPlayer => \E s \in DOMAIN l.players : l.players[s] = e

\* Of l's players, no two come to overlap in t.
Apart(l, t) ==
  \A r \in DOMAIN l.players, s \in DOMAIN l.players :
    l.players[r] # l.players[s] /\ ~Overlapping(l.set, l.players[r], l.players[s]) =>
      ~Overlapping(t.set, l.players[r], l.players[s])

\* Two players of a lobby have the only two slots of players.
LEMMA PlayersSlots ==
  ASSUME NEW l, LobbyOK(l), Peopled(l), NEW r \in DOMAIN l.players, NEW s \in DOMAIN l.players,
         l.players[r] # l.players[s]
  PROVE  TwoSlots(l.set, l.set.sparse[l.players[r]], l.set.sparse[l.players[s]])
<1> DEFINE a == l.players[r]
           b == l.players[s]
           p == l.set.sparse[a]
           q == l.set.sparse[b]
<1>1. /\ BodySet(l.set) /\ DOMAIN l.players \subseteq {Me, Other}
      /\ a \in DOMAIN l.set.sparse /\ Get(l.set, a).type = kPlayer
      /\ b \in DOMAIN l.set.sparse /\ Get(l.set, b).type = kPlayer
  BY DEF LobbyOK
<1>2. /\ DOMAIN l.set.dense = 1..Len(l.set.dense)
      /\ \A e \in DOMAIN l.set.sparse :
           l.set.sparse[e] \in 1..Len(l.set.dense) /\ l.set.entities[l.set.sparse[e]] = e
      /\ \A i \in 1..Len(l.set.dense) :
           l.set.entities[i] \in DOMAIN l.set.sparse /\ l.set.sparse[l.set.entities[i]] = i
  BY <1>1, BodySetShape
<1>3. \A v \in DOMAIN l.players : l.players[v] \in {a, b}
  <2>1. r # s
    OBVIOUS
  <2> QED BY <1>1, <2>1
<1>4. p \in DOMAIN l.set.dense /\ q \in DOMAIN l.set.dense /\ p # q
  BY <1>1, <1>2
<1>5. l.set.dense[p].type = kPlayer /\ l.set.dense[q].type = kPlayer
  BY <1>1 DEF Get
<1>6. ASSUME NEW k \in DOMAIN l.set.dense, l.set.dense[k].type = kPlayer
      PROVE  k \in {p, q}
  <2> DEFINE e == l.set.entities[k]
  <2>1. e \in DOMAIN l.set.sparse /\ l.set.sparse[e] = k
    BY <1>2
  <2>2. Get(l.set, e).type = kPlayer
    BY <1>6, <2>1 DEF Get
  <2>3. e \in {a, b}
    BY <1>3, <2>1, <2>2 DEF Peopled
  <2> QED BY <2>1, <2>3
<1> QED BY <1>4, <1>5, <1>6 DEF TwoSlots

\* Whether the players overlap can be read off their slots.
LEMMA ClearSlots ==
  ASSUME NEW set, NEW a, NEW b
  PROVE  Overlapping(set, a, b) <=> ~Clear(set, set.sparse[a], set.sparse[b])
BY DEF Overlapping, Clear, Get

\* Bodies that keep their places keep the players apart.
LEMMA InPlaceApart ==
  ASSUME NEW l, LobbyOK(l), NEW t, CarriedInPlace(l.set, t.set)
  PROVE  Apart(l, t)
<1> SUFFICES ASSUME NEW r \in DOMAIN l.players, NEW s \in DOMAIN l.players,
                    ~Overlapping(l.set, l.players[r], l.players[s])
             PROVE  ~Overlapping(t.set, l.players[r], l.players[s])
  BY DEF Apart
<1> DEFINE a == l.players[r]
           b == l.players[s]
<1>1. a \in DOMAIN l.set.sparse /\ Get(l.set, a).type = kPlayer
      /\ b \in DOMAIN l.set.sparse /\ Get(l.set, b).type = kPlayer
  BY DEF LobbyOK
<1>2. /\ a \in DOMAIN t.set.sparse /\ b \in DOMAIN t.set.sparse
      /\ Get(t.set, b).type = Get(l.set, b).type
      /\ Unmoved(Get(l.set, a), Get(t.set, a)) /\ Unmoved(Get(l.set, b), Get(t.set, b))
  BY <1>1 DEF CarriedInPlace, Carried
<1> HIDE DEF a, b
<1>3. ~Overlapping(l.set, a, b)
  BY DEF a, b
<1>4. ~Overlapping(t.set, a, b)
  BY <1>2, <1>3 DEF Overlapping, Collide, Unmoved
<1> QED BY <1>4 DEF a, b

\* Nobody's body comes from bodies that are carried.
LEMMA CarriedPeopled ==
  ASSUME NEW l, Peopled(l), NEW t, Carried(l.set, t.set), t.players = l.players
  PROVE  Peopled(t)
BY DEF Peopled, Carried

\* One step after another.
LEMMA ApartTwice ==
  ASSUME NEW l, NEW t, NEW u, Apart(l, t), Apart(t, u), t.players = l.players
  PROVE  Apart(l, u)
BY DEF Apart

\* The systems of a tick: only ApplyMovement moves players.
LEMMA SweptApart ==
  ASSUME NEW l, LobbyOK(l), Peopled(l), NEW slope \in [Enemies(l.set) -> Slopes],
         NEW moved, moved = ApplyMovement(ApplyEnemyMovement(l.set, slope)),
         NEW swept, swept = KillDead(Announced(moved)), NEW t, t.set = swept.set
  PROVE  Apart(l, t)
<1> DEFINE steered == ApplyEnemyMovement(l.set, slope)
<1>1. BodySet(l.set)
  BY DEF LobbyOK
<1>2. steered \in Standing(l.set)
  BY <1>1, EnemiesSteered DEF Standing
<1> HIDE DEF steered
<1>3. steered \in Touched(l.set) /\ BodySet(steered) /\ steered.sparse = l.set.sparse
      /\ \A k \in DOMAIN l.set.dense : Unmoved(l.set.dense[k], steered.dense[k])
  BY <1>1, <1>2, TouchedSet DEF Standing
<1>4. moved \in Touched(steered) /\ moved.sparse = l.set.sparse
  BY <1>3, MovementMarks, TouchedSet DEF steered
<1>5. \A e \in DOMAIN swept.set.sparse : Unmoved(Get(moved, e), Get(swept.set, e))
  BY <1>1, SweptWhere
<1>6. Carried(l.set, swept.set)
  BY <1>1, SweptWhere
<1> SUFFICES ASSUME NEW r \in DOMAIN l.players, NEW s \in DOMAIN l.players,
                    l.players[r] # l.players[s],
                    ~Overlapping(l.set, l.players[r], l.players[s])
             PROVE  ~Overlapping(t.set, l.players[r], l.players[s])
  BY DEF Apart
<1> DEFINE a == l.players[r]
           b == l.players[s]
           p == l.set.sparse[a]
           q == l.set.sparse[b]
<1>7. TwoSlots(l.set, p, q) /\ Clear(l.set, p, q)
  BY PlayersSlots, ClearSlots
<1>8. a \in DOMAIN l.set.sparse /\ Get(l.set, a).type = kPlayer
      /\ b \in DOMAIN l.set.sparse /\ Get(l.set, b).type = kPlayer
  BY DEF LobbyOK
<1> HIDE DEF a, b, p, q
<1>9. Clear(steered, p, q) /\ TwoSlots(steered, p, q)
  <2>1. /\ p \in DOMAIN l.set.dense /\ q \in DOMAIN l.set.dense
        /\ DOMAIN steered.dense = DOMAIN l.set.dense
        /\ \A k \in DOMAIN l.set.dense : steered.dense[k].type = l.set.dense[k].type
    BY <1>1, <1>3, <1>7, TouchedSet DEF TwoSlots
  <2>2. TwoSlots(steered, p, q)
    BY <1>7, <2>1 DEF TwoSlots
  <2>3. Unmoved(l.set.dense[p], steered.dense[p]) /\ Unmoved(l.set.dense[q], steered.dense[q])
    BY <1>3, <2>1
  <2> QED BY <1>7, <2>1, <2>2, <2>3, ClearStays
<1>10. Clear(moved, p, q)
  BY <1>3, <1>9, MovementApart DEF steered
<1>11. ~Overlapping(moved, a, b)
  <2>1. moved.sparse[a] = p /\ moved.sparse[b] = q
    BY <1>4 DEF p, q
  <2> QED BY <1>10, <2>1, ClearSlots
<1>12. /\ a \in DOMAIN swept.set.sparse /\ b \in DOMAIN swept.set.sparse
       /\ Get(swept.set, b).type = kPlayer
  BY <1>6, <1>8 DEF Carried
<1>13. Get(moved, b).type = kPlayer
  <2>1. Get(steered, b).type = kPlayer /\ b \in DOMAIN steered.sparse
    BY <1>1, <1>3, <1>8, TouchedSet
  <2> QED BY <1>3, <1>4, <2>1, TouchedSet
<1>14. ~Overlapping(swept.set, a, b)
  <2>1. Unmoved(Get(moved, a), Get(swept.set, a)) /\ Unmoved(Get(moved, b), Get(swept.set, b))
    BY <1>5, <1>12
  <2> QED BY <1>11, <1>12, <1>13, <2>1 DEF Overlapping, Collide, Unmoved
<1> QED BY <1>14 DEF a, b

\* An entity more that is no player's.
LEMMA PlacedApart ==
  ASSUME NEW l, LobbyOK(l), Peopled(l), NEW id, id \notin DOMAIN l.set.sparse,
         NEW b \in Bodies, b.type # kPlayer,
         NEW t, t.set = Placed(l.set, id, b), t.players = l.players
  PROVE  Peopled(t) /\ Apart(l, t)
<1>1. /\ DOMAIN t.set.sparse = DOMAIN l.set.sparse \cup {id} /\ Get(t.set, id) = b
      /\ \A e \in DOMAIN l.set.sparse : Get(t.set, e) = Get(l.set, e)
  BY PlacedBody DEF LobbyOK
<1>2. Peopled(t)
  BY <1>1 DEF Peopled
<1>3. Apart(l, t)
  BY <1>1 DEF Apart, LobbyOK, Overlapping
<1> QED BY <1>2, <1>3

\* A step of a lobby, which may restart first, until bodies are swept and an enemy comes.
LEMMA PlayedApart ==
  ASSUME NEW l, LobbyOK(l), Peopled(l), l.home # NoRoom, NEW sent, Played(l, sent)
  PROVE  Peopled(server') /\ Apart(l, server')
<1>1. PICK slope \in [Enemies(l.set) -> Slopes] :
      \E moved \in {ApplyMovement(ApplyEnemyMovement(l.set, slope))} :
      \E swept \in {KillDead(Announced(moved))} :
        LET next == [l EXCEPT !.set = swept.set]
        IN  \/ server' = next
            \/ l.next < MaxEntities
               /\ \E at \in EnemyPoints, set \in MoveSets : server' = WithEnemy(next, at, set)
  BY Zenon DEF Played, LobbyStep
<1> DEFINE moved == ApplyMovement(ApplyEnemyMovement(l.set, slope))
           swept == KillDead(Announced(moved))
           next == [l EXCEPT !.set = swept.set]
<1>2. \/ server' = next
      \/ l.next < MaxEntities
         /\ \E at \in EnemyPoints, set \in MoveSets : server' = WithEnemy(next, at, set)
  BY <1>1
<1>3. /\ DOMAIN next = Fields /\ next.set = swept.set /\ next.next = l.next
      /\ next.home = l.home /\ next.players = l.players /\ next.rooms = l.rooms
      /\ next.state = l.state /\ l.state \in GameStates /\ BodySet(l.set)
      /\ l.next \notin DOMAIN l.set.sparse
  <2> HIDE DEF swept
  <2> QED BY DEF LobbyOK, Fields
<1>4. Carried(l.set, swept.set) /\ Apart(l, next)
  <2> HIDE DEF next
  <2> QED BY <1>3, SweptWhere, SweptApart
<1> HIDE DEF swept, next
<1>5. LobbyOK(next) /\ Peopled(next)
  BY <1>3, <1>4, LobbyWith, CarriedPeopled DEF Stayed
<1>6. ASSUME NEW at \in EnemyPoints, NEW set \in MoveSets, server' = WithEnemy(next, at, set)
      PROVE  Peopled(server') /\ Apart(l, server')
  <2> DEFINE b == Body(kEnemy, EntityAlive, at.x, at.y, 0, set)
  <2>1. b \in Bodies /\ b.type # kPlayer
    BY EnemyBody
  <2>2. server' = [next EXCEPT !.set = Placed(@, next.next, b), !.next = @ + 1]
    BY <1>6, Zenon DEF WithEnemy
  <2> HIDE DEF b
  <2>3. server'.set = Placed(next.set, next.next, b) /\ server'.players = next.players
    BY <1>3, <2>2 DEF Fields
  <2>4. next.next \notin DOMAIN next.set.sparse
    BY <1>3, <1>4 DEF Carried
  <2>5. Peopled(server') /\ Apart(next, server')
    BY <1>5, <2>1, <2>3, <2>4, PlacedApart
  <2> QED BY <1>3, <1>4, <2>5, ApartTwice
<1> QED BY <1>2, <1>4, <1>5, <1>6

\* What a step of the server does for the players that it has.
StayApart == Peopled(server') /\ Apart(server, server')

\* Players of a lobby that is as it was.
LEMMA SameApart ==
  ASSUME Peopled(server), server'.set = server.set, server'.players = server.players
  PROVE  StayApart
BY DEF StayApart, Peopled, Apart

\* A lobby is restarted, and then perhaps ticks.
LEMMA RestartedApart ==
  ASSUME LobbyOK(server), Peopled(server), server.home # NoRoom, NEW state \in GameStates
  PROVE  LET t == Restarted(server, state)
         IN  LobbyOK(t) /\ Peopled(t) /\ Apart(server, t) /\ t.players = server.players
             /\ t.home = server.home
<1> DEFINE t == Restarted(server, state)
<1>1. LobbyOK(t) /\ CarriedInPlace(server.set, t.set) /\ Stayed(server, t)
  BY RestartedLobby
<1> HIDE DEF t
<1>2. t.players = server.players /\ t.home = server.home /\ Carried(server.set, t.set)
  BY <1>1 DEF Stayed, CarriedInPlace
<1>3. Peopled(t) /\ Apart(server, t)
  BY <1>1, <1>2, InPlaceApart, CarriedPeopled
<1> QED BY <1>1, <1>2, <1>3 DEF t

\* A tick.
LEMMA TickApart ==
  ASSUME LobbyOK(server), Peopled(server), Tick
  PROVE  StayApart
<1>1. server.home # NoRoom /\ GameOver \in GameStates
  BY DEF Tick, GameStates
<1>2. CASE Over
  <2> DEFINE t == Restarted(server, GameOver)
  <2>1. LobbyOK(t) /\ Peopled(t) /\ Apart(server, t) /\ t.players = server.players
        /\ t.home = server.home
    BY <1>1, RestartedApart
  <2>2. Played(t, Restarting(server, GameOver))
    BY <1>2 DEF Tick
  <2> HIDE DEF t
  <2>3. Peopled(server') /\ Apart(t, server')
    BY <1>1, <2>1, <2>2, PlayedApart
  <2> QED BY <2>1, <2>3, ApartTwice DEF StayApart
<1>3. CASE ~Over
  <2>1. Played(server, << >>)
    BY <1>3 DEF Tick
  <2> QED BY <1>1, <2>1, PlayedApart DEF StayApart
<1> QED BY <1>2, <1>3

\* A player is pushed, and only pushed.
LEMMA PushedApart ==
  ASSUME LobbyOK(server), Peopled(server), server.home # NoRoom,
         NEW s \in DOMAIN server.players, NEW mask,
         NEW t, t = [server EXCEPT !.set = PushedBy(s, mask)]
  PROVE  /\ LobbyOK(t) /\ Peopled(t) /\ Apart(server, t)
         /\ DOMAIN t = Fields /\ t.players = server.players /\ t.next = server.next
<1> DEFINE set == PushedBy(s, mask)
<1>1. CarriedInPlace(server.set, set) /\ Carried(server.set, set)
  BY PushedLobby DEF CarriedInPlace
<1> HIDE DEF set
<1>2. Stayed(server, t) /\ t.set = set
  BY DEF Stayed, LobbyOK, Fields, set
<1>3. Peopled(t) /\ Apart(server, t)
  BY <1>1, <1>2, InPlaceApart, CarriedPeopled DEF Stayed
<1> QED BY <1>1, <1>2, <1>3, LobbyWith DEF Stayed

\* A USER_INPUT of Me: a bullet is no player.
LEMMA InputApart ==
  ASSUME LobbyOK(server), Peopled(server), NEW mask, ServeInput(mask)
  PROVE  StayApart
<1>1. CASE server.home = NoRoom
  <2>1. server' = server
    BY <1>1 DEF ServeInput, LobbyStep
  <2> QED BY <2>1, SameApart
<1>2. CASE server.home # NoRoom
  <2> DEFINE pushed == [server EXCEPT !.set = PushedBy(Me, mask)]
             bullet == Body(kBullet, EntityAlive, BodyOf(Me).x + Muzzle.x,
                            BodyOf(Me).y + Muzzle.y, 2 * Speed, kHover)
             shot == [pushed EXCEPT !.set = Placed(@, server.next, bullet), !.next = @ + 1]
  <2>1. Me \in DOMAIN server.players
    BY <1>2 DEF LobbyOK
  <2>2. /\ LobbyOK(pushed) /\ Peopled(pushed) /\ Apart(server, pushed)
        /\ DOMAIN pushed = Fields /\ pushed.players = server.players
        /\ pushed.next = server.next
    BY <1>2, <2>1, PushedApart
  <2>3. server' = pushed \/ server' = shot
    BY <1>2 DEF ServeInput, LobbyStep
  <2>4. bullet \in Bodies /\ bullet.type # kPlayer
    BY <2>1, BulletBody
  <2> HIDE DEF pushed, bullet
  <2>5. CASE server' = pushed
    BY <2>2, <2>5 DEF StayApart
  <2>6. CASE server' = shot
    <3>1. server'.set = Placed(pushed.set, pushed.next, bullet)
          /\ server'.players = pushed.players
      BY <2>2, <2>6 DEF Fields
    <3>2. pushed.next \notin DOMAIN pushed.set.sparse
      BY <2>2 DEF LobbyOK
    <3>3. Peopled(server') /\ Apart(pushed, server')
      BY <2>2, <2>4, <3>1, <3>2, PlacedApart
    <3> QED BY <2>2, <3>3, ApartTwice DEF StayApart
  <2> QED BY <2>3, <2>5, <2>6
<1> QED BY <1>1, <1>2

\* Who joins has the new body.
LEMMA JoinedPeopled ==
  ASSUME NEW l, Joinable(l), Peopled(l), NEW s \in {Me, Other}, s \notin DOMAIN l.players,
         NEW at \in [x : Int, y : Int], NEW home, NEW t, JoinedAs(l, s, at, home, t)
  PROVE  Peopled(t)
<1>1. /\ t.players = With(l.players, s, l.next)
      /\ DOMAIN t.set.sparse = DOMAIN l.set.sparse \cup {l.next}
  BY JoinedLobby
<1>2. /\ DOMAIN t.players = DOMAIN l.players \cup {s} /\ t.players[s] = l.next
      /\ \A r \in DOMAIN l.players : t.players[r] = l.players[r]
  BY <1>1 DEF With
<1>3. \A e \in DOMAIN l.set.sparse : Get(l.set, e).type = kPlayer
  <2>1. BodySet(l.set) /\ \A i \in DOMAIN l.set.dense : l.set.dense[i].type = kPlayer
    BY DEF Joinable
  <2> QED BY <2>1, BodySetShape DEF Get
<1>4. \A e \in DOMAIN l.set.sparse : \E r \in DOMAIN l.players : l.players[r] = e
  BY <1>3 DEF Peopled
<1> QED BY <1>1, <1>2, <1>4 DEF Peopled

\* A new lobby has no bodies.
LEMMA NewLobbyPeopled ==
  ASSUME NEW rooms
  PROVE  Peopled(NewLobby(rooms))
BY DEF NewLobby, EmptySet, Peopled

\* Me is let into a lobby: until then there is one player at most.
LEMMA EnteredApart ==
  ASSUME LobbyOK(server), Peopled(server), server.home = NoRoom,
         NEW s, LobbyOK(s), s.set = server.set, s.players = server.players, s.home = server.home,
         NEW room \in Nat, EnteredRoom(s, room)
  PROVE  StayApart
<1> DEFINE lobby == IF room = 0 THEN s ELSE NewLobby(s.rooms)
           t == [Joined(lobby, Me, SpawnPoint) EXCEPT !.home = room]
<1>1. server' = t
  BY Zenon DEF EnteredRoom, LobbyStep
<1>2. s.rooms \in Nat \ {0} /\ Peopled(s)
  BY DEF LobbyOK, Peopled
<1>3. Joinable(lobby) /\ Peopled(lobby)
  BY <1>2, FirstJoinable, NewLobbyJoinable, NewLobbyPeopled
<1> HIDE DEF lobby
<1>4. JoinedAs(lobby, Me, SpawnPoint, room, server')
  BY <1>1, Zenon DEF JoinedAs
<1>5. /\ SpawnPoint \in [x : Int, y : Int] /\ Me \in {Me, Other}
      /\ Me \notin DOMAIN lobby.players
  BY <1>3, PointsAssumption, PlayersAssumption DEF Joinable
<1>6. Peopled(server')
  BY <1>3, <1>4, <1>5, JoinedPeopled
<1>7. \A q, r \in DOMAIN server.players : q = r
  BY DEF LobbyOK
<1>8. Apart(server, server')
  BY <1>7 DEF Apart
<1> QED BY <1>6, <1>8 DEF StayApart

\* A player joins, or may not.
LEMMA JoinApart ==
  ASSUME LobbyOK(server), Peopled(server), NEW room \in Nat, ServeJoin(room)
  PROVE  StayApart
<1>1. /\ LobbyOK(CreatedRoom) /\ CreatedRoom.set = server.set /\ CreatedRoom.home = server.home
      /\ CreatedRoom.players = server.players
  <2>1. CreatedRoom.players = server.players
    BY DEF CreatedRoom, LobbyOK, Fields
  <2> QED BY <2>1, CreatedLobby
<1>2. server.rooms \in Nat
  BY DEF LobbyOK
<1>3. CASE server' = server \/ server' = CreatedRoom
  BY <1>1, <1>3, SameApart
<1>4. CASE server.home = NoRoom /\ EnteredRoom(server, room)
  BY <1>4, EnteredApart
<1>5. CASE server.home = NoRoom /\ EnteredRoom(CreatedRoom, server.rooms)
  BY <1>1, <1>2, <1>5, EnteredApart
<1>6. \/ server' = server \/ server' = CreatedRoom
      \/ server.home = NoRoom /\ EnteredRoom(server, room)
      \/ server.home = NoRoom /\ EnteredRoom(CreatedRoom, server.rooms)
  BY DEF ServeJoin, JoinNewRoom, JoinRoom, LobbyStep
<1> QED BY <1>3, <1>4, <1>5, <1>6

\* What is served.
LEMMA ServeApart ==
  ASSUME LobbyOK(server), Peopled(server), up \in Seq(Ups), Serve
  PROVE  StayApart
<1> DEFINE p == Head(up)
<1>1. /\ up # << >>
      /\ \/ p.kind = "JOIN" /\ ServeJoin(p.room)
         \/ ServeStart
         \/ ServeInput(p.mask)
         \/ server' = server
  BY Zenon DEF Serve, ServeList
<1>2. p.kind = "JOIN" => p.room \in Nat
  <2> DEFINE U == Ups
  <2>1. up \in Seq(U)
    OBVIOUS
  <2> HIDE DEF U
  <2>2. p \in U
    BY <1>1, <2>1, HeadTailProperties
  <2> QED BY <2>2 DEF U, Ups, Asks
<1>3. ASSUME ServeStart PROVE StayApart
  <2>1. CASE server.home = NoRoom
    <3>1. server' = server
      BY <1>3, <2>1 DEF ServeStart, LobbyStep
    <3> QED BY <3>1, SameApart
  <2>2. CASE server.home # NoRoom
    <3>1. server' = Restarted(server, GameRunning)
      BY <1>3, <2>2 DEF ServeStart, LobbyStep
    <3>2. GameRunning \in GameStates
      BY DEF GameStates
    <3> QED BY <2>2, <3>1, <3>2, RestartedApart DEF StayApart
  <2> QED BY <2>1, <2>2
<1> HIDE DEF p
<1> QED BY <1>1, <1>2, <1>3, JoinApart, InputApart, SameApart

\* Every step.
LEMMA NextApart == PInv /\ Peopled(server) /\ [Next]_vars => StayApart
<1> SUFFICES ASSUME PInv, Peopled(server), [Next]_vars PROVE StayApart
  OBVIOUS
<1>1. LobbyOK(server) /\ up \in Seq(Ups)
  BY DEF PInv, Together
<1>2. CASE Serve
  BY <1>1, <1>2, ServeApart
<1>3. CASE Tick
  BY <1>1, <1>3, TickApart
<1>4. ASSUME NEW keys, OtherMoves(keys) PROVE StayApart
  <2>1. server.home # NoRoom /\ Other \in DOMAIN server.players
    BY <1>1, <1>4 DEF OtherMoves, LobbyOK, NoRoom
  <2>2. server' = [server EXCEPT !.set = PushedBy(Other, keys)]
    BY <1>4 DEF OtherMoves, LobbyStep
  <2> QED BY <1>1, <2>1, <2>2, PushedApart DEF StayApart
<1>5. CASE server' = server
  BY <1>5, SameApart
<1>6. User \/ Deliver \/ (\E i \in DOMAIN down : Lose(i)) \/ UNCHANGED vars => server' = server
  BY Zenon DEF User, Frame, Deliver, Lose, vars
<1> QED BY <1>2, <1>3, <1>4, <1>5, <1>6 DEF Next

\* At first there is one player.
LEMMA InitPeopled == Init => Peopled(server)
<1> SUFFICES ASSUME NEW rooms \in Rooms, NEW at \in OtherPoints, server = NewServer(rooms, at)
             PROVE  Peopled(server)
  BY DEF Init
<1> DEFINE l == NewLobby(rooms)
<1>1. rooms \in Nat \ {0} /\ at \in [x : Int, y : Int]
  BY RoomsAssumption, PointsAssumption
<1>2. Joinable(l) /\ DOMAIN l.players = {} /\ l.home = NoRoom /\ Peopled(l)
  BY <1>1, NewLobbyJoinable, NewLobbyPeopled
<1>3. server = Joined(l, Other, at)
  BY DEF NewServer
<1> HIDE DEF l
<1>4. JoinedAs(l, Other, at, NoRoom, server)
  BY <1>2, <1>3 DEF JoinedAs
<1> QED BY <1>1, <1>2, <1>4, JoinedPeopled

(***************************************************************************)
(* On a plane of any size, with any boxes, points, speeds and patterns,    *)
(* wherever the two players start and in whatever order the bodies are     *)
(* moved: two players that do not overlap never come to.  Who moves first  *)
(* is stopped at the place where the other still is, who moves second at   *)
(* the place where the first now is, to the side and then up or down       *)
(* (handlePlayerHorizontalMovement, handlePlayerVerticalMovement).         *)
(***************************************************************************)
THEOREM PlayersStayApartAlways == Spec => PlayersStayApart
<1>1. Init => Peopled(server)
  BY InitPeopled
<1>2. PInv /\ Peopled(server) /\ [Next]_vars => Peopled(server)'
  BY NextApart DEF StayApart
<1>3. PInv /\ Peopled(server) /\ [Next]_vars =>
        [\A s \in Players, t \in Players :
           LET a == server.players[s]
               b == server.players[t]
           IN  a # b /\ ~Overlapping(server.set, a, b) => ~Overlapping(server'.set, a, b)]_server
  BY NextApart DEF StayApart, Apart, Players
<1> QED BY <1>1, <1>2, <1>3, AlwaysPInv, PTL DEF Spec, PlayersStayApart

===============================================================================
