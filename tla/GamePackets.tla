----------------------------- MODULE GamePackets -----------------------------
(***************************************************************************)
(* The packets of the game that a lobby sends to its players, as records,  *)
(* with what serialize() makes of each: Payload writes the fields in their *)
(* order, Parsed is what the reader of the same struct finds in it.        *)
(* A field that no handler reads has one value.  UPDATE_POSITION is left   *)
(* out.                                                                    *)
(***************************************************************************)
EXTENDS Datagrams, GameEnums

\* earned_points and roomId; then the two values of a JOIN_ACK's status.
NoPoints == 0
Room == 0
Accepted == 1
Refused == 0

\* An entity in a packet is [id, bits, content]: EntityInfos, and the id.
Spawn(e) == [kind |-> "SPAWN", entity |-> e]
WorldInit(state, entities) == [kind |-> "WORLD_INIT", state |-> state, entities |-> entities]
Destroy(id) == [kind |-> "DESTROY", id |-> id]
JoinAck(id, state, status) ==
  [kind |-> "JOIN_ACK", id |-> id, state |-> state, status |-> status]
UpdateGameState(state) == [kind |-> "UPDATE_GAME_STATE", state |-> state]

\* kFlag: DESTROY is the only one of them that may be lost; none of them is ordered.
Unreliable(p) == p.kind = "DESTROY"

\* packet::type::Server
kJoinAck == 336
Kinds ==
  [id \in {kJoinAck + n : n \in {0, 2, 3, 7, 8}} |->
     CASE id = kJoinAck -> "JOIN_ACK"
       [] id = kJoinAck + 2 -> "SPAWN"
       [] id = kJoinAck + 3 -> "DESTROY"
       [] id = kJoinAck + 7 -> "UPDATE_GAME_STATE"
       [] id = kJoinAck + 8 -> "WORLD_INIT"]

Payload(p) ==
  CASE p.kind = "SPAWN" ->
         Scalar(p.entity.id, WordBytes) \o VectorOf(p.entity.bits, WordBytes)
           \o VectorOf(p.entity.content, 1)
    [] p.kind = "WORLD_INIT" ->
         LET es == p.entities IN
         Scalar(p.state, 1)
           \o Vector([i \in DOMAIN es |-> VectorOf(es[i].bits, WordBytes)])
           \o VectorOf([i \in DOMAIN es |-> es[i].id], WordBytes)
           \o Vector([i \in DOMAIN es |-> VectorOf(es[i].content, 1)])
    [] p.kind = "DESTROY" -> Scalar(p.id, WordBytes) \o Scalar(NoPoints, IntBytes)
    [] p.kind = "JOIN_ACK" ->
         Scalar(p.id, WordBytes) \o Scalar(Room, 2) \o Scalar(p.state, WordBytes)
           \o Scalar(p.status, 1)
    [] p.kind = "UPDATE_GAME_STATE" -> Scalar(p.state, WordBytes)

(***************************************************************************)
(* registerHandler's reading of a packet: what the reader finds, if it did *)
(* not throw before the end; otherwise the packet is dropped.              *)
(***************************************************************************)
Found(r, p) == IF r.thrown THEN {} ELSE {p}

ParsedSpawn(r) ==
  LET id == Read(r, WordBytes)
      bits == ReadVectorOf(id, WordBytes)
      content == ReadVectorOf(bits, 1)
  IN  Found(content, Spawn([id |-> id.value, bits |-> bits.value, content |-> content.value]))

ParsedWorldInit(r) ==
  LET state == Read(r, 1)
      bits == ReadVector(state, LAMBDA s : ReadVectorOf(s, WordBytes))
      ids == ReadVectorOf(bits, WordBytes)
      contents == ReadVector(ids, LAMBDA s : ReadVectorOf(s, 1))
  IN  Found(contents, WorldInit(state.value,
        [i \in DOMAIN bits.value |->
           [id |-> ids.value[i], bits |-> bits.value[i], content |-> contents.value[i]]]))

ParsedDestroy(r) ==
  LET id == Read(r, WordBytes) IN Found(Read(id, IntBytes), Destroy(id.value))

\* Mutant: the room is not read.
ParsedJoinAckShort(r) ==
  LET id == Read(r, WordBytes)
      state == Read(id, WordBytes)
      status == Read(state, 1)
  IN  Found(status, JoinAck(id.value, state.value, status.value))

ParsedJoinAck(r) ==
  LET id == Read(r, WordBytes)
      room == Read(id, 2)
      state == Read(room, WordBytes)
      status == Read(state, 1)
  IN  Found(status, JoinAck(id.value, state.value, status.value))

ParsedUpdateGameState(r) ==
  LET state == Read(r, WordBytes) IN Found(state, UpdateGameState(state.value))

Parsed(kind, payload) ==
  LET r == Reader(payload) IN
  CASE kind = "SPAWN" -> ParsedSpawn(r)
    [] kind = "WORLD_INIT" -> ParsedWorldInit(r)
    [] kind = "DESTROY" -> ParsedDestroy(r)
    [] kind = "JOIN_ACK" -> ParsedJoinAck(r)
    [] kind = "UPDATE_GAME_STATE" -> ParsedUpdateGameState(r)

\* The datagram that the packet is sent in.
Sent(p) ==
  Raw(CHOOSE id \in DOMAIN Kinds : Kinds[id] = p.kind, IF Unreliable(p) THEN 1 ELSE 2, Payload(p))
=============================================================================
