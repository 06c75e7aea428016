------------------------------ MODULE Datagrams ------------------------------
(***************************************************************************)
(* rtnt on the wire: the header that Session::rawSend puts before the      *)
(* payload of a packet, what Header::parse makes of the bytes, and the     *)
(* dispatcher that calls the handler of the packet's id.  The numbers of a *)
(* header that only Session looks at (sequence, order, acknowledgements)   *)
(* are written as 0.                                                       *)
(***************************************************************************)
EXTENDS Packet

PROTOCOL_ID == 8708
PROTOCOL_VER == 3

\* The packed struct Header: its fields in order, with their sizes.
HeaderFields ==
  <<"protocolId", "protocolVersion", "sequenceId", "channelId", "orderId", "acknowledgeId",
    "acknowledgeBitfield", "messageId", "flags", "packetSize">>
FieldBytes == <<2, 2, 4, 1, 4, 4, 4, 2, 1, 2>>

\* Where the first fields end.
End(fields) == InTurn(LAMBDA sum, i : sum + FieldBytes[i], 0, fields)
HeaderBytes == End(Len(FieldBytes))

\* Where the field is: its first and its last byte.
Place(field) ==
  LET i == CHOOSE i \in DOMAIN HeaderFields : HeaderFields[i] = field
  IN  <<End(i - 1) + 1, End(i)>>
Places == [field \in ToSet(HeaderFields) |-> Place(field)]

\* The header of a payload of this size, in host byte order.
Header(id, flags, size) ==
  [[field \in ToSet(HeaderFields) |-> 0] EXCEPT
     !.protocolId = PROTOCOL_ID, !.protocolVersion = PROTOCOL_VER,
     !.messageId = id, !.flags = flags, !.packetSize = size % 65536]

\* convertEndianness, and then the memory of the header: every field is a big-endian number.
Swapped(header) ==
  Chained([i \in DOMAIN HeaderFields |-> Scalar(header[HeaderFields[i]], FieldBytes[i])])

\* Session::rawSend
Raw(id, flags, payload) == Swapped(Header(id, flags, Len(payload))) \o payload

\* A field of the header that data begins with.
Field(data, field) == FromMemory(Swap(SubSeq(data, Places[field][1], Places[field][2])))

(***************************************************************************)
(* Header::parse.  The version is not looked at, and a payload may be      *)
(* longer than the header says.                                            *)
(***************************************************************************)
Parse(data) ==
  IF Len(data) < HeaderBytes THEN "kDataTooSmall"
  ELSE IF Field(data, "protocolId") # PROTOCOL_ID THEN "kProtocolMismatch"
  ELSE IF Len(data) - HeaderBytes < Field(data, "packetSize") THEN "kPayloadSizeMismatch"
  ELSE "kNone"

(***************************************************************************)
(* handleIncoming, _processEvents and Dispatcher::dispatch: what becomes   *)
(* of x when data arrives.  The payload is all that follows the header.    *)
(* Bytes without a header and ids without a handler change nothing.        *)
(***************************************************************************)
Dispatched(x, data, handlers, Handle(_, _, _)) ==
  LET id == Field(data, "messageId")
  IN  IF Parse(data) # "kNone" \/ id \notin handlers THEN x
      ELSE Handle(x, id, SubSeq(data, HeaderBytes + 1, Len(data)))
=============================================================================
