------------------------------ MODULE AckWindow ------------------------------
(***************************************************************************)
(* The receive window of one rtnt session: which sequence ids of the peer  *)
(* have been seen.  A window is a record                                   *)
(*   received  _hasReceivedRemotePacket                                    *)
(*   ackId     _remoteAcknowledgeId, the highest id seen                   *)
(*   bits      _remoteAcknowledgeBitfield, as the set of distances below   *)
(*             ackId whose bit is set (bit i stands for distance i + 1)    *)
(*   history   _oldPacketHistory, oldest entry first                       *)
(* The operators below are pure; Session state machines apply them.        *)
(***************************************************************************)
EXTENDS Integers, FiniteSets, Sequences, Functions

CONSTANTS
  Width,       (* Bits in the bitfield: 32 in the code.                    *)
  MaxHistory   (* MAX_PACKET_HISTORY_SIZE: 1 << 15 in the code.            *)

ASSUME WidthAssumption == Width \in Nat \ {0}
ASSUME MaxHistoryAssumption == MaxHistory \in Nat \ {0}

Window ==
  [received : BOOLEAN, ackId : Nat, bits : SUBSET (1..Width), history : Seq(Nat)]

EmptyWindow == [received |-> FALSE, ackId |-> 0, bits |-> {}, history |-> << >>]

InHistory(w, s) == s \in Range(w.history)

\* Mutant: an id too old for the bitfield counts as seen.
IsDuplicateOrOld(w, s) ==
  /\ w.received
  /\ \/ s = w.ackId
     \/ s < w.ackId /\ (w.ackId - s > Width \/ w.ackId - s \in w.bits)

IsDuplicate(w, s) ==
  /\ w.received
  /\ \/ s = w.ackId
     \/ s < w.ackId /\ w.ackId - s <= Width /\ w.ackId - s \in w.bits
     \/ s < w.ackId /\ w.ackId - s > Width /\ InHistory(w, s)

(***************************************************************************)
(* The ids of a set in the order the loops over the bitfield push them:    *)
(* ascending bit, so descending id.                                        *)
(***************************************************************************)
Descending(ids) ==
  {list \in Bijection(1..Cardinality(ids), ids) :
     \A i, j \in 1..Cardinality(ids) : i < j => list[i] > list[j]}

\* Mutant: the field is wider than its type.
ShiftLeftUnmasked(bits, shift) == {{d + shift : d \in bits}}

(***************************************************************************)
(* The values bitfield <<= shift can leave, for shift in 1..Width.  A      *)
(* shift by the full width is undefined in C++: a build leaves the field   *)
(* as it was (the shift count is masked) or clears it.                     *)
(***************************************************************************)
ShiftLeft(bits, shift) ==
  IF shift < Width THEN {{d + shift : d \in {e \in bits : e + shift <= Width}}}
                   ELSE {bits, {}}

\* The ids whose bits leave the field when the head moves up by shift.
FallenIds(w, shift) == {w.ackId - d : d \in {e \in w.bits : e + shift > Width}}

\* The head jumps over the whole window: every bit, then the old head, go to the history.
SlideBeyond(w, s) ==
  {[w EXCEPT !.ackId = s, !.bits = {}, !.history = Append(w.history \o list, w.ackId)] :
     list \in Descending(FallenIds(w, s - w.ackId))}

\* Mutant: bits that fall off the window are not kept in the history.
SlideWithinForgetting(w, s) ==
  {[w EXCEPT !.ackId = s, !.bits = bits \cup {s - w.ackId}] :
     bits \in ShiftLeft(w.bits, s - w.ackId)}

\* The bits that fall off go to the history, and the old head takes the bit of the shift.
SlideWithin(w, s) ==
  {[w EXCEPT !.ackId = s, !.bits = pair[1] \cup {s - w.ackId},
             !.history = w.history \o pair[2]] :
     pair \in ShiftLeft(w.bits, s - w.ackId) \X Descending(FallenIds(w, s - w.ackId))}

\* An id too old for the bitfield: the only path that evicts the oldest entry.
PushOld(history, s) ==
  LET longer == Append(history, s)
  IN  IF Len(longer) > MaxHistory THEN Tail(longer) ELSE longer

\* The windows updateAcknowledgeInfo can leave after receiving id s.
UpdateAcknowledgeInfo(w, s) ==
  IF ~w.received THEN {[w EXCEPT !.received = TRUE, !.ackId = s]}
  ELSE IF s > w.ackId + Width THEN SlideBeyond(w, s)
  ELSE IF s > w.ackId THEN SlideWithin(w, s)
  ELSE IF s = w.ackId THEN {w}
  ELSE IF w.ackId - s <= Width THEN {[w EXCEPT !.bits = @ \cup {w.ackId - s}]}
  ELSE IF InHistory(w, s) THEN {w}
  ELSE {[w EXCEPT !.history = PushOld(@, s)]}

\* Mutant: bit i read as distance i + 2.
AcknowledgedIdsOffByOne(w) ==
  IF w.received THEN {w.ackId} \cup {w.ackId - (d + 1) : d \in w.bits} ELSE {}

\* The ids a header carrying this window acknowledges (kHasAck set).
AcknowledgedIds(w) == IF w.received THEN {w.ackId} \cup {w.ackId - d : d \in w.bits} ELSE {}
==============================================================================
