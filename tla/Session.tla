------------------------------- MODULE Session -------------------------------
(***************************************************************************)
(* Two rtnt sessions that face each other over UDP: sequence and order     *)
(* ids, acknowledgements, retransmission and reordering.  A handler runs   *)
(* under the session's mutex, so each is one action; the network keeps     *)
(* every datagram for ever, so that one may arrive late, in any order,     *)
(* many times or never.                                                    *)
(***************************************************************************)
EXTENDS AckWindow

CONSTANTS
  Peers,         (* The two ends.                                          *)
  Channels,      (* Channel ids of ordered packets.                        *)
  Workload,      (* Bound: Workload[p][i] is the set of <<kind, channel>>  *)
                 (* p may send as the packet with id i - 1.                *)
  AckThreshold,  (* ACK_PACKET_THRESHOLD: 16 in the code.                  *)
  MaxResend,     (* MAX_RESEND_ATTEMPTS: 8 in the code.                    *)
  AckIds         (* Bound: an ACK of p takes a sequence id below AckIds[p].*)

ASSUME PeersAssumption == IsFiniteSet(Peers) /\ Cardinality(Peers) = 2
ASSUME BoundsAssumption ==
  AckThreshold \in Nat \ {0} /\ MaxResend \in Nat /\ AckIds \in [Peers -> Nat]

Kinds == {"unreliable", "reliable", "ordered"}

ASSUME WorkloadAssumption == Workload \in [Peers -> Seq(SUBSET (Kinds \X Channels))]

VARIABLES
  session,    \* session[p]: the Session object at p
  net,        \* net[p]: the datagrams sent towards p
  submitted,  \* history variable: submitted[p][c], ids of the ordered packets p sent on c
  handed,     \* history variable: handed[p][c], ids of the ordered packets p's dispatcher got
  accepted,   \* history variable: accepted[p], ids of the peer that p did not drop
  fullShift   \* history variable: fullShift[p], p's window once moved by exactly Width

vars == <<session, net, submitted, handed, accepted, fullShift>>

\* Every sequence id a session can use.
Ids == UNION {0..(Len(Workload[p]) + AckIds[p]) : p \in Peers}

Other(p) == CHOOSE q \in Peers : q # p

NewSession ==
  [nextSeq   |-> 0,                          \* _localSequenceId
   nextOrder |-> [c \in Channels |-> 0],     \* _localOrderIds
   expected  |-> [c \in Channels |-> 0],     \* _nextExpectedOrderIds
   reorder   |-> [c \in Channels |-> {}],    \* _reorderBuffers
   sent      |-> {},                         \* _sentPackets, entries with their retries
   window    |-> EmptyWindow,                \* _remoteAcknowledgeId, bitfield, history
   rich      |-> {},                         \* _pendingRichAcks
   sinceAck  |-> 0,                          \* _packetsSinceLastAck
   unsentAck |-> FALSE,                      \* _hasUnsentAck
   shouldClose |-> FALSE]                    \* _shouldClose

Init ==
  /\ session = [p \in Peers |-> NewSession]
  /\ net = [p \in Peers |-> {}]
  /\ submitted = [p \in Peers |-> [c \in Channels |-> << >>]]
  /\ handed = [p \in Peers |-> [c \in Channels |-> << >>]]
  /\ accepted = [p \in Peers |-> {}]
  /\ fullShift = [p \in Peers |-> FALSE]

------------------------------------------------------------------------------
(* Sending.  A packet is its id, kind, channel and order id; a datagram is *)
(* a packet and the acknowledgements rawSend stamps on it.                 *)

Packet(seq, kind, channel, order) ==
  [seq |-> seq, kind |-> kind, channel |-> channel, order |-> order]

SystemChannel == CHOOSE c \in Channels : TRUE  \* INTERNAL_CHANNEL_ID: never ordered

\* rawSend: every datagram carries the window (nothing when kHasAck is not set).
Datagram(s, packet, rich) ==
  [packet |-> packet, acks |-> AcknowledgedIds(s.window), rich |-> rich]

\* Mutant: a transmission does not restart the count of unacknowledged packets.
AfterRawSendKeepingCount(s) == [s EXCEPT !.unsentAck = FALSE]

\* The session after rawSend: whatever was sent, an acknowledgement left with it.
AfterRawSend(s) ==
  [s EXCEPT !.unsentAck = FALSE, !.sinceAck = IF s.window.received THEN 0 ELSE @]

\* _internal_sendAck: a RICH_ACK with the pending ids if there are any, else an ACK.
AckDatagram(s) ==
  Datagram(s, Packet(s.nextSeq, IF s.rich = {} THEN "ack" ELSE "rich", SystemChannel, 0), s.rich)

AfterSendAck(s) == [AfterRawSend(s) EXCEPT !.nextSeq = @ + 1, !.rich = {}]

\* Session::send.
Send(p, kind, c) ==
  LET s == session[p]
      packet == Packet(s.nextSeq, kind, c, IF kind = "ordered" THEN s.nextOrder[c] ELSE 0)
  IN  /\ s.nextSeq < Len(Workload[p])
      /\ <<kind, c>> \in Workload[p][s.nextSeq + 1]
      /\ session' = [session EXCEPT ![p] =
           [AfterRawSend(s) EXCEPT
              !.nextSeq = @ + 1,
              !.nextOrder[c] = IF kind = "ordered" THEN @ + 1 ELSE @,
              !.sent = IF kind = "unreliable" THEN @ ELSE @ \cup {[packet |-> packet, retries |-> 0]}]]
      /\ net' = [net EXCEPT ![Other(p)] = @ \cup {Datagram(s, packet, {})}]
      /\ submitted' = [submitted EXCEPT ![p][c] =
                         IF kind = "ordered" THEN Append(@, s.nextSeq) ELSE @]
      /\ UNCHANGED <<handed, accepted, fullShift>>

------------------------------------------------------------------------------
(* Receiving.                                                              *)

\* _sentPackets.erase for each id a header or a RICH_ACK lists.
Acknowledge(s, ids) == [s EXCEPT !.sent = {e \in @ : e.packet.seq \notin ids}]

\* Mutant: a gap in the order ids is not waited for.
InOrderNoBuffer(s, packet) ==
  IF packet.order < s.expected[packet.channel] THEN << >> ELSE <<packet.seq>>

(***************************************************************************)
(* The ids the ordered delivery hands up when packet arrives: nothing for  *)
(* an old or an early order id, otherwise the packet and the run of        *)
(* buffered packets that follows it.                                       *)
(***************************************************************************)
InOrder(s, packet) ==
  LET c == packet.channel
      early == s.reorder[c]
      At(k) == CHOOSE e \in early : e.order = k
      run == {e \in early : \A k \in (packet.order + 1)..e.order : \E f \in early : f.order = k}
  IN  IF packet.order # s.expected[c] THEN << >>
      ELSE <<packet.seq>> \o [i \in 1..Cardinality(run) |-> At(packet.order + i).seq]

\* Mutant: an early packet is acknowledged but not buffered.
AfterOrderingNoBuffer(s, packet, n) ==
  LET next == s.expected[packet.channel] + n
  IN  [s EXCEPT !.expected[packet.channel] = next,
                !.reorder[packet.channel] = {e \in @ : e.order >= next}]

\* The ordering state after packet, when n packets were handed up.
AfterOrdering(s, packet, n) ==
  LET c == packet.channel
      next == s.expected[c] + n
      early == IF packet.order > s.expected[c]
               THEN {e \in s.reorder[c] : e.order # packet.order} \cup {packet}
               ELSE s.reorder[c]
  IN  [s EXCEPT !.expected[c] = next, !.reorder[c] = {e \in early : e.order >= next}]

\* A duplicate is dropped and its id queued for a RICH_ACK; the acks it carries count.
DropDuplicate(p, d) ==
  LET s == session[p] IN
  /\ IsDuplicate(s.window, d.packet.seq)
  /\ session' = [session EXCEPT ![p] =
       [Acknowledge(s, d.acks) EXCEPT !.rich = @ \cup {d.packet.seq}, !.unsentAck = TRUE]]
  /\ UNCHANGED <<net, submitted, handed, accepted, fullShift>>

(***************************************************************************)
(* Any other packet: the window, the ACK that the threshold forces, then   *)
(* what the kind of packet asks for.                                       *)
(***************************************************************************)
AcceptPacket(p, d) ==
  LET s == session[p]
      packet == d.packet
  IN
  /\ ~IsDuplicate(s.window, packet.seq)
  /\ \E w \in UpdateAcknowledgeInfo(s.window, packet.seq) :
       LET counted == [Acknowledge(s, d.acks) EXCEPT
                         !.window = w, !.unsentAck = TRUE, !.sinceAck = @ + 1]
           full == counted.sinceAck >= AckThreshold
           acked == IF full THEN AfterSendAck(counted) ELSE counted
           ready == IF packet.kind = "ordered" THEN InOrder(acked, packet) ELSE << >>
       IN  /\ full => s.nextSeq < AckIds[p]
           /\ net' = IF full THEN [net EXCEPT ![Other(p)] = @ \cup {AckDatagram(counted)}] ELSE net
           /\ session' = [session EXCEPT ![p] =
                CASE packet.kind = "rich"    -> Acknowledge(acked, d.rich)
                  [] packet.kind = "ordered" -> AfterOrdering(acked, packet, Len(ready))
                  [] OTHER                   -> acked]
           /\ handed' = [handed EXCEPT ![p][packet.channel] = @ \o ready]
  /\ accepted' = [accepted EXCEPT ![p] = @ \cup {packet.seq}]
  /\ fullShift' = [fullShift EXCEPT ![p] =
                     @ \/ (s.window.received /\ packet.seq - s.window.ackId = Width)]
  /\ UNCHANGED submitted

\* Session::handleIncoming.
HandleIncoming(p, d) == DropDuplicate(p, d) \/ AcceptPacket(p, d)

------------------------------------------------------------------------------
(* Session::update.  Time is abstract: any set of pending packets may be   *)
(* past RESEND_TIMEOUT, and ACK_TIMEOUT may have elapsed or not.           *)

\* Mutant: a retransmission is not counted.
ResentUncounted(s, resent) == s.sent

\* _sentPackets after the retransmission of the entries in resent.
Resent(s, resent) ==
  (s.sent \ resent) \cup {[e EXCEPT !.retries = @ + 1] : e \in resent}

Update(p, due, ackDue) ==
  LET s == session[p]
      dead == {e \in due : e.retries >= MaxResend}
      resent == {e \in due : \A x \in dead : e.packet.seq < x.packet.seq}
      sentOut == {Datagram(s, e.packet, {}) : e \in resent}
      looped == [(IF resent = {} THEN s ELSE AfterRawSend(s)) EXCEPT !.sent = Resent(s, resent)]
      acks == dead = {} /\ looped.unsentAck /\ ackDue
  IN  /\ ~s.shouldClose   \* Server::update and Client::update destroy the session instead
      /\ acks => s.nextSeq < AckIds[p]
      /\ session' = [session EXCEPT ![p] =
           IF dead # {} THEN [looped EXCEPT !.shouldClose = TRUE]
           ELSE IF acks THEN AfterSendAck(looped) ELSE looped]
      /\ net' = [net EXCEPT ![Other(p)] =
                   @ \cup sentOut \cup (IF acks THEN {AckDatagram(looped)} ELSE {})]
      /\ UNCHANGED <<submitted, handed, accepted, fullShift>>

Next ==
  \E p \in Peers :
    \/ \E kind \in Kinds, c \in Channels : Send(p, kind, c)
    \/ \E d \in net[p] : HandleIncoming(p, d)
    \/ \E due \in SUBSET session[p].sent, ackDue \in BOOLEAN : Update(p, due, ackDue)

(***************************************************************************)
(* The main loop calls update for ever and the clock advances, so a packet *)
(* that stays pending is past its timeout again and again.  Nothing is     *)
(* assumed of the network.                                                 *)
(***************************************************************************)
Fairness ==
  \A p \in Peers : \A q \in Ids :
    WF_vars(\E due \in SUBSET session[p].sent, ackDue \in BOOLEAN :
              (\E e \in due : e.packet.seq = q) /\ Update(p, due, ackDue))

Spec == Init /\ [][Next]_vars

FairSpec == Spec /\ Fairness
==============================================================================
