------------------------------ MODULE MCSession ------------------------------
(***************************************************************************)
(* Properties of two facing sessions, and the values TLC checks them with. *)
(***************************************************************************)
EXTENDS Session

(***************************************************************************)
(* Safety: ordered packets of one channel around one of another.  The ids  *)
(* span more than the window, so a head can jump over it.                  *)
(***************************************************************************)
MCWorkload ==
  [p \in Peers |-> IF p = "client"
     THEN << {<<"ordered", 1>>}, {<<"ordered", 2>>}, {<<"ordered", 1>>}, {<<"ordered", 1>>} >>
     ELSE << >>]

(***************************************************************************)
(* Liveness: a packet of any kind, then a reliable one.                    *)
(***************************************************************************)
MCMixedWorkload ==
  [p \in Peers |-> IF p = "client"
     THEN << {<<"unreliable", 1>>, <<"reliable", 1>>, <<"ordered", 1>>}, {<<"reliable", 1>>} >>
     ELSE << >>]

MCAckIds == [p \in Peers |-> IF p = "client" THEN 0 ELSE 1]

Packets(p) == {d.packet : d \in net[Other(p)]}
Pending(p) == {e.packet.seq : e \in session[p].sent}
ReliableKinds == {"reliable", "ordered"}

(***************************************************************************)
(* Shapes of the session, and the acknowledgement threshold: a session     *)
(* that has received AckThreshold packets without sending one has sent an  *)
(* ACK in that same step (handleIncoming, _packetsSinceLastAck).           *)
(***************************************************************************)
TypeOK ==
  \A p \in Peers :
    LET s == session[p] IN
    /\ s.window \in [received : BOOLEAN, ackId : Ids, bits : SUBSET (1..Width),
                     history : Seq(Ids)]
    /\ s.nextSeq \in Ids
    /\ s.sinceAck \in 0..(AckThreshold - 1)
    /\ \A e \in s.sent : e.packet \in Packets(p) /\ e.retries \in 0..MaxResend
    /\ s.rich \subseteq accepted[p] \/ fullShift[p]

(***************************************************************************)
(* A reliable packet leaves _sentPackets only once the peer has processed  *)
(* it: neither a header's bitfield nor a RICH_ACK ever acknowledges a      *)
(* packet that was lost (as long as the peer's window never moved by       *)
(* exactly Width).                                                         *)
(***************************************************************************)
AcknowledgedWasAccepted ==
  \A p \in Peers : fullShift[Other(p)] \/
    \A packet \in Packets(p) :
      packet.kind \in ReliableKinds /\ packet.seq \notin Pending(p)
        => packet.seq \in accepted[Other(p)]

(***************************************************************************)
(* An ordered packet that was accepted, and so will not be sent again, has *)
(* been handed up or waits in the reorder buffer of its channel.           *)
(***************************************************************************)
AcceptedIsKept ==
  \A p \in Peers : \A packet \in Packets(Other(p)) :
    packet.kind = "ordered" /\ packet.seq \in accepted[p]
      => \/ packet \in session[p].reorder[packet.channel]
         \/ \E i \in DOMAIN handed[p][packet.channel] : handed[p][packet.channel][i] = packet.seq

(***************************************************************************)
(* Each session pair implements an ordered channel per direction and       *)
(* channel id, for any loss, duplication and reordering of datagrams.      *)
(***************************************************************************)
WorkloadIds == UNION {0..(Len(Workload[p]) - 1) : p \in Peers}

Flow == {p \in Peers : Workload[p] # << >>} \X Channels

Channel == INSTANCE OrderedChannel WITH
  Flows <- Flow,
  Messages <- WorkloadIds,
  submitted <- [f \in Flow |-> submitted[f[1]][f[2]]],
  delivered <- [f \in Flow |-> handed[Other(f[1])][f[2]]]

ImplementsOrderedChannel == Channel!Spec

(***************************************************************************)
(* Retransmission ends: a packet that waits for its acknowledgement is     *)
(* eventually processed by the peer, or the session is marked for closing  *)
(* (MAX_RESEND_ATTEMPTS), even if the network delivers nothing.            *)
(***************************************************************************)
AcceptedOrClosed ==
  \A p \in Peers : \A q \in Ids :
    q \in Pending(p) ~>
      (q \in accepted[Other(p)] \/ session[p].shouldClose \/ fullShift[Other(p)])
==============================================================================
