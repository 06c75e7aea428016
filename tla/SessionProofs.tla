---------------------------- MODULE SessionProofs ----------------------------
(***************************************************************************)
(* Proofs about two facing sessions, for every workload, every number of   *)
(* channels, every width of the window and every threshold: what is        *)
(* acknowledged was accepted, what is accepted is kept, and each flow is   *)
(* an ordered channel, over a network that loses, duplicates and reorders. *)
(***************************************************************************)
EXTENDS MCSession, AckWindowProofs

PacketSet ==
  [seq : Nat, kind : Kinds \cup {"ack", "rich"}, channel : Channels \cup {SystemChannel},
   order : Nat]

DatagramSet == [packet : PacketSet, acks : SUBSET Nat, rich : SUBSET Nat]

SessionSet ==
  [nextSeq : Nat, nextOrder : [Channels -> Nat], expected : [Channels -> Nat],
   reorder : [Channels -> SUBSET PacketSet], sent : SUBSET [packet : PacketSet, retries : Nat],
   window : Window, rich : SUBSET Nat, sinceAck : Nat, unsentAck : BOOLEAN,
   shouldClose : BOOLEAN]

\* The shape of the state.
Typed ==
  /\ session \in [Peers -> SessionSet]
  /\ net \in [Peers -> SUBSET DatagramSet]
  /\ submitted \in [Peers -> [Channels -> Seq(Nat)]]
  /\ handed \in [Peers -> [Channels -> Seq(Nat)]]
  /\ accepted \in [Peers -> SUBSET Nat]
  /\ fullShift \in [Peers -> BOOLEAN]
  /\ \A p \in Peers : WindowOK(session[p].window)

\* Every id in use is one the workload and the ACKs account for.
Bounded ==
  \A p \in Peers :
    LET s == session[p] IN
    /\ s.nextSeq <= Len(Workload[p]) + AckIds[p]
    /\ s.window.ackId \in Ids /\ Range(s.window.history) \subseteq Ids
    /\ s.sinceAck < AckThreshold
    /\ \A e \in s.sent : e.retries <= MaxResend

\* A sequence id is given to one packet only, and a pending packet was sent.
Numbered ==
  \A p \in Peers :
    /\ \A x \in Packets(p) : x.seq < session[p].nextSeq
    /\ \A x, y \in Packets(p) : x.seq = y.seq => x = y
    /\ \A e \in session[p].sent : e.packet \in Packets(p)

\* Only packets that were sent have been accepted.
Received ==
  \A p \in Peers : \A i \in accepted[p] : \E x \in Packets(Other(p)) : x.seq = i

\* The order id of an ordered packet is its place among those submitted on its channel.
Submitted ==
  \A p \in Peers :
    /\ \A c \in Channels :
         /\ Len(submitted[p][c]) = session[p].nextOrder[c]
         /\ Workload[p] = << >> => submitted[p][c] = << >>
    /\ \A x \in Packets(p) : x.kind = "ordered" =>
         /\ x.channel \in Channels
         /\ x.order < session[p].nextOrder[x.channel]
         /\ submitted[p][x.channel][x.order + 1] = x.seq

(***************************************************************************)
(* What was handed up on a channel is what was submitted first, as far as  *)
(* the next expected order id; only later packets of the channel wait.     *)
(***************************************************************************)
Handed ==
  \A p \in Peers, c \in Channels :
    LET n == session[p].expected[c] IN
    /\ Len(handed[p][c]) = n
    /\ n <= Len(submitted[Other(p)][c])
    /\ \A i \in 1..n : handed[p][c][i] = submitted[Other(p)][c][i]
    /\ \A e \in session[p].reorder[c] :
         /\ e \in Packets(Other(p)) /\ e.kind = "ordered" /\ e.channel = c
         /\ e.order > n

\* An accepted ordered packet is before the next expected one, or waits.
Kept ==
  \A p \in Peers : \A x \in Packets(Other(p)) :
    x.kind = "ordered" /\ x.seq \in accepted[p] =>
      x \in session[p].reorder[x.channel] \/ x.order < session[p].expected[x.channel]

(***************************************************************************)
(* Every id a session remembers or has put in an acknowledgement, in its   *)
(* header or in a RICH_ACK, is one it accepted; so a reliable packet the   *)
(* sender no longer keeps was accepted.                                    *)
(***************************************************************************)
Acked ==
  \A p \in Peers :
    fullShift[p] \/
      /\ Known(session[p].window) \cup session[p].rich \subseteq accepted[p]
      /\ \A d \in net[Other(p)] : d.acks \cup d.rich \subseteq accepted[p]
      /\ \A x \in Packets(Other(p)) : x.kind \in ReliableKinds =>
           x.seq \in Pending(Other(p)) \/ x.seq \in accepted[p]

(***************************************************************************)
(* The inductive invariant.  The properties speak of what left a session;  *)
(* what makes them true is what travels: an acknowledgement on its way may *)
(* arrive at any later time, so it must be true for ever.                  *)
(***************************************************************************)
IInv == Typed /\ Bounded /\ Numbered /\ Received /\ Submitted /\ Handed /\ Kept /\ Acked

------------------------------------------------------------------------------

\* There are two ends, and each is the other's other end.
LEMMA OtherPeer ==
  ASSUME NEW p \in Peers
  PROVE  /\ Other(p) \in Peers /\ Other(p) # p /\ Other(Other(p)) = p
         /\ \A q \in Peers : q = p \/ q = Other(p)
<1>1. IsFiniteSet(Peers \ {p}) /\ Cardinality(Peers \ {p}) = 1
  BY PeersAssumption, FS_RemoveElement
<1>2. PICK o : Peers \ {p} = {o}
  BY <1>1, FS_Singleton
<1>3. o \in Peers /\ o # p /\ \A q \in Peers : q = p \/ q = o
  BY <1>2
<1>4. Other(p) = o
  BY <1>3 DEF Other
<1>5. Other(o) = p
  BY <1>3 DEF Other
<1> QED BY <1>3, <1>4, <1>5

\* The ids a window acknowledges are ids.
LEMMA AcknowledgedType ==
  ASSUME NEW w, WindowOK(w)
  PROVE  AcknowledgedIds(w) \subseteq Nat /\ AcknowledgedIds(w) \subseteq Known(w)
BY DEF WindowOK, Window, AcknowledgedIds, Known

\* The initial state satisfies the inductive invariant.
LEMMA SessionInit == Init => IInv
<1> SUFFICES ASSUME Init PROVE IInv
  OBVIOUS
<1>1. /\ EmptyWindow \in Window /\ WindowOK(EmptyWindow)
      /\ Known(EmptyWindow) = {} /\ Range(EmptyWindow.history) = {} /\ EmptyWindow.ackId = 0
  BY DEF EmptyWindow, Window, WindowOK, Known, AcknowledgedIds, Range
<1>2. NewSession \in SessionSet
  BY <1>1 DEF NewSession, SessionSet
<1>3. Typed
  BY <1>1, <1>2 DEF Init, Typed, NewSession
<1>4. \A p \in Peers : Packets(p) = {} /\ session[p].sent = {}
  BY OtherPeer DEF Init, Packets, NewSession
<1>5. Bounded
  <2> SUFFICES ASSUME NEW p \in Peers
               PROVE  /\ 0 <= Len(Workload[p]) + AckIds[p] /\ 0 \in Ids /\ 0 < AckThreshold
    BY <1>1, <1>4 DEF Bounded, Init, NewSession
  <2>1. Len(Workload[p]) \in Nat /\ AckIds[p] \in Nat
    BY WorkloadAssumption, BoundsAssumption, LenProperties
  <2> QED BY <2>1, BoundsAssumption DEF Ids
<1>6. Numbered /\ Received /\ Submitted /\ Kept
  BY <1>4 DEF Numbered, Received, Submitted, Kept, Init, NewSession
<1>7. Handed
  BY OtherPeer, <1>4 DEF Handed, Init, NewSession
<1>8. Acked
  BY <1>1, <1>4, OtherPeer DEF Acked, Init, NewSession
<1> QED BY <1>3, <1>5, <1>6, <1>7, <1>8 DEF IInv

------------------------------------------------------------------------------
(* A step of one end: its session becomes t, the datagrams of out leave    *)
(* for the other end, and f is the packet the step may number.             *)

PacketsOf(datagrams) == {d.packet : d \in datagrams}

Stepped(p, t, out, f) ==
  LET s == session[p] IN
  /\ session' = [session EXCEPT ![p] = t]
  /\ net' = [net EXCEPT ![Other(p)] = @ \cup out]
  /\ t \in SessionSet /\ WindowOK(t.window) /\ out \in SUBSET DatagramSet
  /\ t.nextSeq \in {s.nextSeq, s.nextSeq + 1} /\ t.nextSeq <= Len(Workload[p]) + AckIds[p]
  /\ f.seq = s.nextSeq
  /\ \A d \in out : d.packet \in Packets(p) \/ (d.packet = f /\ t.nextSeq = s.nextSeq + 1)
  /\ \A e \in t.sent : e.packet \in Packets(p) \/ (e.packet = f /\ f \in PacketsOf(out))
  /\ \A e \in t.sent : e.retries <= MaxResend
  /\ t.window.ackId \in Ids /\ Range(t.window.history) \subseteq Ids
  /\ t.sinceAck < AckThreshold

\* What has been sent is a packet.
LEMMA PacketType ==
  ASSUME Typed, NEW q \in Peers
  PROVE  Packets(q) \subseteq PacketSet
BY OtherPeer DEF Typed, Packets, DatagramSet

\* What such a step leaves alone.
LEMMA SteppedFrame ==
  ASSUME Typed, NEW p \in Peers, NEW t, NEW out, NEW f, Stepped(p, t, out, f)
  PROVE  /\ session'[p] = t /\ session'[Other(p)] = session[Other(p)]
         /\ net'[p] = net[p] /\ net'[Other(p)] = net[Other(p)] \cup out
         /\ Packets(p)' = Packets(p) \cup PacketsOf(out)
         /\ Packets(Other(p))' = Packets(Other(p))
         /\ session' \in [Peers -> SessionSet] /\ net' \in [Peers -> SUBSET DatagramSet]
         /\ \A q \in Peers : WindowOK(session'[q].window)
<1>1. /\ Other(p) \in Peers /\ Other(p) # p /\ Other(Other(p)) = p
      /\ \A q \in Peers : q = p \/ q = Other(p)
  BY OtherPeer
<1>2. /\ session \in [Peers -> SessionSet] /\ net \in [Peers -> SUBSET DatagramSet]
      /\ \A q \in Peers : WindowOK(session[q].window)
  BY DEF Typed
<1>3. /\ session' = [session EXCEPT ![p] = t] /\ t \in SessionSet /\ WindowOK(t.window)
      /\ net' = [net EXCEPT ![Other(p)] = net[Other(p)] \cup out] /\ out \in SUBSET DatagramSet
  BY DEF Stepped
<1>4. /\ session'[p] = t /\ session'[Other(p)] = session[Other(p)]
      /\ session' \in [Peers -> SessionSet]
  BY <1>1, <1>2, <1>3
<1>5. net'[p] = net[p] /\ net'[Other(p)] = net[Other(p)] \cup out
  BY <1>1, <1>2, <1>3
<1>6. net[Other(p)] \cup out \in SUBSET DatagramSet
  BY <1>1, <1>2, <1>3
<1>7. net' \in [Peers -> SUBSET DatagramSet]
  BY <1>1, <1>2, <1>3, <1>6
<1>8. Packets(p)' = Packets(p) \cup PacketsOf(out)
  BY <1>5 DEF Packets, PacketsOf
<1>9. Packets(Other(p))' = Packets(Other(p))
  BY <1>1, <1>5 DEF Packets
<1>10. \A q \in Peers : WindowOK(session'[q].window)
  BY <1>1, <1>2, <1>3, <1>4
<1> QED BY <1>4, <1>5, <1>7, <1>8, <1>9, <1>10

\* Such a step gives an id to at most one packet, the next one.
LEMMA SteppedNumbered ==
  ASSUME Typed, Numbered, NEW p \in Peers, NEW t, NEW out, NEW f, Stepped(p, t, out, f)
  PROVE  Numbered'
<1> DEFINE o == Other(p)
           n == session[p].nextSeq
<1>1. /\ session'[p] = t /\ session'[o] = session[o]
      /\ Packets(p)' = Packets(p) \cup PacketsOf(out) /\ Packets(o)' = Packets(o)
  BY SteppedFrame
<1>2. o \in Peers /\ \A q \in Peers : q = p \/ q = o
  BY OtherPeer
<1>3. /\ n \in Nat /\ t.nextSeq \in {n, n + 1} /\ f.seq = n
      /\ \A x \in PacketsOf(out) : x \in Packets(p) \/ (x = f /\ t.nextSeq = n + 1)
      /\ \A e \in t.sent : e.packet \in Packets(p) \/ (e.packet = f /\ f \in PacketsOf(out))
  BY DEF Stepped, Typed, SessionSet, PacketsOf
<1>4. /\ \A x \in Packets(p) : x.seq < n
      /\ \A x, y \in Packets(p) : x.seq = y.seq => x = y
      /\ \A x \in Packets(p) : x.seq \in Nat
  <2>1. \A x \in Packets(p) : x.seq \in Nat
    BY <1>2 DEF Packets, Typed, DatagramSet, PacketSet
  <2> QED BY <2>1 DEF Numbered
<1>5. \A x \in Packets(p)' : x \in Packets(p) \/ (x = f /\ t.nextSeq = n + 1)
  BY <1>1, <1>3
<1>6. \A x \in Packets(p)' : x.seq < t.nextSeq
  BY <1>3, <1>4, <1>5
<1>7. \A x, y \in Packets(p)' : x.seq = y.seq => x = y
  BY <1>3, <1>4, <1>5
<1>8. \A e \in t.sent : e.packet \in Packets(p)'
  BY <1>1, <1>3
<1>9. /\ \A x \in Packets(o)' : x.seq < session'[o].nextSeq
      /\ \A x, y \in Packets(o)' : x.seq = y.seq => x = y
      /\ \A e \in session'[o].sent : e.packet \in Packets(o)'
  BY <1>1, <1>2 DEF Numbered
<1> SUFFICES ASSUME NEW q \in Peers
             PROVE  /\ \A x \in Packets(q)' : x.seq < session'[q].nextSeq
                    /\ \A x, y \in Packets(q)' : x.seq = y.seq => x = y
                    /\ \A e \in session'[q].sent : e.packet \in Packets(q)'
  BY DEF Numbered
<1> QED BY <1>1, <1>2, <1>6, <1>7, <1>8, <1>9

\* Such a step uses only ids the workload and the ACKs account for.
LEMMA SteppedBounded ==
  ASSUME Typed, Bounded, NEW p \in Peers, NEW t, NEW out, NEW f, Stepped(p, t, out, f)
  PROVE  Bounded'
<1> DEFINE Fine(q, s) == /\ s.nextSeq <= Len(Workload[q]) + AckIds[q]
                         /\ s.window.ackId \in Ids /\ Range(s.window.history) \subseteq Ids
                         /\ s.sinceAck < AckThreshold
                         /\ \A e \in s.sent : e.retries <= MaxResend
<1>1. session'[p] = t /\ session'[Other(p)] = session[Other(p)]
  BY SteppedFrame
<1>2. Fine(p, t)
  BY DEF Stepped
<1>3. \A q \in Peers : Fine(q, session[q])
  BY DEF Bounded
<1>4. \A q \in Peers : Fine(q, session'[q])
  BY <1>1, <1>2, <1>3, OtherPeer
<1> QED BY <1>4 DEF Bounded, Range

(***************************************************************************)
(* Such a step keeps acknowledgements true if it remembers and lists only  *)
(* what was accepted and forgets only what the other end accepted.         *)
(***************************************************************************)
LEMMA SteppedAcked ==
  ASSUME Typed, Acked, NEW p \in Peers, NEW t, NEW out, NEW f, Stepped(p, t, out, f),
         accepted[p] \subseteq accepted'[p], accepted'[Other(p)] = accepted[Other(p)],
         fullShift[p] => fullShift'[p], fullShift'[Other(p)] = fullShift[Other(p)],
         fullShift'[p] \/ Known(t.window) \cup t.rich \subseteq accepted'[p],
         fullShift'[p] \/ \A d \in out : d.acks \cup d.rich \subseteq accepted'[p],
         fullShift[Other(p)] \/ \A x \in Packets(p) \cup PacketsOf(out) :
           x.kind \in ReliableKinds =>
             x.seq \in {e.packet.seq : e \in t.sent} \/ x.seq \in accepted[Other(p)]
  PROVE  Acked'
<1> DEFINE o == Other(p)
<1>1. /\ session'[p] = t /\ session'[o] = session[o]
      /\ net'[p] = net[p] /\ net'[o] = net[o] \cup out
      /\ Packets(p)' = Packets(p) \cup PacketsOf(out) /\ Packets(o)' = Packets(o)
  BY SteppedFrame
<1>2. o \in Peers /\ Other(o) = p /\ \A q \in Peers : q = p \/ q = o
  BY OtherPeer
<1>3. Pending(p)' = {e.packet.seq : e \in t.sent} /\ Pending(o)' = Pending(o)
  BY <1>1 DEF Pending
<1>4. fullShift'[p] \/
        /\ Known(session'[p].window) \cup session'[p].rich \subseteq accepted'[p]
        /\ \A d \in net'[o] : d.acks \cup d.rich \subseteq accepted'[p]
        /\ \A x \in Packets(o)' : x.kind \in ReliableKinds =>
             x.seq \in Pending(o)' \/ x.seq \in accepted'[p]
  <2> SUFFICES ASSUME ~fullShift'[p]
               PROVE  /\ Known(t.window) \cup t.rich \subseteq accepted'[p]
                      /\ \A d \in net[o] \cup out : d.acks \cup d.rich \subseteq accepted'[p]
                      /\ \A x \in Packets(o) : x.kind \in ReliableKinds =>
                           x.seq \in Pending(o) \/ x.seq \in accepted'[p]
    BY <1>1, <1>3
  <2>1. /\ \A d \in net[o] : d.acks \cup d.rich \subseteq accepted[p]
        /\ \A x \in Packets(o) : x.kind \in ReliableKinds =>
             x.seq \in Pending(o) \/ x.seq \in accepted[p]
    BY DEF Acked
  <2> QED BY <2>1
<1>5. fullShift'[o] \/
        /\ Known(session'[o].window) \cup session'[o].rich \subseteq accepted'[o]
        /\ \A d \in net'[p] : d.acks \cup d.rich \subseteq accepted'[o]
        /\ \A x \in Packets(p)' : x.kind \in ReliableKinds =>
             x.seq \in Pending(p)' \/ x.seq \in accepted'[o]
  <2> SUFFICES ASSUME ~fullShift[o]
               PROVE  /\ Known(session[o].window) \cup session[o].rich \subseteq accepted[o]
                      /\ \A d \in net[p] : d.acks \cup d.rich \subseteq accepted[o]
                      /\ \A x \in Packets(p) \cup PacketsOf(out) : x.kind \in ReliableKinds =>
                           x.seq \in {e.packet.seq : e \in t.sent} \/ x.seq \in accepted[o]
    BY <1>1, <1>3
  <2>1. /\ Known(session[o].window) \cup session[o].rich \subseteq accepted[o]
        /\ \A d \in net[p] : d.acks \cup d.rich \subseteq accepted[o]
    BY <1>2 DEF Acked
  <2> QED BY <2>1
<1> SUFFICES ASSUME NEW q \in Peers
             PROVE  fullShift'[q] \/
                      /\ Known(session'[q].window) \cup session'[q].rich \subseteq accepted'[q]
                      /\ \A d \in net'[Other(q)] : d.acks \cup d.rich \subseteq accepted'[q]
                      /\ \A x \in Packets(Other(q))' : x.kind \in ReliableKinds =>
                           x.seq \in Pending(Other(q))' \/ x.seq \in accepted'[q]
  BY DEF Acked, Known, AcknowledgedIds, Range
<1>6. CASE q = p
  BY <1>4, <1>6
<1>7. CASE q = o
  BY <1>2, <1>5, <1>7
<1> QED BY <1>2, <1>6, <1>7

(***************************************************************************)
(* Such a step leaves the ordered delivery as it is if it accepts nothing  *)
(* and changes neither the reorder buffers nor what was handed up.         *)
(***************************************************************************)
LEMMA SteppedHanded ==
  ASSUME Typed, Handed, NEW p \in Peers, NEW t, NEW out, NEW f, Stepped(p, t, out, f),
         t.expected = session[p].expected, t.reorder = session[p].reorder, handed' = handed,
         \A q \in Peers, c \in Channels :
           /\ Len(submitted[q][c]) <= Len(submitted'[q][c])
           /\ \A i \in 1..Len(submitted[q][c]) : submitted'[q][c][i] = submitted[q][c][i],
         submitted' \in [Peers -> [Channels -> Seq(Nat)]]
  PROVE  Handed'
<1> DEFINE o == Other(p)
<1>1. /\ session'[p] = t /\ session'[o] = session[o]
      /\ Packets(p) \subseteq Packets(p)' /\ Packets(o) \subseteq Packets(o)'
  BY SteppedFrame
<1>2. o \in Peers /\ \A q \in Peers : q = p \/ q = o
  BY OtherPeer
<1> SUFFICES ASSUME NEW q \in Peers, NEW c \in Channels
             PROVE  LET n == session'[q].expected[c] IN
                    /\ Len(handed'[q][c]) = n
                    /\ n <= Len(submitted'[Other(q)][c])
                    /\ \A i \in 1..n : handed'[q][c][i] = submitted'[Other(q)][c][i]
                    /\ \A e \in session'[q].reorder[c] :
                         /\ e \in Packets(Other(q))' /\ e.kind = "ordered" /\ e.channel = c
                         /\ e.order > n
  BY DEF Handed
<1>3. session'[q].expected = session[q].expected /\ session'[q].reorder = session[q].reorder
  BY <1>1, <1>2
<1>4. Other(q) \in Peers /\ (Other(q) = p \/ Other(q) = o)
  BY <1>2, OtherPeer
<1>5. Packets(Other(q)) \subseteq Packets(Other(q))'
  <2>1. CASE Other(q) = p
    BY <1>1, <2>1 DEF Packets
  <2>2. CASE Other(q) = o
    BY <1>1, <2>2 DEF Packets
  <2> QED BY <1>4, <2>1, <2>2
<1> DEFINE n == session[q].expected[c]
<1>6. /\ Len(handed[q][c]) = n
      /\ n <= Len(submitted[Other(q)][c])
      /\ \A i \in 1..n : handed[q][c][i] = submitted[Other(q)][c][i]
      /\ \A e \in session[q].reorder[c] :
           e \in Packets(Other(q)) /\ e.kind = "ordered" /\ e.channel = c /\ e.order > n
  BY DEF Handed
<1>7. n \in Nat /\ Len(submitted[Other(q)][c]) \in Nat /\ Len(submitted'[Other(q)][c]) \in Nat
  <2>1. submitted[Other(q)][c] \in Seq(Nat) /\ submitted'[Other(q)][c] \in Seq(Nat)
    BY <1>4 DEF Typed
  <2> QED BY <2>1, LenProperties DEF Typed, SessionSet
<1>8. n <= Len(submitted'[Other(q)][c])
  BY <1>4, <1>6, <1>7
<1>9. \A i \in 1..n : handed[q][c][i] = submitted'[Other(q)][c][i]
  <2> SUFFICES ASSUME NEW i \in 1..n PROVE handed[q][c][i] = submitted'[Other(q)][c][i]
    OBVIOUS
  <2>1. handed[q][c][i] = submitted[Other(q)][c][i]
    BY <1>6
  <2>2. i \in 1..Len(submitted[Other(q)][c])
    <3> HIDE DEF n
    <3> QED BY <1>6, <1>7
  <2>3. submitted'[Other(q)][c][i] = submitted[Other(q)][c][i]
    BY <1>4, <2>2
  <2> QED BY <2>1, <2>3
<1> QED BY <1>3, <1>5, <1>6, <1>8, <1>9

\* The same of the packets that wait: a packet with a new id is not an accepted one.
LEMMA SteppedKept ==
  ASSUME Typed, Numbered, Received, Kept,
         NEW p \in Peers, NEW t, NEW out, NEW f, Stepped(p, t, out, f),
         t.expected = session[p].expected, t.reorder = session[p].reorder, accepted' = accepted
  PROVE  Kept' /\ Received'
<1> DEFINE o == Other(p)
<1>1. /\ session'[p] = t /\ session'[o] = session[o]
      /\ Packets(p)' = Packets(p) \cup PacketsOf(out) /\ Packets(o)' = Packets(o)
  BY SteppedFrame
<1>2. o \in Peers /\ Other(o) = p /\ \A q \in Peers : q = p \/ q = o
  BY OtherPeer
<1>3. /\ \A x \in PacketsOf(out) : x \in Packets(p) \/ x = f
      /\ f.seq = session[p].nextSeq /\ session[p].nextSeq \in Nat
  BY DEF Stepped, PacketsOf, Typed, SessionSet
<1>4. f.seq \notin accepted[o]
  BY <1>2, <1>3 DEF Numbered, Received
<1>5. Received'
  <2>1. \A q \in Peers : Packets(q) \subseteq Packets(q)'
    <3>1. Packets(p) \subseteq Packets(p)' /\ Packets(o) \subseteq Packets(o)'
      BY <1>1
    <3> QED BY <1>2, <3>1 DEF Packets
  <2> QED BY <2>1, OtherPeer DEF Received
<1>6. \A x \in Packets(o)' : x.kind = "ordered" /\ x.seq \in accepted[p] =>
        x \in session'[p].reorder[x.channel] \/ x.order < session'[p].expected[x.channel]
  BY <1>1 DEF Kept
<1>7. \A x \in Packets(p)' : x.kind = "ordered" /\ x.seq \in accepted[o] =>
        x \in session'[o].reorder[x.channel] \/ x.order < session'[o].expected[x.channel]
  <2>1. \A x \in Packets(p) : x.kind = "ordered" /\ x.seq \in accepted[o] =>
          x \in session[o].reorder[x.channel] \/ x.order < session[o].expected[x.channel]
    BY <1>2 DEF Kept
  <2> QED BY <1>1, <1>3, <1>4, <2>1
<1>8. ASSUME NEW q \in Peers
      PROVE  \A x \in Packets(Other(q))' : x.kind = "ordered" /\ x.seq \in accepted[q] =>
               x \in session'[q].reorder[x.channel] \/ x.order < session'[q].expected[x.channel]
  <2>1. CASE q = p
    BY <1>6, <2>1 DEF Packets
  <2>2. CASE q = o
    BY <1>2, <1>7, <2>2 DEF Packets
  <2> QED BY <1>2, <2>1, <2>2
<1> QED BY <1>5, <1>8 DEF Kept

------------------------------------------------------------------------------
(* Session::send.                                                          *)

\* The session after rawSend, field by field.
LEMMA AfterRawSendFacts ==
  ASSUME NEW s \in SessionSet
  PROVE  LET a == AfterRawSend(s) IN
         /\ a \in SessionSet
         /\ a.nextSeq = s.nextSeq /\ a.nextOrder = s.nextOrder /\ a.expected = s.expected
         /\ a.reorder = s.reorder /\ a.sent = s.sent /\ a.window = s.window /\ a.rich = s.rich
         /\ a.sinceAck = (IF s.window.received THEN 0 ELSE s.sinceAck)
         /\ a.unsentAck = FALSE /\ a.shouldClose = s.shouldClose
BY DEF AfterRawSend, SessionSet

\* What send does, field by field.
LEMMA SendFacts ==
  ASSUME Typed, Bounded, Numbered, NEW p \in Peers, NEW kind \in Kinds, NEW c \in Channels,
         Send(p, kind, c)
  PROVE  LET s == session[p]
             t == session'[p]
             f == Packet(s.nextSeq, kind, c, IF kind = "ordered" THEN s.nextOrder[c] ELSE 0)
         IN  /\ Stepped(p, t, {Datagram(s, f, {})}, f)
             /\ f.kind = kind /\ f.channel = c /\ f.seq = s.nextSeq
             /\ kind = "ordered" => f.order = s.nextOrder[c]
             /\ \A j \in Channels : t.nextOrder[j] =
                  IF j = c /\ kind = "ordered" THEN s.nextOrder[j] + 1 ELSE s.nextOrder[j]
             /\ t.expected = s.expected /\ t.reorder = s.reorder
             /\ t.window = s.window /\ t.rich = s.rich
             /\ s.sent \subseteq t.sent
             /\ kind # "unreliable" => [packet |-> f, retries |-> 0] \in t.sent
             /\ s.nextSeq < Len(Workload[p]) /\ s.nextSeq \in Nat
<1> DEFINE s == session[p]
           t == session'[p]
           order == IF kind = "ordered" THEN s.nextOrder[c] ELSE 0
           f == Packet(s.nextSeq, kind, c, order)
           x == [packet |-> f, retries |-> 0]
           a == AfterRawSend(s)
           out == {Datagram(s, f, {})}
<1>1. /\ s \in SessionSet /\ WindowOK(s.window) /\ session \in [Peers -> SessionSet]
      /\ s.nextSeq \in Nat /\ s.nextOrder \in [Channels -> Nat]
  BY DEF Typed, SessionSet
<1>2. /\ order \in Nat /\ f \in PacketSet /\ f.seq = s.nextSeq /\ f.kind = kind /\ f.channel = c
      /\ f.order = order
  BY <1>1 DEF Packet, PacketSet
<1>3. x \in [packet : PacketSet, retries : Nat] /\ x.packet = f /\ x.retries = 0
  <2> HIDE DEF f
  <2> QED BY <1>2
<1>4. t = [a EXCEPT !.nextSeq = @ + 1,
                    !.nextOrder[c] = IF kind = "ordered" THEN @ + 1 ELSE @,
                    !.sent = IF kind = "unreliable" THEN @ ELSE @ \cup {x}]
  BY <1>1 DEF Send
<1>5. /\ session' = [session EXCEPT ![p] = t] /\ net' = [net EXCEPT ![Other(p)] = @ \cup out]
      /\ s.nextSeq < Len(Workload[p])
  BY <1>1 DEF Send
<1>6. /\ a \in SessionSet
      /\ a.nextSeq = s.nextSeq /\ a.nextOrder = s.nextOrder /\ a.expected = s.expected
      /\ a.reorder = s.reorder /\ a.sent = s.sent /\ a.window = s.window /\ a.rich = s.rich
      /\ a.sinceAck = (IF s.window.received THEN 0 ELSE s.sinceAck)
  BY <1>1, AfterRawSendFacts
<1>7. f = Packet(s.nextSeq, kind, c, IF kind = "ordered" THEN s.nextOrder[c] ELSE 0)
  OBVIOUS
<1> HIDE DEF a, x
<1>8. /\ t \in SessionSet
      /\ t.nextSeq = a.nextSeq + 1
      /\ \A j \in Channels : t.nextOrder[j] =
           IF j = c /\ kind = "ordered" THEN a.nextOrder[j] + 1 ELSE a.nextOrder[j]
      /\ t.sent = (IF kind = "unreliable" THEN a.sent ELSE a.sent \cup {x})
      /\ t.expected = a.expected /\ t.reorder = a.reorder
      /\ t.window = a.window /\ t.rich = a.rich /\ t.sinceAck = a.sinceAck
  <2> HIDE DEF t, s, f, order
  <2>1. /\ a.nextSeq + 1 \in Nat /\ a.nextOrder \in [Channels -> Nat]
        /\ [a.nextOrder EXCEPT ![c] = IF kind = "ordered" THEN @ + 1 ELSE @] \in [Channels -> Nat]
        /\ (IF kind = "unreliable" THEN a.sent ELSE a.sent \cup {x})
             \in SUBSET [packet : PacketSet, retries : Nat]
    BY <1>3, <1>6 DEF SessionSet
  <2>2. t \in SessionSet
    BY <1>4, <1>6, <2>1 DEF SessionSet
  <2>3. t.nextOrder = [a.nextOrder EXCEPT ![c] = IF kind = "ordered" THEN @ + 1 ELSE @]
    BY <1>4, <1>6 DEF SessionSet
  <2>4. \A j \in Channels : t.nextOrder[j] =
          IF j = c /\ kind = "ordered" THEN a.nextOrder[j] + 1 ELSE a.nextOrder[j]
    BY <2>1, <2>3
  <2>5. t.sent = (IF kind = "unreliable" THEN a.sent ELSE a.sent \cup {x})
    BY <1>4, <1>6 DEF SessionSet
  <2>6. /\ t.nextSeq = a.nextSeq + 1 /\ t.expected = a.expected /\ t.reorder = a.reorder
        /\ t.window = a.window /\ t.rich = a.rich /\ t.sinceAck = a.sinceAck
    BY <1>4, <1>6 DEF SessionSet
  <2> QED BY <2>2, <2>4, <2>5, <2>6
<1>9. out \in SUBSET DatagramSet /\ PacketsOf(out) = {f} /\ \A d \in out : d.packet = f
  <2> HIDE DEF f
  <2>1. AcknowledgedIds(s.window) \in SUBSET Nat
    BY <1>1, AcknowledgedType
  <2> QED BY <1>2, <2>1 DEF Datagram, DatagramSet, PacketsOf
<1>10. t.sinceAck < AckThreshold
  <2>1. s.sinceAck < AckThreshold /\ 0 < AckThreshold
    BY BoundsAssumption DEF Bounded
  <2> QED BY <1>6, <1>8, <2>1
<1>11. t.nextSeq = s.nextSeq + 1 /\ t.nextSeq <= Len(Workload[p]) + AckIds[p]
  <2>1. Len(Workload[p]) \in Nat /\ AckIds[p] \in Nat
    BY WorkloadAssumption, BoundsAssumption, LenProperties
  <2> HIDE DEF s, t
  <2> QED BY <1>1, <1>5, <1>6, <1>8, <2>1
<1>12. \A e \in t.sent : /\ e.packet \in Packets(p) \/ (e.packet = f /\ f \in PacketsOf(out))
                         /\ e.retries <= MaxResend
  <2>1. \A e \in s.sent : e.packet \in Packets(p) /\ e.retries <= MaxResend
    BY DEF Numbered, Bounded
  <2>2. 0 <= MaxResend
    BY BoundsAssumption
  <2> HIDE DEF f, out, s, t
  <2> QED BY <1>3, <1>6, <1>8, <1>9, <2>1, <2>2
<1>13. t.window.ackId \in Ids /\ Range(t.window.history) \subseteq Ids /\ WindowOK(t.window)
  <2>1. s.window.ackId \in Ids /\ Range(s.window.history) \subseteq Ids
    BY DEF Bounded
  <2> HIDE DEF s, t
  <2> QED BY <1>1, <1>6, <1>8, <2>1
<1> HIDE DEF f, out, t
<1>14. Stepped(p, t, out, f)
  BY <1>2, <1>5, <1>8, <1>9, <1>10, <1>11, <1>12, <1>13 DEF Stepped
<1>15. /\ s.sent \subseteq t.sent
       /\ kind # "unreliable" => x \in t.sent
  BY <1>6, <1>8
<1>16. /\ \A j \in Channels : t.nextOrder[j] =
            IF j = c /\ kind = "ordered" THEN s.nextOrder[j] + 1 ELSE s.nextOrder[j]
       /\ t.expected = s.expected /\ t.reorder = s.reorder
       /\ t.window = s.window /\ t.rich = s.rich
  BY <1>6, <1>8
<1>17. kind = "ordered" => f.order = s.nextOrder[c]
  BY <1>2
<1> HIDE DEF s
<1> QED BY <1>1, <1>2, <1>5, <1>7, <1>14, <1>15, <1>16, <1>17 DEF s, t, x, out

\* An update of the list one peer keeps for one channel.
LEMMA FlowUpdated ==
  ASSUME NEW h \in [Peers -> [Channels -> Seq(Nat)]], NEW p \in Peers, NEW c \in Channels,
         NEW list \in Seq(Nat), NEW g, g = [h EXCEPT ![p][c] = list]
  PROVE  /\ g \in [Peers -> [Channels -> Seq(Nat)]] /\ g[p][c] = list
         /\ \A q \in Peers, j \in Channels : q # p \/ j # c => g[q][j] = h[q][j]
<1>1. h[p] \in [Channels -> Seq(Nat)]
  OBVIOUS
<1> DEFINE row == [h[p] EXCEPT ![c] = list]
<1>2. row \in [Channels -> Seq(Nat)] /\ row[c] = list /\ \A j \in Channels : j # c => row[j] = h[p][j]
  BY <1>1
<1>3. g = [h EXCEPT ![p] = row]
  OBVIOUS
<1> HIDE DEF row
<1> QED BY <1>2, <1>3

\* What send records of the packets submitted.
LEMMA SendSubmits ==
  ASSUME Typed, NEW p \in Peers, NEW kind \in Kinds, NEW c \in Channels, Send(p, kind, c)
  PROVE  LET n == Len(submitted[p][c]) IN
         /\ submitted' \in [Peers -> [Channels -> Seq(Nat)]]
         /\ \A q \in Peers, j \in Channels :
              q # p \/ j # c \/ kind # "ordered" => submitted'[q][j] = submitted[q][j]
         /\ n \in Nat
         /\ kind = "ordered" =>
              /\ submitted'[p][c] = Append(submitted[p][c], session[p].nextSeq)
              /\ Len(submitted'[p][c]) = n + 1 /\ submitted'[p][c][n + 1] = session[p].nextSeq
              /\ \A i \in 1..n : submitted'[p][c][i] = submitted[p][c][i]
<1> DEFINE old == submitted[p][c]
           new == IF kind = "ordered" THEN Append(old, session[p].nextSeq) ELSE old
<1>1. /\ submitted \in [Peers -> [Channels -> Seq(Nat)]] /\ old \in Seq(Nat)
      /\ session[p].nextSeq \in Nat
  BY DEF Typed, SessionSet
<1>2. Append(old, session[p].nextSeq) \in Seq(Nat) /\ new \in Seq(Nat) /\ Len(old) \in Nat
  BY <1>1, AppendProperties, LenProperties
<1>3. submitted' = [submitted EXCEPT ![p][c] = new]
  BY DEF Send
<1>4. /\ submitted' \in [Peers -> [Channels -> Seq(Nat)]] /\ submitted'[p][c] = new
      /\ \A q \in Peers, j \in Channels : q # p \/ j # c => submitted'[q][j] = submitted[q][j]
  <2> HIDE DEF new
  <2> QED BY <1>1, <1>2, <1>3, FlowUpdated
<1>5. kind # "ordered" => submitted'[p][c] = submitted[p][c]
  BY <1>4
<1>6. ASSUME kind = "ordered"
      PROVE  /\ submitted'[p][c] = Append(old, session[p].nextSeq)
             /\ Len(submitted'[p][c]) = Len(old) + 1
             /\ submitted'[p][c][Len(old) + 1] = session[p].nextSeq
             /\ \A i \in 1..Len(old) : submitted'[p][c][i] = old[i]
  <2>1. submitted'[p][c] = Append(old, session[p].nextSeq)
    BY <1>4, <1>6
  <2> HIDE DEF old
  <2> QED BY <1>1, <2>1, AppendProperties
<1> QED BY <1>2, <1>4, <1>5, <1>6

\* send preserves the inductive invariant.
LEMMA SendIInv ==
  ASSUME IInv, NEW p \in Peers, NEW kind \in Kinds, NEW c \in Channels, Send(p, kind, c)
  PROVE  IInv'
<1> DEFINE s == session[p]
           t == session'[p]
           o == Other(p)
           f == Packet(s.nextSeq, kind, c, IF kind = "ordered" THEN s.nextOrder[c] ELSE 0)
           out == {Datagram(s, f, {})}
<1>1. Typed /\ Bounded /\ Numbered /\ Received /\ Submitted /\ Handed /\ Kept /\ Acked
  BY DEF IInv
<1>2. /\ Stepped(p, t, out, f)
      /\ f.kind = kind /\ f.channel = c /\ f.seq = s.nextSeq
      /\ kind = "ordered" => f.order = s.nextOrder[c]
      /\ \A j \in Channels : t.nextOrder[j] =
           IF j = c /\ kind = "ordered" THEN s.nextOrder[j] + 1 ELSE s.nextOrder[j]
      /\ t.expected = s.expected /\ t.reorder = s.reorder
      /\ t.window = s.window /\ t.rich = s.rich
      /\ s.sent \subseteq t.sent
      /\ kind # "unreliable" => [packet |-> f, retries |-> 0] \in t.sent
      /\ s.nextSeq < Len(Workload[p]) /\ s.nextSeq \in Nat
  BY <1>1, SendFacts
<1>3. UNCHANGED <<handed, accepted, fullShift>>
  BY DEF Send
<1>4. PacketsOf(out) = {f} /\ \A d \in out : d.acks \subseteq Known(s.window) /\ d.rich = {}
  <2>1. WindowOK(s.window)
    BY <1>1 DEF Typed
  <2> HIDE DEF f
  <2> QED BY <2>1, AcknowledgedType DEF Datagram, PacketsOf
<1> HIDE DEF f, out
<1>5. o \in Peers /\ o # p /\ Other(o) = p /\ \A q \in Peers : q = p \/ q = o
  BY OtherPeer
<1>6. /\ session'[o] = session[o] /\ Packets(o)' = Packets(o)
      /\ Packets(p)' = Packets(p) \cup {f}
      /\ session' \in [Peers -> SessionSet] /\ net' \in [Peers -> SUBSET DatagramSet]
      /\ \A q \in Peers : WindowOK(session'[q].window)
  BY <1>1, <1>2, <1>4, SteppedFrame
<1>7. LET n == Len(submitted[p][c]) IN
      /\ submitted' \in [Peers -> [Channels -> Seq(Nat)]]
      /\ \A q \in Peers, j \in Channels :
           q # p \/ j # c \/ kind # "ordered" => submitted'[q][j] = submitted[q][j]
      /\ n \in Nat
      /\ kind = "ordered" =>
           /\ submitted'[p][c] = Append(submitted[p][c], session[p].nextSeq)
           /\ Len(submitted'[p][c]) = n + 1 /\ submitted'[p][c][n + 1] = session[p].nextSeq
           /\ \A i \in 1..n : submitted'[p][c][i] = submitted[p][c][i]
  BY <1>1, SendSubmits
<1>8. Typed'
  BY <1>1, <1>3, <1>6, <1>7 DEF Typed, WindowOK
<1>9. Bounded' /\ Numbered'
  BY <1>1, <1>2, SteppedBounded, SteppedNumbered
<1>10. Acked'
  <2>1. fullShift[p] \/ Known(s.window) \cup s.rich \subseteq accepted[p]
    BY <1>1 DEF Acked
  <2>2. fullShift[p] \/ Known(t.window) \cup t.rich \subseteq accepted[p]
    BY <1>2, <2>1
  <2>3. fullShift[p] \/ \A d \in out : d.acks \cup d.rich \subseteq accepted[p]
    BY <1>4, <2>1
  <2>4. fullShift[o] \/ \A x \in Packets(p) \cup PacketsOf(out) :
          x.kind \in ReliableKinds =>
            x.seq \in {e.packet.seq : e \in t.sent} \/ x.seq \in accepted[o]
    <3>1. fullShift[o] \/ \A x \in Packets(p) : x.kind \in ReliableKinds =>
            x.seq \in {e.packet.seq : e \in s.sent} \/ x.seq \in accepted[o]
      BY <1>1, <1>5 DEF Acked, Pending
    <3>2. f.kind \in ReliableKinds => f.seq \in {e.packet.seq : e \in t.sent}
      <4> SUFFICES ASSUME f.kind \in ReliableKinds PROVE [packet |-> f, retries |-> 0] \in t.sent
        OBVIOUS
      <4> QED BY <1>2 DEF ReliableKinds
    <3> HIDE DEF s, t
    <3> QED BY <1>2, <1>4, <3>1, <3>2
  <2> HIDE DEF t
  <2> QED BY <1>1, <1>2, <1>3, <2>2, <2>3, <2>4, SteppedAcked
<1>11. Kept' /\ Received'
  <2> HIDE DEF t
  <2> QED BY <1>1, <1>2, <1>3, SteppedKept
<1>12. \A q \in Peers, j \in Channels :
         /\ Len(submitted[q][j]) \in Nat
         /\ Len(submitted[q][j]) <= Len(submitted'[q][j])
         /\ \A i \in 1..Len(submitted[q][j]) : submitted'[q][j][i] = submitted[q][j][i]
  <2> SUFFICES ASSUME NEW q \in Peers, NEW j \in Channels
               PROVE  /\ Len(submitted[q][j]) \in Nat
                      /\ Len(submitted[q][j]) <= Len(submitted'[q][j])
                      /\ \A i \in 1..Len(submitted[q][j]) :
                           submitted'[q][j][i] = submitted[q][j][i]
    OBVIOUS
  <2>1. Len(submitted[q][j]) \in Nat
    BY <1>1, LenProperties DEF Typed
  <2>2. CASE q # p \/ j # c \/ kind # "ordered"
    BY <1>7, <2>1, <2>2
  <2>3. CASE q = p /\ j = c /\ kind = "ordered"
    BY <1>7, <2>1, <2>3
  <2> QED BY <2>1, <2>2, <2>3
<1>13. Handed'
  <2> HIDE DEF t
  <2> QED BY <1>1, <1>2, <1>3, <1>7, <1>12, SteppedHanded
<1>14. Submitted'
  <2>1. ASSUME NEW q \in Peers, NEW j \in Channels
        PROVE  /\ Len(submitted'[q][j]) = session'[q].nextOrder[j]
               /\ Workload[q] = << >> => submitted'[q][j] = << >>
    <3>1. /\ Len(submitted[q][j]) = session[q].nextOrder[j]
          /\ Workload[q] = << >> => submitted[q][j] = << >>
      BY <1>1 DEF Submitted
    <3>2. CASE q # p
      BY <1>5, <1>6, <1>7, <3>1, <3>2
    <3>3. CASE q = p
      <4>1. Workload[p] # << >>
        BY <1>2
      <4>2. CASE j = c /\ kind = "ordered"
        BY <1>2, <1>7, <3>1, <3>3, <4>1, <4>2
      <4>3. CASE ~(j = c /\ kind = "ordered")
        BY <1>2, <1>7, <3>1, <3>3, <4>1, <4>3
      <4> QED BY <4>2, <4>3
    <3> QED BY <3>2, <3>3
  <2>2. ASSUME NEW x \in Packets(o)', x.kind = "ordered"
        PROVE  /\ x.channel \in Channels
               /\ x.order < session'[o].nextOrder[x.channel]
               /\ submitted'[o][x.channel][x.order + 1] = x.seq
    <3>1. /\ x \in Packets(o) /\ session'[o].nextOrder = session[o].nextOrder
          /\ \A j \in Channels : submitted'[o][j] = submitted[o][j]
      BY <1>5, <1>6, <1>7, <2>2
    <3>2. /\ x.channel \in Channels
          /\ x.order < session[o].nextOrder[x.channel]
          /\ submitted[o][x.channel][x.order + 1] = x.seq
      BY <1>1, <1>5, <2>2, <3>1 DEF Submitted
    <3> HIDE DEF o
    <3> QED BY <3>1, <3>2
  <2>3. ASSUME NEW x \in Packets(p)', x.kind = "ordered"
        PROVE  /\ x.channel \in Channels
               /\ x.order < session'[p].nextOrder[x.channel]
               /\ submitted'[p][x.channel][x.order + 1] = x.seq
    <3>1. CASE x \in Packets(p)
      <4>1. /\ x.channel \in Channels
            /\ x.order < session[p].nextOrder[x.channel]
            /\ submitted[p][x.channel][x.order + 1] = x.seq
            /\ Len(submitted[p][x.channel]) = session[p].nextOrder[x.channel]
        BY <1>1, <2>3, <3>1 DEF Submitted
      <4>2. x.order \in Nat /\ session[p].nextOrder[x.channel] \in Nat
        BY <1>1, <3>1, <4>1, PacketType DEF PacketSet, Typed, SessionSet
      <4>3. x.order + 1 \in 1..Len(submitted[p][x.channel])
        BY <4>1, <4>2
      <4>4. submitted'[p][x.channel][x.order + 1] = x.seq
        BY <1>12, <4>1, <4>3
      <4>5. x.order < session'[p].nextOrder[x.channel]
        BY <1>2, <4>1, <4>2
      <4> QED BY <4>1, <4>4, <4>5
    <3>2. CASE x = f
      <4>1. Len(submitted[p][c]) = s.nextOrder[c] /\ s.nextOrder[c] \in Nat
        BY <1>1 DEF Submitted, Typed, SessionSet
      <4> HIDE DEF s, t
      <4>2. x.channel = c /\ x.order = s.nextOrder[c] /\ x.seq = s.nextSeq /\ kind = "ordered"
        BY <1>2, <2>3, <3>2
      <4>3. submitted'[p][c][x.order + 1] = s.nextSeq
        BY <1>7, <4>1, <4>2 DEF s
      <4>4. t.nextOrder[c] = s.nextOrder[c] + 1
        BY <1>2, <4>2
      <4> QED BY <4>1, <4>2, <4>3, <4>4 DEF t
    <3> QED BY <1>6, <2>3, <3>1, <3>2
  <2>4. ASSUME NEW q \in Peers
        PROVE  \A x \in Packets(q)' : x.kind = "ordered" =>
                 /\ x.channel \in Channels
                 /\ x.order < session'[q].nextOrder[x.channel]
                 /\ submitted'[q][x.channel][x.order + 1] = x.seq
    <3>1. CASE q = p
      BY <2>3, <3>1 DEF Packets
    <3>2. CASE q = o
      BY <2>2, <3>2 DEF Packets
    <3> QED BY <1>5, <3>1, <3>2
  <2> QED BY <2>1, <2>4 DEF Submitted
<1> QED BY <1>8, <1>9, <1>10, <1>11, <1>13, <1>14 DEF IInv

------------------------------------------------------------------------------
(* Steps that submit nothing: receptions, retransmissions, ACKs.           *)

\* Such a step numbers an internal packet, if any.
LEMMA SteppedSubmitted ==
  ASSUME Typed, Submitted, NEW p \in Peers, NEW t, NEW out, NEW f, Stepped(p, t, out, f),
         f.kind # "ordered", t.nextOrder = session[p].nextOrder, submitted' = submitted
  PROVE  Submitted'
<1> DEFINE o == Other(p)
<1>1. /\ session'[p] = t /\ session'[o] = session[o]
      /\ Packets(p)' = Packets(p) \cup PacketsOf(out) /\ Packets(o)' = Packets(o)
  BY SteppedFrame
<1>2. o \in Peers /\ \A q \in Peers : q = p \/ q = o
  BY OtherPeer
<1>3. \A x \in PacketsOf(out) : x \in Packets(p) \/ x = f
  BY DEF Stepped, PacketsOf
<1>4. \A q \in Peers : \A x \in Packets(q)' : x.kind = "ordered" => x \in Packets(q)
  <2>1. \A x \in Packets(p)' : x.kind = "ordered" => x \in Packets(p)
    BY <1>1, <1>3
  <2>2. \A x \in Packets(o)' : x.kind = "ordered" => x \in Packets(o)
    BY <1>1
  <2> QED BY <1>2, <2>1, <2>2 DEF Packets
<1>5. \A q \in Peers : session'[q].nextOrder = session[q].nextOrder
  BY <1>1, <1>2
<1> QED BY <1>4, <1>5 DEF Submitted

\* Such a step preserves the inductive invariant when it accepts nothing.
LEMMA SteppedQuietly ==
  ASSUME IInv, NEW p \in Peers, NEW t, NEW out, NEW f, Stepped(p, t, out, f),
         f.kind \notin ReliableKinds,
         t.nextOrder = session[p].nextOrder, t.expected = session[p].expected,
         t.reorder = session[p].reorder, t.window = session[p].window,
         UNCHANGED <<submitted, handed, accepted, fullShift>>,
         t.rich \subseteq Known(session[p].window) \cup session[p].rich,
         \A d \in out : d.acks \cup d.rich \subseteq Known(session[p].window) \cup session[p].rich,
         \A e \in session[p].sent :
           \/ e.packet.seq \in {x.packet.seq : x \in t.sent}
           \/ fullShift[Other(p)] \/ e.packet.seq \in accepted[Other(p)]
  PROVE  IInv'
<1> DEFINE s == session[p]
           o == Other(p)
<1>1. Typed /\ Bounded /\ Numbered /\ Received /\ Submitted /\ Handed /\ Kept /\ Acked
  BY DEF IInv
<1>2. /\ submitted' = submitted /\ handed' = handed /\ accepted' = accepted
      /\ fullShift' = fullShift
  OBVIOUS
<1>3. Typed'
  <2>1. /\ session' \in [Peers -> SessionSet] /\ net' \in [Peers -> SUBSET DatagramSet]
        /\ \A q \in Peers : WindowOK(session'[q].window)
    BY <1>1, SteppedFrame
  <2> QED BY <1>1, <1>2, <2>1 DEF Typed, WindowOK
<1>4. Bounded' /\ Numbered'
  BY <1>1, SteppedBounded, SteppedNumbered
<1>5. Kept' /\ Received'
  BY <1>1, <1>2, SteppedKept
<1>6. Submitted'
  BY <1>1, <1>2, SteppedSubmitted DEF ReliableKinds
<1>7. Handed'
  <2>1. submitted' \in [Peers -> [Channels -> Seq(Nat)]]
    BY <1>1, <1>2 DEF Typed
  <2>2. \A q \in Peers, c \in Channels : Len(submitted[q][c]) <= Len(submitted'[q][c])
    <3> SUFFICES ASSUME NEW q \in Peers, NEW c \in Channels
                 PROVE  Len(submitted[q][c]) \in Nat
      BY <1>2
    <3>1. submitted[q][c] \in Seq(Nat)
      BY <1>1 DEF Typed
    <3> QED BY <3>1, LenProperties
  <2> QED BY <1>1, <1>2, <2>1, <2>2, SteppedHanded
<1>8. Acked'
  <2>1. o \in Peers /\ Other(o) = p
    BY OtherPeer
  <2>2. fullShift[p] \/ Known(s.window) \cup s.rich \subseteq accepted[p]
    BY <1>1 DEF Acked
  <2>3. fullShift[p] \/ Known(t.window) \cup t.rich \subseteq accepted[p]
    BY <2>2
  <2>4. fullShift[p] \/ \A d \in out : d.acks \cup d.rich \subseteq accepted[p]
    BY <2>2
  <2>5. fullShift[o] \/ \A x \in Packets(p) : x.kind \in ReliableKinds =>
          x.seq \in {e.packet.seq : e \in s.sent} \/ x.seq \in accepted[o]
    BY <1>1, <2>1 DEF Acked, Pending
  <2>6. \A x \in PacketsOf(out) : x.kind \in ReliableKinds => x \in Packets(p)
    BY DEF Stepped, PacketsOf
  <2>7. fullShift[o] \/ \A x \in Packets(p) \cup PacketsOf(out) : x.kind \in ReliableKinds =>
          x.seq \in {e.packet.seq : e \in t.sent} \/ x.seq \in accepted[o]
    BY <2>5, <2>6
  <2> QED BY <1>1, <1>2, <2>3, <2>4, <2>7, SteppedAcked
<1> QED BY <1>3, <1>4, <1>5, <1>6, <1>7, <1>8 DEF IInv

\* The session after an ACK, field by field.
LEMMA AfterSendAckFacts ==
  ASSUME NEW s \in SessionSet
  PROVE  LET a == AfterSendAck(s) IN
         /\ a \in SessionSet
         /\ a.nextSeq = s.nextSeq + 1 /\ a.nextOrder = s.nextOrder /\ a.expected = s.expected
         /\ a.reorder = s.reorder /\ a.sent = s.sent /\ a.window = s.window /\ a.rich = {}
         /\ a.sinceAck = (IF s.window.received THEN 0 ELSE s.sinceAck)
         /\ a.unsentAck = FALSE /\ a.shouldClose = s.shouldClose
<1> DEFINE r == AfterRawSend(s)
<1>1. /\ r \in SessionSet
      /\ r.nextSeq = s.nextSeq /\ r.nextOrder = s.nextOrder /\ r.expected = s.expected
      /\ r.reorder = s.reorder /\ r.sent = s.sent /\ r.window = s.window /\ r.rich = s.rich
      /\ r.sinceAck = (IF s.window.received THEN 0 ELSE s.sinceAck)
      /\ r.unsentAck = FALSE /\ r.shouldClose = s.shouldClose
  BY AfterRawSendFacts
<1>2. AfterSendAck(s) = [r EXCEPT !.nextSeq = @ + 1, !.rich = {}]
  BY DEF AfterSendAck
<1> HIDE DEF r
<1>3. r.nextSeq + 1 \in Nat
  BY <1>1 DEF SessionSet
<1>4. AfterSendAck(s) \in SessionSet
  BY <1>1, <1>2, <1>3 DEF SessionSet
<1>5. AfterSendAck(s).nextSeq = s.nextSeq + 1 /\ AfterSendAck(s).rich = {}
  BY <1>1, <1>2 DEF SessionSet
<1>6. LET a == AfterSendAck(s) IN
      /\ a.nextOrder = r.nextOrder /\ a.expected = r.expected
      /\ a.reorder = r.reorder /\ a.sent = r.sent /\ a.window = r.window
      /\ a.sinceAck = r.sinceAck /\ a.unsentAck = r.unsentAck /\ a.shouldClose = r.shouldClose
  BY <1>1, <1>2 DEF SessionSet
<1> QED BY <1>1, <1>4, <1>5, <1>6

\* An ACK is not a reliable packet, and carries what the session remembers.
LEMMA AckDatagramFacts ==
  ASSUME NEW s \in SessionSet, WindowOK(s.window)
  PROVE  LET d == AckDatagram(s) IN
         /\ d \in DatagramSet /\ d.packet.seq = s.nextSeq
         /\ d.packet.kind \notin ReliableKinds
         /\ d.acks \subseteq Known(s.window) /\ d.rich = s.rich
<1> DEFINE kind == IF s.rich = {} THEN "ack" ELSE "rich"
           f == Packet(s.nextSeq, kind, SystemChannel, 0)
<1>1. AckDatagram(s) = [packet |-> f, acks |-> AcknowledgedIds(s.window), rich |-> s.rich]
  BY DEF AckDatagram, Datagram
<1>2. s.nextSeq \in Nat /\ s.rich \in SUBSET Nat
  BY DEF SessionSet
<1>3. f \in PacketSet /\ f.seq = s.nextSeq /\ f.kind \notin ReliableKinds
  BY <1>2 DEF Packet, PacketSet, ReliableKinds
<1>4. AcknowledgedIds(s.window) \in SUBSET Nat /\ AcknowledgedIds(s.window) \subseteq Known(s.window)
  BY AcknowledgedType
<1> HIDE DEF f
<1> QED BY <1>1, <1>2, <1>3, <1>4 DEF DatagramSet

\* The session after an acknowledgement, field by field.
LEMMA AcknowledgeFacts ==
  ASSUME NEW s \in SessionSet, NEW ids
  PROVE  LET a == Acknowledge(s, ids) IN
         /\ a \in SessionSet
         /\ a.nextSeq = s.nextSeq /\ a.nextOrder = s.nextOrder /\ a.expected = s.expected
         /\ a.reorder = s.reorder /\ a.window = s.window /\ a.rich = s.rich
         /\ a.sinceAck = s.sinceAck
         /\ a.sent = {e \in s.sent : e.packet.seq \notin ids}
<1> DEFINE left == {e \in s.sent : e.packet.seq \notin ids}
<1>1. left \in SUBSET [packet : PacketSet, retries : Nat]
  BY DEF SessionSet
<1>2. Acknowledge(s, ids) = [s EXCEPT !.sent = left]
  BY DEF Acknowledge
<1> HIDE DEF left
<1>3. Acknowledge(s, ids) \in SessionSet /\ Acknowledge(s, ids).sent = left
  BY <1>1, <1>2 DEF SessionSet
<1>4. LET a == Acknowledge(s, ids) IN
      /\ a.nextSeq = s.nextSeq /\ a.nextOrder = s.nextOrder /\ a.expected = s.expected
      /\ a.reorder = s.reorder /\ a.window = s.window /\ a.rich = s.rich
      /\ a.sinceAck = s.sinceAck
  BY <1>2 DEF SessionSet
<1> QED BY <1>3, <1>4 DEF left

\* What a datagram on its way to p tells p: who sent it, and that it is well formed.
LEMMA ArrivingDatagram ==
  ASSUME IInv, NEW p \in Peers, NEW d \in net[p]
  PROVE  /\ d \in DatagramSet /\ d.packet \in PacketSet /\ d.packet \in Packets(Other(p))
         /\ d.packet.seq \in Nat /\ d.packet.seq \in Ids
         /\ fullShift[Other(p)] \/ d.acks \cup d.rich \subseteq accepted[Other(p)]
<1> DEFINE o == Other(p)
<1>1. o \in Peers /\ Other(o) = p
  BY OtherPeer
<1>2. d \in DatagramSet /\ d.packet \in PacketSet
  BY DEF IInv, Typed, DatagramSet
<1>3. d.packet \in Packets(o)
  BY <1>1 DEF Packets
<1>4. d.packet.seq \in Nat
  BY <1>2 DEF PacketSet
<1>5. d.packet.seq < session[o].nextSeq
  BY <1>1, <1>3 DEF IInv, Numbered
<1>6. session[o].nextSeq \in Nat /\ session[o].nextSeq <= Len(Workload[o]) + AckIds[o]
  BY <1>1 DEF IInv, Bounded, Typed, SessionSet
<1>7. Len(Workload[o]) \in Nat /\ AckIds[o] \in Nat
  BY <1>1, WorkloadAssumption, BoundsAssumption, LenProperties
<1>8. d.packet.seq \in 0..(Len(Workload[o]) + AckIds[o])
  BY <1>4, <1>5, <1>6, <1>7
<1>9. d.packet.seq \in Ids
  BY <1>1, <1>8 DEF Ids
<1>10. fullShift[o] \/ d.acks \cup d.rich \subseteq accepted[o]
  BY <1>1 DEF IInv, Acked
<1> QED BY <1>2, <1>3, <1>4, <1>9, <1>10

\* Dropping a duplicate preserves the inductive invariant.
LEMMA DropIInv ==
  ASSUME IInv, NEW p \in Peers, NEW d \in net[p], DropDuplicate(p, d)
  PROVE  IInv'
<1> DEFINE s == session[p]
           t == session'[p]
           a == Acknowledge(s, d.acks)
           f == Packet(s.nextSeq, "ack", SystemChannel, 0)
<1>1. /\ s \in SessionSet /\ WindowOK(s.window) /\ session \in [Peers -> SessionSet]
      /\ net \in [Peers -> SUBSET DatagramSet]
  BY DEF IInv, Typed
<1>2. /\ d.packet.seq \in Nat
      /\ fullShift[Other(p)] \/ d.acks \subseteq accepted[Other(p)]
  BY ArrivingDatagram
<1>3. /\ IsDuplicate(s.window, d.packet.seq)
      /\ t = [a EXCEPT !.rich = @ \cup {d.packet.seq}, !.unsentAck = TRUE]
      /\ session' = [session EXCEPT ![p] = t]
      /\ UNCHANGED <<net, submitted, handed, accepted, fullShift>>
  BY <1>1 DEF DropDuplicate
<1>4. d.packet.seq \in Known(s.window)
  BY <1>1, <1>2, <1>3, DuplicateIsKnown
<1>5. /\ a \in SessionSet
      /\ a.nextSeq = s.nextSeq /\ a.nextOrder = s.nextOrder /\ a.expected = s.expected
      /\ a.reorder = s.reorder /\ a.window = s.window /\ a.rich = s.rich
      /\ a.sinceAck = s.sinceAck
      /\ a.sent = {e \in s.sent : e.packet.seq \notin d.acks}
  BY <1>1, AcknowledgeFacts
<1> HIDE DEF a
<1>6. /\ t \in SessionSet
      /\ t.nextSeq = s.nextSeq /\ t.nextOrder = s.nextOrder /\ t.expected = s.expected
      /\ t.reorder = s.reorder /\ t.window = s.window
      /\ t.rich = s.rich \cup {d.packet.seq} /\ t.sinceAck = s.sinceAck
      /\ t.sent = {e \in s.sent : e.packet.seq \notin d.acks}
  <2> HIDE DEF t, s
  <2>1. a.rich \cup {d.packet.seq} \in SUBSET Nat
    BY <1>2, <1>5 DEF SessionSet
  <2>2. t \in SessionSet
    BY <1>3, <1>5, <2>1 DEF SessionSet
  <2>3. t.rich = a.rich \cup {d.packet.seq}
    BY <1>3, <1>5 DEF SessionSet
  <2>4. /\ t.nextSeq = a.nextSeq /\ t.nextOrder = a.nextOrder /\ t.expected = a.expected
        /\ t.reorder = a.reorder /\ t.window = a.window /\ t.sinceAck = a.sinceAck
        /\ t.sent = a.sent
    BY <1>3, <1>5 DEF SessionSet
  <2> QED BY <1>5, <2>2, <2>3, <2>4
<1>7. Stepped(p, t, {}, f)
  <2>1. net' = [net EXCEPT ![Other(p)] = @ \cup {}]
    BY <1>1, <1>3
  <2>2. /\ s.nextSeq <= Len(Workload[p]) + AckIds[p]
        /\ s.window.ackId \in Ids /\ Range(s.window.history) \subseteq Ids
        /\ s.sinceAck < AckThreshold
        /\ \A e \in s.sent : e.retries <= MaxResend /\ e.packet \in Packets(p)
    BY DEF IInv, Bounded, Numbered
  <2>3. f.seq = s.nextSeq
    BY DEF Packet
  <2> HIDE DEF f, t, s
  <2> QED BY <1>1, <1>3, <1>6, <2>1, <2>2, <2>3 DEF Stepped, s
<1>8. f.kind \notin ReliableKinds
  BY DEF Packet, ReliableKinds
<1>9. \A e \in s.sent : \/ e.packet.seq \in {x.packet.seq : x \in t.sent}
                        \/ fullShift[Other(p)] \/ e.packet.seq \in accepted[Other(p)]
  <2> HIDE DEF t
  <2> QED BY <1>2, <1>6
<1>10. t.rich \subseteq Known(s.window) \cup s.rich
  BY <1>4, <1>6
<1>11. \A x \in {} : x.acks \cup x.rich \subseteq Known(s.window) \cup s.rich
  OBVIOUS
<1>12. submitted' = submitted /\ handed' = handed /\ accepted' = accepted /\ fullShift' = fullShift
  BY <1>3
<1> HIDE DEF t, f
<1> QED BY <1>6, <1>7, <1>8, <1>9, <1>10, <1>11, <1>12, SteppedQuietly

------------------------------------------------------------------------------
(* Session::update.                                                        *)

\* A retransmission counts, and neither adds nor removes a pending packet.
LEMMA ResentFacts ==
  ASSUME NEW s \in SessionSet, NEW due \in SUBSET s.sent,
         NEW resent \in SUBSET due, \A e \in resent : e.retries < MaxResend,
         \A e \in s.sent : e.retries <= MaxResend
  PROVE  LET left == Resent(s, resent) IN
         /\ left \in SUBSET [packet : PacketSet, retries : Nat]
         /\ \A e \in left : e.retries <= MaxResend /\ \E x \in s.sent : x.packet = e.packet
         /\ \A x \in s.sent : \E e \in left : e.packet = x.packet
<1>1. s.sent \in SUBSET [packet : PacketSet, retries : Nat]
  BY DEF SessionSet
<1>2. ASSUME NEW e \in resent
      PROVE  /\ [e EXCEPT !.retries = @ + 1] \in [packet : PacketSet, retries : Nat]
             /\ [e EXCEPT !.retries = @ + 1].packet = e.packet
             /\ [e EXCEPT !.retries = @ + 1].retries <= MaxResend
  <2>1. e \in [packet : PacketSet, retries : Nat] /\ e.retries < MaxResend
    BY <1>1
  <2>2. e.retries \in Nat /\ e.retries + 1 \in Nat /\ e.retries + 1 <= MaxResend
    BY <2>1, BoundsAssumption
  <2> QED BY <2>1, <2>2
<1> DEFINE again == {[e EXCEPT !.retries = @ + 1] : e \in resent}
<1>3. /\ again \in SUBSET [packet : PacketSet, retries : Nat]
      /\ \A y \in again : y.retries <= MaxResend /\ \E x \in s.sent : x.packet = y.packet
      /\ \A e \in resent : \E y \in again : y.packet = e.packet
  BY <1>2
<1>4. Resent(s, resent) = (s.sent \ resent) \cup again
  BY DEF Resent
<1> HIDE DEF again
<1> QED BY <1>1, <1>3, <1>4

\* update preserves the inductive invariant.
LEMMA UpdateIInv ==
  ASSUME IInv, NEW p \in Peers, NEW due \in SUBSET session[p].sent, NEW ackDue \in BOOLEAN,
         Update(p, due, ackDue)
  PROVE  IInv'
<1> DEFINE s == session[p]
           t == session'[p]
           dead == {e \in due : e.retries >= MaxResend}
           resent == {e \in due : \A x \in dead : e.packet.seq < x.packet.seq}
           sentOut == {Datagram(s, e.packet, {}) : e \in resent}
           base == IF resent = {} THEN s ELSE AfterRawSend(s)
           left == Resent(s, resent)
           looped == [base EXCEPT !.sent = left]
           acks == dead = {} /\ looped.unsentAck /\ ackDue
           out == sentOut \cup (IF acks THEN {AckDatagram(looped)} ELSE {})
           f == AckDatagram(looped).packet
<1>1. /\ s \in SessionSet /\ WindowOK(s.window) /\ session \in [Peers -> SessionSet]
      /\ net \in [Peers -> SUBSET DatagramSet] /\ s.nextSeq \in Nat
      /\ s.sent \in SUBSET [packet : PacketSet, retries : Nat]
  BY DEF IInv, Typed, SessionSet
<1>2. /\ s.nextSeq <= Len(Workload[p]) + AckIds[p]
      /\ s.window.ackId \in Ids /\ Range(s.window.history) \subseteq Ids
      /\ s.sinceAck < AckThreshold
      /\ \A e \in s.sent : e.retries <= MaxResend /\ e.packet \in Packets(p)
  BY DEF IInv, Bounded, Numbered
<1>3. /\ acks => s.nextSeq < AckIds[p]
      /\ session' = [session EXCEPT ![p] =
           IF dead # {} THEN [looped EXCEPT !.shouldClose = TRUE]
           ELSE IF acks THEN AfterSendAck(looped) ELSE looped]
      /\ net' = [net EXCEPT ![Other(p)] =
                   @ \cup sentOut \cup (IF acks THEN {AckDatagram(looped)} ELSE {})]
      /\ UNCHANGED <<submitted, handed, accepted, fullShift>>
  BY DEF Update
<1>4. /\ left \in SUBSET [packet : PacketSet, retries : Nat]
      /\ \A e \in left : e.retries <= MaxResend /\ \E x \in s.sent : x.packet = e.packet
      /\ \A x \in s.sent : \E e \in left : e.packet = x.packet
  <2>1. resent \in SUBSET due
    OBVIOUS
  <2>2. \A e \in resent : e.retries < MaxResend
    <3> SUFFICES ASSUME NEW e \in resent, ~(e.retries < MaxResend) PROVE FALSE
      OBVIOUS
    <3>1. e.packet.seq \in Nat /\ e.retries \in Nat
      BY <1>1 DEF PacketSet
    <3>2. e \in dead
      BY <3>1, BoundsAssumption
    <3>3. e.packet.seq < e.packet.seq
      BY <3>2
    <3> QED BY <3>1, <3>3
  <2>3. due \in SUBSET s.sent /\ \A e \in s.sent : e.retries <= MaxResend
    BY <1>2
  <2>4. left = Resent(s, resent)
    OBVIOUS
  <2> HIDE DEF left, resent, s
  <2> QED BY <1>1, <2>1, <2>2, <2>3, <2>4, ResentFacts
<1>5. /\ base \in SessionSet
      /\ base.nextSeq = s.nextSeq /\ base.nextOrder = s.nextOrder /\ base.expected = s.expected
      /\ base.reorder = s.reorder /\ base.window = s.window /\ base.rich = s.rich
      /\ base.sinceAck \in {0, s.sinceAck}
  <2> HIDE DEF resent, s
  <2> QED BY <1>1, AfterRawSendFacts
<1> HIDE DEF base, left
<1>6. /\ looped \in SessionSet /\ looped.sent = left
      /\ looped.nextSeq = s.nextSeq /\ looped.nextOrder = s.nextOrder
      /\ looped.expected = s.expected /\ looped.reorder = s.reorder
      /\ looped.window = s.window /\ looped.rich = s.rich
      /\ looped.sinceAck \in {0, s.sinceAck}
  <2>1. looped \in SessionSet /\ looped.sent = left
    BY <1>4, <1>5 DEF SessionSet
  <2>2. /\ looped.nextSeq = base.nextSeq /\ looped.nextOrder = base.nextOrder
        /\ looped.expected = base.expected /\ looped.reorder = base.reorder
        /\ looped.window = base.window /\ looped.rich = base.rich
        /\ looped.sinceAck = base.sinceAck
    BY <1>5 DEF SessionSet
  <2> HIDE DEF looped
  <2> QED BY <1>5, <2>1, <2>2
<1>7. /\ AckDatagram(looped) \in DatagramSet /\ f.seq = s.nextSeq
      /\ f.kind \notin ReliableKinds
      /\ AckDatagram(looped).acks \subseteq Known(s.window) /\ AckDatagram(looped).rich = s.rich
  <2> HIDE DEF looped
  <2> QED BY <1>1, <1>6, AckDatagramFacts
<1> HIDE DEF looped, f
<1>8. /\ t \in SessionSet /\ t.sent = left
      /\ t.nextSeq = (IF acks THEN s.nextSeq + 1 ELSE s.nextSeq)
      /\ t.nextOrder = s.nextOrder /\ t.expected = s.expected /\ t.reorder = s.reorder
      /\ t.window = s.window /\ t.rich \subseteq s.rich
      /\ t.sinceAck \in {0, s.sinceAck}
  <2>1. t = IF dead # {} THEN [looped EXCEPT !.shouldClose = TRUE]
            ELSE IF acks THEN AfterSendAck(looped) ELSE looped
    BY <1>1, <1>3
  <2> DEFINE closed == [looped EXCEPT !.shouldClose = TRUE]
  <2>2. CASE dead # {}
    <3>1. closed \in SessionSet
      BY <1>6 DEF SessionSet
    <3>2. /\ closed.sent = looped.sent /\ closed.nextSeq = looped.nextSeq
          /\ closed.nextOrder = looped.nextOrder /\ closed.expected = looped.expected
          /\ closed.reorder = looped.reorder /\ closed.window = looped.window
          /\ closed.rich = looped.rich /\ closed.sinceAck = looped.sinceAck
      BY <1>6 DEF SessionSet
    <3>3. t = closed /\ ~acks
      BY <2>1, <2>2
    <3> HIDE DEF closed, t, s, dead, acks
    <3> QED BY <1>6, <3>1, <3>2, <3>3
  <2>3. CASE dead = {} /\ acks
    <3>1. t = AfterSendAck(looped)
      BY <2>1, <2>3
    <3> HIDE DEF t, s, dead, acks
    <3> QED BY <1>6, <2>3, <3>1, AfterSendAckFacts
  <2>4. CASE dead = {} /\ ~acks
    <3>1. t = looped
      BY <2>1, <2>4
    <3> HIDE DEF t, s, dead, acks
    <3> QED BY <1>6, <2>4, <3>1
  <2> QED BY <2>2, <2>3, <2>4
<1>9. /\ out \in SUBSET DatagramSet
      /\ \A d \in out : d.acks \cup d.rich \subseteq Known(s.window) \cup s.rich
      /\ \A d \in out : d.packet \in Packets(p) \/ (d.packet = f /\ acks)
  <2>1. AcknowledgedIds(s.window) \in SUBSET Nat
          /\ AcknowledgedIds(s.window) \subseteq Known(s.window)
    BY <1>1, AcknowledgedType
  <2>2. ASSUME NEW e \in resent
        PROVE  LET d == Datagram(s, e.packet, {}) IN
               /\ d \in DatagramSet /\ d.acks \subseteq Known(s.window) /\ d.rich = {}
               /\ d.packet \in Packets(p)
    <3>1. e \in s.sent /\ e.packet \in PacketSet /\ e.packet \in Packets(p)
      BY <1>1, <1>2
    <3> HIDE DEF resent, s
    <3> QED BY <2>1, <3>1 DEF Datagram, DatagramSet
  <2>3. AckDatagram(looped).packet = f
    BY DEF f
  <2> HIDE DEF resent, acks
  <2>4. \A d \in sentOut : /\ d \in DatagramSet /\ d.acks \subseteq Known(s.window) /\ d.rich = {}
                           /\ d.packet \in Packets(p)
    BY <2>2
  <2> HIDE DEF sentOut, s
  <2> QED BY <1>7, <2>3, <2>4
<1>10. net' = [net EXCEPT ![Other(p)] = @ \cup out]
  <2>1. Other(p) \in Peers
          /\ net[Other(p)] \cup sentOut \cup (IF acks THEN {AckDatagram(looped)} ELSE {})
          = net[Other(p)] \cup out
    BY OtherPeer
  <2> QED BY <1>3, <2>1
<1>11. Stepped(p, t, out, f)
  <2>1. Len(Workload[p]) \in Nat /\ AckIds[p] \in Nat /\ AckThreshold \in Nat \ {0}
    BY WorkloadAssumption, BoundsAssumption, LenProperties
  <2>2. session' = [session EXCEPT ![p] = t]
    BY <1>1, <1>3
  <2>3. \A e \in t.sent : e.packet \in Packets(p) /\ e.retries <= MaxResend
    <3> HIDE DEF t, s
    <3> QED BY <1>2, <1>4, <1>8
  <2>4. t.sinceAck < AckThreshold
    <3> HIDE DEF t, s
    <3> QED BY <1>2, <1>8, <2>1
  <2>5. t.nextSeq \in {s.nextSeq, s.nextSeq + 1} /\ t.nextSeq <= Len(Workload[p]) + AckIds[p]
    <3>1. acks => s.nextSeq < AckIds[p]
      BY <1>3
    <3> HIDE DEF t, s, acks
    <3> QED BY <1>1, <1>2, <1>8, <2>1, <3>1
  <2>6. \A d \in out : d.packet \in Packets(p) \/ (d.packet = f /\ t.nextSeq = s.nextSeq + 1)
    <3> HIDE DEF t, s, acks, out
    <3> QED BY <1>8, <1>9
  <2> HIDE DEF t, out, acks, s
  <2> QED BY <1>1, <1>2, <1>7, <1>8, <1>9, <1>10, <2>2, <2>3, <2>4, <2>5, <2>6 DEF Stepped, s
<1>12. \A e \in s.sent : e.packet.seq \in {x.packet.seq : x \in t.sent}
  <2> HIDE DEF t, s
  <2> QED BY <1>4, <1>8
<1>13. t.rich \subseteq Known(s.window) \cup s.rich
  BY <1>8
<1>14. submitted' = submitted /\ handed' = handed /\ accepted' = accepted /\ fullShift' = fullShift
  BY <1>3
<1> HIDE DEF t, out
<1> QED BY <1>7, <1>8, <1>9, <1>11, <1>12, <1>13, <1>14, SteppedQuietly

------------------------------------------------------------------------------
(* Session::handleIncoming, a packet that is not a duplicate.              *)

\* The waiting packets that follow order id a without a gap.
Run(early, a) ==
  {e \in early : \A k \in (a + 1)..e.order : \E g \in early : g.order = k}

(***************************************************************************)
(* The run of waiting packets that follows order id a has one packet for   *)
(* each order id up to its length, and the next one does not wait.         *)
(***************************************************************************)
LEMMA RunFacts ==
  ASSUME NEW early, NEW a \in Nat, NEW m \in Nat,
         \A e \in early : e.order \in Nat /\ a < e.order /\ e.order < m,
         \A e, g \in early : e.order = g.order => e = g
  PROVE  LET r == Cardinality(Run(early, a)) IN
         /\ r \in Nat
         /\ \A i \in 1..r : \E e \in early : e.order = a + i
         /\ \A e \in early : e.order # a + r + 1
<1> DEFINE run == {e \in early : \A k \in (a + 1)..e.order : \E g \in early : g.order = k}
           orders == {e.order : e \in run}
           r == Cardinality(run)
           entry == [k \in orders |-> CHOOSE e \in run : e.order = k]
<1>1. orders \subseteq (a + 1)..m /\ IsFiniteSet(orders)
  <2>1. orders \subseteq (a + 1)..m
    OBVIOUS
  <2>2. IsFiniteSet((a + 1)..m)
    <3>1. a + 1 \in Int /\ m \in Int
      OBVIOUS
    <3> QED BY <3>1, FS_Interval
  <2> HIDE DEF orders
  <2> QED BY <2>1, <2>2, FS_Subset
<1>2. ExistsBijection(orders, run)
  <2>1. \A k \in orders : entry[k] \in run /\ entry[k].order = k
    OBVIOUS
  <2>2. \A e \in run : e.order \in orders /\ entry[e.order] = e
    <3> SUFFICES ASSUME NEW e \in run PROVE e.order \in orders /\ entry[e.order] = e
      OBVIOUS
    <3>1. e.order \in orders
      OBVIOUS
    <3>2. entry[e.order] \in early /\ entry[e.order].order = e.order /\ e \in early
      BY <2>1, <3>1
    <3> HIDE DEF entry, run, orders
    <3> QED BY <3>1, <3>2
  <2>3. entry \in [orders -> run]
    <3> HIDE DEF run, orders
    <3> QED BY <2>1
  <2> HIDE DEF entry, run, orders
  <2>4. entry \in Injection(orders, run)
    <3>1. \A k, l \in orders : entry[k] = entry[l] => k = l
      BY <2>1
    <3> QED BY <2>3, <3>1 DEF Injection, IsInjective
  <2>5. entry \in Surjection(orders, run)
    BY <2>2, <2>3 DEF Surjection
  <2>6. entry \in Bijection(orders, run)
    BY <2>4, <2>5 DEF Bijection
  <2> QED BY <2>6 DEF ExistsBijection
<1>3. r = Cardinality(orders) /\ r \in Nat
  <2> HIDE DEF orders, run
  <2> QED BY <1>1, <1>2, FS_Bijection, FS_CardinalityType
<1>4. \A e \in run : \A k \in (a + 1)..e.order : k \in orders
  <2> SUFFICES ASSUME NEW e \in run, NEW k \in (a + 1)..e.order PROVE k \in orders
    OBVIOUS
  <2>1. PICK g \in early : g.order = k
    OBVIOUS
  <2>2. e.order \in Nat /\ (a + 1)..g.order \subseteq (a + 1)..e.order
    BY <2>1
  <2>3. g \in run
    BY <2>2
  <2> QED BY <2>1, <2>3
<1>5. orders \subseteq (a + 1)..(a + r)
  <2> SUFFICES ASSUME NEW e \in run PROVE e.order \in (a + 1)..(a + r)
    OBVIOUS
  <2>1. e.order \in Nat /\ a < e.order
    OBVIOUS
  <2>2. (a + 1)..e.order \in SUBSET orders
    BY <1>4
  <2>3. Cardinality((a + 1)..e.order) = e.order - a
    <3> HIDE DEF run, orders
    <3>1. a + 1 \in Int /\ e.order \in Int /\ ~(a + 1 > e.order)
      BY <2>1
    <3>2. Cardinality((a + 1)..e.order) = e.order - (a + 1) + 1
      BY <3>1, FS_Interval
    <3> QED BY <2>1, <3>2
  <2> DEFINE below == (a + 1)..e.order
  <2> HIDE DEF run, orders, r, entry, below
  <2>4. Cardinality(below) <= Cardinality(orders)
    BY <1>1, <2>2, FS_Subset DEF below
  <2>5. e.order - a <= r
    BY <1>3, <2>3, <2>4 DEF below
  <2> QED BY <1>3, <2>1, <2>5
<1>6. orders = (a + 1)..(a + r)
  <2> HIDE DEF run, orders, r, entry
  <2>1. IsFiniteSet((a + 1)..(a + r)) /\ Cardinality((a + 1)..(a + r)) = r
    <3>1. a + 1 \in Int /\ a + r \in Int
      BY <1>3
    <3>2. Cardinality((a + 1)..(a + r)) = IF a + 1 > a + r THEN 0 ELSE (a + r) - (a + 1) + 1
      BY <3>1, FS_Interval
    <3> QED BY <1>3, <3>1, <3>2, FS_Interval
  <2> QED BY <1>3, <1>5, <2>1, FS_Subset
<1>7. \A i \in 1..r : \E e \in early : e.order = a + i
  <2> SUFFICES ASSUME NEW i \in 1..r PROVE a + i \in orders
    OBVIOUS
  <2> HIDE DEF run, orders, r, entry
  <2>1. r \in Nat
    BY <1>3
  <2>2. a + i \in (a + 1)..(a + r)
    BY <2>1
  <2> QED BY <1>6, <2>2
<1>8. ASSUME NEW e \in early, e.order = a + r + 1 PROVE FALSE
  <2>1. \A k \in (a + 1)..e.order : \E g \in early : g.order = k
    <3> SUFFICES ASSUME NEW k \in (a + 1)..e.order PROVE \E g \in early : g.order = k
      OBVIOUS
    <3>1. k \in orders \/ k = e.order
      <4> HIDE DEF run, orders, r, entry
      <4>1. r \in Nat
        BY <1>3
      <4>2. k \in (a + 1)..(a + r) \/ k = e.order
        BY <1>8, <4>1
      <4> QED BY <1>6, <4>2
    <3> QED BY <3>1
  <2>2. e.order \in orders
    BY <2>1
  <2> HIDE DEF run, orders, r, entry
  <2>3. r \in Nat
    BY <1>3
  <2>4. a + r + 1 \in (a + 1)..(a + r)
    BY <1>6, <1>8, <2>2
  <2> QED BY <2>3, <2>4
<1> HIDE DEF orders, entry
<1>9. r = Cardinality(Run(early, a))
  BY DEF Run
<1> HIDE DEF r
<1> QED BY <1>3, <1>7, <1>8, <1>9

(***************************************************************************)
(* What the ordered delivery hands up continues what was submitted on the  *)
(* channel, and is nothing exactly when the packet is not the expected one.*)
(***************************************************************************)
LEMMA InOrderFacts ==
  ASSUME IInv, NEW p \in Peers, NEW s \in SessionSet,
         s.expected = session[p].expected, s.reorder = session[p].reorder,
         NEW packet \in Packets(Other(p)), packet.kind = "ordered"
  PROVE  LET c == packet.channel
             ready == InOrder(s, packet)
             n == Len(ready)
             list == submitted[Other(p)][c]
         IN  /\ c \in Channels /\ packet.order \in Nat /\ s.expected[c] \in Nat
             /\ ready \in Seq(Nat) /\ n \in Nat /\ (n = 0 <=> packet.order # s.expected[c])
             /\ s.expected[c] + n <= Len(list)
             /\ \A i \in 1..n : ready[i] = list[s.expected[c] + i]
             /\ \A e \in s.reorder[c] : e.order # s.expected[c] + n
<1> DEFINE o == Other(p)
           c == packet.channel
           early == s.reorder[c]
           a == packet.order
           list == submitted[o][c]
           At(k) == CHOOSE e \in early : e.order = k
           run == Run(early, a)
           r == Cardinality(run)
           rest == [i \in 1..r |-> At(a + i).seq]
<1>1. o \in Peers /\ Typed /\ Numbered /\ Submitted /\ Handed
  BY OtherPeer DEF IInv
<1>2. /\ c \in Channels /\ a < session[o].nextOrder[c] /\ list[a + 1] = packet.seq
      /\ Len(list) = session[o].nextOrder[c]
  BY <1>1 DEF Submitted
<1>3. /\ a \in Nat /\ packet.seq \in Nat /\ session[o].nextOrder[c] \in Nat
      /\ s.expected[c] \in Nat /\ list \in Seq(Nat)
  <2>1. packet \in PacketSet
    BY <1>1, PacketType
  <2>2. s.expected[c] \in Nat
    BY <1>2 DEF SessionSet
  <2>3. session[o].nextOrder[c] \in Nat /\ list \in Seq(Nat)
    BY <1>1, <1>2 DEF Typed, SessionSet
  <2> QED BY <2>1, <2>2, <2>3 DEF PacketSet
<1>4. /\ s.expected[c] <= Len(list)
      /\ \A e \in early : /\ e \in Packets(o) /\ e.kind = "ordered" /\ e.channel = c
                          /\ s.expected[c] < e.order
  <2>1. /\ session[p].expected[c] <= Len(list)
        /\ \A e \in session[p].reorder[c] :
             /\ e \in Packets(o) /\ e.kind = "ordered" /\ e.channel = c
             /\ e.order > session[p].expected[c]
    BY <1>1, <1>2 DEF Handed
  <2>2. \A e \in Packets(o) : e.order \in Nat
    BY <1>1, PacketType DEF PacketSet
  <2> QED BY <1>3, <2>1, <2>2
<1>5. \A e \in early : /\ e.order \in Nat /\ e.order < Len(list) /\ e.seq \in Nat
                       /\ list[e.order + 1] = e.seq
  <2>1. \A e \in early : e.order \in Nat /\ e.seq \in Nat
    BY <1>1, <1>4, PacketType DEF PacketSet
  <2>2. \A e \in early : e.order < session[o].nextOrder[c] /\ list[e.order + 1] = e.seq
    BY <1>1, <1>4 DEF Submitted
  <2> HIDE DEF early, list
  <2> QED BY <1>2, <2>1, <2>2
<1>6. CASE a # s.expected[c]
  <2>1. InOrder(s, packet) = << >>
    BY <1>6 DEF InOrder
  <2>2. InOrder(s, packet) \in Seq(Nat) /\ Len(InOrder(s, packet)) = 0
    BY <2>1, EmptySeq
  <2> HIDE DEF c, early, list
  <2>3. \A e \in early : e.order # s.expected[c] + 0
    BY <1>3, <1>4, <1>5
  <2> QED BY <1>2, <1>3, <1>4, <1>6, <2>2, <2>3 DEF early, c, list
<1>7. CASE a = s.expected[c]
  <2>1. /\ r \in Nat
        /\ \A i \in 1..r : \E e \in early : e.order = a + i
        /\ \A e \in early : e.order # a + r + 1
    <3>1. \A e \in early : e.order \in Nat /\ a < e.order /\ e.order < Len(list)
      BY <1>4, <1>5, <1>7
    <3>2. \A e, g \in early : e.order = g.order => e = g
      BY <1>1, <1>4, <1>5 DEF Numbered
    <3>3. Len(list) \in Nat
      BY <1>2, <1>3
    <3> DEFINE m == Len(list)
    <3> HIDE DEF early, a, m, At, rest
    <3> QED BY <1>3, <3>1, <3>2, <3>3, RunFacts DEF m
  <2>a. r \in Nat /\ a \in Nat
    BY <1>3, <2>1
  <2>2. \A i \in 1..r : At(a + i) \in early /\ At(a + i).order = a + i
    BY <2>1
  <2> HIDE DEF early, list, run, At, r
  <2>3. \A i \in 1..r : /\ a + i < Len(list) /\ At(a + i).seq \in Nat
                        /\ At(a + i).seq = list[a + i + 1]
    BY <1>5, <2>2
  <2>4. /\ rest \in Seq(Nat) /\ Len(rest) = r
        /\ \A i \in 1..r : rest[i] = list[a + i + 1]
    <3>1. rest \in [1..r -> Nat]
      BY <2>3
    <3>2. rest \in Seq(Nat)
      BY <2>1, <3>1
    <3>3. Len(rest) = r
      BY <2>1, <3>1, <3>2, LenProperties
    <3> QED BY <2>3, <3>2, <3>3
  <2>5. InOrder(s, packet) = <<packet.seq>> \o rest
    BY <1>7 DEF InOrder, Run, early, run, r, At
  <2> HIDE DEF rest
  <2>6. <<packet.seq>> \in Seq(Nat) /\ Len(<<packet.seq>>) = 1 /\ <<packet.seq>>[1] = packet.seq
    BY <1>3
  <2> DEFINE ready == InOrder(s, packet)
  <2>7. /\ ready \in Seq(Nat) /\ Len(ready) = 1 + r
        /\ \A i \in 1..(1 + r) : ready[i] = IF i <= 1 THEN <<packet.seq>>[i] ELSE rest[i - 1]
    BY <2>4, <2>5, <2>6, ConcatProperties
  <2>8. \A i \in 1..(1 + r) : ready[i] = list[a + i]
    <3> SUFFICES ASSUME NEW i \in 1..(1 + r) PROVE ready[i] = list[a + i]
      OBVIOUS
    <3>1. CASE i = 1
      BY <1>2, <2>1, <2>6, <2>7, <3>1 DEF list
    <3>2. CASE i # 1
      <4>1. i - 1 \in 1..r /\ a + (i - 1) + 1 = a + i /\ ~(i <= 1)
        <5> HIDE DEF a, r
        <5> QED BY <2>a, <3>2
      <4> QED BY <2>4, <2>7, <4>1
    <3> QED BY <3>1, <3>2
  <2>9. a + (1 + r) <= Len(list)
    <3>1. Len(list) \in Nat /\ a < Len(list)
      BY <1>2, <1>3 DEF list
    <3>2. CASE r = 0
      BY <1>3, <3>1, <3>2
    <3>3. CASE r # 0
      <4>1. r \in 1..r
        BY <2>1, <3>3
      <4> QED BY <1>3, <2>1, <2>3, <3>1, <4>1
    <3> QED BY <3>2, <3>3
  <2>10. \A e \in early : e.order # a + (1 + r)
    <3>1. a + (1 + r) = a + r + 1
      <4> HIDE DEF a, r
      <4> QED BY <2>a
    <3> QED BY <2>1, <3>1
  <2> HIDE DEF ready
  <2>11. Len(ready) \in Nat /\ Len(ready) # 0
    BY <2>1, <2>7
  <2> HIDE DEF a, c
  <2> QED BY <1>2, <1>3, <1>7, <2>7, <2>8, <2>9, <2>10, <2>11 DEF early, list, ready, c, a
<1> QED BY <1>6, <1>7

\* The session after the window update, and after the ACK that the threshold may force.
Counted(s, ids, w) ==
  [Acknowledge(s, ids) EXCEPT !.window = w, !.unsentAck = TRUE, !.sinceAck = @ + 1]

Full(s) == s.sinceAck >= AckThreshold

AfterCount(s) == IF Full(s) THEN AfterSendAck(s) ELSE s

\* Field by field: an ACK restarts the count, so the threshold is never passed.
LEMMA CountedFacts ==
  ASSUME NEW s \in SessionSet, s.sinceAck < AckThreshold, NEW ids, NEW w \in Window, w.received
  PROVE  LET c == Counted(s, ids, w)
             a == AfterCount(c)
         IN  /\ c \in SessionSet /\ c.window = w /\ c.rich = s.rich /\ c.nextSeq = s.nextSeq
             /\ a \in SessionSet /\ a.window = w
             /\ a.nextSeq = (IF Full(c) THEN s.nextSeq + 1 ELSE s.nextSeq)
             /\ a.nextOrder = s.nextOrder /\ a.expected = s.expected /\ a.reorder = s.reorder
             /\ a.sent = {e \in s.sent : e.packet.seq \notin ids}
             /\ a.rich \subseteq s.rich
             /\ a.sinceAck < AckThreshold
<1> DEFINE k == Acknowledge(s, ids)
           c == Counted(s, ids, w)
           a == AfterCount(c)
<1>1. /\ k \in SessionSet
      /\ k.nextSeq = s.nextSeq /\ k.nextOrder = s.nextOrder /\ k.expected = s.expected
      /\ k.reorder = s.reorder /\ k.window = s.window /\ k.rich = s.rich
      /\ k.sinceAck = s.sinceAck
      /\ k.sent = {e \in s.sent : e.packet.seq \notin ids}
  BY AcknowledgeFacts
<1>2. c = [k EXCEPT !.window = w, !.unsentAck = TRUE, !.sinceAck = @ + 1]
  BY DEF Counted
<1> HIDE DEF k, c
<1>3. k.sinceAck + 1 \in Nat
  BY <1>1 DEF SessionSet
<1>4. c \in SessionSet /\ c.window = w
  BY <1>1, <1>2, <1>3 DEF SessionSet
<1>5. /\ c.nextSeq = k.nextSeq /\ c.nextOrder = k.nextOrder /\ c.expected = k.expected
      /\ c.reorder = k.reorder /\ c.rich = k.rich /\ c.sent = k.sent
  BY <1>1, <1>2 DEF SessionSet
<1>6. CASE Full(c)
  <2>1. a = AfterSendAck(c) /\ AckThreshold \in Nat \ {0}
    BY <1>6, BoundsAssumption DEF AfterCount
  <2>2. /\ a \in SessionSet
        /\ a.nextSeq = c.nextSeq + 1 /\ a.nextOrder = c.nextOrder /\ a.expected = c.expected
        /\ a.reorder = c.reorder /\ a.sent = c.sent /\ a.window = c.window /\ a.rich = {}
        /\ a.sinceAck = (IF c.window.received THEN 0 ELSE c.sinceAck)
    BY <1>4, <2>1, AfterSendAckFacts
  <2> HIDE DEF a
  <2>3. a.sinceAck < AckThreshold /\ a.nextSeq = s.nextSeq + 1
    BY <1>1, <1>4, <1>5, <2>1, <2>2
  <2>4. a.sent = {e \in s.sent : e.packet.seq \notin ids}
    BY <1>1, <1>5, <2>2
  <2> QED BY <1>1, <1>4, <1>5, <1>6, <2>2, <2>3, <2>4 DEF a, c
<1>7. CASE ~Full(c)
  <2>1. a = c
    BY <1>7 DEF AfterCount
  <2>2. c.sinceAck < AckThreshold
    <3>1. c.sinceAck \in Nat /\ AckThreshold \in Nat
      BY <1>4, BoundsAssumption DEF SessionSet
    <3> QED BY <1>7, <3>1 DEF Full
  <2>3. c.sent = {e \in s.sent : e.packet.seq \notin ids}
    BY <1>1, <1>5
  <2> HIDE DEF a
  <2> QED BY <1>1, <1>4, <1>5, <1>7, <2>1, <2>2, <2>3 DEF a, c
<1> QED BY <1>6, <1>7

\* The buffer of the packet's channel before the next expected packets leave it.
Early(s, packet) ==
  LET c == packet.channel IN
  IF packet.order > s.expected[c]
    THEN {e \in s.reorder[c] : e.order # packet.order} \cup {packet}
    ELSE s.reorder[c]

\* What is left of it when n packets were handed up.
Waiting(s, packet, n) ==
  {e \in Early(s, packet) : e.order >= s.expected[packet.channel] + n}

\* The ordering state, field by field: only the packet's channel moves.
LEMMA AfterOrderingFacts ==
  ASSUME NEW s \in SessionSet, NEW packet \in PacketSet, packet.channel \in Channels,
         NEW n \in Nat
  PROVE  LET t == AfterOrdering(s, packet, n)
             c == packet.channel
         IN  /\ t \in SessionSet
             /\ t.nextSeq = s.nextSeq /\ t.nextOrder = s.nextOrder /\ t.sent = s.sent
             /\ t.window = s.window /\ t.rich = s.rich /\ t.sinceAck = s.sinceAck
             /\ t.expected[c] = s.expected[c] + n
             /\ t.reorder[c] = Waiting(s, packet, n)
             /\ \A j \in Channels \ {c} :
                  t.expected[j] = s.expected[j] /\ t.reorder[j] = s.reorder[j]
<1> DEFINE t == AfterOrdering(s, packet, n)
           c == packet.channel
           next == s.expected[c] + n
           left == Waiting(s, packet, n)
<1>1. /\ s.expected \in [Channels -> Nat] /\ s.reorder \in [Channels -> SUBSET PacketSet]
      /\ c \in Channels
  BY DEF SessionSet
<1>2. next \in Nat
  BY <1>1
<1>3. Early(s, packet) \in SUBSET PacketSet
  BY <1>1 DEF Early
<1>4. left \in SUBSET PacketSet
  BY <1>3 DEF Waiting
<1>5. t = [s EXCEPT !.expected[c] = next, !.reorder[c] = left]
  BY DEF AfterOrdering, Early, Waiting
<1> HIDE DEF t, next, left, c
<1> DEFINE exp == [s.expected EXCEPT ![c] = next]
           buf == [s.reorder EXCEPT ![c] = left]
<1>6. /\ exp \in [Channels -> Nat] /\ exp[c] = next
      /\ \A j \in Channels \ {c} : exp[j] = s.expected[j]
  BY <1>1, <1>2
<1>7. /\ buf \in [Channels -> SUBSET PacketSet] /\ buf[c] = left
      /\ \A j \in Channels \ {c} : buf[j] = s.reorder[j]
  BY <1>1, <1>4
<1>8. t = [s EXCEPT !.expected = exp, !.reorder = buf]
  BY <1>5
<1> HIDE DEF exp, buf
<1>9. t \in SessionSet /\ t.expected = exp /\ t.reorder = buf
  BY <1>6, <1>7, <1>8 DEF SessionSet
<1>10. /\ t.nextSeq = s.nextSeq /\ t.nextOrder = s.nextOrder /\ t.sent = s.sent
       /\ t.window = s.window /\ t.rich = s.rich /\ t.sinceAck = s.sinceAck
  BY <1>8 DEF SessionSet
<1> QED BY <1>6, <1>7, <1>9, <1>10 DEF t, c, next, left

\* What handleIncoming hands up, the ACK it sends, and the session it leaves.
Ready(s, packet) == IF packet.kind = "ordered" THEN InOrder(s, packet) ELSE << >>

AckOut(s) == IF Full(s) THEN {AckDatagram(s)} ELSE {}

Processed(s, d) ==
  IF d.packet.kind = "rich" THEN Acknowledge(s, d.rich)
  ELSE IF d.packet.kind = "ordered" THEN AfterOrdering(s, d.packet, Len(Ready(s, d.packet)))
  ELSE s

\* The step for the window w that updateAcknowledgeInfo leaves.
Taken(p, d, w) ==
  LET c == Counted(session[p], d.acks, w)
      a == AfterCount(c)
  IN  /\ Full(c) => session[p].nextSeq < AckIds[p]
      /\ net' = [net EXCEPT ![Other(p)] = @ \cup AckOut(c)]
      /\ session' = [session EXCEPT ![p] = Processed(a, d)]
      /\ handed' = [handed EXCEPT ![p][d.packet.channel] = @ \o Ready(a, d.packet)]

\* AcceptPacket in these terms.
LEMMA AcceptShape ==
  ASSUME IInv, NEW p \in Peers, NEW d \in net[p], AcceptPacket(p, d)
  PROVE  /\ ~IsDuplicate(session[p].window, d.packet.seq)
         /\ \E w \in UpdateAcknowledgeInfo(session[p].window, d.packet.seq) : Taken(p, d, w)
         /\ accepted' = [accepted EXCEPT ![p] = @ \cup {d.packet.seq}]
         /\ fullShift' = [fullShift EXCEPT ![p] =
              @ \/ (session[p].window.received /\ d.packet.seq - session[p].window.ackId = Width)]
         /\ submitted' = submitted
<1> DEFINE s == session[p]
           packet == d.packet
<1>1. PICK w \in UpdateAcknowledgeInfo(s.window, packet.seq) :
        LET counted == [Acknowledge(s, d.acks) EXCEPT
                          !.window = w, !.unsentAck = TRUE, !.sinceAck = @ + 1]
            full == counted.sinceAck >= AckThreshold
            acked == IF full THEN AfterSendAck(counted) ELSE counted
            ready == IF packet.kind = "ordered" THEN InOrder(acked, packet) ELSE << >>
        IN  /\ full => s.nextSeq < AckIds[p]
            /\ net' = IF full THEN [net EXCEPT ![Other(p)] = @ \cup {AckDatagram(counted)}] ELSE net
            /\ session' = [session EXCEPT ![p] =
                 CASE packet.kind = "rich"    -> Acknowledge(acked, d.rich)
                   [] packet.kind = "ordered" -> AfterOrdering(acked, packet, Len(ready))
                   [] OTHER                   -> acked]
            /\ handed' = [handed EXCEPT ![p][packet.channel] = @ \o ready]
  BY DEF AcceptPacket
<1> DEFINE c == Counted(s, d.acks, w)
           a == AfterCount(c)
<1>2. /\ Full(c) => s.nextSeq < AckIds[p]
      /\ net' = IF Full(c) THEN [net EXCEPT ![Other(p)] = @ \cup {AckDatagram(c)}] ELSE net
      /\ session' = [session EXCEPT ![p] =
           CASE packet.kind = "rich"    -> Acknowledge(a, d.rich)
             [] packet.kind = "ordered" -> AfterOrdering(a, packet, Len(Ready(a, packet)))
             [] OTHER                   -> a]
      /\ handed' = [handed EXCEPT ![p][packet.channel] = @ \o Ready(a, packet)]
  BY <1>1 DEF Counted, AfterCount, Full, Ready
<1> HIDE DEF c, a
<1>3. net' = [net EXCEPT ![Other(p)] = @ \cup AckOut(c)]
  <2>1. net \in [Peers -> SUBSET DatagramSet] /\ Other(p) \in Peers
    BY OtherPeer DEF IInv, Typed
  <2>2. CASE Full(c)
    BY <1>2, <2>2 DEF AckOut
  <2>3. CASE ~Full(c)
    BY <1>2, <2>1, <2>3 DEF AckOut
  <2> QED BY <2>2, <2>3
<1>4. (CASE packet.kind = "rich"    -> Acknowledge(a, d.rich)
         [] packet.kind = "ordered" -> AfterOrdering(a, packet, Len(Ready(a, packet)))
         [] OTHER                   -> a) = Processed(a, d)
  <2>1. CASE packet.kind = "rich"
    BY <2>1 DEF Processed
  <2>2. CASE packet.kind = "ordered"
    BY <2>2 DEF Processed
  <2>3. CASE packet.kind # "rich" /\ packet.kind # "ordered"
    BY <2>3 DEF Processed
  <2> QED BY <2>1, <2>2, <2>3
<1>5. session' = [session EXCEPT ![p] = Processed(a, d)]
  BY <1>2, <1>4
<1>6. Taken(p, d, w)
  BY <1>2, <1>3, <1>5 DEF Taken, c, a
<1> QED BY <1>6 DEF AcceptPacket

\* The window that is left is well formed and knows nothing new but the packet.
LEMMA WindowUpdated ==
  ASSUME IInv, NEW p \in Peers, NEW d \in net[p], AcceptPacket(p, d),
         NEW w \in UpdateAcknowledgeInfo(session[p].window, d.packet.seq)
  PROVE  /\ w \in Window /\ WindowOK(w) /\ w.received
         /\ w.ackId \in Ids /\ Range(w.history) \subseteq Ids
         /\ fullShift'[p] \/ Known(w) \subseteq Known(session[p].window) \cup {d.packet.seq}
<1> DEFINE s == session[p]
           q == d.packet.seq
<1>1. WindowOK(s.window) /\ s.window.ackId \in Ids /\ Range(s.window.history) \subseteq Ids
  BY DEF IInv, Typed, Bounded
<1>2. q \in Nat /\ q \in Ids
  BY ArrivingDatagram
<1>3. /\ ~IsDuplicate(s.window, q)
      /\ fullShift' = [fullShift EXCEPT ![p] = @ \/ (s.window.received /\ q - s.window.ackId = Width)]
      /\ fullShift \in [Peers -> BOOLEAN]
  BY AcceptShape DEF IInv, Typed
<1> HIDE DEF s, q
<1>4. Updated(s.window, q, w)
  BY <1>1, <1>2, <1>3, UpdateCorrect DEF s, q
<1>5. /\ WindowOK(w) /\ w.received /\ w.ackId \in {s.window.ackId, q}
      /\ Range(w.history) \subseteq Range(s.window.history) \cup (0..s.window.ackId) \cup {q}
      /\ (s.window.received /\ q - s.window.ackId = Width)
           \/ Known(w) \subseteq Known(s.window) \cup {q}
  BY <1>4 DEF Updated
<1>6. 0..s.window.ackId \subseteq Ids
  <2>1. PICK o \in Peers : s.window.ackId \in 0..(Len(Workload[o]) + AckIds[o])
    BY <1>1 DEF Ids
  <2>2. Len(Workload[o]) \in Nat /\ AckIds[o] \in Nat
    BY WorkloadAssumption, BoundsAssumption, LenProperties
  <2>3. 0..s.window.ackId \subseteq 0..(Len(Workload[o]) + AckIds[o])
    BY <2>1, <2>2
  <2> QED BY <2>3 DEF Ids
<1>7. fullShift'[p] \/ Known(w) \subseteq Known(s.window) \cup {q}
  BY <1>3, <1>5
<1>8. w.ackId \in Ids /\ Range(w.history) \subseteq Ids
  BY <1>1, <1>2, <1>5, <1>6
<1> QED BY <1>5, <1>7, <1>8 DEF s, q, WindowOK

\* The session that is left, field by field.
LEMMA ProcessedFacts ==
  ASSUME IInv, NEW p \in Peers, NEW d \in net[p], AcceptPacket(p, d),
         NEW w \in UpdateAcknowledgeInfo(session[p].window, d.packet.seq)
  PROVE  LET s == session[p]
             c == Counted(s, d.acks, w)
             a == AfterCount(c)
             t == Processed(a, d)
             n == Len(Ready(a, d.packet))
             j == d.packet.channel
         IN  /\ c \in SessionSet /\ c.window = w /\ c.rich = s.rich /\ c.nextSeq = s.nextSeq
             /\ a \in SessionSet /\ a.expected = s.expected /\ a.reorder = s.reorder
             /\ t \in SessionSet /\ t.window = w /\ t.nextOrder = s.nextOrder
             /\ t.nextSeq = (IF Full(c) THEN s.nextSeq + 1 ELSE s.nextSeq)
             /\ t.rich \subseteq s.rich /\ t.sinceAck < AckThreshold
             /\ t.sent \subseteq s.sent
             /\ \A e \in s.sent : e \in t.sent \/ e.packet.seq \in d.acks \cup d.rich
             /\ d.packet.kind # "ordered" => t.expected = s.expected /\ t.reorder = s.reorder
             /\ d.packet.kind = "ordered" =>
                  /\ t.expected[j] = s.expected[j] + n
                  /\ t.reorder[j] = Waiting(s, d.packet, n)
                  /\ \A i \in Channels \ {j} :
                       t.expected[i] = s.expected[i] /\ t.reorder[i] = s.reorder[i]
<1> DEFINE s == session[p]
           c == Counted(s, d.acks, w)
           a == AfterCount(c)
           t == Processed(a, d)
           n == Len(Ready(a, d.packet))
           j == d.packet.channel
<1>1. s \in SessionSet /\ s.sinceAck < AckThreshold
  BY DEF IInv, Typed, Bounded
<1>2. w \in Window /\ w.received
  BY WindowUpdated
<1>3. d.packet \in PacketSet /\ d.packet \in Packets(Other(p))
  BY ArrivingDatagram
<1>4. /\ c \in SessionSet /\ c.window = w /\ c.rich = s.rich /\ c.nextSeq = s.nextSeq
      /\ a \in SessionSet /\ a.window = w
      /\ a.nextSeq = (IF Full(c) THEN s.nextSeq + 1 ELSE s.nextSeq)
      /\ a.nextOrder = s.nextOrder /\ a.expected = s.expected /\ a.reorder = s.reorder
      /\ a.sent = {e \in s.sent : e.packet.seq \notin d.acks}
      /\ a.rich \subseteq s.rich
      /\ a.sinceAck < AckThreshold
  BY <1>1, <1>2, CountedFacts
<1> HIDE DEF c, a
<1>5. CASE d.packet.kind = "rich"
  <2>1. t = Acknowledge(a, d.rich) /\ d.packet.kind # "ordered"
    BY <1>5 DEF Processed
  <2>2. /\ t \in SessionSet
        /\ t.nextSeq = a.nextSeq /\ t.nextOrder = a.nextOrder /\ t.expected = a.expected
        /\ t.reorder = a.reorder /\ t.window = a.window /\ t.rich = a.rich
        /\ t.sinceAck = a.sinceAck
        /\ t.sent = {e \in a.sent : e.packet.seq \notin d.rich}
    BY <1>4, <2>1, AcknowledgeFacts
  <2> HIDE DEF t, s
  <2>3. t.sent \subseteq s.sent
          /\ \A e \in s.sent : e \in t.sent \/ e.packet.seq \in d.acks \cup d.rich
    BY <1>4, <2>2
  <2> QED BY <1>4, <2>1, <2>2, <2>3 DEF s, c, a, t
<1>6. CASE d.packet.kind = "ordered"
  <2>1. t = AfterOrdering(a, d.packet, n)
    BY <1>6 DEF Processed
  <2>2. j \in Channels /\ n \in Nat
    <3>1. Ready(a, d.packet) = InOrder(a, d.packet)
      BY <1>6 DEF Ready
    <3> QED BY <1>3, <1>4, <1>6, <3>1, InOrderFacts
  <2>3. Waiting(a, d.packet, n) = Waiting(s, d.packet, n)
    <3> HIDE DEF n
    <3> QED BY <1>4 DEF Early, Waiting
  <2> HIDE DEF t, s, n
  <2>4. /\ t \in SessionSet
        /\ t.nextSeq = a.nextSeq /\ t.nextOrder = a.nextOrder /\ t.sent = a.sent
        /\ t.window = a.window /\ t.rich = a.rich /\ t.sinceAck = a.sinceAck
        /\ t.expected[j] = a.expected[j] + n
        /\ t.reorder[j] = Waiting(a, d.packet, n)
        /\ \A i \in Channels \ {j} :
             t.expected[i] = a.expected[i] /\ t.reorder[i] = a.reorder[i]
    BY <1>3, <1>4, <2>1, <2>2, AfterOrderingFacts
  <2>5. t.sent \subseteq s.sent
          /\ \A e \in s.sent : e \in t.sent \/ e.packet.seq \in d.acks \cup d.rich
    BY <1>4, <2>4
  <2>6. t.reorder[j] = Waiting(s, d.packet, n) /\ t.expected[j] = s.expected[j] + n
    BY <1>4, <2>3, <2>4
  <2> QED BY <1>4, <1>6, <2>4, <2>5, <2>6 DEF s, c, a, t, n
<1>7. CASE d.packet.kind # "rich" /\ d.packet.kind # "ordered"
  <2>1. t = a
    BY <1>7 DEF Processed
  <2> HIDE DEF t, s
  <2>2. t.sent \subseteq s.sent
          /\ \A e \in s.sent : e \in t.sent \/ e.packet.seq \in d.acks \cup d.rich
    BY <1>4, <2>1
  <2> QED BY <1>4, <1>7, <2>1, <2>2 DEF s, c, a, t
<1> QED BY <1>5, <1>6, <1>7

\* Accepting a packet is a step that numbers at most an ACK.
LEMMA AcceptStepped ==
  ASSUME IInv, NEW p \in Peers, NEW d \in net[p], AcceptPacket(p, d),
         NEW w \in UpdateAcknowledgeInfo(session[p].window, d.packet.seq), Taken(p, d, w)
  PROVE  LET c == Counted(session[p], d.acks, w)
             f == AckDatagram(c).packet
         IN  /\ Stepped(p, Processed(AfterCount(c), d), AckOut(c), f)
             /\ f.kind \notin ReliableKinds
             /\ \A x \in AckOut(c) : /\ x.acks \subseteq Known(w) /\ x.rich = session[p].rich
                                     /\ x.packet = f
<1> DEFINE s == session[p]
           c == Counted(s, d.acks, w)
           t == Processed(AfterCount(c), d)
           f == AckDatagram(c).packet
           out == AckOut(c)
<1>1. /\ s \in SessionSet /\ s.nextSeq \in Nat
      /\ s.nextSeq <= Len(Workload[p]) + AckIds[p]
      /\ \A e \in s.sent : e.retries <= MaxResend /\ e.packet \in Packets(p)
  BY DEF IInv, Typed, Bounded, Numbered, SessionSet
<1>2. /\ w \in Window /\ WindowOK(w) /\ w.received
      /\ w.ackId \in Ids /\ Range(w.history) \subseteq Ids
  BY WindowUpdated
<1>3. /\ c \in SessionSet /\ c.window = w /\ c.rich = s.rich /\ c.nextSeq = s.nextSeq
      /\ t \in SessionSet /\ t.window = w
      /\ t.nextSeq = (IF Full(c) THEN s.nextSeq + 1 ELSE s.nextSeq)
      /\ t.sinceAck < AckThreshold
      /\ t.sent \subseteq s.sent
  BY ProcessedFacts
<1>4. /\ Full(c) => s.nextSeq < AckIds[p]
      /\ net' = [net EXCEPT ![Other(p)] = @ \cup out]
      /\ session' = [session EXCEPT ![p] = t]
  BY DEF Taken
<1> HIDE DEF c, t
<1>5. /\ AckDatagram(c) \in DatagramSet /\ f.seq = s.nextSeq /\ f.kind \notin ReliableKinds
      /\ AckDatagram(c).acks \subseteq Known(w) /\ AckDatagram(c).rich = s.rich
  BY <1>2, <1>3, AckDatagramFacts
<1>6. /\ out \in SUBSET DatagramSet
      /\ \A x \in out : /\ x.acks \subseteq Known(w) /\ x.rich = s.rich /\ x.packet = f
                        /\ Full(c)
  BY <1>5 DEF AckOut
<1> HIDE DEF s, f, out
<1>7. Len(Workload[p]) \in Nat /\ AckIds[p] \in Nat
  BY WorkloadAssumption, BoundsAssumption, LenProperties
<1>8. t.nextSeq \in {s.nextSeq, s.nextSeq + 1} /\ t.nextSeq <= Len(Workload[p]) + AckIds[p]
  BY <1>1, <1>3, <1>4, <1>7
<1>9. \A x \in out : x.packet \in Packets(p) \/ (x.packet = f /\ t.nextSeq = s.nextSeq + 1)
  BY <1>3, <1>6
<1>10. \A e \in t.sent : e.packet \in Packets(p) /\ e.retries <= MaxResend
  BY <1>1, <1>3
<1>11. Stepped(p, t, out, f)
  BY <1>2, <1>3, <1>4, <1>5, <1>6, <1>8, <1>9, <1>10 DEF Stepped, s
<1> QED BY <1>5, <1>6, <1>11 DEF s, c, t, f, out

\* What accepting a packet keeps of acknowledgements and numbering.
LEMMA AcceptAcked ==
  ASSUME IInv, NEW p \in Peers, NEW d \in net[p], AcceptPacket(p, d)
  PROVE  Bounded' /\ Numbered' /\ Submitted' /\ Acked' /\ Received'
<1>1. PICK w \in UpdateAcknowledgeInfo(session[p].window, d.packet.seq) : Taken(p, d, w)
  BY AcceptShape
<1> DEFINE s == session[p]
           o == Other(p)
           q == d.packet.seq
           c == Counted(s, d.acks, w)
           t == Processed(AfterCount(c), d)
           f == AckDatagram(c).packet
           out == AckOut(c)
<1>2. /\ Stepped(p, t, out, f) /\ f.kind \notin ReliableKinds
      /\ \A x \in out : x.acks \subseteq Known(w) /\ x.rich = s.rich /\ x.packet = f
  BY <1>1, AcceptStepped
<1>3. Typed /\ Bounded /\ Numbered /\ Submitted /\ Acked /\ Received
  BY DEF IInv
<1>4. /\ t.window = w /\ t.nextOrder = s.nextOrder /\ t.rich \subseteq s.rich
      /\ \A e \in s.sent : e \in t.sent \/ e.packet.seq \in d.acks \cup d.rich
  BY ProcessedFacts
<1>5. /\ submitted' = submitted
      /\ accepted'[p] = accepted[p] \cup {q} /\ accepted'[o] = accepted[o]
      /\ fullShift[p] => fullShift'[p]
      /\ fullShift'[o] = fullShift[o]
  <2>1. o \in Peers /\ o # p
    BY OtherPeer
  <2> QED BY <1>3, <2>1, AcceptShape DEF Typed
<1>6. o \in Peers /\ Other(o) = p /\ \A x \in Peers : x = p \/ x = o
  BY OtherPeer
<1>7. fullShift'[p] \/ Known(w) \subseteq Known(s.window) \cup {q}
  BY WindowUpdated
<1>8. fullShift[o] \/ d.acks \cup d.rich \subseteq accepted[o]
  BY ArrivingDatagram
<1>9. fullShift[p] \/ Known(s.window) \cup s.rich \subseteq accepted[p]
  BY <1>3 DEF Acked
<1>10. fullShift[o] \/ \A x \in Packets(p) : x.kind \in ReliableKinds =>
         x.seq \in {e.packet.seq : e \in s.sent} \/ x.seq \in accepted[o]
  BY <1>3, <1>6 DEF Acked, Pending
<1>11. \E x \in Packets(o) : x.seq = q
  BY ArrivingDatagram
<1>12. Packets(p) \subseteq Packets(p)' /\ Packets(o)' = Packets(o)
  BY <1>2, <1>3, SteppedFrame
<1> HIDE DEF s, t, c, out, f
<1>13. fullShift'[p] \/ Known(t.window) \cup t.rich \subseteq accepted'[p]
  BY <1>4, <1>5, <1>7, <1>9
<1>14. fullShift'[p] \/ \A x \in out : x.acks \cup x.rich \subseteq accepted'[p]
  BY <1>2, <1>5, <1>7, <1>9
<1>15. fullShift[o] \/ \A x \in Packets(p) \cup PacketsOf(out) : x.kind \in ReliableKinds =>
         x.seq \in {e.packet.seq : e \in t.sent} \/ x.seq \in accepted[o]
  <2>1. \A x \in PacketsOf(out) : x.kind \notin ReliableKinds
    BY <1>2 DEF PacketsOf
  <2> QED BY <1>4, <1>8, <1>10, <2>1
<1>16. Acked'
  BY <1>2, <1>3, <1>5, <1>13, <1>14, <1>15, SteppedAcked
<1>17. Bounded' /\ Numbered'
  BY <1>2, <1>3, SteppedBounded, SteppedNumbered
<1>18. Submitted'
  BY <1>2, <1>3, <1>4, <1>5, SteppedSubmitted DEF ReliableKinds, s
<1>19. Received'
  <2>1. \A i \in accepted'[p] : \E x \in Packets(o)' : x.seq = i
    BY <1>3, <1>5, <1>11, <1>12 DEF Received
  <2>2. \A i \in accepted'[o] : \E x \in Packets(p)' : x.seq = i
    BY <1>3, <1>5, <1>6, <1>12 DEF Received
  <2>3. ASSUME NEW x \in Peers
        PROVE  \A i \in accepted'[x] : \E y \in Packets(Other(x))' : y.seq = i
    <3>1. CASE x = p
      BY <2>1, <3>1 DEF Packets
    <3>2. CASE x = o
      BY <1>6, <2>2, <3>2 DEF Packets
    <3> QED BY <1>6, <3>1, <3>2
  <2> QED BY <2>3 DEF Received
<1> QED BY <1>16, <1>17, <1>18, <1>19

(***************************************************************************)
(* What the step does to the ordered delivery when it hands up n packets:  *)
(* the channel of the packet continues, every other one is left alone.     *)
(***************************************************************************)
Delivered(p, packet, n) ==
  LET s == session[p]
      j == packet.channel
      m == s.expected[j] + n
  IN  /\ j \in Channels /\ packet.order \in Nat /\ n \in Nat /\ s.expected[j] \in Nat
      /\ n = 0 <=> packet.order # s.expected[j]
      /\ session'[p].expected[j] = m
      /\ session'[p].reorder[j] = Waiting(s, packet, n)
      /\ \A e \in s.reorder[j] : e.order # m
      /\ Len(handed'[p][j]) = m /\ m <= Len(submitted[Other(p)][j])
      /\ \A i \in 1..m : handed'[p][j][i] = submitted[Other(p)][j][i]

SameDelivery(q, c) ==
  /\ session'[q].expected[c] = session[q].expected[c]
  /\ session'[q].reorder[c] = session[q].reorder[c]
  /\ handed'[q][c] = handed[q][c]

\* Accepting a packet does so, for some n.
LEMMA AcceptDelivers ==
  ASSUME IInv, NEW p \in Peers, NEW d \in net[p], AcceptPacket(p, d)
  PROVE  /\ handed' \in [Peers -> [Channels -> Seq(Nat)]]
         /\ \A q \in Peers, c \in Channels :
              q # p \/ c # d.packet.channel \/ d.packet.kind # "ordered" => SameDelivery(q, c)
         /\ d.packet.kind = "ordered" => \E n \in Nat : Delivered(p, d.packet, n)
<1>1. PICK w \in UpdateAcknowledgeInfo(session[p].window, d.packet.seq) : Taken(p, d, w)
  BY AcceptShape
<1> DEFINE s == session[p]
           o == Other(p)
           j == d.packet.channel
           k == Counted(s, d.acks, w)
           a == AfterCount(k)
           t == Processed(a, d)
           ready == Ready(a, d.packet)
           n == Len(ready)
<1>2. /\ a \in SessionSet /\ a.expected = s.expected /\ a.reorder = s.reorder
      /\ d.packet.kind # "ordered" => t.expected = s.expected /\ t.reorder = s.reorder
      /\ d.packet.kind = "ordered" =>
           /\ t.expected[j] = s.expected[j] + n
           /\ t.reorder[j] = Waiting(s, d.packet, n)
           /\ \A i \in Channels \ {j} :
                t.expected[i] = s.expected[i] /\ t.reorder[i] = s.reorder[i]
  BY ProcessedFacts
<1>3. /\ session'[p] = t /\ \A q \in Peers : q # p => session'[q] = session[q]
      /\ handed' = [handed EXCEPT ![p][j] = @ \o ready]
  <2>1. session' = [session EXCEPT ![p] = t] /\ handed' = [handed EXCEPT ![p][j] = @ \o ready]
    BY <1>1 DEF Taken
  <2> HIDE DEF t
  <2> QED BY <2>1 DEF IInv, Typed
<1>4. /\ handed \in [Peers -> [Channels -> Seq(Nat)]]
      /\ d.packet \in Packets(o) /\ d.packet \in PacketSet
  BY ArrivingDatagram DEF IInv, Typed
<1> HIDE DEF t, k, a
<1>5. CASE d.packet.kind # "ordered"
  <2>1. ready = << >> /\ ready \in Seq(Nat)
    BY <1>5 DEF Ready
  <2>2. CASE j \in Channels
    <3>1. handed[p][j] \in Seq(Nat)
      BY <1>4, <2>2
    <3>2. handed[p][j] \o ready = handed[p][j]
      <4> DEFINE h == handed[p][j]
      <4>1. h \in Seq(Nat) /\ h \o << >> = h
        BY <3>1, ConcatEmptySeq
      <4> QED BY <2>1, <4>1
    <3> HIDE DEF ready, j
    <3>3. handed' = handed
      BY <1>3, <1>4, <2>2, <3>1, <3>2
    <3> QED BY <1>2, <1>3, <1>4, <1>5, <3>3 DEF SameDelivery, s
  <2>3. CASE j \notin Channels
    <3> HIDE DEF ready, j
    <3>1. handed' = handed
      BY <1>3, <1>4, <2>3
    <3> QED BY <1>2, <1>3, <1>4, <1>5, <3>1 DEF SameDelivery, s
  <2> QED BY <2>2, <2>3
<1>6. CASE d.packet.kind = "ordered"
  <2>1. ready = InOrder(a, d.packet)
    BY <1>6 DEF Ready
  <2>2. /\ j \in Channels /\ d.packet.order \in Nat /\ s.expected[j] \in Nat
        /\ ready \in Seq(Nat) /\ n \in Nat /\ (n = 0 <=> d.packet.order # s.expected[j])
        /\ s.expected[j] + n <= Len(submitted[o][j])
        /\ \A i \in 1..n : ready[i] = submitted[o][j][s.expected[j] + i]
        /\ \A e \in s.reorder[j] : e.order # s.expected[j] + n
    <3> HIDE DEF ready
    <3>1. LET r == InOrder(a, d.packet) IN
          /\ j \in Channels /\ d.packet.order \in Nat /\ a.expected[j] \in Nat
          /\ r \in Seq(Nat) /\ Len(r) \in Nat /\ (Len(r) = 0 <=> d.packet.order # a.expected[j])
          /\ a.expected[j] + Len(r) <= Len(submitted[o][j])
          /\ \A i \in 1..Len(r) : r[i] = submitted[o][j][a.expected[j] + i]
          /\ \A e \in a.reorder[j] : e.order # a.expected[j] + Len(r)
      BY <1>2, <1>4, <1>6, InOrderFacts
    <3> QED BY <1>2, <2>1, <3>1
  <2> DEFINE h == handed[p][j]
             m == s.expected[j]
             list == submitted[o][j]
  <2>3. /\ h \in Seq(Nat) /\ Len(h) = m
        /\ \A i \in 1..m : h[i] = list[i]
    <3>1. Handed
      BY DEF IInv
    <3>2. h \in Seq(Nat)
      BY <1>4, <2>2
    <3> QED BY <2>2, <3>1, <3>2 DEF Handed
  <2> HIDE DEF ready
  <2>4. /\ h \o ready \in Seq(Nat) /\ Len(h \o ready) = m + n
        /\ \A i \in 1..(m + n) : (h \o ready)[i] = IF i <= m THEN h[i] ELSE ready[i - m]
    <3>1. h \in Seq(Nat) /\ ready \in Seq(Nat) /\ Len(h) = m /\ Len(ready) = n
      BY <2>2, <2>3
    <3> HIDE DEF h, m, n
    <3> QED BY <3>1, ConcatProperties
  <2>5. ASSUME NEW i \in 1..(m + n) PROVE (h \o ready)[i] = list[i]
    <3>1. m \in Nat /\ n \in Nat
      BY <2>2
    <3> HIDE DEF h, m, list, n
    <3>2. CASE i <= m
      BY <2>3, <2>4, <3>1, <3>2
    <3>3. CASE ~(i <= m)
      <4>1. i - m \in 1..n /\ m + (i - m) = i
        BY <3>1, <3>3
      <4>2. ready[i - m] = list[m + (i - m)]
        BY <2>2, <4>1 DEF list, m, n
      <4> QED BY <2>4, <3>3, <4>1, <4>2
    <3> QED BY <3>2, <3>3
  <2>6. /\ handed' \in [Peers -> [Channels -> Seq(Nat)]]
        /\ handed'[p][j] = h \o ready
        /\ \A q \in Peers, c \in Channels : q # p \/ c # j => handed'[q][c] = handed[q][c]
    <3> DEFINE whole == h \o ready
    <3>1. whole \in Seq(Nat) /\ handed' = [handed EXCEPT ![p][j] = whole]
      BY <1>3, <2>4
    <3> HIDE DEF whole, j
    <3>2. /\ handed' \in [Peers -> [Channels -> Seq(Nat)]]
          /\ handed'[p][j] = whole
          /\ \A q \in Peers, c \in Channels : q # p \/ c # j => handed'[q][c] = handed[q][c]
      BY <1>4, <2>2, <3>1, FlowUpdated
    <3> QED BY <3>2 DEF whole
  <2>7. Len(handed'[p][j]) = m + n /\ \A i \in 1..(m + n) : handed'[p][j][i] = list[i]
    <3> HIDE DEF h, m, n, list, j
    <3> QED BY <2>4, <2>5, <2>6
  <2>8. session'[p].expected[j] = m + n /\ session'[p].reorder[j] = Waiting(s, d.packet, n)
    BY <1>2, <1>3, <1>6
  <2>9. Delivered(p, d.packet, n)
    <3> HIDE DEF n
    <3> QED BY <2>2, <2>7, <2>8 DEF Delivered
  <2>10. ASSUME NEW q \in Peers, NEW c \in Channels, q # p \/ c # j
         PROVE  SameDelivery(q, c)
    <3>1. CASE q # p
      BY <1>3, <2>6, <3>1 DEF SameDelivery
    <3>2. CASE q = p /\ c # j
      BY <1>2, <1>3, <1>6, <2>6, <3>2 DEF SameDelivery
    <3> QED BY <2>10, <3>1, <3>2
  <2> QED BY <1>6, <2>2, <2>6, <2>9, <2>10
<1> QED BY <1>5, <1>6

\* A packet is ordered and new, so neither the ACK the step may send nor the other end's.
LEMMA AcceptSent ==
  ASSUME IInv, NEW p \in Peers, NEW d \in net[p], AcceptPacket(p, d)
  PROVE  /\ Packets(p) \subseteq Packets(p)' /\ Packets(Other(p))' = Packets(Other(p))
         /\ \A x \in Packets(p)' : x.kind = "ordered" => x \in Packets(p)
         /\ session' \in [Peers -> SessionSet] /\ net' \in [Peers -> SUBSET DatagramSet]
         /\ \A q \in Peers : WindowOK(session'[q].window)
<1>1. PICK w \in UpdateAcknowledgeInfo(session[p].window, d.packet.seq) : Taken(p, d, w)
  BY AcceptShape
<1> DEFINE c == Counted(session[p], d.acks, w)
           t == Processed(AfterCount(c), d)
           f == AckDatagram(c).packet
           out == AckOut(c)
<1>2. Stepped(p, t, out, f) /\ f.kind \notin ReliableKinds
  BY <1>1, AcceptStepped
<1>3. Typed
  BY DEF IInv
<1> HIDE DEF t, f, out
<1>4. /\ Packets(p)' = Packets(p) \cup PacketsOf(out) /\ Packets(Other(p))' = Packets(Other(p))
      /\ session' \in [Peers -> SessionSet] /\ net' \in [Peers -> SUBSET DatagramSet]
      /\ \A q \in Peers : WindowOK(session'[q].window)
  BY <1>2, <1>3, SteppedFrame
<1>5. \A x \in PacketsOf(out) : x \in Packets(p) \/ x.kind # "ordered"
  BY <1>2 DEF Stepped, PacketsOf, ReliableKinds
<1> QED BY <1>4, <1>5

\* Accepting a packet keeps the order of what is handed up.
LEMMA AcceptHanded ==
  ASSUME IInv, NEW p \in Peers, NEW d \in net[p], AcceptPacket(p, d)
  PROVE  Handed'
<1> DEFINE o == Other(p)
           j == d.packet.channel
<1>1. Typed /\ Handed /\ submitted' = submitted
  BY AcceptShape DEF IInv
<1>2. o \in Peers /\ Other(o) = p /\ \A q \in Peers : q = p \/ q = o
  BY OtherPeer
<1> SUFFICES ASSUME NEW q \in Peers, NEW c \in Channels
             PROVE  LET m == session'[q].expected[c] IN
                    /\ Len(handed'[q][c]) = m
                    /\ m <= Len(submitted[Other(q)][c])
                    /\ \A i \in 1..m : handed'[q][c][i] = submitted[Other(q)][c][i]
                    /\ \A e \in session'[q].reorder[c] :
                         /\ e \in Packets(Other(q))' /\ e.kind = "ordered" /\ e.channel = c
                         /\ e.order > m
  BY <1>1 DEF Handed
<1>3. Packets(Other(q)) \subseteq Packets(Other(q))'
  <2>1. Packets(p) \subseteq Packets(p)' /\ Packets(o) \subseteq Packets(o)'
    BY AcceptSent
  <2>2. CASE q = p
    BY <2>1, <2>2 DEF Packets
  <2>3. CASE q = o
    BY <1>2, <2>1, <2>3 DEF Packets
  <2> QED BY <1>2, <2>2, <2>3
<1>4. LET m == session[q].expected[c] IN
      /\ Len(handed[q][c]) = m
      /\ m <= Len(submitted[Other(q)][c])
      /\ \A i \in 1..m : handed[q][c][i] = submitted[Other(q)][c][i]
      /\ \A e \in session[q].reorder[c] :
           /\ e \in Packets(Other(q)) /\ e.kind = "ordered" /\ e.channel = c
           /\ e.order > m
  BY <1>1 DEF Handed
<1>5. CASE q # p \/ c # j \/ d.packet.kind # "ordered"
  <2>1. SameDelivery(q, c)
    BY <1>5, AcceptDelivers
  <2> QED BY <1>3, <1>4, <2>1 DEF SameDelivery
<1>6. CASE q = p /\ c = j /\ d.packet.kind = "ordered"
  <2>1. PICK n \in Nat : Delivered(p, d.packet, n)
    BY <1>6, AcceptDelivers
  <2> DEFINE s == session[p]
             m == s.expected[j] + n
  <2>2. /\ j \in Channels /\ d.packet.order \in Nat /\ s.expected[j] \in Nat
        /\ n = 0 <=> d.packet.order # s.expected[j]
        /\ session'[p].expected[j] = m
        /\ session'[p].reorder[j] = Waiting(s, d.packet, n)
        /\ \A e \in s.reorder[j] : e.order # m
        /\ Len(handed'[p][j]) = m /\ m <= Len(submitted[o][j])
        /\ \A i \in 1..m : handed'[p][j][i] = submitted[o][j][i]
    BY <2>1 DEF Delivered
  <2>3. ASSUME NEW e \in Waiting(s, d.packet, n)
        PROVE  /\ e \in Packets(o) /\ e.kind = "ordered" /\ e.channel = j
               /\ e.order > m
    <3>1. /\ e \in s.reorder[j] \/ (e = d.packet /\ d.packet.order > s.expected[j])
          /\ e.order >= m
      BY DEF Waiting, Early
    <3>2. CASE e \in s.reorder[j]
      <4>1. /\ e \in Packets(o) /\ e.kind = "ordered" /\ e.channel = j
        BY <1>4, <1>6, <3>2
      <4>2. e.order \in Nat /\ m \in Nat
        BY <1>1, <1>2, <2>2, <4>1, PacketType DEF PacketSet
      <4>3. e.order # m
        BY <2>2, <3>2
      <4> HIDE DEF m
      <4> QED BY <3>1, <4>1, <4>2, <4>3
    <3>3. CASE e = d.packet /\ d.packet.order > s.expected[j]
      <4>1. e \in Packets(o) /\ e.kind = "ordered" /\ e.channel = j
        BY <1>6, <3>3, ArrivingDatagram
      <4>2. n = 0
        BY <2>2, <3>3
      <4> QED BY <2>2, <3>3, <4>1, <4>2
    <3> QED BY <3>1, <3>2, <3>3
  <2> HIDE DEF m
  <2> QED BY <1>3, <1>6, <2>2, <2>3
<1> QED BY <1>5, <1>6

\* Two ordered packets of one channel with one order id are the same packet.
LEMMA OrderedUnique ==
  ASSUME IInv, NEW q \in Peers, NEW x \in Packets(q), NEW y \in Packets(q),
         x.kind = "ordered", y.kind = "ordered", x.channel = y.channel, x.order = y.order
  PROVE  x = y
<1>1. x.seq = submitted[q][x.channel][x.order + 1] /\ y.seq = submitted[q][x.channel][x.order + 1]
  BY DEF IInv, Submitted
<1> QED BY <1>1 DEF IInv, Numbered

\* Accepting a packet keeps it, and every packet that was kept.
LEMMA AcceptKept ==
  ASSUME IInv, NEW p \in Peers, NEW d \in net[p], AcceptPacket(p, d)
  PROVE  Kept'
<1> DEFINE o == Other(p)
           j == d.packet.channel
           q == d.packet.seq
<1>1. Typed /\ Kept /\ Numbered /\ Submitted
  BY DEF IInv
<1>2. o \in Peers /\ o # p /\ Other(o) = p /\ \A y \in Peers : y = p \/ y = o
  BY OtherPeer
<1>3. accepted'[p] = accepted[p] \cup {q} /\ accepted'[o] = accepted[o]
  BY <1>1, <1>2, AcceptShape DEF Typed
<1>4. \A y \in Peers : \A x \in Packets(y) : x.kind = "ordered" =>
        x.channel \in Channels /\ x.order \in Nat
  BY <1>1, PacketType DEF Submitted, PacketSet
<1>5. ASSUME NEW x \in Packets(p)', x.kind = "ordered", x.seq \in accepted'[o]
      PROVE  x \in session'[o].reorder[x.channel] \/ x.order < session'[o].expected[x.channel]
  <2>1. x \in Packets(p) /\ x.seq \in accepted[o] /\ x.channel \in Channels
    BY <1>3, <1>4, <1>5, AcceptSent
  <2>2. x \in session[o].reorder[x.channel] \/ x.order < session[o].expected[x.channel]
    BY <1>1, <1>2, <1>5, <2>1 DEF Kept
  <2>3. SameDelivery(o, x.channel)
    BY <1>2, <2>1, AcceptDelivers
  <2> QED BY <2>2, <2>3 DEF SameDelivery
<1>6. ASSUME NEW x \in Packets(o)', x.kind = "ordered", x.seq \in accepted'[p]
      PROVE  x \in session'[p].reorder[x.channel] \/ x.order < session'[p].expected[x.channel]
  <2>1. x \in Packets(o) /\ x.channel \in Channels /\ x.order \in Nat
    BY <1>2, <1>4, <1>6, AcceptSent
  <2>2. d.packet \in Packets(o)
    BY ArrivingDatagram
  <2>3. \/ x = d.packet
        \/ x \in session[p].reorder[x.channel] \/ x.order < session[p].expected[x.channel]
    <3>1. x.seq \in accepted[p] \/ x.seq = q
      BY <1>3, <1>6
    <3> QED BY <1>1, <1>2, <1>6, <2>1, <2>2, <3>1 DEF Kept, Numbered
  <2>4. CASE x.channel # j \/ d.packet.kind # "ordered"
    <3>1. SameDelivery(p, x.channel)
      BY <2>1, <2>4, AcceptDelivers
    <3>2. x # d.packet
      BY <1>6, <2>4
    <3> QED BY <2>3, <3>1, <3>2 DEF SameDelivery
  <2>5. CASE x.channel = j /\ d.packet.kind = "ordered"
    <3>1. PICK n \in Nat : Delivered(p, d.packet, n)
      BY <2>5, AcceptDelivers
    <3> DEFINE s == session[p]
               m == s.expected[j] + n
    <3>2. /\ d.packet.order \in Nat /\ s.expected[j] \in Nat
          /\ n = 0 <=> d.packet.order # s.expected[j]
          /\ session'[p].expected[j] = m
          /\ session'[p].reorder[j] = Waiting(s, d.packet, n)
      BY <3>1 DEF Delivered
    <3>3. CASE x.order < m
      <4> HIDE DEF m
      <4> QED BY <2>5, <3>2, <3>3
    <3>4. CASE x.order >= m
      <4>1. x.order >= s.expected[j]
        BY <2>1, <3>2, <3>4
      <4>2. x \in Early(s, d.packet)
        <5>1. CASE x = d.packet
          <6>1. x.order # s.expected[j]
            BY <2>1, <3>2, <3>4, <5>1
          <6>2. d.packet.order > s.expected[j]
            BY <2>1, <3>2, <4>1, <5>1, <6>1
          <6> QED BY <5>1, <6>2 DEF Early
        <5>2. CASE x # d.packet
          <6>1. x \in s.reorder[j]
            BY <2>1, <2>3, <2>5, <3>2, <4>1, <5>2
          <6>2. x.order # d.packet.order
            BY <1>2, <1>6, <2>1, <2>2, <2>5, <5>2, OrderedUnique
          <6> QED BY <6>1, <6>2 DEF Early
        <5> QED BY <5>1, <5>2
      <4> QED BY <2>5, <3>2, <3>4, <4>2 DEF Waiting
    <3>5. m \in Nat
      BY <3>2
    <3> HIDE DEF m
    <3> QED BY <2>1, <3>3, <3>4, <3>5
  <2> QED BY <2>4, <2>5
<1>7. ASSUME NEW y \in Peers
      PROVE  \A x \in Packets(Other(y))' : x.kind = "ordered" /\ x.seq \in accepted'[y] =>
               x \in session'[y].reorder[x.channel] \/ x.order < session'[y].expected[x.channel]
  <2>1. CASE y = p
    BY <1>6, <2>1 DEF Packets
  <2>2. CASE y = o
    BY <1>2, <1>5, <2>2 DEF Packets
  <2> QED BY <1>2, <2>1, <2>2
<1> QED BY <1>7 DEF Kept

\* Accepting a packet preserves the inductive invariant.
LEMMA AcceptIInv ==
  ASSUME IInv, NEW p \in Peers, NEW d \in net[p], AcceptPacket(p, d)
  PROVE  IInv'
<1>1. d.packet.seq \in Nat
  BY ArrivingDatagram
<1>2. /\ submitted' \in [Peers -> [Channels -> Seq(Nat)]]
      /\ accepted' \in [Peers -> SUBSET Nat] /\ fullShift' \in [Peers -> BOOLEAN]
  <2>1. /\ submitted \in [Peers -> [Channels -> Seq(Nat)]]
        /\ accepted \in [Peers -> SUBSET Nat] /\ fullShift \in [Peers -> BOOLEAN]
    BY DEF IInv, Typed
  <2>2. accepted' \in [Peers -> SUBSET Nat]
    <3>1. accepted' = [accepted EXCEPT ![p] = @ \cup {d.packet.seq}]
      BY AcceptShape
    <3> QED BY <1>1, <2>1, <3>1
  <2> QED BY <2>1, <2>2, AcceptShape
<1>3. Typed'
  <2>1. /\ handed' \in [Peers -> [Channels -> Seq(Nat)]]
        /\ session' \in [Peers -> SessionSet] /\ net' \in [Peers -> SUBSET DatagramSet]
        /\ \A q \in Peers : WindowOK(session'[q].window)
    BY AcceptDelivers, AcceptSent
  <2> QED BY <1>2, <2>1 DEF Typed, WindowOK
<1>4. Bounded' /\ Numbered' /\ Submitted' /\ Acked' /\ Received'
  BY AcceptAcked
<1>5. Handed' /\ Kept'
  BY AcceptHanded, AcceptKept
<1> QED BY <1>3, <1>4, <1>5 DEF IInv

------------------------------------------------------------------------------
(* What the specification keeps.                                           *)

\* Every step preserves the inductive invariant.
LEMMA SessionStep == IInv /\ [Next]_vars => IInv'
<1> SUFFICES ASSUME IInv, [Next]_vars PROVE IInv'
  OBVIOUS
<1>1. ASSUME NEW p \in Peers, NEW kind \in Kinds, NEW c \in Channels, Send(p, kind, c)
      PROVE  IInv'
  BY <1>1, SendIInv
<1>2. ASSUME NEW p \in Peers, NEW d \in net[p], HandleIncoming(p, d)
      PROVE  IInv'
  <2>1. CASE DropDuplicate(p, d)
    BY <2>1, DropIInv
  <2>2. CASE AcceptPacket(p, d)
    BY <2>2, AcceptIInv
  <2> QED BY <1>2, <2>1, <2>2 DEF HandleIncoming
<1>3. ASSUME NEW p \in Peers, NEW due \in SUBSET session[p].sent, NEW ackDue \in BOOLEAN,
             Update(p, due, ackDue)
      PROVE  IInv'
  BY <1>3, UpdateIInv
<1>4. CASE UNCHANGED vars
  <2>1. /\ session' = session /\ net' = net /\ submitted' = submitted
        /\ handed' = handed /\ accepted' = accepted /\ fullShift' = fullShift
    BY <1>4 DEF vars
  <2>2. Typed'
    BY <2>1 DEF IInv, Typed, WindowOK
  <2>3. \A q \in Peers : Packets(q)' = Packets(q) /\ Pending(q)' = Pending(q)
    BY <2>1 DEF Packets, Pending
  <2>4. Bounded' /\ Numbered'
    BY <2>1, <2>3 DEF IInv, Bounded, Numbered
  <2>5. Received' /\ Submitted'
    BY <2>1, <2>3, OtherPeer DEF IInv, Received, Submitted
  <2>6. Handed'
    BY <2>1, <2>3, OtherPeer DEF IInv, Handed
  <2>7. Kept'
    BY <2>1, <2>3, OtherPeer DEF IInv, Kept
  <2>8. Acked'
    BY <2>1, <2>3, OtherPeer DEF IInv, Acked
  <2> QED BY <2>2, <2>4, <2>5, <2>6, <2>7, <2>8 DEF IInv
<1> QED BY <1>1, <1>2, <1>3, <1>4 DEF Next

\* The inductive invariant is an invariant.
LEMMA SessionInv == Spec => []IInv
BY SessionInit, SessionStep, PTL DEF Spec

(***************************************************************************)
(* The shapes of the session, for every workload: in particular the count  *)
(* _packetsSinceLastAck of handleIncoming never stays at the threshold.    *)
(***************************************************************************)
THEOREM SessionTypeOK == Spec => []TypeOK
<1>1. IInv => TypeOK
  <2> SUFFICES ASSUME IInv, NEW p \in Peers
               PROVE  LET s == session[p] IN
                      /\ s.window \in [received : BOOLEAN, ackId : Ids, bits : SUBSET (1..Width),
                                       history : Seq(Ids)]
                      /\ s.nextSeq \in Ids
                      /\ s.sinceAck \in 0..(AckThreshold - 1)
                      /\ \A e \in s.sent : e.packet \in Packets(p) /\ e.retries \in 0..MaxResend
                      /\ s.rich \subseteq accepted[p] \/ fullShift[p]
    BY DEF TypeOK
  <2> DEFINE s == session[p]
  <2>1. /\ s \in SessionSet /\ WindowOK(s.window) /\ s.nextSeq \in Nat /\ s.sinceAck \in Nat
        /\ s.sent \in SUBSET [packet : PacketSet, retries : Nat]
    BY DEF IInv, Typed, SessionSet
  <2>2. /\ s.nextSeq <= Len(Workload[p]) + AckIds[p]
        /\ s.window.ackId \in Ids /\ Range(s.window.history) \subseteq Ids
        /\ s.sinceAck < AckThreshold
        /\ \A e \in s.sent : e.retries <= MaxResend /\ e.packet \in Packets(p)
    BY DEF IInv, Bounded, Numbered
  <2>3. Len(Workload[p]) \in Nat /\ AckIds[p] \in Nat /\ AckThreshold \in Nat /\ MaxResend \in Nat
    BY WorkloadAssumption, BoundsAssumption, LenProperties
  <2> HIDE DEF s
  <2>4. s.window \in [received : BOOLEAN, ackId : Ids, bits : SUBSET (1..Width),
                      history : Seq(Ids)]
    <3> DEFINE h == s.window.history
    <3>1. s.window \in Window /\ h \in Seq(Nat)
      BY <2>1 DEF WindowOK, Window
    <3>2. \A i \in 1..Len(h) : h[i] \in Ids
      <4> SUFFICES ASSUME NEW i \in 1..Len(h) PROVE h[i] \in Ids
        OBVIOUS
      <4>1. i \in DOMAIN h
        BY <3>1, LenProperties
      <4> QED BY <2>2, <4>1 DEF Range
    <3>3. h \in Seq(Ids)
      <4>1. Len(h) \in Nat /\ h \in [1..Len(h) -> Nat]
        BY <3>1, LenProperties
      <4> HIDE DEF h
      <4>2. h \in [1..Len(h) -> Ids]
        BY <3>2, <4>1
      <4> QED BY <4>1, <4>2
    <3> QED BY <2>2, <3>1, <3>3 DEF Window
  <2>5. s.nextSeq \in Ids
    BY <2>1, <2>2, <2>3 DEF Ids
  <2>6. s.sinceAck \in 0..(AckThreshold - 1)
    BY <2>1, <2>2, <2>3
  <2>7. \A e \in s.sent : e.packet \in Packets(p) /\ e.retries \in 0..MaxResend
    BY <2>1, <2>2, <2>3
  <2>8. s.rich \subseteq accepted[p] \/ fullShift[p]
    BY DEF IInv, Acked, s
  <2> QED BY <2>4, <2>5, <2>6, <2>7, <2>8 DEF s
<1> QED BY <1>1, SessionInv, PTL

(***************************************************************************)
(* No acknowledgement, in a header or in a RICH_ACK, early, late or        *)
(* repeated, makes Session::send's bookkeeping forget a reliable packet    *)
(* the peer has not processed.                                             *)
(***************************************************************************)
THEOREM SessionAcknowledged == Spec => []AcknowledgedWasAccepted
<1>1. IInv => AcknowledgedWasAccepted
  <2> SUFFICES ASSUME IInv, NEW p \in Peers, ~fullShift[Other(p)]
               PROVE  \A packet \in Packets(p) :
                        packet.kind \in ReliableKinds /\ packet.seq \notin Pending(p)
                          => packet.seq \in accepted[Other(p)]
    BY DEF AcknowledgedWasAccepted
  <2>1. Other(p) \in Peers /\ Other(Other(p)) = p
    BY OtherPeer
  <2> QED BY <2>1 DEF IInv, Acked
<1> QED BY <1>1, SessionInv, PTL

(***************************************************************************)
(* Session::handleIncoming never loses an ordered packet it has accepted:  *)
(* it was handed up, in its place, or waits in the reorder buffer.         *)
(***************************************************************************)
THEOREM SessionKept == Spec => []AcceptedIsKept
<1>1. IInv => AcceptedIsKept
  <2> SUFFICES ASSUME IInv, NEW p \in Peers, NEW packet \in Packets(Other(p)),
                      packet.kind = "ordered", packet.seq \in accepted[p]
               PROVE  \/ packet \in session[p].reorder[packet.channel]
                      \/ \E i \in DOMAIN handed[p][packet.channel] :
                           handed[p][packet.channel][i] = packet.seq
    BY DEF AcceptedIsKept
  <2> DEFINE o == Other(p)
             c == packet.channel
             n == session[p].expected[c]
             h == handed[p][c]
             k == packet.order
  <2>1. o \in Peers /\ Typed
    BY OtherPeer DEF IInv
  <2>2. c \in Channels /\ submitted[o][c][k + 1] = packet.seq
    BY <2>1 DEF IInv, Submitted
  <2>3. k \in Nat /\ n \in Nat /\ h \in Seq(Nat)
    BY <2>1, <2>2, PacketType DEF Typed, SessionSet, PacketSet
  <2>4. Len(h) = n /\ \A i \in 1..n : h[i] = submitted[o][c][i]
    BY <2>2 DEF IInv, Handed
  <2>5. packet \in session[p].reorder[c] \/ k < n
    BY DEF IInv, Kept
  <2>6. ASSUME k < n PROVE k + 1 \in DOMAIN h /\ h[k + 1] = packet.seq
    <3>1. k + 1 \in 1..n
      <4> HIDE DEF k, n
      <4> QED BY <2>3, <2>6
    <3>2. DOMAIN h = 1..n
      <4> HIDE DEF h
      <4> QED BY <2>3, <2>4, LenProperties
    <3> HIDE DEF h
    <3> QED BY <2>2, <2>4, <3>1, <3>2
  <2> QED BY <2>5, <2>6
<1> QED BY <1>1, SessionInv, PTL

------------------------------------------------------------------------------
(* Each flow is an ordered channel.                                        *)

Sent == [f \in Flow |-> submitted[f[1]][f[2]]]

HandedUp == [f \in Flow |-> handed[Other(f[1])][f[2]]]

\* A flow has a sender with something to send, and a receiver.
LEMMA FlowEnds ==
  ASSUME NEW f \in Flow
  PROVE  /\ f[1] \in Peers /\ Workload[f[1]] # << >> /\ f[2] \in Channels /\ f = <<f[1], f[2]>>
         /\ Other(f[1]) \in Peers
BY OtherPeer DEF Flow

\* A session starts as an empty ordered channel.
LEMMA SessionMapsInit == Init => Channel!Init
<1> SUFFICES ASSUME Init PROVE Channel!Init
  OBVIOUS
<1>1. \A f \in Flow : submitted[f[1]][f[2]] = << >> /\ handed[Other(f[1])][f[2]] = << >>
  BY FlowEnds DEF Init
<1> QED BY <1>1 DEF Channel!Init

\* send puts an ordered packet at the end of its flow.
LEMMA SendMaps ==
  ASSUME IInv, NEW p \in Peers, NEW kind \in Kinds, NEW c \in Channels, Send(p, kind, c)
  PROVE  HandedUp' = HandedUp /\ (Sent' = Sent \/ \E f \in Flow : \E m \in WorkloadIds :
           Sent' = [Sent EXCEPT ![f] = Append(@, m)])
<1> DEFINE f == <<p, c>>
           m == session[p].nextSeq
<1>1. HandedUp' = HandedUp
  BY DEF Send, HandedUp
<1>2. m \in Nat /\ m < Len(Workload[p]) /\ Typed
  BY DEF IInv, Typed, SessionSet, Send
<1>3. f \in Flow /\ m \in WorkloadIds
  <2>1. Workload[p] \in Seq(SUBSET (Kinds \X Channels)) /\ Len(Workload[p]) \in Nat
    BY WorkloadAssumption, LenProperties
  <2>2. Workload[p] # << >>
    BY <1>2, <2>1
  <2>3. m \in 0..(Len(Workload[p]) - 1)
    BY <1>2, <2>1
  <2> QED BY <2>2, <2>3 DEF Flow, WorkloadIds
<1>4. /\ \A q \in Peers, j \in Channels :
           q # p \/ j # c \/ kind # "ordered" => submitted'[q][j] = submitted[q][j]
      /\ kind = "ordered" => submitted'[p][c] = Append(submitted[p][c], m)
  BY <1>2, SendSubmits
<1>5. CASE kind # "ordered"
  <2>1. \A g \in Flow : submitted'[g[1]][g[2]] = submitted[g[1]][g[2]]
    BY <1>4, <1>5, FlowEnds
  <2>2. Sent' = Sent
    BY <2>1 DEF Sent
  <2> QED BY <1>1, <2>2
<1>6. CASE kind = "ordered"
  <2>1. \A g \in Flow : submitted'[g[1]][g[2]] =
          IF g = f THEN Append(submitted[g[1]][g[2]], m) ELSE submitted[g[1]][g[2]]
    <3> SUFFICES ASSUME NEW g \in Flow
                 PROVE  submitted'[g[1]][g[2]] =
                          IF g = f THEN Append(submitted[g[1]][g[2]], m)
                          ELSE submitted[g[1]][g[2]]
      OBVIOUS
    <3> HIDE DEF m
    <3>1. g[1] \in Peers /\ g[2] \in Channels /\ g = <<g[1], g[2]>>
      BY FlowEnds
    <3>2. CASE g = f
      BY <1>4, <1>6, <3>2
    <3>3. CASE g # f
      BY <1>4, <3>1, <3>3
    <3> QED BY <3>2, <3>3
  <2>2. Sent' = [Sent EXCEPT ![f] = Append(@, m)]
    BY <1>3, <2>1 DEF Sent
  <2> QED BY <1>1, <1>3, <2>2
<1> QED BY <1>5, <1>6

\* Accepting a packet hands up the next packets of its flow, or none.
LEMMA AcceptMaps ==
  ASSUME IInv, NEW p \in Peers, NEW d \in net[p], AcceptPacket(p, d)
  PROVE  Sent' = Sent /\ (HandedUp' = HandedUp \/ \E f \in Flow :
           \E n \in (Len(HandedUp[f]) + 1)..Len(Sent[f]) :
             HandedUp' = [HandedUp EXCEPT ![f] = SubSeq(Sent[f], 1, n)])
<1> DEFINE o == Other(p)
           j == d.packet.channel
           f == <<o, j>>
<1>1. Sent' = Sent
  BY AcceptShape DEF Sent
<1>2. /\ o \in Peers /\ o # p /\ Other(o) = p
      /\ \A q \in Peers : Other(q) \in Peers /\ (Other(q) = p => q = o)
  BY OtherPeer
<1>3. /\ handed' \in [Peers -> [Channels -> Seq(Nat)]]
      /\ \A q \in Peers, c \in Channels :
           q # p \/ c # j \/ d.packet.kind # "ordered" => handed'[q][c] = handed[q][c]
  BY AcceptDelivers DEF SameDelivery
<1>4. CASE d.packet.kind # "ordered"
  <2>1. \A g \in Flow : handed'[Other(g[1])][g[2]] = handed[Other(g[1])][g[2]]
    BY <1>3, <1>4, FlowEnds
  <2>2. HandedUp' = HandedUp
    BY <2>1 DEF HandedUp
  <2> QED BY <1>1, <2>2
<1>5. CASE d.packet.kind = "ordered"
  <2>1. PICK n \in Nat : Delivered(p, d.packet, n)
    BY <1>5, AcceptDelivers
  <2> DEFINE k == session[p].expected[j]
             m == k + n
             list == submitted[o][j]
  <2>2. /\ j \in Channels /\ k \in Nat /\ n \in Nat /\ m \in Nat
        /\ Len(handed'[p][j]) = m /\ m <= Len(list)
        /\ \A i \in 1..m : handed'[p][j][i] = list[i]
    BY <2>1 DEF Delivered
  <2>3. /\ list \in Seq(Nat) /\ Len(list) \in Nat /\ handed'[p][j] \in Seq(Nat)
        /\ handed[p][j] \in Seq(Nat)
        /\ Len(handed[p][j]) = k /\ \A i \in 1..k : handed[p][j][i] = list[i]
    <3>1. list \in Seq(Nat) /\ handed'[p][j] \in Seq(Nat) /\ handed[p][j] \in Seq(Nat)
      BY <1>2, <1>3, <2>2 DEF IInv, Typed
    <3>2. Len(handed[p][j]) = k /\ \A i \in 1..k : handed[p][j][i] = list[i]
      BY <2>2 DEF IInv, Handed
    <3> HIDE DEF k, list
    <3> QED BY <3>1, <3>2, LenProperties
  <2>4. handed'[p][j] = SubSeq(list, 1, m)
    <3> DEFINE new == handed'[p][j]
               old == SubSeq(list, 1, m)
    <3>1. \A i \in 1..m : list[i] \in Nat
      <4> HIDE DEF list, m
      <4> QED BY <2>2, <2>3, ElementOfSeq
    <3>2. /\ old \in Seq(Nat) /\ Len(old) = m
          /\ \A i \in 1..m : old[i] = list[i]
      <4> HIDE DEF list, m
      <4>1. /\ SubSeq(list, 1, m) \in Seq(Nat)
            /\ Len(SubSeq(list, 1, m)) = IF 1 <= m THEN m - 1 + 1 ELSE 0
            /\ \A i \in 1..(m - 1 + 1) : SubSeq(list, 1, m)[i] = list[1 + i - 1]
        BY <2>2, <3>1, SubSeqProperties
      <4> HIDE DEF old
      <4>2. m - 1 + 1 = m /\ \A i \in 1..m : 1 + i - 1 = i
        BY <2>2
      <4> QED BY <2>2, <4>1, <4>2 DEF old
    <3>3. new \in Seq(Nat) /\ Len(new) = m /\ \A i \in 1..m : new[i] = list[i]
      BY <2>2, <2>3
    <3> HIDE DEF new, old, m, list
    <3> QED BY <3>2, <3>3, SeqEqual DEF new, old
  <2>5. CASE n = 0
    <3>1. handed'[p][j] = handed[p][j]
      <4>1. m = k
        BY <2>2, <2>5
      <4>2. Len(handed'[p][j]) = k /\ \A i \in 1..k : handed'[p][j][i] = handed[p][j][i]
        BY <2>2, <2>3, <4>1
      <4> DEFINE new == handed'[p][j]
                 old == handed[p][j]
      <4>3. /\ new \in Seq(Nat) /\ old \in Seq(Nat) /\ Len(new) = k /\ Len(old) = k
            /\ \A i \in 1..k : new[i] = old[i]
        BY <2>3, <4>2
      <4> HIDE DEF k, m, new, old
      <4> QED BY <4>3, SeqEqual DEF new, old
    <3>2. \A g \in Flow : handed'[Other(g[1])][g[2]] = handed[Other(g[1])][g[2]]
      BY <1>3, <3>1, FlowEnds
    <3>3. HandedUp' = HandedUp
      BY <3>2 DEF HandedUp
    <3> QED BY <1>1, <3>3
  <2>6. CASE n # 0
    <3>1. f \in Flow
      <4>1. Workload[o] # << >>
        <5>1. Len(list) # 0
          <6> HIDE DEF list
          <6> QED BY <2>2, <2>3, <2>6
        <5>2. Workload[o] = << >> => list = << >>
          BY <1>2, <2>2 DEF IInv, Submitted
        <5> QED BY <5>1, <5>2
      <4> QED BY <1>2, <2>2, <4>1 DEF Flow
    <3>2. \A g \in Flow : handed'[Other(g[1])][g[2]] =
            IF g = f THEN SubSeq(list, 1, m) ELSE handed[Other(g[1])][g[2]]
      <4> HIDE DEF list, m
      <4> SUFFICES ASSUME NEW g \in Flow
                   PROVE  handed'[Other(g[1])][g[2]] =
                            IF g = f THEN SubSeq(list, 1, m) ELSE handed[Other(g[1])][g[2]]
        OBVIOUS
      <4>1. /\ g[1] \in Peers /\ g[2] \in Channels /\ g = <<g[1], g[2]>>
            /\ Other(g[1]) \in Peers
        BY FlowEnds
      <4>2. CASE g = f
        BY <1>2, <2>4, <4>2
      <4>3. CASE g # f
        BY <1>2, <1>3, <4>1, <4>3
      <4> QED BY <4>2, <4>3
    <3>3. Sent[f] = list /\ HandedUp[f] = handed[p][j]
      BY <1>2, <3>1 DEF Sent, HandedUp
    <3>4. HandedUp' = [HandedUp EXCEPT ![f] = SubSeq(Sent[f], 1, m)]
      <4> HIDE DEF list, m, f
      <4> QED BY <3>1, <3>2, <3>3 DEF HandedUp
    <3>5. m \in (Len(HandedUp[f]) + 1)..Len(Sent[f])
      <4>1. m \in (k + 1)..Len(list)
        <5> HIDE DEF k, list
        <5> QED BY <2>2, <2>3, <2>6
      <4> HIDE DEF k, m, list, f
      <4> QED BY <2>3, <3>3, <4>1
    <3> HIDE DEF f, m
    <3> QED BY <1>1, <3>1, <3>4, <3>5
  <2> QED BY <2>5, <2>6
<1> QED BY <1>4, <1>5

\* Every step is a step of the ordered channels, or changes none of them.
LEMMA SessionMapsStep == IInv /\ [Next]_vars => [Channel!Next]_<<Sent, HandedUp>>
<1> SUFFICES ASSUME IInv, [Next]_vars, ~(Sent' = Sent /\ HandedUp' = HandedUp)
             PROVE  Channel!Next
  OBVIOUS
<1>1. ASSUME NEW p \in Peers, NEW kind \in Kinds, NEW c \in Channels, Send(p, kind, c)
      PROVE  Channel!Next
  <2>1. PICK f \in Flow, m \in WorkloadIds :
          HandedUp' = HandedUp /\ Sent' = [Sent EXCEPT ![f] = Append(@, m)]
    BY <1>1, SendMaps
  <2>2. Channel!Submit(f)
    BY <2>1 DEF Channel!Submit, Sent, HandedUp
  <2> QED BY <2>2 DEF Channel!Next
<1>2. ASSUME NEW p \in Peers, NEW d \in net[p], AcceptPacket(p, d)
      PROVE  Channel!Next
  <2>1. PICK f \in Flow : Sent' = Sent /\
          \E n \in (Len(HandedUp[f]) + 1)..Len(Sent[f]) :
            HandedUp' = [HandedUp EXCEPT ![f] = SubSeq(Sent[f], 1, n)]
    BY <1>2, AcceptMaps
  <2>2. Channel!Deliver(f)
    BY <2>1 DEF Channel!Deliver, Sent, HandedUp
  <2> QED BY <2>2 DEF Channel!Next
<1>3. CASE UNCHANGED <<submitted, handed>>
  BY <1>3 DEF Sent, HandedUp
<1>4. ASSUME NEW p \in Peers, NEW d \in net[p], DropDuplicate(p, d)
      PROVE  UNCHANGED <<submitted, handed>>
  BY <1>4 DEF DropDuplicate
<1>5. ASSUME NEW p \in Peers, NEW due \in SUBSET session[p].sent, NEW ackDue \in BOOLEAN,
             Update(p, due, ackDue)
      PROVE  UNCHANGED <<submitted, handed>>
  BY <1>5 DEF Update
<1>6. CASE UNCHANGED vars
  BY <1>3, <1>6 DEF vars
<1> QED BY <1>1, <1>2, <1>3, <1>4, <1>5, <1>6 DEF Next, HandleIncoming

(***************************************************************************)
(* Two facing sessions implement an ordered channel for each direction and *)
(* channel id: what the receiver's dispatcher gets is at all times a       *)
(* prefix of what the sender submitted, for any loss, duplication and      *)
(* reordering of datagrams, any retransmission and any window.             *)
(***************************************************************************)
THEOREM SessionImplementsChannel == Spec => ImplementsOrderedChannel
<1>1. Init => Channel!Init
  BY SessionMapsInit
<1>2. IInv /\ [Next]_vars => [Channel!Next]_<<Sent, HandedUp>>
  BY SessionMapsStep
<1>3. Channel!Spec <=> (Channel!Init /\ [][Channel!Next]_<<Sent, HandedUp>>)
  BY DEF Channel!Spec, Sent, HandedUp
<1> QED BY <1>1, <1>2, <1>3, SessionInv, PTL DEF Spec, ImplementsOrderedChannel

==============================================================================
