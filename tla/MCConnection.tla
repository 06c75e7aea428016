---------------------------- MODULE MCConnection ----------------------------
(***************************************************************************)
(* Properties of a client's connection to the server.                      *)
(***************************************************************************)
EXTENDS Connection

ClientTypes == {"connect", "request", "disconnect", "ack"}
ServerTypes == {"connectAck", "reply", "ack"}

(***************************************************************************)
(* Shapes, and which session a datagram or an event may name: the session  *)
(* in the server's map is always the newest one it created, and nothing    *)
(* travels or waits in a queue for a session that was never created        *)
(* (Server::onReceive creates one only when the map has none).             *)
(***************************************************************************)
TypeOK ==
  /\ client.session \in 0..Len(clientSessions) /\ client.connected \in BOOLEAN
  /\ client.retries \in 0..MaxRetries /\ client.pc \in {"events", "check"}
  /\ server.session \in {0, Len(serverSessions)}
  /\ server.pc \in {"events", "sweep", "callbacks"}
  /\ \A d \in toServer : d.type \in ClientTypes /\ d.from \in DOMAIN clientSessions
  /\ \A d \in toClient : d.type \in ServerTypes /\ d.from \in DOMAIN serverSessions
  /\ \A i \in DOMAIN clientEvents : clientEvents[i] \in ServerTypes \cup {"onDisconnect"}
  /\ \A i \in DOMAIN serverEvents : serverEvents[i].session \in DOMAIN serverSessions

Positions(k, call) == {i \in DOMAIN calls[k] : calls[k][i] = call}
Messages(k) == {i \in DOMAIN calls[k] : calls[k][i][1] = "message"}

(***************************************************************************)
(* The application hears of a session by onConnect, once and before any of *)
(* its packets and before its onDisconnect: the events of the I/O thread   *)
(* reach the main thread in the order of their pushes, and update drains   *)
(* the queue before it looks for dead sessions (Server::onReceive,         *)
(* Server::update).                                                        *)
(***************************************************************************)
AnnouncedFirst ==
  \A k \in DOMAIN calls :
    calls[k] # << >> => Positions(k, <<"onConnect">>) = {1}

(***************************************************************************)
(* Every session that left the map has been reported by onDisconnect, once *)
(* and for all (or will be before update returns), and no other.           *)
(***************************************************************************)
RemovedIsReported ==
  \A k \in DOMAIN calls :
    Cardinality(Positions(k, <<"onDisconnect">>)) =
      IF k = server.session \/ <<k>> = server.leaving THEN 0 ELSE 1

(***************************************************************************)
(* However often the network repeats a datagram, a session dispatches the  *)
(* packet in it at most once.                                              *)
(***************************************************************************)
DispatchedOnce ==
  \A k \in DOMAIN calls : \A i, j \in Messages(k) : calls[k][i] = calls[k][j] => i = j

(***************************************************************************)
(* An attempt to connect ends: the client is connected, or it has given up *)
(* after MAX_RECONNECTION_ATTEMPTS (or disconnect() was called), even if   *)
(* the server never answers.                                               *)
(***************************************************************************)
ConnectResolves ==
  (client.session # NoSession /\ ~client.connected)
    ~> (client.connected \/ client.session = NoSession)

(***************************************************************************)
(* The network delivers finitely many datagrams; after the last of them    *)
(* the server removes its session for good: neither a lost DISCONNECT nor  *)
(* a late CONNECT leaves a session behind.                                 *)
(***************************************************************************)
SilentRemoved == <>[](server.session = NoSession)

(***************************************************************************)
(* After the last datagram that reaches it, the client stops being         *)
(* connected, or is already without a session.                             *)
(***************************************************************************)
SilenceNoticed == <>[](~client.connected \/ client.session = NoSession)

(***************************************************************************)
(* What disconnect() promises in client.hpp: it "immediately closes".  The *)
(* client is not connected again before the next connect().                *)
(***************************************************************************)
ClosedStaysClosed == client.connected => wanted

Queue(k) == {<<"message", serverEvents[i].from, serverEvents[i].seq>> : i \in
               {j \in DOMAIN serverEvents : serverEvents[j].session = k}}

Delivered(k) == {calls[k][i] : i \in Messages(k)} \cup Queue(k)

(***************************************************************************)
(* What packet.hpp says of kReliable: "Guaranteed delivery. Will be resent *)
(* until ACKed."  A request that is no longer pending reached the queue of *)
(* the server's main thread, unless its session was given up.              *)
(***************************************************************************)
GuaranteedDelivery ==
  \A d \in toServer :
    d.type = "request" /\ d.from = client.session =>
      \/ [seq |-> d.seq, type |-> d.type] \in clientSessions[d.from].pending
      \/ \E k \in DOMAIN calls : <<"message", d.from, d.seq>> \in Delivered(k)
=============================================================================
