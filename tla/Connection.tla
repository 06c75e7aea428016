------------------------------ MODULE Connection ------------------------------
(***************************************************************************)
(* The life of a connection between an rtnt Client and the Server: the     *)
(* CONNECT handshake and its retries, the event queues that carry packets  *)
(* and callbacks from the I/O thread to the main thread, timeouts, and the *)
(* removal of dead sessions.                                               *)
(*                                                                         *)
(* Each program has two threads.  The I/O thread takes a datagram in two   *)
(* steps: it looks its session up under one lock, and lets that session    *)
(* handle the datagram later.  The main thread calls update for ever: it   *)
(* drains the event queue (pc "events", where the application may also     *)
(* call the client), then looks at its session under the lock ("check" or  *)
(* "sweep"), then, on the server, calls onDisconnect ("callbacks").  The   *)
(* network keeps every datagram for ever, so that one may arrive late,     *)
(* again and again, or never.                                              *)
(*                                                                         *)
(* A session here remembers every id it has seen; that is what Session's   *)
(* window does while fewer than Width ids are in use.                      *)
(***************************************************************************)
EXTENDS Integers, Sequences, FiniteSets

CONSTANTS
  MaxRetries,      (* MAX_RECONNECTION_ATTEMPTS: 3 in the code.            *)
  MaxConnects,     (* Bound: calls of Client::connect.                     *)
  MaxRequests,     (* Bound: reliable requests the client application sends*)
  MaxAccepted,     (* Bound: sessions the server creates.                  *)
  MaxIds,          (* Bound: an explicit ACK takes an id below MaxIds.     *)
  ClientArrivals,  (* Bound: datagrams the network delivers to the client. *)
  ServerArrivals   (* Bound: datagrams the network delivers to the server. *)

ASSUME BoundsAssumption ==
  /\ MaxRetries \in Nat /\ MaxConnects \in Nat /\ MaxRequests \in Nat
  /\ MaxAccepted \in Nat /\ MaxIds \in Nat
  /\ ClientArrivals \in Nat /\ ServerArrivals \in Nat

VARIABLES
  client,          \* the Client object and where its main thread is
  clientSessions,  \* every Session object the client created, in order
  clientIo,        \* the client's I/O thread: the session and datagram it holds, arrivals left
  clientEvents,    \* Client::_eventQueue
  server,          \* the Server object and where its main thread is
  serverSessions,  \* every Session object the server created for this endpoint, in order
  serverIo,        \* the server's I/O thread
  serverEvents,    \* Server::_eventQueue
  toServer,        \* datagrams sent to the server
  toClient,        \* datagrams sent to the client
  wanted,          \* history variable: connect() was called after the last disconnect()
  calls            \* history variable: calls[k], what the server told its application of session k

clientVars == <<client, clientSessions, clientEvents, toServer, wanted>>
serverVars == <<server, serverSessions, serverEvents, toClient, calls>>
vars == <<clientVars, clientIo, serverVars, serverIo>>

------------------------------------------------------------------------------
(* Session objects, with as much of Session as a connection depends on.    *)

NoSession == 0   \* a null shared_ptr, or an endpoint _sessions does not hold

NewSession ==
  [next |-> 0, seen |-> {}, pending |-> {}, unsentAck |-> FALSE,
   quiet |-> FALSE,         \* nothing received for the timeout of update
   shouldClose |-> FALSE]

Reliable == {"request", "reply"}

\* A datagram that session s, the one with index k, sends.  k is not on the wire.
Datagram(k, s, seq, type) == [from |-> k, seq |-> seq, type |-> type, acks |-> s.seen]

Transmit(k, s, type) == Datagram(k, s, s.next, type)

\* Session::send.
Sent(s, type) ==
  [s EXCEPT !.next = @ + 1,
            !.pending = IF type \in Reliable THEN @ \cup {[seq |-> s.next, type |-> type]} ELSE @,
            !.unsentAck = FALSE]

\* Mutant: nothing is recognised as a duplicate.
IsNewAlways(s, d) == TRUE

IsNew(s, d) == d.seq \notin s.seen

\* Session::handleIncoming: also a duplicate acknowledges and shows that the peer is alive.
Received(s, d) ==
  [s EXCEPT !.quiet = FALSE, !.seen = @ \cup {d.seq}, !.unsentAck = TRUE,
            !.pending = {e \in @ : e.seq \notin d.acks}]

When(condition, x) == IF condition THEN {x} ELSE {}

(***************************************************************************)
(* Session::update, as the session after it and the datagrams it sends:    *)
(* nothing is due; the pending packets are sent again; one of them has     *)
(* used its attempts up (Session counts them); or an ACK is due.           *)
(***************************************************************************)
Maintained(k, s) ==
  {<<s, {}>>}
    \cup When(s.pending # {},
              <<[s EXCEPT !.unsentAck = FALSE], {Datagram(k, s, e.seq, e.type) : e \in s.pending}>>)
    \cup When(s.pending # {}, <<[s EXCEPT !.shouldClose = TRUE], {}>>)
    \cup When(s.unsentAck /\ s.next < MaxIds, <<Sent(s, "ack"), {Transmit(k, s, "ack")}>>)

------------------------------------------------------------------------------
(* Peer, ThreadSafeQueue.                                                  *)

(***************************************************************************)
(* Peer::receive: the I/O thread waits for a datagram, and asks for the    *)
(* next one when onReceive has returned.  (Every connect() of a client     *)
(* asks for one more into the same buffer, where a later datagram may take *)
(* the place of one not handled yet: here, one that is lost.)              *)
(***************************************************************************)
Listens(io) == io.holds = << >> /\ io.left > 0
Taken(io, held) == [holds |-> held, left |-> io.left - 1]
Handled(io) == [io EXCEPT !.holds = << >>]

\* Peer::sendToTarget: fire and forget.
SentTo(target, datagrams) == target \cup datagrams

\* ThreadSafeQueue::push, of several events in a row, and pop.
Push(queue, events) == queue \o events
Pop(queue) == Tail(queue)

------------------------------------------------------------------------------

Init ==
  /\ client = [session |-> NoSession, connected |-> FALSE, retries |-> 0, pc |-> "events"]
  /\ server = [session |-> NoSession, leaving |-> << >>, pc |-> "events"]
  /\ clientSessions = << >> /\ serverSessions = << >>
  /\ clientIo = [holds |-> << >>, left |-> ClientArrivals]
  /\ serverIo = [holds |-> << >>, left |-> ServerArrivals]
  /\ clientEvents = << >> /\ serverEvents = << >>
  /\ toServer = {} /\ toClient = {}
  /\ wanted = FALSE
  /\ calls = << >>

------------------------------------------------------------------------------
(* The client's main thread.                                               *)

\* _internal_attemptConnection, called with the client in state c: a new session sends CONNECT.
Attempt(c) ==
  LET k == Len(clientSessions) + 1
  IN  /\ client' = [c EXCEPT !.session = k]
      /\ clientSessions' = Append(clientSessions, Sent(NewSession, "connect"))
      /\ toServer' = SentTo(toServer, {Transmit(k, NewSession, "connect")})

\* Client::connect.
Connect ==
  /\ client.pc = "events"
  /\ ~client.connected
  /\ Len(clientSessions) < MaxConnects * (MaxRetries + 1)
  /\ Attempt([client EXCEPT !.retries = 0])
  /\ wanted' = TRUE
  /\ UNCHANGED <<clientIo, clientEvents, serverVars, serverIo>>

\* Client::send of a reliable packet: a session is enough, the handshake need not be over.
Request ==
  LET k == client.session IN
  /\ client.pc = "events"
  /\ k # NoSession
  /\ Cardinality({<<d.from, d.seq>> : d \in {e \in toServer : e.type = "request"}}) < MaxRequests
  /\ clientSessions' = [clientSessions EXCEPT ![k] = Sent(@, "request")]
  /\ toServer' = SentTo(toServer, {Transmit(k, clientSessions[k], "request")})
  /\ UNCHANGED <<client, clientIo, clientEvents, wanted, serverVars, serverIo>>

\* The body of Client::disconnect; the main thread is between two updates after it.
Disconnected ==
  LET k == client.session IN
  /\ toServer' = SentTo(toServer, When(client.connected /\ k # NoSession,
                                       Transmit(k, clientSessions[k], "disconnect")))
  /\ client' = [client EXCEPT !.session = NoSession, !.connected = FALSE, !.pc = "events"]
  /\ clientEvents' = Push(clientEvents, <<"onDisconnect">>)
  /\ wanted' = FALSE
  /\ UNCHANGED <<clientSessions, clientIo, serverVars, serverIo>>

\* Client::disconnect; one call at a time is in the queue (bound).
Disconnect ==
  /\ client.pc = "events"
  /\ clientEvents = << >>
  /\ Disconnected

\* The handler of ConnectAck: it does not look at the session.
ConnectAckHandler(event) ==
  client' = IF event = "connectAck" THEN [client EXCEPT !.connected = TRUE] ELSE client

\* One turn of Client::_processEvents.
ClientEvent ==
  /\ client.pc = "events"
  /\ clientEvents # << >>
  /\ clientEvents' = Pop(clientEvents)
  /\ ConnectAckHandler(Head(clientEvents))
  /\ UNCHANGED <<clientSessions, clientIo, toServer, wanted, serverVars, serverIo>>

ClientEventsDone ==
  /\ client.pc = "events"
  /\ clientEvents = << >>
  /\ client' = [client EXCEPT !.pc = "check"]
  /\ UNCHANGED <<clientSessions, clientIo, clientEvents, toServer, wanted, serverVars, serverIo>>

\* Mutant: only a session that failed counts, not the reconnection timeout.
AttemptFailedIfClosed(expired) ==
  client.session # NoSession /\ ~client.connected /\ clientSessions[client.session].shouldClose

AttemptFailed(expired) ==
  /\ client.session # NoSession
  /\ ~client.connected
  /\ expired \/ clientSessions[client.session].shouldClose

\* Mutant: one attempt too many.
RetryOnceMore(expired) ==
  /\ client.pc = "check"
  /\ AttemptFailed(expired)
  /\ client.retries <= MaxRetries
  /\ Attempt([client EXCEPT !.retries = @ + 1, !.pc = "events"])
  /\ UNCHANGED <<clientIo, clientEvents, wanted, serverVars, serverIo>>

\* update, a connection attempt that failed and may be repeated.
Retry(expired) ==
  /\ client.pc = "check"
  /\ AttemptFailed(expired)
  /\ client.retries < MaxRetries
  /\ Attempt([client EXCEPT !.retries = @ + 1, !.pc = "events"])
  /\ UNCHANGED <<clientIo, clientEvents, wanted, serverVars, serverIo>>

\* update, the last attempt failed: the session is dropped, and maintained one last time.
GiveUp(expired) ==
  LET k == client.session IN
  /\ client.pc = "check"
  /\ AttemptFailed(expired)
  /\ client.retries = MaxRetries
  /\ ~clientSessions[k].shouldClose
  /\ client' = [client EXCEPT !.session = NoSession, !.pc = "events"]
  /\ \E m \in Maintained(k, clientSessions[k]) :
       /\ clientSessions' = [clientSessions EXCEPT ![k] = m[1]]
       /\ toServer' = SentTo(toServer, m[2])
  /\ UNCHANGED <<clientIo, clientEvents, wanted, serverVars, serverIo>>

\* Mutant: a silent server is not left.
CloseIfFailed ==
  LET k == client.session IN
  /\ client.pc = "check"
  /\ k # NoSession
  /\ clientSessions[k].shouldClose /\ (client.connected \/ client.retries = MaxRetries)
  /\ Disconnected

\* update, a session that failed or a server that is silent: disconnect().
Close ==
  LET k == client.session IN
  /\ client.pc = "check"
  /\ k # NoSession
  /\ \/ clientSessions[k].shouldClose /\ (client.connected \/ client.retries = MaxRetries)
     \/ client.connected /\ clientSessions[k].quiet
  /\ Disconnected

\* update otherwise: Session::update.
ClientMaintain(expired) ==
  LET k == client.session IN
  /\ client.pc = "check"
  /\ k # NoSession
  /\ ~AttemptFailed(expired)
  /\ ~clientSessions[k].shouldClose
  /\ ~(client.connected /\ clientSessions[k].quiet)
  /\ client' = [client EXCEPT !.pc = "events"]
  /\ \E m \in Maintained(k, clientSessions[k]) :
       /\ clientSessions' = [clientSessions EXCEPT ![k] = m[1]]
       /\ toServer' = SentTo(toServer, m[2])
  /\ UNCHANGED <<clientIo, clientEvents, wanted, serverVars, serverIo>>

\* update without a session.
NothingToDo ==
  /\ client.pc = "check"
  /\ client.session = NoSession
  /\ client' = [client EXCEPT !.pc = "events"]
  /\ UNCHANGED <<clientSessions, clientIo, clientEvents, toServer, wanted, serverVars, serverIo>>

ClientCheck(expired) ==
  Retry(expired) \/ GiveUp(expired) \/ Close \/ ClientMaintain(expired) \/ NothingToDo

------------------------------------------------------------------------------
(* The client's I/O thread.                                                *)

\* Client::onReceive, up to the unlock.
ClientLookup(d) ==
  /\ Listens(clientIo)
  /\ client.session # NoSession
  /\ clientIo' = Taken(clientIo, <<client.session, d>>)
  /\ UNCHANGED <<clientVars, serverVars, serverIo>>

\* Client::onReceive, the rest: the session may no longer be the client's.
ClientHandle ==
  /\ clientIo.holds # << >>
  /\ LET k == clientIo.holds[1]
         d == clientIo.holds[2]
         s == clientSessions[k]
     IN  /\ clientSessions' = [clientSessions EXCEPT ![k] = Received(s, d)]
         /\ clientEvents' = IF IsNew(s, d) /\ d.type # "ack"
                            THEN Push(clientEvents, <<d.type>>) ELSE clientEvents
  /\ clientIo' = Handled(clientIo)
  /\ UNCHANGED <<client, toServer, wanted, serverVars, serverIo>>

------------------------------------------------------------------------------
(* The server's I/O thread.                                                *)

\* Server::onReceive: a CONNECT on a known endpoint is answered on the spot.
AnswerConnect(d) ==
  LET k == server.session IN
  /\ Listens(serverIo)
  /\ k # NoSession
  /\ d.type = "connect"
  /\ serverSessions' = [serverSessions EXCEPT ![k] = Sent(@, "connectAck")]
  /\ toClient' = SentTo(toClient, {Transmit(k, serverSessions[k], "connectAck")})
  /\ serverIo' = Taken(serverIo, << >>)
  /\ UNCHANGED <<clientVars, clientIo, server, serverEvents, calls>>

\* Server::onReceive, up to the unlock: a CONNECT creates a session.
AcceptConnect(d) ==
  LET k == Len(serverSessions) + 1 IN
  /\ Listens(serverIo)
  /\ server.session = NoSession
  /\ d.type = "connect"
  /\ k <= MaxAccepted
  /\ server' = [server EXCEPT !.session = k]
  /\ serverSessions' = Append(serverSessions, NewSession)
  /\ calls' = Append(calls, << >>)
  /\ serverIo' = Taken(serverIo, <<k, d, TRUE>>)
  /\ UNCHANGED <<clientVars, clientIo, serverEvents, toClient>>

\* Server::onReceive, up to the unlock: another packet of a known endpoint.
ServerLookup(d) ==
  /\ Listens(serverIo)
  /\ server.session # NoSession
  /\ d.type # "connect"
  /\ serverIo' = Taken(serverIo, <<server.session, d, FALSE>>)
  /\ UNCHANGED <<clientVars, clientIo, serverVars>>

Event(k, d) == [session |-> k, type |-> d.type, from |-> d.from, seq |-> d.seq]

OnConnect(k, d) == [session |-> k, type |-> "onConnect", from |-> d.from, seq |-> d.seq]

\* Mutant: the packets are queued before the onConnect of their session.
QueuedConnectLast(k, d, isNewConnection) ==
  (IF IsNew(serverSessions[k], d) /\ d.type # "ack" THEN <<Event(k, d)>> ELSE << >>)
    \o (IF isNewConnection THEN <<OnConnect(k, d)>> ELSE << >>)

\* The events onReceive pushes.
Queued(k, d, isNewConnection) ==
  (IF isNewConnection THEN <<OnConnect(k, d)>> ELSE << >>)
    \o (IF IsNew(serverSessions[k], d) /\ d.type # "ack" THEN <<Event(k, d)>> ELSE << >>)

\* Server::onReceive, the rest: the session may have left the map meanwhile.
ServerHandle ==
  /\ serverIo.holds # << >>
  /\ LET k == serverIo.holds[1]
         d == serverIo.holds[2]
     IN  /\ serverSessions' = [serverSessions EXCEPT ![k] = Received(@, d)]
         /\ serverEvents' = Push(serverEvents, Queued(k, d, serverIo.holds[3]))
  /\ serverIo' = Handled(serverIo)
  /\ UNCHANGED <<clientVars, clientIo, server, toClient, calls>>

------------------------------------------------------------------------------
(* The server's main thread.                                               *)

(***************************************************************************)
(* Dispatcher::dispatch, to what is bound: the answer to a CONNECT, the    *)
(* mark that DISCONNECT leaves, the application's answer to a request.  A  *)
(* packet without a handler is only logged.                                *)
(***************************************************************************)
Dispatch(k, type) ==
  LET s == serverSessions[k]
      Answer(reply) ==
        /\ serverSessions' = [serverSessions EXCEPT ![k] = Sent(s, reply)]
        /\ toClient' = SentTo(toClient, {Transmit(k, s, reply)})
  IN  CASE type = "connect" -> Answer("connectAck")
        [] type = "request" -> Answer("reply")
        [] type = "disconnect" ->
             /\ serverSessions' = [serverSessions EXCEPT ![k].shouldClose = TRUE]
             /\ UNCHANGED toClient
        [] OTHER -> UNCHANGED <<serverSessions, toClient>>

\* One turn of Server::_processEvents; the session need not be in the map any more.
ServerEvent ==
  /\ server.pc = "events"
  /\ serverEvents # << >>
  /\ LET event == Head(serverEvents)
         k == event.session
     IN  /\ Dispatch(k, event.type)
         /\ calls' = [calls EXCEPT ![k] =
                        Append(@, IF event.type = "onConnect" THEN <<"onConnect">>
                                  ELSE <<"message", event.from, event.seq>>)]
  /\ serverEvents' = Pop(serverEvents)
  /\ UNCHANGED <<clientVars, clientIo, server, serverIo>>

ServerEventsDone ==
  /\ server.pc = "events"
  /\ serverEvents = << >>
  /\ server' = [server EXCEPT !.pc = "sweep"]
  /\ UNCHANGED <<clientVars, clientIo, serverSessions, serverIo, serverEvents, toClient, calls>>

\* Mutant: only a session that asked for it is removed.
DeadIfAsked(s) == s.shouldClose

\* age > timeout || shouldClose()
Dead(s) == s.quiet \/ s.shouldClose

\* Mutant: a dead session is not remembered for onDisconnect.
EraseSilently ==
  LET k == server.session IN
  /\ server.pc = "sweep"
  /\ k # NoSession
  /\ Dead(serverSessions[k])
  /\ server' = [session |-> NoSession, leaving |-> << >>, pc |-> "callbacks"]
  /\ UNCHANGED <<clientVars, clientIo, serverSessions, serverIo, serverEvents, toClient, calls>>

\* Server::update, under the lock: a dead session leaves the map.
Erase ==
  LET k == server.session IN
  /\ server.pc = "sweep"
  /\ k # NoSession
  /\ Dead(serverSessions[k])
  /\ server' = [session |-> NoSession, leaving |-> <<k>>, pc |-> "callbacks"]
  /\ UNCHANGED <<clientVars, clientIo, serverSessions, serverIo, serverEvents, toClient, calls>>

\* Server::update, under the lock: a live session is maintained.
ServerMaintain ==
  LET k == server.session IN
  /\ server.pc = "sweep"
  /\ k # NoSession
  /\ ~Dead(serverSessions[k])
  /\ \E m \in Maintained(k, serverSessions[k]) :
       /\ serverSessions' = [serverSessions EXCEPT ![k] = m[1]]
       /\ toClient' = SentTo(toClient, m[2])
  /\ server' = [server EXCEPT !.pc = "callbacks"]
  /\ UNCHANGED <<clientVars, clientIo, serverIo, serverEvents, calls>>

SweepNothing ==
  /\ server.pc = "sweep"
  /\ server.session = NoSession
  /\ server' = [server EXCEPT !.pc = "callbacks"]
  /\ UNCHANGED <<clientVars, clientIo, serverSessions, serverIo, serverEvents, toClient, calls>>

\* Server::update, after the unlock: onDisconnect of the sessions that left.
Callbacks ==
  /\ server.pc = "callbacks"
  /\ calls' = [k \in DOMAIN calls |->
       IF <<k>> = server.leaving THEN Append(calls[k], <<"onDisconnect">>) ELSE calls[k]]
  /\ server' = [server EXCEPT !.leaving = << >>, !.pc = "events"]
  /\ UNCHANGED <<clientVars, clientIo, serverSessions, serverIo, serverEvents, toClient>>

------------------------------------------------------------------------------
(* Time.  A peer may receive nothing for the timeout of update, which is   *)
(* long next to one call of update or of onReceive.                        *)

ClientSilence ==
  LET k == client.session IN
  /\ client.pc = "events" /\ clientIo.holds = << >>
  /\ k # NoSession /\ client.connected
  /\ ~clientSessions[k].quiet
  /\ clientSessions' = [clientSessions EXCEPT ![k].quiet = TRUE]
  /\ UNCHANGED <<client, clientIo, clientEvents, toServer, wanted, serverVars, serverIo>>

ServerSilence ==
  LET k == server.session IN
  /\ server.pc = "events" /\ serverIo.holds = << >>
  /\ k # NoSession
  /\ ~serverSessions[k].quiet
  /\ serverSessions' = [serverSessions EXCEPT ![k].quiet = TRUE]
  /\ UNCHANGED <<clientVars, clientIo, server, serverIo, serverEvents, toClient, calls>>

------------------------------------------------------------------------------

ClientMain ==
  \/ ClientEvent \/ ClientEventsDone
  \/ \E expired \in BOOLEAN : ClientCheck(expired)

ServerMain ==
  ServerEvent \/ ServerEventsDone
    \/ Erase \/ ServerMaintain \/ SweepNothing \/ Callbacks

Next ==
  \/ Connect \/ Request \/ Disconnect \/ ClientMain \/ ClientSilence
  \/ \E d \in toClient : ClientLookup(d)
  \/ ClientHandle
  \/ \E d \in toServer : AnswerConnect(d) \/ AcceptConnect(d) \/ ServerLookup(d)
  \/ ServerHandle \/ ServerMain \/ ServerSilence

(***************************************************************************)
(* Both main loops call update for ever, a thread that holds a datagram    *)
(* goes on, and time passes: a connection attempt that stays open expires, *)
(* and a peer that no datagram reaches any more (only finitely many are    *)
(* delivered) is past its timeout.  update looks at the clock at one point *)
(* of its loop only, so it is strong fairness that makes it see so.        *)
(* Nothing is assumed of the network.                                      *)
(***************************************************************************)
Fairness ==
  /\ WF_vars(ClientMain) /\ SF_vars(ClientCheck(TRUE))
  /\ WF_vars(ClientHandle) /\ SF_vars(ClientSilence)
  /\ WF_vars(ServerMain) /\ WF_vars(ServerHandle) /\ SF_vars(ServerSilence)

Spec == Init /\ [][Next]_vars

FairSpec == Spec /\ Fairness
==============================================================================
