---------------------------- MODULE ConnectionProofs ----------------------------
(***************************************************************************)
(* Proofs about a client's connection to the server: every state has the   *)
(* shape TypeOK says, the application hears of a session by onConnect      *)
(* before anything else (AnnouncedFirst), of its end exactly once          *)
(* (RemovedIsReported), and of each of its packets at most once            *)
(* (DispatchedOnce).                                                       *)
(***************************************************************************)
EXTENDS MCConnection, TLAPS, SequenceTheorems, FiniteSetTheorems

------------------------------------------------------------------------------
(* The inductive invariant.                                                *)

\* The sessions of one side, which sends reliable packets of one type only.
Sessions(reliable) ==
  [next : Nat, seen : SUBSET Nat, pending : SUBSET [seq : Nat, type : {reliable}],
   unsentAck : BOOLEAN, quiet : BOOLEAN, shouldClose : BOOLEAN]

ClientDatagrams == [from : DOMAIN clientSessions, seq : Nat, type : ClientTypes, acks : SUBSET Nat]
ServerDatagrams == [from : DOMAIN serverSessions, seq : Nat, type : ServerTypes, acks : SUBSET Nat]

ServerEvents ==
  [session : DOMAIN serverSessions, type : ClientTypes \cup {"onConnect"}, from : Nat, seq : Nat]

Calls ==
  {<<"onConnect">>, <<"onDisconnect">>} \cup {<<"message", from, seq>> : from \in Nat, seq \in Nat}

\* What an I/O thread may hold between its two steps.
ClientHeld == {<<k, d>> : k \in DOMAIN clientSessions, d \in ServerDatagrams}
ServerHeld == {<<k, d, new>> : k \in DOMAIN serverSessions, d \in ClientDatagrams, new \in BOOLEAN}

ClientTyped ==
  /\ client \in [session : 0..Len(clientSessions), connected : BOOLEAN,
                 retries : 0..MaxRetries, pc : {"events", "check"}]
  /\ clientSessions \in Seq(Sessions("request"))
  /\ clientIo \in [holds : {<< >>} \cup ClientHeld, left : Nat]
  /\ clientEvents \in Seq(ServerTypes \cup {"onDisconnect"})
  /\ toServer \subseteq ClientDatagrams

ServerTyped ==
  /\ server \in [session : {0, Len(serverSessions)},
                 leaving : {<< >>} \cup {<<k>> : k \in DOMAIN serverSessions},
                 pc : {"events", "sweep", "callbacks"}]
  /\ serverSessions \in Seq(Sessions("reply"))
  /\ serverIo \in [holds : {<< >>} \cup ServerHeld, left : Nat]
  /\ serverEvents \in Seq(ServerEvents)
  /\ toClient \subseteq ServerDatagrams
  /\ calls \in Seq(Seq(Calls)) /\ Len(calls) = Len(serverSessions)

\* An I/O thread in state io holds the datagram that created session k.
Announcing(io, k) == io.holds # << >> /\ io.holds[1] = k /\ io.holds[3]

\* Nothing of session k, of which the application was told said, has come to the main thread.
Unheard(said, events, k) ==
  said = << >> /\ \A i \in DOMAIN events : events[i].session # k

(***************************************************************************)
(* onConnect is the first call of a session, or the first of its events in *)
(* the queue, or its datagram is still held; and a session that update may *)
(* remove, or that expects an acknowledgement, has been announced.         *)
(***************************************************************************)
Announced ==
  /\ \A k \in DOMAIN calls : \A i \in DOMAIN calls[k] :
       calls[k][i][1] = "onConnect" <=> i = 1
  /\ \A i \in DOMAIN serverEvents :
       serverEvents[i].type = "onConnect" <=>
         /\ calls[serverEvents[i].session] = << >>
         /\ \A j \in 1..(i-1) : serverEvents[j].session # serverEvents[i].session
  /\ \A k \in DOMAIN calls : Unheard(calls[k], serverEvents, k) <=> Announcing(serverIo, k)
  /\ \A k \in DOMAIN calls :
       Dead(serverSessions[k]) /\ calls[k] = << >>
         => server.pc = "events" /\ ~Unheard(calls[k], serverEvents, k)
  /\ \A k \in DOMAIN calls :
       serverSessions[k].pending # {} \/ server.leaving = <<k>> => calls[k] # << >>

(***************************************************************************)
(* The sessions that are neither in the map nor about to be reported are   *)
(* those whose end has been reported, once.                                *)
(***************************************************************************)
Present(k) == k = server.session \/ <<k>> = server.leaving

Reported ==
  /\ server.session # 0 => server.leaving # <<server.session>>
  /\ server.leaving # << >> => server.pc = "callbacks"
  /\ \A k \in DOMAIN calls :
       /\ Present(k) <=> \A i \in DOMAIN calls[k] : calls[k][i][1] # "onDisconnect"
       /\ \A i, j \in DOMAIN calls[k] :
            calls[k][i][1] = "onDisconnect" /\ calls[k][j][1] = "onDisconnect" => i = j

(***************************************************************************)
(* The packets of a session that were dispatched or are in the queue have  *)
(* different ids, all of them seen by the session.                         *)
(***************************************************************************)
IsPacket(event) == event.type # "onConnect"

\* Of the packets among the calls said, no two have the same id, and all ids were seen.
ToldOnce(said, seen) ==
  \A i \in DOMAIN said : said[i][1] = "message" =>
    /\ said[i][3] \in seen
    /\ \A j \in DOMAIN said : said[j][1] = "message" /\ said[j][3] = said[i][3] => i = j

\* No packet among the calls said has the id seq.
Untold(said, seq) == \A i \in DOMAIN said : said[i][1] = "message" => said[i][3] # seq

Once ==
  /\ \A k \in DOMAIN calls : ToldOnce(calls[k], serverSessions[k].seen)
  /\ \A i \in DOMAIN serverEvents : IsPacket(serverEvents[i]) =>
       /\ serverEvents[i].seq \in serverSessions[serverEvents[i].session].seen
       /\ Untold(calls[serverEvents[i].session], serverEvents[i].seq)
       /\ \A j \in DOMAIN serverEvents :
            /\ IsPacket(serverEvents[j]) /\ serverEvents[j].session = serverEvents[i].session
            /\ serverEvents[j].seq = serverEvents[i].seq
            => i = j

IInv == ClientTyped /\ ServerTyped /\ Announced /\ Reported /\ Once
------------------------------------------------------------------------------
(* The operations on a session.                                            *)

\* A new session: nothing is due, nothing was heard.
LEMMA NewSessionType ==
  ASSUME NEW reliable \in Reliable
  PROVE  /\ NewSession \in Sessions(reliable)
         /\ NewSession.pending = {} /\ ~Dead(NewSession)
BY DEF NewSession, Sessions, Dead

\* Session::send changes what is due, and not what was heard.
LEMMA SentType ==
  ASSUME NEW reliable \in Reliable, NEW s \in Sessions(reliable), NEW type,
         type \in Reliable => type = reliable
  PROVE  /\ Sent(s, type) \in Sessions(reliable)
         /\ Sent(s, type).seen = s.seen
         /\ Sent(s, type).quiet = s.quiet /\ Sent(s, type).shouldClose = s.shouldClose
         /\ type \notin Reliable => Sent(s, type).pending = s.pending
<1> DEFINE due == IF type \in Reliable THEN s.pending \cup {[seq |-> s.next, type |-> type]}
                  ELSE s.pending
           sent == [s EXCEPT !.next = @ + 1, !.pending = due, !.unsentAck = FALSE]
<1>1. due \in SUBSET [seq : Nat, type : {reliable}]
  <2>1. CASE type \in Reliable
    <3>1. [seq |-> s.next, type |-> type] \in [seq : Nat, type : {reliable}]
      BY <2>1 DEF Sessions
    <3> QED BY <2>1, <3>1 DEF Sessions
  <2> QED BY <2>1 DEF Sessions
<1>2. type \notin Reliable => due = s.pending
  OBVIOUS
<1>3. Sent(s, type) = sent
  BY DEF Sent
<1> HIDE DEF due
<1>4. sent \in Sessions(reliable) /\ sent.seen = s.seen /\ sent.pending = due
  BY <1>1, s.next + 1 \in Nat DEF Sessions
<1>5. sent.quiet = s.quiet /\ sent.shouldClose = s.shouldClose
  BY DEF Sessions
<1> HIDE DEF sent
<1> QED BY <1>2, <1>3, <1>4, <1>5

\* Session::handleIncoming remembers the id, and answers only what was due.
LEMMA ReceivedType ==
  ASSUME NEW reliable \in Reliable, NEW s \in Sessions(reliable),
         NEW d, d.seq \in Nat, d.acks \in SUBSET Nat
  PROVE  /\ Received(s, d) \in Sessions(reliable)
         /\ Received(s, d).seen = s.seen \cup {d.seq}
         /\ Dead(Received(s, d)) => Dead(s)
         /\ Received(s, d).pending \subseteq s.pending
BY DEF Received, Sessions, Dead

\* A datagram of session k, with the reliable type of its side.
Datagrams(k, reliable) == [from : {k}, seq : Nat, type : {reliable, "ack"}, acks : SUBSET Nat]

\* Session::update fails a session only over a packet that is due.
LEMMA MaintainedType ==
  ASSUME NEW reliable \in Reliable, NEW k \in Nat, NEW s \in Sessions(reliable),
         NEW m \in Maintained(k, s)
  PROVE  /\ m[1] \in Sessions(reliable) /\ m[2] \subseteq Datagrams(k, reliable)
         /\ m[1].seen = s.seen /\ m[1].pending = s.pending
         /\ m[1].quiet = s.quiet
         /\ s.pending = {} => m[1].shouldClose = s.shouldClose
<1>1. CASE m = <<s, {}>>
  BY <1>1
<1>2. CASE s.pending # {}
           /\ m = <<[s EXCEPT !.unsentAck = FALSE],
                    {Datagram(k, s, e.seq, e.type) : e \in s.pending}>>
  <2>1. \A e \in s.pending : Datagram(k, s, e.seq, e.type) \in Datagrams(k, reliable)
    BY DEF Sessions, Datagrams, Datagram
  <2>2. [s EXCEPT !.unsentAck = FALSE] \in Sessions(reliable)
    BY DEF Sessions
  <2> QED BY <1>2, <2>1, <2>2 DEF Sessions
<1>3. CASE s.pending # {} /\ m = <<[s EXCEPT !.shouldClose = TRUE], {}>>
  BY <1>3 DEF Sessions
<1>4. CASE m = <<Sent(s, "ack"), {Transmit(k, s, "ack")}>>
  <2>1. Transmit(k, s, "ack") \in Datagrams(k, reliable)
    BY DEF Transmit, Datagram, Datagrams, Sessions
  <2>2. "ack" \notin Reliable
    BY DEF Reliable
  <2> DEFINE sent == Sent(s, "ack")
  <2>3. /\ sent \in Sessions(reliable) /\ sent.seen = s.seen
        /\ sent.quiet = s.quiet /\ sent.shouldClose = s.shouldClose
        /\ sent.pending = s.pending
    BY <2>2, SentType
  <2> HIDE DEF sent
  <2>4. m[1] = sent /\ m[2] = {Transmit(k, s, "ack")}
    BY <1>4 DEF sent
  <2> QED BY <2>1, <2>3, <2>4
<1> QED BY <1>1, <1>2, <1>3, <1>4 DEF Maintained, When
------------------------------------------------------------------------------
(* Types.                                                                  *)

\* A datagram of session k belongs to what its side may have sent.
LEMMA ClientSends ==
  ASSUME NEW k \in DOMAIN clientSessions
  PROVE  /\ Datagrams(k, "request") \subseteq ClientDatagrams
         /\ \A s \in Sessions("request"), type \in ClientTypes :
              Transmit(k, s, type) \in ClientDatagrams
BY DEF Datagrams, ClientDatagrams, ClientTypes, Transmit, Datagram, Sessions

\* The same of a session of the server: its datagrams are replies.
LEMMA ServerSends ==
  ASSUME NEW k \in DOMAIN serverSessions
  PROVE  /\ Datagrams(k, "reply") \subseteq ServerDatagrams
         /\ \A s \in Sessions("reply"), type \in ServerTypes :
              Transmit(k, s, type) \in ServerDatagrams
BY DEF Datagrams, ServerDatagrams, ServerTypes, Transmit, Datagram, Sessions

\* Sessions are only added, so what named a session once always does.
LEMMA DatagramsGrow ==
  /\ DOMAIN clientSessions \subseteq DOMAIN clientSessions'
       => ClientDatagrams \subseteq ClientDatagrams'
  /\ DOMAIN serverSessions \subseteq DOMAIN serverSessions'
       => ServerDatagrams \subseteq ServerDatagrams'
BY DEF ClientDatagrams, ServerDatagrams

\* What a session holds stays well formed when the link carries more datagrams.
LEMMA HeldGrow ==
  ASSUME DOMAIN clientSessions \subseteq DOMAIN clientSessions',
         DOMAIN serverSessions \subseteq DOMAIN serverSessions'
  PROVE  ClientHeld \subseteq ClientHeld' /\ ServerHeld \subseteq ServerHeld'
BY DatagramsGrow DEF ClientHeld, ServerHeld

\* A session goes on: the others are what they were.
LEMMA SessionGoesOn ==
  ASSUME NEW S, NEW sessions \in Seq(S), NEW k \in DOMAIN sessions, NEW s \in S
  PROVE  LET after == [sessions EXCEPT ![k] = s] IN
         /\ after \in Seq(S) /\ Len(after) = Len(sessions) /\ DOMAIN after = DOMAIN sessions
         /\ after[k] = s /\ \A j \in DOMAIN sessions \ {k} : after[j] = sessions[j]
BY LenProperties

\* A session is added: the others are what they were.
LEMMA SessionAdded ==
  ASSUME NEW S, NEW sessions \in Seq(S), NEW s \in S
  PROVE  LET after == Append(sessions, s) IN
         /\ after \in Seq(S) /\ Len(after) = Len(sessions) + 1
         /\ DOMAIN after = DOMAIN sessions \cup {Len(after)}
         /\ Len(after) \notin DOMAIN sessions
         /\ after[Len(after)] = s /\ \A j \in DOMAIN sessions : after[j] = sessions[j]
BY AppendProperties, LenProperties
\* What a step of the client's main thread keeps, given what it does to sessions and datagrams.
LEMMA ClientStep ==
  ASSUME ClientTyped, ServerTyped, UNCHANGED <<clientIo, serverSessions>>,
         clientSessions' \in Seq(Sessions("request")),
         DOMAIN clientSessions \subseteq DOMAIN clientSessions',
         client' \in [session : 0..Len(clientSessions'), connected : BOOLEAN,
                      retries : 0..MaxRetries, pc : {"events", "check"}],
         clientEvents' \in Seq(ServerTypes \cup {"onDisconnect"}),
         NEW sent, toServer' = toServer \cup sent, sent \subseteq ClientDatagrams'
  PROVE  ClientTyped'
<1>1. clientIo' \in [holds : {<< >>} \cup ClientHeld', left : Nat]
  BY HeldGrow DEF ClientTyped
<1>2. toServer' \subseteq ClientDatagrams'
  BY DatagramsGrow DEF ClientTyped
<1> QED BY <1>1, <1>2 DEF ClientTyped

\* A session of the client that is there sends.
LEMMA ClientSessionStep ==
  ASSUME ClientTyped, NEW k \in DOMAIN clientSessions, NEW s \in Sessions("request"),
         clientSessions' = [clientSessions EXCEPT ![k] = s]
  PROVE  /\ clientSessions' \in Seq(Sessions("request"))
         /\ DOMAIN clientSessions' = DOMAIN clientSessions
         /\ Len(clientSessions') = Len(clientSessions)
         /\ ClientDatagrams' = ClientDatagrams
<1> DEFINE after == [clientSessions EXCEPT ![k] = s]
<1>1. clientSessions \in Seq(Sessions("request"))
  BY DEF ClientTyped
<1>2. /\ after \in Seq(Sessions("request"))
      /\ Len(after) = Len(clientSessions) /\ DOMAIN after = DOMAIN clientSessions
  BY <1>1, SessionGoesOn
<1>3. clientSessions' = after
  OBVIOUS
<1> HIDE DEF after
<1> QED BY <1>2, <1>3 DEF ClientDatagrams

\* An attempt to connect sends CONNECT with a new session.
LEMMA AttemptTyped ==
  ASSUME ClientTyped, ServerTyped, UNCHANGED <<clientIo, clientEvents, serverSessions>>,
         NEW c \in [session : 0..Len(clientSessions), connected : BOOLEAN,
                    retries : 0..MaxRetries, pc : {"events", "check"}],
         Attempt(c)
  PROVE  ClientTyped'
<1> DEFINE k == Len(clientSessions) + 1
           s == Sent(NewSession, "connect")
<1>1. NewSession \in Sessions("request") /\ s \in Sessions("request")
  BY NewSessionType, SentType DEF Reliable
<1> HIDE DEF s
<1>2. /\ clientSessions' = Append(clientSessions, s)
      /\ toServer' = toServer \cup {Transmit(k, NewSession, "connect")}
      /\ client' = [c EXCEPT !.session = k]
  BY DEF Attempt, SentTo, s
<1>3. /\ clientSessions' \in Seq(Sessions("request")) /\ Len(clientSessions') = k
      /\ DOMAIN clientSessions \subseteq DOMAIN clientSessions' /\ k \in DOMAIN clientSessions'
      /\ Len(clientSessions) \in Nat
  BY <1>1, <1>2, SessionAdded, LenProperties DEF ClientTyped
<1> DEFINE sent == {Transmit(k, NewSession, "connect")}
<1>4. sent \subseteq ClientDatagrams' /\ toServer' = toServer \cup sent
  BY <1>1, <1>2, <1>3 DEF ClientDatagrams, Transmit, Datagram, ClientTypes, Sessions
<1>5. client' \in [session : 0..Len(clientSessions'), connected : BOOLEAN,
                   retries : 0..MaxRetries, pc : {"events", "check"}]
  BY <1>2, <1>3
<1>6. clientEvents' \in Seq(ServerTypes \cup {"onDisconnect"})
  BY DEF ClientTyped
<1> HIDE DEF sent
<1> QED BY <1>3, <1>4, <1>5, <1>6, ClientStep

\* disconnect() sends DISCONNECT at most, and forgets the session.
LEMMA DisconnectedTyped ==
  ASSUME ClientTyped, ServerTyped, Disconnected
  PROVE  ClientTyped'
<1> DEFINE k == client.session
           sent == When(client.connected /\ k # NoSession,
                        Transmit(k, clientSessions[k], "disconnect"))
<1>1. sent \subseteq ClientDatagrams
  <2>1. CASE k = NoSession
    BY <2>1 DEF When
  <2>2. CASE k # NoSession
    <3>1. k \in DOMAIN clientSessions /\ clientSessions[k] \in Sessions("request")
      BY <2>2, LenProperties, ElementOfSeq DEF ClientTyped, NoSession
    <3>2. Transmit(k, clientSessions[k], "disconnect") \in ClientDatagrams
      BY <3>1, ClientSends DEF ClientTypes
    <3> QED BY <3>2 DEF When
  <2> QED BY <2>1, <2>2
<1> HIDE DEF sent
<1>2. UNCHANGED <<clientSessions, clientIo, serverSessions>> /\ toServer' = toServer \cup sent
  BY DEF Disconnected, serverVars, SentTo, sent
<1>3. client' \in [session : 0..Len(clientSessions'), connected : BOOLEAN,
                   retries : 0..MaxRetries, pc : {"events", "check"}]
  <2>1. client' = [client EXCEPT !.session = NoSession, !.connected = FALSE, !.pc = "events"]
    BY DEF Disconnected
  <2>2. 0 \in 0..Len(clientSessions)
    BY LenProperties DEF ClientTyped
  <2> QED BY <1>2, <2>1, <2>2 DEF ClientTyped, NoSession
<1>4. clientEvents' \in Seq(ServerTypes \cup {"onDisconnect"})
  BY DEF Disconnected, ClientTyped, Push
<1>5. sent \subseteq ClientDatagrams'
  BY <1>1, <1>2 DEF ClientDatagrams
<1>6. clientSessions' \in Seq(Sessions("request"))
        /\ DOMAIN clientSessions \subseteq DOMAIN clientSessions'
  BY <1>2 DEF ClientTyped
<1> QED BY <1>2, <1>3, <1>4, <1>5, <1>6, ClientStep

\* Session::update of the client's session.
LEMMA ClientMaintainedTyped ==
  ASSUME ClientTyped, ServerTyped, UNCHANGED <<clientIo, clientEvents, serverSessions>>,
         client.session # NoSession,
         client' \in [session : 0..Len(clientSessions), connected : BOOLEAN,
                      retries : 0..MaxRetries, pc : {"events", "check"}],
         NEW m \in Maintained(client.session, clientSessions[client.session]),
         clientSessions' = [clientSessions EXCEPT ![client.session] = m[1]],
         toServer' = SentTo(toServer, m[2])
  PROVE  ClientTyped'
<1> DEFINE k == client.session
<1>1. k \in DOMAIN clientSessions /\ k \in Nat /\ clientSessions[k] \in Sessions("request")
  BY LenProperties, ElementOfSeq DEF ClientTyped, NoSession
<1>2. m[1] \in Sessions("request") /\ m[2] \subseteq ClientDatagrams
  <2>1. "request" \in Reliable
    BY DEF Reliable
  <2>2. m[1] \in Sessions("request") /\ m[2] \subseteq Datagrams(k, "request")
    BY <1>1, <2>1, MaintainedType
  <2> QED BY <1>1, <2>2, ClientSends
<1>3. /\ clientSessions' \in Seq(Sessions("request"))
      /\ DOMAIN clientSessions' = DOMAIN clientSessions
      /\ Len(clientSessions') = Len(clientSessions)
      /\ ClientDatagrams' = ClientDatagrams
  BY <1>1, <1>2, ClientSessionStep
<1>4. toServer' = toServer \cup m[2]
  BY DEF SentTo
<1>5. clientEvents' \in Seq(ServerTypes \cup {"onDisconnect"})
  BY DEF ClientTyped
<1> QED BY <1>2, <1>3, <1>4, <1>5, ClientStep
\* The steps of the server's two threads.
ServerStep ==
  \/ \E d \in toServer : AnswerConnect(d) \/ AcceptConnect(d) \/ ServerLookup(d)
  \/ ServerHandle \/ ServerMain \/ ServerSilence

\* The two programs share the network only.
LEMMA ServerOrClient ==
  ASSUME Next
  PROVE  IF ServerStep THEN UNCHANGED <<clientVars, clientIo>>
         ELSE UNCHANGED <<serverVars, serverIo>>
<1>1. ASSUME ServerStep PROVE UNCHANGED <<clientVars, clientIo>>
  BY <1>1 DEF ServerStep, AnswerConnect, AcceptConnect, ServerLookup, ServerHandle, ServerMain,
     ServerSilence, ServerEvent, ServerEventsDone, Erase, ServerMaintain, SweepNothing, Callbacks
<1>2. ASSUME ~ServerStep PROVE UNCHANGED <<serverVars, serverIo>>
  <2>1. \/ Connect \/ Request \/ Disconnect \/ ClientMain \/ ClientSilence
        \/ \E d \in toClient : ClientLookup(d)
        \/ ClientHandle
    BY <1>2 DEF Next, ServerStep
  <2> QED BY <2>1 DEF Connect, Request, Disconnect, Disconnected, ClientMain, ClientSilence,
     ClientLookup, ClientHandle, ClientEvent, ClientEventsDone, ClientCheck, Retry, GiveUp, Close,
     ClientMaintain, NothingToDo
<1> QED BY <1>1, <1>2

\* Both programs only add sessions.
LEMMA SessionsGrow ==
  ASSUME ClientTyped, ServerTyped, [Next]_vars
  PROVE  /\ DOMAIN clientSessions \subseteq DOMAIN clientSessions'
         /\ DOMAIN serverSessions \subseteq DOMAIN serverSessions'
<1>1. \/ clientSessions' = clientSessions
      \/ \E k, s : clientSessions' = [clientSessions EXCEPT ![k] = s]
      \/ \E s : clientSessions' = Append(clientSessions, s)
  <2>1. CASE ServerStep \/ UNCHANGED vars
    BY <2>1, ServerOrClient DEF vars, clientVars, Next, ServerStep
  <2>2. CASE Connect \/ Request \/ Disconnect \/ ClientSilence \/ ClientHandle
    BY <2>2 DEF Connect, Attempt, Request, Disconnect, Disconnected, ClientSilence, ClientHandle
  <2>3. ASSUME NEW d \in toClient, ClientLookup(d)
        PROVE  clientSessions' = clientSessions
    BY <2>3 DEF ClientLookup, clientVars
  <2>4. CASE ClientMain
    BY <2>4 DEF ClientMain, ClientEvent, ClientEventsDone, ClientCheck, Retry, Attempt, GiveUp, Close,
       Disconnected, ClientMaintain, NothingToDo
  <2> QED BY <2>1, <2>2, <2>3, <2>4 DEF Next, ServerStep
<1>2. \/ serverSessions' = serverSessions
      \/ \E k, s : serverSessions' = [serverSessions EXCEPT ![k] = s]
      \/ \E s : serverSessions' = Append(serverSessions, s)
  <2>1. CASE ~ServerStep
    BY <2>1, ServerOrClient DEF vars, serverVars
  <2>2. ASSUME NEW d \in toServer, AnswerConnect(d) \/ AcceptConnect(d) \/ ServerLookup(d)
        PROVE  <1>2!:
    BY <2>2 DEF AnswerConnect, AcceptConnect, ServerLookup, serverVars
  <2>3. CASE ServerHandle \/ ServerSilence
    BY <2>3 DEF ServerHandle, ServerSilence
  <2>4. CASE ServerMain
    BY <2>4 DEF ServerMain, ServerEvent, Dispatch, ServerEventsDone, Erase, ServerMaintain, SweepNothing,
       Callbacks
  <2> QED BY <2>1, <2>2, <2>3, <2>4 DEF ServerStep
<1>3. ASSUME NEW S, NEW q \in Seq(S), NEW r,
             r = q \/ (\E k, s : r = [q EXCEPT ![k] = s]) \/ (\E s : r = Append(q, s))
      PROVE  DOMAIN q \subseteq DOMAIN r
  <2>1. CASE r = q
    BY <2>1
  <2>2. ASSUME NEW k, NEW s, r = [q EXCEPT ![k] = s]
        PROVE  DOMAIN q \subseteq DOMAIN r
    BY <2>2
  <2>3. ASSUME NEW s, r = Append(q, s)
        PROVE  DOMAIN q \subseteq DOMAIN r
    BY <2>3
  <2> QED BY <1>3, <2>1, <2>2, <2>3
<1>4. DOMAIN clientSessions \subseteq DOMAIN clientSessions'
  <2>1. clientSessions \in Seq(Sessions("request"))
    BY DEF ClientTyped
  <2> QED BY <1>1, <1>3, <2>1
<1>5. DOMAIN serverSessions \subseteq DOMAIN serverSessions'
  <2>1. serverSessions \in Seq(Sessions("reply"))
    BY DEF ServerTyped
  <2> QED BY <1>2, <1>3, <2>1
<1> QED BY <1>4, <1>5

\* Every step, of either side, leaves the client's state well formed.
LEMMA ClientTypedNext ==
  ASSUME ClientTyped, ServerTyped, [Next]_vars
  PROVE  ClientTyped'
<1> DEFINE C == [session : 0..Len(clientSessions), connected : BOOLEAN,
                 retries : 0..MaxRetries, pc : {"events", "check"}]
           k == client.session
<1>0. /\ client \in C
      /\ clientEvents \in Seq(ServerTypes \cup {"onDisconnect"})
      /\ k # NoSession => k \in DOMAIN clientSessions /\ clientSessions[k] \in Sessions("request")
  BY LenProperties, ElementOfSeq DEF ClientTyped, NoSession
<1>a. ASSUME NEW pc \in {"events", "check"}, NEW n \in 0..MaxRetries
      PROVE  /\ [client EXCEPT !.retries = n] \in C /\ [client EXCEPT !.pc = pc] \in C
             /\ [client EXCEPT !.retries = n, !.pc = pc] \in C
             /\ [client EXCEPT !.session = NoSession, !.pc = pc] \in C
             /\ [client EXCEPT !.connected = TRUE] \in C
  BY <1>0, NoSession \in 0..Len(clientSessions), LenProperties DEF ClientTyped, NoSession
<1>1. ASSUME UNCHANGED <<client, clientEvents, clientSessions, toServer, clientIo>>,
             DOMAIN serverSessions \subseteq DOMAIN serverSessions'
      PROVE  ClientTyped'
  BY <1>1, HeldGrow DEF ClientTyped, ClientDatagrams
<1>2. ASSUME UNCHANGED <<clientSessions, toServer, clientIo, serverSessions>>, client' \in C,
             clientEvents' \in Seq(ServerTypes \cup {"onDisconnect"})
      PROVE  ClientTyped'
  BY <1>2, HeldGrow DEF ClientTyped, ClientDatagrams
<1>3. CASE Connect
  <2>1. 0 \in 0..MaxRetries
    BY BoundsAssumption
  <2> QED BY <1>0, <1>a, <1>3, <2>1, AttemptTyped DEF Connect, serverVars
<1>4. CASE Request
  <2> DEFINE s == Sent(clientSessions[k], "request")
             sent == {Transmit(k, clientSessions[k], "request")}
  <2>1. k \in DOMAIN clientSessions /\ s \in Sessions("request")
    BY <1>0, <1>4, SentType DEF Request, Reliable
  <2>2. sent \subseteq ClientDatagrams
    <3>1. "request" \in ClientTypes /\ clientSessions[k] \in Sessions("request")
      BY <1>0, <1>4 DEF ClientTypes, Request
    <3> QED BY <2>1, <3>1, ClientSends
  <2> HIDE DEF s, sent
  <2>3. /\ clientSessions' = [clientSessions EXCEPT ![k] = s]
        /\ toServer' = toServer \cup sent
        /\ UNCHANGED <<client, clientIo, clientEvents, serverSessions>>
    BY <1>4 DEF Request, SentTo, serverVars, s, sent
  <2>4. /\ clientSessions' \in Seq(Sessions("request"))
        /\ DOMAIN clientSessions' = DOMAIN clientSessions
        /\ Len(clientSessions') = Len(clientSessions)
        /\ ClientDatagrams' = ClientDatagrams
    BY <2>1, <2>3, ClientSessionStep
  <2> QED BY <1>0, <2>2, <2>3, <2>4, ClientStep
<1>5. CASE Disconnect
  BY <1>5, DisconnectedTyped DEF Disconnect
<1>6. CASE ClientEvent
  <2>1. clientEvents' \in Seq(ServerTypes \cup {"onDisconnect"})
    BY <1>0, <1>6, HeadTailProperties DEF ClientEvent, Pop
  <2>2. client' \in C
    BY <1>0, <1>a, <1>6 DEF ClientEvent, ConnectAckHandler
  <2> QED BY <1>2, <1>6, <2>1, <2>2 DEF ClientEvent, serverVars
<1>7. CASE ClientEventsDone
  BY <1>0, <1>a, <1>2, <1>7 DEF ClientEventsDone, serverVars
<1>8. ASSUME NEW expired \in BOOLEAN, ClientCheck(expired) PROVE ClientTyped'
  <2>1. CASE Retry(expired)
    <3>1. client.retries + 1 \in 0..MaxRetries
      <4>1. client.retries \in 0..MaxRetries /\ client.retries < MaxRetries /\ MaxRetries \in Nat
        BY <1>0, <2>1, BoundsAssumption DEF Retry
      <4> QED BY <4>1
    <3>2. [client EXCEPT !.retries = @ + 1, !.pc = "events"] \in C
      BY <1>a, <3>1
    <3> QED BY <2>1, <3>2, AttemptTyped DEF Retry, serverVars
  <2>2. CASE GiveUp(expired)
    <3>1. client' \in C
      BY <1>0, <1>a, <2>2 DEF GiveUp
    <3> QED BY <2>2, <3>1, ClientMaintainedTyped DEF GiveUp, serverVars, AttemptFailed
  <2>3. CASE Close
    BY <2>3, DisconnectedTyped DEF Close
  <2>4. CASE ClientMaintain(expired)
    <3>1. client' \in C
      BY <1>0, <1>a, <2>4 DEF ClientMaintain
    <3> QED BY <2>4, <3>1, ClientMaintainedTyped DEF ClientMaintain, serverVars
  <2>5. CASE NothingToDo
    BY <1>0, <1>a, <1>2, <2>5 DEF NothingToDo, serverVars
  <2> QED BY <1>8, <2>1, <2>2, <2>3, <2>4, <2>5 DEF ClientCheck
<1>9. CASE ClientSilence
  <2> DEFINE s == [clientSessions[k] EXCEPT !.quiet = TRUE]
  <2>1. k \in DOMAIN clientSessions /\ s \in Sessions("request")
    BY <1>0, <1>9 DEF ClientSilence, Sessions
  <2>2. clientSessions' = [clientSessions EXCEPT ![k] = s]
    BY <1>9 DEF ClientSilence
  <2> HIDE DEF s
  <2>3. /\ clientSessions' \in Seq(Sessions("request"))
        /\ DOMAIN clientSessions' = DOMAIN clientSessions
        /\ Len(clientSessions') = Len(clientSessions)
    BY <2>1, <2>2, ClientSessionStep
  <2>4. UNCHANGED <<client, clientIo, clientEvents, toServer, serverSessions>>
    BY <1>9 DEF ClientSilence, serverVars
  <2> DEFINE sent == {}
  <2>5. toServer' = toServer \cup sent /\ sent \subseteq ClientDatagrams'
    BY <2>4
  <2> HIDE DEF sent
  <2> QED BY <1>0, <2>3, <2>4, <2>5, ClientStep
<1>10. ASSUME NEW d \in toClient, ClientLookup(d) PROVE ClientTyped'
  <2>1. d \in ServerDatagrams /\ k \in DOMAIN clientSessions
    BY <1>0, <1>10 DEF ServerTyped, ClientLookup
  <2>2. clientIo' = [holds |-> <<k, d>>, left |-> clientIo.left - 1] /\ clientIo.left - 1 \in Nat
    BY <1>10 DEF ClientLookup, Listens, Taken, ClientTyped
  <2>3. UNCHANGED <<client, clientEvents, clientSessions, toServer, serverSessions>>
    BY <1>10 DEF ClientLookup, clientVars, serverVars
  <2>4. <<k, d>> \in ClientHeld'
    BY <2>1, <2>3 DEF ClientHeld, ServerDatagrams
  <2> QED BY <2>2, <2>3, <2>4 DEF ClientTyped, ClientDatagrams
<1>11. CASE ClientHandle
  <2> DEFINE j == clientIo.holds[1]
             d == clientIo.holds[2]
             s == Received(clientSessions[j], d)
  <2>1. j \in DOMAIN clientSessions /\ d \in ServerDatagrams
    BY <1>11 DEF ClientHandle, ClientTyped, ClientHeld
  <2>2. s \in Sessions("request") /\ d.type \in ServerTypes
    <3>1. /\ clientSessions[j] \in Sessions("request")
          /\ d.seq \in Nat /\ d.acks \in SUBSET Nat /\ d.type \in ServerTypes
      BY <2>1, ElementOfSeq, LenProperties DEF ClientTyped, ServerDatagrams
    <3> QED BY <3>1, ReceivedType DEF Reliable
  <2>3. clientSessions' = [clientSessions EXCEPT ![j] = s]
    BY <1>11 DEF ClientHandle
  <2>4. clientEvents' = clientEvents \/ clientEvents' = clientEvents \o <<d.type>>
    BY <1>11 DEF ClientHandle, Push
  <2>5. clientEvents' \in Seq(ServerTypes \cup {"onDisconnect"})
    <3> DEFINE one == <<d.type>>
    <3>1. one \in Seq(ServerTypes \cup {"onDisconnect"})
      BY <2>2
    <3> HIDE DEF one
    <3>2. clientEvents \o one \in Seq(ServerTypes \cup {"onDisconnect"})
      BY <1>0, <3>1, ConcatProperties
    <3> QED BY <1>0, <2>4, <3>2 DEF one
  <2> HIDE DEF s
  <2>6. /\ clientSessions' \in Seq(Sessions("request"))
        /\ DOMAIN clientSessions' = DOMAIN clientSessions
        /\ Len(clientSessions') = Len(clientSessions)
    BY <2>1, <2>2, <2>3, ClientSessionStep
  <2>7. UNCHANGED <<client, toServer, serverSessions>>
    BY <1>11 DEF ClientHandle, serverVars
  <2>8. clientIo' \in [holds : {<< >>} \cup ClientHeld', left : Nat]
    BY <1>11 DEF ClientHandle, Handled, ClientTyped
  <2> QED BY <1>0, <2>5, <2>6, <2>7, <2>8 DEF ClientTyped, ClientDatagrams
<1>12. CASE ServerStep \/ UNCHANGED vars
  <2>1. UNCHANGED <<clientVars, clientIo>>
    BY <1>12, ServerOrClient DEF vars, Next, ServerStep
  <2>2. DOMAIN serverSessions \subseteq DOMAIN serverSessions'
    BY SessionsGrow
  <2> QED BY <1>1, <2>1, <2>2 DEF clientVars
<1> QED BY <1>3, <1>4, <1>5, <1>6, <1>7, <1>8, <1>9, <1>10, <1>11, <1>12
        DEF Next, ClientMain, ServerStep
\* A session of the server that is there is updated; the others are what they were.
LEMMA ServerSessionStep ==
  ASSUME ServerTyped, NEW k \in DOMAIN serverSessions, NEW s \in Sessions("reply"),
         serverSessions' = [serverSessions EXCEPT ![k] = s]
  PROVE  /\ serverSessions' \in Seq(Sessions("reply"))
         /\ DOMAIN serverSessions' = DOMAIN serverSessions
         /\ Len(serverSessions') = Len(serverSessions)
         /\ ServerDatagrams' = ServerDatagrams /\ ServerEvents' = ServerEvents
         /\ serverSessions'[k] = s
         /\ \A j \in DOMAIN serverSessions \ {k} : serverSessions'[j] = serverSessions[j]
<1> DEFINE after == [serverSessions EXCEPT ![k] = s]
<1>1. serverSessions \in Seq(Sessions("reply"))
  BY DEF ServerTyped
<1>2. /\ after \in Seq(Sessions("reply"))
      /\ Len(after) = Len(serverSessions) /\ DOMAIN after = DOMAIN serverSessions
      /\ after[k] = s /\ \A j \in DOMAIN serverSessions \ {k} : after[j] = serverSessions[j]
  BY <1>1, SessionGoesOn
<1>3. serverSessions' = after
  OBVIOUS
<1> HIDE DEF after
<1> QED BY <1>2, <1>3 DEF ServerDatagrams, ServerEvents

\* The datagram of a CONNECT, or of another packet, that the server's I/O thread takes.
LEMMA ServerTakes ==
  ASSUME ClientTyped, ServerTyped, Listens(serverIo), NEW d \in toServer,
         NEW k \in DOMAIN serverSessions', NEW new \in BOOLEAN,
         UNCHANGED clientSessions
  PROVE  Taken(serverIo, <<k, d, new>>) \in [holds : {<< >>} \cup ServerHeld', left : Nat]
<1>1. d \in ClientDatagrams'
  BY DEF ClientTyped, ClientDatagrams
<1>2. <<k, d, new>> \in ServerHeld'
  BY <1>1 DEF ServerHeld
<1>3. serverIo.left - 1 \in Nat
  BY DEF ServerTyped, Listens
<1> QED BY <1>2, <1>3 DEF Taken

\* The event at the head of the queue, and the queue without it.
LEMMA HeadEvent ==
  ASSUME ServerTyped, serverEvents # << >>
  PROVE  LET rest == Tail(serverEvents) IN
         /\ Len(serverEvents) \in Nat \ {0}
         /\ DOMAIN serverEvents = 1..Len(serverEvents)
         /\ Head(serverEvents) \in ServerEvents /\ Head(serverEvents) = serverEvents[1]
         /\ Head(serverEvents).session \in DOMAIN serverSessions
         /\ rest \in Seq(ServerEvents)
         /\ DOMAIN rest = 1..(Len(serverEvents) - 1)
         /\ \A i \in DOMAIN rest : rest[i] = serverEvents[i + 1]
<1>1. serverEvents \in Seq(ServerEvents)
  BY DEF ServerTyped
<1>2. Head(serverEvents) \in ServerEvents
  BY <1>1, HeadTailProperties
<1> QED BY <1>1, <1>2, HeadTailProperties, EmptySeq, LenProperties DEF ServerEvents

\* What the main thread tells the application of the event at the head.
CallOf(event) ==
  IF event.type = "onConnect" THEN <<"onConnect">> ELSE <<"message", event.from, event.seq>>

(***************************************************************************)
(* One turn of _processEvents: the session of the event gets the answer,   *)
(* if one is due, or the mark that DISCONNECT leaves.                      *)
(***************************************************************************)
LEMMA DispatchFacts ==
  ASSUME ServerTyped, NEW event \in ServerEvents, Dispatch(event.session, event.type)
  PROVE  LET k == event.session IN
         /\ serverSessions' \in Seq(Sessions("reply"))
         /\ DOMAIN serverSessions' = DOMAIN serverSessions
         /\ Len(serverSessions') = Len(serverSessions)
         /\ toClient' \subseteq ServerDatagrams
         /\ serverSessions'[k].seen = serverSessions[k].seen
         /\ \A j \in DOMAIN serverSessions \ {k} : serverSessions'[j] = serverSessions[j]
<1> DEFINE k == event.session
           s == serverSessions[k]
           answer == Sent(s, "reply")
           ack == Sent(s, "connectAck")
           gone == [s EXCEPT !.shouldClose = TRUE]
<1>1. k \in DOMAIN serverSessions /\ s \in Sessions("reply")
  BY ElementOfSeq, LenProperties DEF ServerTyped, ServerEvents
<1>2. /\ answer \in Sessions("reply") /\ answer.seen = s.seen
      /\ ack \in Sessions("reply") /\ ack.seen = s.seen
  BY <1>1, SentType DEF Reliable
<1>3. gone \in Sessions("reply") /\ gone.seen = s.seen
  BY <1>1 DEF Sessions
<1>4. "reply" \in ServerTypes /\ "connectAck" \in ServerTypes
  BY DEF ServerTypes
<1>5. Transmit(k, s, "reply") \in ServerDatagrams /\ Transmit(k, s, "connectAck") \in ServerDatagrams
  BY <1>1, <1>4, ServerSends
<1>6. \/ \E after \in {answer, ack} :
           /\ serverSessions' = [serverSessions EXCEPT ![k] = after]
           /\ \E d \in ServerDatagrams : toClient' = toClient \cup {d}
      \/ serverSessions' = [serverSessions EXCEPT ![k] = gone] /\ toClient' = toClient
      \/ UNCHANGED <<serverSessions, toClient>>
  BY <1>5 DEF Dispatch, SentTo
<1>7. toClient' \subseteq ServerDatagrams
  BY <1>6 DEF ServerTyped
<1> HIDE DEF answer, ack, gone
<1>8. \/ \E after \in {answer, ack, gone} : serverSessions' = [serverSessions EXCEPT ![k] = after]
      \/ serverSessions' = serverSessions
  BY <1>6
<1>9. ASSUME NEW after \in {answer, ack, gone}, serverSessions' = [serverSessions EXCEPT ![k] = after]
      PROVE  /\ serverSessions' \in Seq(Sessions("reply"))
             /\ DOMAIN serverSessions' = DOMAIN serverSessions
             /\ Len(serverSessions') = Len(serverSessions)
             /\ serverSessions'[k].seen = serverSessions[k].seen
             /\ \A j \in DOMAIN serverSessions \ {k} : serverSessions'[j] = serverSessions[j]
  <2>1. after \in Sessions("reply") /\ after.seen = s.seen
    BY <1>2, <1>3, <1>9
  <2> QED BY <1>1, <1>9, <2>1, ServerSessionStep
<1> QED BY <1>7, <1>8, <1>9 DEF ServerTyped
\* One more call for session k: it is the last one, and the other sessions have theirs.
LEMMA CallAdded ==
  ASSUME ServerTyped, NEW k \in DOMAIN calls, NEW c \in Calls,
         calls' = [calls EXCEPT ![k] = Append(@, c)]
  PROVE  /\ calls' \in Seq(Seq(Calls)) /\ Len(calls') = Len(calls) /\ DOMAIN calls' = DOMAIN calls
         /\ \A j \in DOMAIN calls \ {k} : calls'[j] = calls[j]
         /\ Len(calls[k]) \in Nat /\ DOMAIN calls[k] = 1..Len(calls[k])
         /\ DOMAIN calls'[k] = 1..(Len(calls[k]) + 1)
         /\ calls'[k] # << >>
         /\ calls'[k][Len(calls[k]) + 1] = c
         /\ \A i \in DOMAIN calls[k] : calls'[k][i] = calls[k][i]
<1> DEFINE longer == Append(calls[k], c)
<1>1. calls \in Seq(Seq(Calls)) /\ calls[k] \in Seq(Calls)
  BY ElementOfSeq, LenProperties DEF ServerTyped
<1>2. /\ longer \in Seq(Calls) /\ longer # << >>
      /\ Len(calls[k]) \in Nat /\ DOMAIN calls[k] = 1..Len(calls[k])
      /\ DOMAIN longer = 1..(Len(calls[k]) + 1)
      /\ longer[Len(calls[k]) + 1] = c
      /\ \A i \in DOMAIN calls[k] : longer[i] = calls[k][i]
  BY <1>1, AppendProperties, LenProperties
<1>3. calls' = [calls EXCEPT ![k] = longer]
  OBVIOUS
<1> HIDE DEF longer
<1>4. /\ calls' \in Seq(Seq(Calls)) /\ Len(calls') = Len(calls) /\ DOMAIN calls' = DOMAIN calls
      /\ \A j \in DOMAIN calls \ {k} : calls'[j] = calls[j]
      /\ calls'[k] = longer
  BY <1>1, <1>2, <1>3, SessionGoesOn
<1> QED BY <1>2, <1>4

\* onDisconnect is for the session that left the map, if there is one.
LEMMA CallbacksFacts ==
  ASSUME ServerTyped, Callbacks
  PROVE  \/ server.leaving = << >> /\ calls' = calls
         \/ \E k \in DOMAIN calls :
              /\ server.leaving = <<k>>
              /\ calls' = [calls EXCEPT ![k] = Append(@, <<"onDisconnect">>)]
<1>1. calls \in Seq(Seq(Calls)) /\ DOMAIN calls = DOMAIN serverSessions
  BY LenProperties DEF ServerTyped
<1>2. calls' = [j \in DOMAIN calls |->
                  IF <<j>> = server.leaving THEN Append(calls[j], <<"onDisconnect">>) ELSE calls[j]]
  BY DEF Callbacks
<1>3. CASE server.leaving = << >>
  <2>1. calls = [j \in DOMAIN calls |-> calls[j]]
    BY <1>1
  <2>2. \A j \in DOMAIN calls : <<j>> # << >>
    OBVIOUS
  <2>3. calls' = [j \in DOMAIN calls |-> calls[j]]
    BY <1>2, <1>3, <2>2
  <2> QED BY <1>3, <2>1, <2>3
<1>4. ASSUME NEW k \in DOMAIN serverSessions, server.leaving = <<k>>
      PROVE  calls' = [calls EXCEPT ![k] = Append(@, <<"onDisconnect">>)]
  <2>1. \A j \in DOMAIN calls : <<j>> = server.leaving <=> j = k
    BY <1>4
  <2>2. calls' = [j \in DOMAIN calls |->
                    IF j = k THEN Append(calls[j], <<"onDisconnect">>) ELSE calls[j]]
    BY <1>2, <2>1
  <2> QED BY <1>1, <2>2
<1> QED BY <1>1, <1>3, <1>4 DEF ServerTyped

\* Every step, of either side, leaves the server's state well formed.
LEMMA ServerTypedNext ==
  ASSUME ClientTyped, ServerTyped, [Next]_vars
  PROVE  ServerTyped'
<1> DEFINE S == [session : {0, Len(serverSessions)},
                 leaving : {<< >>} \cup {<<k>> : k \in DOMAIN serverSessions},
                 pc : {"events", "sweep", "callbacks"}]
           n == server.session
<1>0. /\ server \in S /\ Len(serverSessions) \in Nat
      /\ DOMAIN serverSessions = 1..Len(serverSessions)
      /\ n # NoSession => n \in DOMAIN serverSessions /\ serverSessions[n] \in Sessions("reply")
      /\ calls \in Seq(Seq(Calls)) /\ DOMAIN calls = DOMAIN serverSessions
      /\ Len(calls) = Len(serverSessions)
      /\ serverSessions \in Seq(Sessions("reply")) /\ toClient \subseteq ServerDatagrams
      /\ serverEvents \in Seq(ServerEvents)
  BY LenProperties, ElementOfSeq DEF ServerTyped, NoSession
<1>1. ServerHeld \subseteq ServerHeld'
  BY SessionsGrow, HeldGrow
<1>2. ASSUME UNCHANGED <<serverSessions, serverIo, serverEvents, toClient>>, server' \in S,
             calls' \in Seq(Seq(Calls)), Len(calls') = Len(calls)
      PROVE  ServerTyped'
  BY <1>1, <1>2 DEF ServerTyped, ServerDatagrams, ServerEvents
<1>3. CASE ~ServerStep
  BY <1>0, <1>2, <1>3, ServerOrClient DEF vars, serverVars
<1>4. ASSUME NEW d \in toServer, AnswerConnect(d) PROVE ServerTyped'
  <2> DEFINE s == Sent(serverSessions[n], "connectAck")
  <2>1. n \in DOMAIN serverSessions /\ s \in Sessions("reply")
    BY <1>0, <1>4, SentType DEF AnswerConnect, Reliable
  <2>2. "connectAck" \in ServerTypes
    BY DEF ServerTypes
  <2>3. Transmit(n, serverSessions[n], "connectAck") \in ServerDatagrams
    BY <1>0, <2>1, <2>2, ServerSends
  <2>4. toClient' \subseteq ServerDatagrams
    BY <1>0, <1>4, <2>3 DEF AnswerConnect, SentTo
  <2>5. serverSessions' = [serverSessions EXCEPT ![n] = s]
          /\ UNCHANGED <<server, serverEvents, calls>>
    BY <1>4 DEF AnswerConnect
  <2> HIDE DEF s
  <2>6. /\ serverSessions' \in Seq(Sessions("reply"))
        /\ DOMAIN serverSessions' = DOMAIN serverSessions
        /\ Len(serverSessions') = Len(serverSessions)
        /\ ServerDatagrams' = ServerDatagrams /\ ServerEvents' = ServerEvents
    BY <2>1, <2>5, ServerSessionStep
  <2>7. serverIo' \in [holds : {<< >>} \cup ServerHeld', left : Nat]
    <3>1. serverIo' = [holds |-> << >>, left |-> serverIo.left - 1] /\ serverIo.left - 1 \in Nat
      BY <1>4 DEF AnswerConnect, Taken, Listens, ServerTyped
    <3> QED BY <3>1
  <2> QED BY <1>0, <2>4, <2>5, <2>6, <2>7 DEF ServerTyped
<1>5. ASSUME NEW d \in toServer, AcceptConnect(d) PROVE ServerTyped'
  <2> DEFINE k == Len(serverSessions) + 1
  <2>1. NewSession \in Sessions("reply")
    BY NewSessionType DEF Reliable
  <2>2. /\ serverSessions' = Append(serverSessions, NewSession) /\ calls' = Append(calls, << >>)
        /\ UNCHANGED <<serverEvents, toClient, clientSessions>>
    BY <1>5 DEF AcceptConnect, clientVars
  <2>3. /\ serverSessions' \in Seq(Sessions("reply")) /\ Len(serverSessions') = k
        /\ DOMAIN serverSessions' = 1..k
        /\ calls' \in Seq(Seq(Calls)) /\ Len(calls') = k
    BY <1>0, <2>1, <2>2, AppendProperties, LenProperties, << >> \in Seq(Calls)
  <2>4. ServerDatagrams \subseteq ServerDatagrams'
    BY SessionsGrow, DatagramsGrow
  <2>5. serverEvents' \in Seq(ServerEvents')
    <3>1. ServerEvents \subseteq ServerEvents'
      BY <1>0, <2>3 DEF ServerEvents
    <3> QED BY <1>0, <2>2, <3>1, SeqMonotonic
  <2>6. server' \in [session : {0, Len(serverSessions')},
                     leaving : {<< >>} \cup {<<j>> : j \in DOMAIN serverSessions'},
                     pc : {"events", "sweep", "callbacks"}]
    <3>1. server' = [server EXCEPT !.session = k]
      BY <1>5 DEF AcceptConnect
    <3>2. server.leaving \in {<< >>} \cup {<<j>> : j \in DOMAIN serverSessions'}
      BY <1>0, <2>3
    <3>3. k \in {0, Len(serverSessions')} /\ server.pc \in {"events", "sweep", "callbacks"}
      BY <1>0, <2>3
    <3>4. server' = [session |-> k, leaving |-> server.leaving, pc |-> server.pc]
      BY <1>0, <3>1
    <3> QED BY <3>2, <3>3, <3>4
  <2>7. serverIo' \in [holds : {<< >>} \cup ServerHeld', left : Nat]
    <3>1. k \in DOMAIN serverSessions' /\ Listens(serverIo)
            /\ serverIo' = Taken(serverIo, <<k, d, TRUE>>)
      BY <1>0, <1>5, <2>3 DEF AcceptConnect
    <3> QED BY <2>2, <3>1, ServerTakes
  <2> QED BY <1>0, <2>2, <2>3, <2>4, <2>5, <2>6, <2>7 DEF ServerTyped
<1>6. ASSUME NEW d \in toServer, ServerLookup(d) PROVE ServerTyped'
  <2>1. UNCHANGED <<server, serverSessions, serverEvents, toClient, calls, clientSessions>>
    BY <1>6 DEF ServerLookup, serverVars, clientVars
  <2>2. n \in DOMAIN serverSessions' /\ Listens(serverIo)
          /\ serverIo' = Taken(serverIo, <<n, d, FALSE>>)
    BY <1>0, <1>6, <2>1 DEF ServerLookup
  <2>3. serverIo' \in [holds : {<< >>} \cup ServerHeld', left : Nat]
    BY <2>1, <2>2, ServerTakes
  <2> QED BY <1>0, <2>1, <2>3 DEF ServerTyped, ServerDatagrams, ServerEvents
<1>7. CASE ServerHandle
  <2> DEFINE k == serverIo.holds[1]
             d == serverIo.holds[2]
             s == Received(serverSessions[k], d)
             queued == Queued(k, d, serverIo.holds[3])
  <2>1. k \in DOMAIN serverSessions /\ d \in ClientDatagrams
    BY <1>7 DEF ServerHandle, ServerTyped, ServerHeld
  <2>2. s \in Sessions("reply")
    <3>1. serverSessions[k] \in Sessions("reply") /\ d.seq \in Nat /\ d.acks \in SUBSET Nat
      BY <1>0, <2>1, ElementOfSeq DEF ClientDatagrams
    <3> QED BY <3>1, ReceivedType DEF Reliable
  <2>3. serverSessions' = [serverSessions EXCEPT ![k] = s]
    BY <1>7 DEF ServerHandle
  <2>4. queued \in Seq(ServerEvents)
    <3>1. OnConnect(k, d) \in ServerEvents /\ Event(k, d) \in ServerEvents
      <4>1. d.from \in Nat /\ d.seq \in Nat /\ d.type \in ClientTypes
        BY <2>1, LenProperties DEF ClientDatagrams, ClientTyped
      <4> QED BY <2>1, <4>1 DEF OnConnect, Event, ServerEvents
    <3>2. <<OnConnect(k, d)>> \in Seq(ServerEvents) /\ <<Event(k, d)>> \in Seq(ServerEvents)
          /\ << >> \in Seq(ServerEvents)
      BY <3>1
    <3> QED BY <3>2, ConcatProperties DEF Queued
  <2>5. /\ serverEvents' = serverEvents \o queued /\ serverIo' = [serverIo EXCEPT !.holds = << >>]
        /\ UNCHANGED <<server, toClient, calls>>
    BY <1>7 DEF ServerHandle, Push, Handled
  <2> HIDE DEF s, queued
  <2>6. /\ serverSessions' \in Seq(Sessions("reply"))
        /\ DOMAIN serverSessions' = DOMAIN serverSessions
        /\ Len(serverSessions') = Len(serverSessions)
        /\ ServerDatagrams' = ServerDatagrams /\ ServerEvents' = ServerEvents
    BY <2>1, <2>2, <2>3, ServerSessionStep
  <2>7. serverEvents' \in Seq(ServerEvents)
    BY <1>0, <2>4, <2>5, ConcatProperties
  <2>8. serverIo' \in [holds : {<< >>} \cup ServerHeld', left : Nat]
    BY <2>5 DEF ServerTyped
  <2> QED BY <1>0, <2>5, <2>6, <2>7, <2>8 DEF ServerTyped
<1>8. CASE ServerEvent
  <2> DEFINE event == Head(serverEvents)
             k == event.session
  <2>1. event \in ServerEvents /\ k \in DOMAIN calls /\ Tail(serverEvents) \in Seq(ServerEvents)
    BY <1>0, <1>8, HeadEvent DEF ServerEvent
  <2>2. CallOf(event) \in Calls
    BY <2>1 DEF CallOf, Calls, ServerEvents
  <2>3. /\ Dispatch(k, event.type) /\ calls' = [calls EXCEPT ![k] = Append(@, CallOf(event))]
        /\ serverEvents' = Tail(serverEvents) /\ UNCHANGED <<clientSessions, server, serverIo>>
    BY <1>8 DEF ServerEvent, Pop, CallOf, clientVars
  <2> HIDE DEF event
  <2>4. /\ serverSessions' \in Seq(Sessions("reply"))
        /\ DOMAIN serverSessions' = DOMAIN serverSessions
        /\ Len(serverSessions') = Len(serverSessions)
        /\ toClient' \subseteq ServerDatagrams
    BY <2>1, <2>3, DispatchFacts
  <2>5. calls' \in Seq(Seq(Calls)) /\ Len(calls') = Len(calls)
    BY <2>1, <2>2, <2>3, CallAdded
  <2>6. ServerDatagrams' = ServerDatagrams /\ ServerEvents' = ServerEvents
    BY <2>4 DEF ServerDatagrams, ServerEvents
  <2>7. serverIo' \in [holds : {<< >>} \cup ServerHeld', left : Nat]
    BY <1>1, <2>3 DEF ServerTyped
  <2> QED BY <1>0, <2>1, <2>3, <2>4, <2>5, <2>6, <2>7 DEF ServerTyped
<1>9. CASE ServerEventsDone
  BY <1>0, <1>2, <1>9 DEF ServerEventsDone
<1>10. CASE Erase
  BY <1>0, <1>2, <1>10 DEF Erase, NoSession
<1>11. CASE ServerMaintain
  <2>1. PICK m \in Maintained(n, serverSessions[n]) :
          /\ serverSessions' = [serverSessions EXCEPT ![n] = m[1]]
          /\ toClient' = SentTo(toClient, m[2])
    BY <1>11 DEF ServerMaintain
  <2>2. n \in DOMAIN serverSessions /\ n \in Nat /\ serverSessions[n] \in Sessions("reply")
    BY <1>0, <1>11 DEF ServerMaintain
  <2>3. m[1] \in Sessions("reply") /\ m[2] \subseteq Datagrams(n, "reply")
    BY <2>2, MaintainedType DEF Reliable
  <2>4. toClient' \subseteq ServerDatagrams
    BY <1>0, <2>1, <2>2, <2>3, ServerSends DEF SentTo
  <2>5. /\ serverSessions' \in Seq(Sessions("reply"))
        /\ DOMAIN serverSessions' = DOMAIN serverSessions
        /\ Len(serverSessions') = Len(serverSessions)
        /\ ServerDatagrams' = ServerDatagrams /\ ServerEvents' = ServerEvents
    BY <2>1, <2>2, <2>3, ServerSessionStep
  <2>6. server' \in S /\ UNCHANGED <<serverIo, serverEvents, calls>>
    BY <1>0, <1>11 DEF ServerMaintain
  <2>7. serverIo' \in [holds : {<< >>} \cup ServerHeld', left : Nat]
    BY <1>1, <2>6 DEF ServerTyped
  <2> QED BY <1>0, <2>4, <2>5, <2>6, <2>7 DEF ServerTyped
<1>12. CASE SweepNothing
  BY <1>0, <1>2, <1>12 DEF SweepNothing
<1>13. CASE Callbacks
  <2>1. calls' \in Seq(Seq(Calls)) /\ Len(calls') = Len(calls)
    <3>1. <<"onDisconnect">> \in Calls
      BY DEF Calls
    <3> QED BY <1>0, <1>13, <3>1, CallbacksFacts, CallAdded
  <2> QED BY <1>0, <1>2, <1>13, <2>1 DEF Callbacks
<1>14. CASE ServerSilence
  <2> DEFINE s == [serverSessions[n] EXCEPT !.quiet = TRUE]
  <2>1. n \in DOMAIN serverSessions /\ s \in Sessions("reply")
    BY <1>0, <1>14 DEF ServerSilence, Sessions
  <2>2. /\ serverSessions' = [serverSessions EXCEPT ![n] = s]
        /\ UNCHANGED <<server, serverIo, serverEvents, toClient, calls>>
    BY <1>14 DEF ServerSilence
  <2> HIDE DEF s
  <2>3. /\ serverSessions' \in Seq(Sessions("reply"))
        /\ DOMAIN serverSessions' = DOMAIN serverSessions
        /\ Len(serverSessions') = Len(serverSessions)
        /\ ServerDatagrams' = ServerDatagrams /\ ServerEvents' = ServerEvents
    BY <2>1, <2>2, ServerSessionStep
  <2>4. serverIo' \in [holds : {<< >>} \cup ServerHeld', left : Nat]
    BY <1>1, <2>2 DEF ServerTyped
  <2> QED BY <1>0, <2>2, <2>3, <2>4 DEF ServerTyped
<1> QED BY <1>3, <1>4, <1>5, <1>6, <1>7, <1>8, <1>9, <1>10, <1>11, <1>12, <1>13, <1>14
        DEF ServerStep, ServerMain
------------------------------------------------------------------------------
(* The order of the calls: Announced.                                      *)

\* A session that may be removed only if it is announced, in a server whose main thread is at pc.
DeadOnlyIfTold(s, pc, said, events, k) ==
  Dead(s) /\ said = << >> => pc = "events" /\ ~Unheard(said, events, k)

\* Calls and queue are as they were; the sessions that died or wait for an answer are announced.
LEMMA AnnouncedKept ==
  ASSUME Announced, UNCHANGED <<serverEvents, calls>>,
         \A k \in DOMAIN calls : Announcing(serverIo', k) <=> Announcing(serverIo, k),
         \A k \in DOMAIN calls :
           DeadOnlyIfTold(serverSessions'[k], server'.pc, calls[k], serverEvents, k),
         \A k \in DOMAIN calls : serverSessions'[k].pending # {} => calls[k] # << >>,
         \A k \in DOMAIN calls : server'.leaving = <<k>> => calls[k] # << >>
  PROVE  Announced'
BY DEF Announced, DeadOnlyIfTold

\* The events that the handling of a datagram adds to the queue.
LEMMA HandleFacts ==
  ASSUME ClientTyped, ServerTyped, ServerHandle
  PROVE  LET k == serverIo.holds[1]
             d == serverIo.holds[2]
             new == serverIo.holds[3]
             fresh == d.seq \notin serverSessions[k].seen /\ d.type # "ack"
             n == Len(serverEvents)
             first == IF new THEN 1 ELSE 0
             last == IF fresh THEN first + 1 ELSE first
         IN  /\ k \in DOMAIN serverSessions /\ new \in BOOLEAN
             /\ n \in Nat /\ DOMAIN serverEvents = 1..n
             /\ DOMAIN serverEvents' = 1..(n + last)
             /\ \A i \in 1..n : serverEvents'[i] = serverEvents[i]
             /\ new => serverEvents'[n + 1].session = k /\ serverEvents'[n + 1].type = "onConnect"
             /\ fresh => /\ serverEvents'[n + last].session = k
                         /\ serverEvents'[n + last].type # "onConnect"
                         /\ serverEvents'[n + last].seq = d.seq
             /\ serverSessions'[k].seen = serverSessions[k].seen \cup {d.seq}
             /\ serverSessions'[k].pending \subseteq serverSessions[k].pending
             /\ Dead(serverSessions'[k]) => Dead(serverSessions[k])
             /\ \A j \in DOMAIN serverSessions \ {k} : serverSessions'[j] = serverSessions[j]
             /\ UNCHANGED <<server, calls>> /\ serverIo'.holds = << >>
<1> DEFINE k == serverIo.holds[1]
           d == serverIo.holds[2]
           new == serverIo.holds[3]
           fresh == d.seq \notin serverSessions[k].seen /\ d.type # "ack"
           n == Len(serverEvents)
           queued == Queued(k, d, new)
           s == Received(serverSessions[k], d)
<1>1. k \in DOMAIN serverSessions /\ d \in ClientDatagrams /\ new \in BOOLEAN
  BY DEF ServerHandle, ServerTyped, ServerHeld
<1>2. /\ d.seq \in Nat /\ d.acks \in SUBSET Nat /\ d.type # "onConnect"
      /\ serverSessions[k] \in Sessions("reply")
  BY <1>1, LenProperties, ElementOfSeq DEF ClientDatagrams, ClientTypes, ServerTyped
<1>3. /\ s \in Sessions("reply") /\ s.seen = serverSessions[k].seen \cup {d.seq}
      /\ (Dead(s) => Dead(serverSessions[k])) /\ s.pending \subseteq serverSessions[k].pending
  BY <1>2, ReceivedType DEF Reliable
<1>4. /\ serverSessions' = [serverSessions EXCEPT ![k] = s]
      /\ serverEvents' = serverEvents \o queued
      /\ UNCHANGED <<server, calls>> /\ serverIo' = [serverIo EXCEPT !.holds = << >>]
  BY DEF ServerHandle, Push, Handled
<1>5. /\ OnConnect(k, d).session = k /\ OnConnect(k, d).type = "onConnect"
      /\ Event(k, d).session = k /\ Event(k, d).type # "onConnect" /\ Event(k, d).seq = d.seq
  BY <1>2 DEF OnConnect, Event
<1> DEFINE one == OnConnect(k, d)
           two == Event(k, d)
<1>6. queued = (IF new THEN <<one>> ELSE << >>) \o (IF fresh THEN <<two>> ELSE << >>)
  BY DEF Queued, IsNew
<1> HIDE DEF s, one, two, queued, fresh, new, d
<1>7. serverEvents \in Seq(ServerEvents) /\ n \in Nat /\ DOMAIN serverEvents = 1..n
  BY LenProperties DEF ServerTyped
<1>8. /\ serverSessions'[k] = s
      /\ \A j \in DOMAIN serverSessions \ {k} : serverSessions'[j] = serverSessions[j]
  BY <1>1, <1>3, <1>4, ServerSessionStep
<1>9. serverIo'.holds = << >>
  BY <1>4 DEF ServerTyped
<1> DEFINE first == IF new THEN 1 ELSE 0
           last == IF fresh THEN first + 1 ELSE first
           announced == IF new THEN <<one>> ELSE << >>
           packet == IF fresh THEN <<two>> ELSE << >>
<1>10. /\ announced \in Seq({one, two}) /\ Len(announced) = first
       /\ packet \in Seq({one, two}) /\ Len(packet) = IF fresh THEN 1 ELSE 0
       /\ new => announced[1] = one
       /\ fresh => packet[1] = two
       /\ first \in {0, 1}
  <2> DEFINE S == {one, two}
  <2>1. /\ <<one>> \in Seq(S) /\ Len(<<one>>) = 1 /\ <<one>>[1] = one
        /\ <<two>> \in Seq(S) /\ Len(<<two>>) = 1 /\ <<two>>[1] = two
        /\ << >> \in Seq(S) /\ Len(<< >>) = 0
    OBVIOUS
  <2> HIDE DEF S
  <2>2. announced \in Seq(S) /\ Len(announced) = first /\ (new => announced[1] = one)
    BY <2>1
  <2>3. packet \in Seq(S) /\ Len(packet) = (IF fresh THEN 1 ELSE 0) /\ (fresh => packet[1] = two)
    BY <2>1
  <2> QED BY <2>2, <2>3 DEF S
<1> HIDE DEF announced, packet
<1>11. /\ queued \in Seq({one, two}) /\ Len(queued) = last
       /\ new => queued[1] = one
       /\ fresh => queued[last] = two
       /\ last \in 0..2 /\ (fresh => last > 0) /\ (new => last > 0)
  <2>1. queued = announced \o packet
    BY <1>6 DEF announced, packet
  <2>2. /\ queued \in Seq({one, two}) /\ Len(queued) = Len(announced) + Len(packet)
        /\ \A i \in 1..(Len(announced) + Len(packet)) :
             queued[i] = IF i <= Len(announced) THEN announced[i] ELSE packet[i - Len(announced)]
    BY <1>10, <2>1, ConcatProperties
  <2>3. Len(announced) + Len(packet) = last
    BY <1>10
  <2> QED BY <1>10, <2>2, <2>3
<1>12. /\ DOMAIN serverEvents' = 1..(n + last)
       /\ \A i \in 1..n : serverEvents'[i] = serverEvents[i]
       /\ \A i \in 1..last : serverEvents'[n + i] = queued[i]
  <2> DEFINE S == ServerEvents \cup {one, two}
  <2>1. serverEvents \in Seq(S) /\ queued \in Seq(S)
    BY <1>7, <1>11, SeqMonotonic
  <2> HIDE DEF S, last
  <2> QED BY <1>4, <1>7, <1>11, <2>1, ConcatProperties, LenProperties
<1>13. new => serverEvents'[n + 1].session = k /\ serverEvents'[n + 1].type = "onConnect"
  BY <1>5, <1>11, <1>12 DEF one
<1>14. fresh => /\ serverEvents'[n + last].session = k
                /\ serverEvents'[n + last].type # "onConnect"
                /\ serverEvents'[n + last].seq = d.seq
  <2> HIDE DEF last
  <2> QED BY <1>5, <1>11, <1>12 DEF two
<1> QED BY <1>1, <1>3, <1>4, <1>7, <1>8, <1>9, <1>12, <1>13, <1>14 DEF fresh, new, d
\* The event that a turn of _processEvents takes, and the call it becomes.
LEMMA EventFacts ==
  ASSUME ServerTyped, ServerEvent
  PROVE  LET e == serverEvents[1]
             k == e.session
             n == Len(serverEvents)
             last == Len(calls[k]) + 1
         IN  /\ n \in Nat \ {0} /\ DOMAIN serverEvents = 1..n
             /\ DOMAIN serverEvents' = 1..(n - 1)
             /\ \A i \in 1..(n - 1) : serverEvents'[i] = serverEvents[i + 1]
             /\ k \in DOMAIN calls /\ DOMAIN calls' = DOMAIN calls
             /\ \A j \in DOMAIN calls \ {k} : calls'[j] = calls[j]
             /\ Len(calls[k]) \in Nat /\ DOMAIN calls[k] = 1..Len(calls[k])
             /\ DOMAIN calls'[k] = 1..last /\ calls'[k] # << >>
             /\ \A i \in DOMAIN calls[k] : calls'[k][i] = calls[k][i]
             /\ calls'[k][last][1] = IF e.type = "onConnect" THEN "onConnect" ELSE "message"
             /\ e.type # "onConnect" => calls'[k][last][3] = e.seq
             /\ serverSessions'[k].seen = serverSessions[k].seen
             /\ \A j \in DOMAIN serverSessions \ {k} : serverSessions'[j] = serverSessions[j]
             /\ UNCHANGED <<server, serverIo>> /\ server.pc = "events"
             /\ DOMAIN calls = DOMAIN serverSessions
<1> DEFINE e == serverEvents[1]
           k == e.session
           n == Len(serverEvents)
           c == CallOf(e)
<1>1. /\ n \in Nat \ {0} /\ DOMAIN serverEvents = 1..n
      /\ DOMAIN Tail(serverEvents) = 1..(n - 1)
      /\ \A i \in 1..(n - 1) : Tail(serverEvents)[i] = serverEvents[i + 1]
      /\ Head(serverEvents) = e /\ e \in ServerEvents /\ k \in DOMAIN serverSessions
  BY HeadEvent DEF ServerEvent
<1>2. DOMAIN calls = DOMAIN serverSessions
  BY LenProperties DEF ServerTyped
<1>3. /\ c \in Calls /\ c[1] = (IF e.type = "onConnect" THEN "onConnect" ELSE "message")
      /\ e.type # "onConnect" => c[3] = e.seq
  BY <1>1 DEF CallOf, Calls, ServerEvents
<1>4. /\ Dispatch(k, e.type) /\ calls' = [calls EXCEPT ![k] = Append(@, c)]
      /\ serverEvents' = Tail(serverEvents)
      /\ UNCHANGED <<server, serverIo>> /\ server.pc = "events"
  BY <1>1 DEF ServerEvent, Pop, CallOf
<1> HIDE DEF c
<1>5. /\ serverSessions'[k].seen = serverSessions[k].seen
      /\ \A j \in DOMAIN serverSessions \ {k} : serverSessions'[j] = serverSessions[j]
  BY <1>1, <1>4, DispatchFacts
<1>6. /\ k \in DOMAIN calls /\ DOMAIN calls' = DOMAIN calls
      /\ \A j \in DOMAIN calls \ {k} : calls'[j] = calls[j]
      /\ Len(calls[k]) \in Nat /\ DOMAIN calls[k] = 1..Len(calls[k])
      /\ DOMAIN calls'[k] = 1..(Len(calls[k]) + 1) /\ calls'[k] # << >>
      /\ calls'[k][Len(calls[k]) + 1] = c
      /\ \A i \in DOMAIN calls[k] : calls'[k][i] = calls[k][i]
  <2>1. k \in DOMAIN calls
    BY <1>1, <1>2
  <2> HIDE DEF k
  <2> QED BY <2>1, <1>3, <1>4, CallAdded
<1>7. /\ DOMAIN serverEvents' = 1..(n - 1)
      /\ \A i \in 1..(n - 1) : serverEvents'[i] = serverEvents[i + 1]
  BY <1>1, <1>4
<1>8. /\ calls'[k][Len(calls[k]) + 1][1] = IF e.type = "onConnect" THEN "onConnect" ELSE "message"
      /\ e.type # "onConnect" => calls'[k][Len(calls[k]) + 1][3] = e.seq
  BY <1>3, <1>6
<1> QED BY <1>1, <1>2, <1>4, <1>5, <1>6, <1>7, <1>8

\* The end of a session is reported after the calls it had before.
LEMMA ReportFacts ==
  ASSUME ServerTyped, Callbacks, NEW k \in DOMAIN calls, server.leaving = <<k>>
  PROVE  LET last == Len(calls[k]) + 1 IN
         /\ DOMAIN calls' = DOMAIN calls
         /\ \A j \in DOMAIN calls \ {k} : calls'[j] = calls[j]
         /\ Len(calls[k]) \in Nat /\ DOMAIN calls[k] = 1..Len(calls[k])
         /\ DOMAIN calls'[k] = 1..last /\ calls'[k] # << >>
         /\ \A i \in DOMAIN calls[k] : calls'[k][i] = calls[k][i]
         /\ calls'[k][last][1] = "onDisconnect"
<1> DEFINE c == <<"onDisconnect">>
<1>1. c \in Calls /\ c[1] = "onDisconnect"
  BY DEF Calls
<1>2. calls' = [calls EXCEPT ![k] = Append(@, c)]
  <2>1. PICK j \in DOMAIN calls : server.leaving = <<j>>
               /\ calls' = [calls EXCEPT ![j] = Append(@, c)]
    BY CallbacksFacts
  <2>2. j = k
    BY <2>1
  <2> QED BY <2>1, <2>2
<1> HIDE DEF c
<1> QED BY <1>1, <1>2, CallAdded

\* A session the server creates: nothing of it has been said, and the I/O thread holds its datagram.
LEMMA AcceptFacts ==
  ASSUME ServerTyped, NEW d \in toServer, AcceptConnect(d)
  PROVE  LET k == Len(calls) + 1 IN
         /\ DOMAIN serverSessions' = DOMAIN serverSessions \cup {k} /\ k \notin DOMAIN serverSessions
         /\ DOMAIN calls = DOMAIN serverSessions /\ DOMAIN calls' = DOMAIN serverSessions'
         /\ k # 0 /\ 0 \notin DOMAIN calls
         /\ calls'[k] = << >> /\ serverSessions'[k] = NewSession
         /\ \A j \in DOMAIN calls : calls'[j] = calls[j] /\ serverSessions'[j] = serverSessions[j]
         /\ server.session = 0 /\ server'.session = k
         /\ server'.leaving = server.leaving /\ server'.pc = server.pc
         /\ serverIo.holds = << >> /\ serverIo'.holds = <<k, d, TRUE>> /\ serverEvents' = serverEvents
<1>1. /\ serverSessions \in Seq(Sessions("reply")) /\ NewSession \in Sessions("reply")
      /\ calls \in Seq(Seq(Calls)) /\ << >> \in Seq(Calls) /\ Len(calls) = Len(serverSessions)
  BY NewSessionType DEF ServerTyped, Reliable
<1>2. /\ serverSessions' = Append(serverSessions, NewSession) /\ calls' = Append(calls, << >>)
      /\ server.session = 0 /\ server' = [server EXCEPT !.session = Len(serverSessions) + 1]
      /\ serverIo.holds = << >> /\ serverIo' = [holds |-> <<Len(serverSessions) + 1, d, TRUE>>,
                                               left |-> serverIo.left - 1]
      /\ serverEvents' = serverEvents
  BY DEF AcceptConnect, Listens, Taken, NoSession
<1>3. /\ server'.session = Len(serverSessions) + 1
      /\ server'.leaving = server.leaving /\ server'.pc = server.pc
  BY <1>2 DEF ServerTyped
<1> DEFINE k == Len(calls) + 1
<1>4. /\ DOMAIN serverSessions' = DOMAIN serverSessions \cup {k} /\ k \notin DOMAIN serverSessions
      /\ serverSessions'[k] = NewSession
      /\ \A j \in DOMAIN serverSessions : serverSessions'[j] = serverSessions[j]
  BY <1>1, <1>2, SessionAdded
<1>5. /\ DOMAIN calls' = DOMAIN calls \cup {k} /\ calls'[k] = << >>
      /\ \A j \in DOMAIN calls : calls'[j] = calls[j]
  BY <1>1, <1>2, SessionAdded
<1>6. DOMAIN calls = DOMAIN serverSessions /\ k # 0 /\ 0 \notin DOMAIN calls
  BY <1>1, LenProperties
<1>7. serverIo'.holds = <<k, d, TRUE>>
  BY <1>1, <1>2
<1> QED BY <1>1, <1>2, <1>3, <1>4, <1>5, <1>6, <1>7

\* The session a queued event names is one the server has.
LEMMA EventSessions ==
  ASSUME ServerTyped
  PROVE  \A i \in DOMAIN serverEvents : serverEvents[i].session \in DOMAIN serverSessions
<1> SUFFICES ASSUME NEW i \in DOMAIN serverEvents
             PROVE  serverEvents[i].session \in DOMAIN serverSessions
  OBVIOUS
<1>1. serverEvents[i] \in ServerEvents
  BY ElementOfSeq, LenProperties DEF ServerTyped
<1> QED BY <1>1 DEF ServerEvents

\* No step breaks the order of a session's calls: onConnect before its messages.
LEMMA AnnouncedNext ==
  ASSUME ClientTyped, ServerTyped, Announced, [Next]_vars
  PROVE  Announced'
<1> DEFINE n == server.session
<1>0. /\ DOMAIN calls = DOMAIN serverSessions
      /\ n # NoSession => n \in DOMAIN calls /\ serverSessions[n] \in Sessions("reply")
  BY LenProperties, ElementOfSeq DEF ServerTyped, NoSession
<1>b. ASSUME NEW k \in DOMAIN calls
      PROVE  /\ DeadOnlyIfTold(serverSessions[k], server.pc, calls[k], serverEvents, k)
             /\ serverSessions[k].pending # {} => calls[k] # << >>
             /\ server.leaving = <<k>> => calls[k] # << >>
             /\ serverEvents = << >>
                  => DeadOnlyIfTold(serverSessions[k], server'.pc, calls[k], serverEvents, k)
  BY DEF Announced, DeadOnlyIfTold, Unheard
\* Only the session in the map changes.
<1>1. ASSUME n # NoSession, NEW s, serverSessions' = [serverSessions EXCEPT ![n] = s],
             UNCHANGED <<serverEvents, calls>>, server'.pc = server.pc \/ server.pc # "events",
             server'.leaving = server.leaving,
             \A k \in DOMAIN calls : Announcing(serverIo', k) <=> Announcing(serverIo, k),
             DeadOnlyIfTold(s, server'.pc, calls[n], serverEvents, n),
             s.pending # {} => serverSessions[n].pending # {} \/ calls[n] # << >>
      PROVE  Announced'
  <2>1. \A k \in DOMAIN calls : serverSessions'[k] = IF k = n THEN s ELSE serverSessions[k]
    BY <1>0, <1>1
  <2>2. ASSUME NEW k \in DOMAIN calls
        PROVE  DeadOnlyIfTold(serverSessions'[k], server'.pc, calls[k], serverEvents, k)
    <3>1. CASE k = n
      BY <1>1, <2>1, <3>1
    <3>2. CASE k # n
      BY <1>1, <1>b, <2>1, <3>2 DEF DeadOnlyIfTold
    <3> QED BY <3>1, <3>2
  <2>3. ASSUME NEW k \in DOMAIN calls PROVE serverSessions'[k].pending # {} => calls[k] # << >>
    BY <1>1, <1>b, <2>1
  <2> QED BY <1>1, <1>b, <2>2, <2>3, AnnouncedKept
\* Nothing but the server changes: the queue was drained, or no session dies of it.
<1>2. ASSUME UNCHANGED <<serverSessions, serverEvents, serverIo, calls>>,
             server'.pc = server.pc \/ server.pc # "events" \/ serverEvents = << >>,
             \A k \in DOMAIN calls : server'.leaving = <<k>> =>
               server.leaving = <<k>> \/ (Dead(serverSessions[k]) /\ server.pc # "events")
      PROVE  Announced'
  <2>1. ASSUME NEW k \in DOMAIN calls
        PROVE  /\ DeadOnlyIfTold(serverSessions'[k], server'.pc, calls[k], serverEvents, k)
               /\ server'.leaving = <<k>> => calls[k] # << >>
    BY <1>2, <1>b DEF DeadOnlyIfTold
  <2> QED BY <1>2, <1>b, <2>1, AnnouncedKept
<1>3. CASE ~ServerStep
  <2>1. UNCHANGED <<serverVars, serverIo>>
    BY <1>3, ServerOrClient DEF vars
  <2>2. UNCHANGED <<serverSessions, serverEvents, serverIo, calls>> /\ server' = server
    BY <2>1 DEF serverVars
  <2>3. ASSUME NEW k \in DOMAIN calls, server'.leaving = <<k>>
        PROVE  server.leaving = <<k>> \/ (Dead(serverSessions[k]) /\ server.pc # "events")
    BY <2>3, <2>2
  <2>4. server'.pc = server.pc \/ server.pc # "events" \/ serverEvents = << >>
    BY <2>2
  <2> QED BY <1>2, <2>2, <2>3, <2>4
<1>4. ASSUME NEW d \in toServer, AnswerConnect(d) PROVE Announced'
  <2> DEFINE s == Sent(serverSessions[n], "connectAck")
  <2>1. s.pending = serverSessions[n].pending /\ (Dead(s) => Dead(serverSessions[n]))
    BY <1>0, <1>4, SentType DEF AnswerConnect, Reliable, Dead
  <2>2. /\ n # NoSession /\ serverSessions' = [serverSessions EXCEPT ![n] = s]
        /\ UNCHANGED <<server, serverEvents, calls>>
        /\ serverIo.holds = << >> /\ serverIo'.holds = << >>
    BY <1>4 DEF AnswerConnect, Listens, Taken
  <2> HIDE DEF s
  <2>3. \A k \in DOMAIN calls : Announcing(serverIo', k) <=> Announcing(serverIo, k)
    BY <2>2 DEF Announcing
  <2>4. DeadOnlyIfTold(s, server'.pc, calls[n], serverEvents, n)
    BY <1>0, <1>b, <2>1, <2>2 DEF DeadOnlyIfTold
  <2> QED BY <1>1, <2>1, <2>2, <2>3, <2>4
<1>5. ASSUME NEW d \in toServer, AcceptConnect(d) PROVE Announced'
  <2> DEFINE k == Len(calls) + 1
  <2>1. /\ DOMAIN calls' = DOMAIN calls \cup {k} /\ k \notin DOMAIN calls
        /\ calls'[k] = << >> /\ serverSessions'[k] = NewSession
        /\ \A j \in DOMAIN calls : calls'[j] = calls[j] /\ serverSessions'[j] = serverSessions[j]
        /\ server'.leaving = server.leaving /\ server'.pc = server.pc
        /\ serverIo.holds = << >> /\ serverIo'.holds = <<k, d, TRUE>>
        /\ serverEvents' = serverEvents
    BY <1>0, <1>5, AcceptFacts
  <2> HIDE DEF k
  <2>2. \A i \in DOMAIN serverEvents : serverEvents[i].session \in DOMAIN calls
    BY <1>0, EventSessions
  <2>3. /\ \A j \in DOMAIN calls : Unheard(calls'[j], serverEvents', j)
             <=> Unheard(calls[j], serverEvents, j)
        /\ Unheard(calls'[k], serverEvents', k)
    BY <2>1, <2>2 DEF Unheard
  <2>4. /\ \A j \in DOMAIN calls : ~Announcing(serverIo', j) /\ ~Announcing(serverIo, j)
        /\ Announcing(serverIo', k)
    BY <2>1 DEF Announcing
  <2>5. ~Dead(serverSessions'[k]) /\ serverSessions'[k].pending = {}
    BY <2>1, NewSessionType DEF Reliable
  <2>6. server.leaving # <<k>>
    <3>1. CASE server.leaving = << >>
      BY <3>1
    <3>2. ASSUME NEW j \in DOMAIN calls, server.leaving = <<j>> PROVE server.leaving # <<k>>
      BY <2>1, <3>2
    <3> QED BY <1>0, <3>1, <3>2 DEF ServerTyped
  <2> QED BY <2>1, <2>2, <2>3, <2>4, <2>5, <2>6 DEF Announced
<1>6. ASSUME NEW d \in toServer, ServerLookup(d) PROVE Announced'
  <2>1. UNCHANGED <<server, serverSessions, serverEvents, calls>>
    BY <1>6 DEF ServerLookup, serverVars
  <2>2. /\ serverIo.holds = << >> /\ serverIo'.holds = <<n, d, FALSE>>
    BY <1>6 DEF ServerLookup, Listens, Taken
  <2>3. \A k \in DOMAIN calls : ~Announcing(serverIo', k) /\ ~Announcing(serverIo, k)
    BY <2>2 DEF Announcing
  <2> QED BY <1>b, <2>1, <2>3, AnnouncedKept
<1>7. CASE ServerHandle
  <2> DEFINE k == serverIo.holds[1]
             d == serverIo.holds[2]
             new == serverIo.holds[3]
             fresh == d.seq \notin serverSessions[k].seen /\ d.type # "ack"
             m == Len(serverEvents)
             first == IF new THEN 1 ELSE 0
             last == IF fresh THEN first + 1 ELSE first
  <2>1. /\ k \in DOMAIN calls /\ new \in BOOLEAN
        /\ m \in Nat /\ DOMAIN serverEvents = 1..m
        /\ DOMAIN serverEvents' = 1..(m + last)
        /\ \A i \in 1..m : serverEvents'[i] = serverEvents[i]
        /\ new => serverEvents'[m + 1].session = k /\ serverEvents'[m + 1].type = "onConnect"
        /\ fresh => /\ serverEvents'[m + last].session = k
                    /\ serverEvents'[m + last].type # "onConnect"
        /\ serverSessions'[k].pending \subseteq serverSessions[k].pending
        /\ Dead(serverSessions'[k]) => Dead(serverSessions[k])
        /\ \A j \in DOMAIN serverSessions \ {k} : serverSessions'[j] = serverSessions[j]
        /\ UNCHANGED <<server, calls>> /\ serverIo'.holds = << >>
    BY <1>0, <1>7, HandleFacts
  <2>2. serverIo.holds # << >>
    BY <1>7 DEF ServerHandle
  <2>3. (new <=> Unheard(calls[k], serverEvents, k))
          /\ \A j \in DOMAIN calls \ {k} : ~Unheard(calls[j], serverEvents, j)
    BY <2>1, <2>2 DEF Announced, Announcing
  <2> HIDE DEF fresh, new, d, k
  <2>4. \A j \in DOMAIN calls : ~Announcing(serverIo', j)
    BY <2>1 DEF Announcing
  <2>5. \A j \in DOMAIN calls : ~Unheard(calls'[j], serverEvents', j)
    <3>1. \A j \in DOMAIN calls : Unheard(calls'[j], serverEvents', j)
            => Unheard(calls[j], serverEvents, j)
      BY <2>1 DEF Unheard
    <3>2. new => ~Unheard(calls'[k], serverEvents', k)
      BY <2>1 DEF Unheard
    <3> QED BY <2>3, <3>1, <3>2
  <2>6. ASSUME NEW i \in DOMAIN serverEvents'
        PROVE  serverEvents'[i].type = "onConnect" <=>
                 /\ calls[serverEvents'[i].session] = << >>
                 /\ \A j \in 1..(i-1) : serverEvents'[j].session # serverEvents'[i].session
    <3>1. CASE i \in 1..m
      <4>1. \A j \in 1..(i-1) : j \in 1..m
        BY <2>1, <3>1
      <4> QED BY <2>1, <3>1, <4>1 DEF Announced
    <3>2. CASE i \notin 1..m
      <4>1. CASE new /\ i = m + 1
        <5>1. calls[k] = << >> /\ \A j \in 1..m : serverEvents[j].session # k
          BY <2>1, <2>3, <4>1 DEF Unheard
        <5> QED BY <2>1, <4>1, <5>1
      <4>2. CASE ~(new /\ i = m + 1)
        <5>1. fresh /\ i = m + last /\ i \in Nat
          BY <2>1, <3>2, <4>2
        <5>2. serverEvents'[i].session = k /\ serverEvents'[i].type # "onConnect"
          BY <2>1, <5>1
        <5>3. CASE new
          <6>1. m + 1 \in 1..(i-1)
            BY <2>1, <4>2, <5>1, <5>3
          <6> QED BY <2>1, <5>2, <5>3, <6>1
        <5>4. CASE ~new
          <6>1. i = m + 1
            BY <5>1, <5>4
          <6>2. calls[k] # << >> \/ \E j \in 1..m : serverEvents[j].session = k
            BY <2>1, <2>3, <5>4 DEF Unheard
          <6> QED BY <2>1, <5>2, <6>1, <6>2
        <5> QED BY <5>3, <5>4
      <4> QED BY <4>1, <4>2
    <3> QED BY <3>1, <3>2
  <2>7. ASSUME NEW j \in DOMAIN calls
        PROVE  /\ Dead(serverSessions'[j]) /\ calls[j] = << >> => server.pc = "events"
               /\ serverSessions'[j].pending # {} \/ server.leaving = <<j>> => calls[j] # << >>
    BY <1>0, <2>1 DEF Announced
  <2> HIDE DEF m, first, last
  <2>8. UNCHANGED <<server, calls>>
    BY <2>1
  <2> QED BY <2>4, <2>5, <2>6, <2>7, <2>8 DEF Announced
<1>8. CASE ServerEvent
  <2> DEFINE e == serverEvents[1]
             k == e.session
             m == Len(serverEvents)
             last == Len(calls[k]) + 1
  <2>1. /\ m \in Nat \ {0} /\ DOMAIN serverEvents = 1..m
        /\ DOMAIN serverEvents' = 1..(m - 1)
        /\ \A i \in 1..(m - 1) : serverEvents'[i] = serverEvents[i + 1]
        /\ k \in DOMAIN calls /\ DOMAIN calls' = DOMAIN calls
        /\ \A j \in DOMAIN calls \ {k} : calls'[j] = calls[j]
        /\ Len(calls[k]) \in Nat /\ DOMAIN calls[k] = 1..Len(calls[k])
        /\ DOMAIN calls'[k] = 1..last /\ calls'[k] # << >>
        /\ \A i \in DOMAIN calls[k] : calls'[k][i] = calls[k][i]
        /\ calls'[k][last][1] = IF e.type = "onConnect" THEN "onConnect" ELSE "message"
        /\ \A j \in DOMAIN serverSessions \ {k} : serverSessions'[j] = serverSessions[j]
        /\ UNCHANGED <<server, serverIo>> /\ server.pc = "events"
    BY <1>8, EventFacts
  <2>2. calls[k] \in Seq(Calls)
    BY <2>1, ElementOfSeq, LenProperties DEF ServerTyped
  <2>3. e.type = "onConnect" <=> calls[k] = << >>
    BY <2>1 DEF Announced
  <2>4. calls[k] = << >> <=> last = 1
    BY <2>2, EmptySeq, LenProperties
  <2>5. ASSUME NEW j \in DOMAIN calls, NEW i \in DOMAIN calls'[j]
        PROVE  calls'[j][i][1] = "onConnect" <=> i = 1
    <3>1. CASE j = k
      <4>1. i = last \/ i \in DOMAIN calls[k]
        BY <2>1, <2>5, <3>1
      <4>2. CASE i = last
        BY <2>1, <2>3, <2>4, <3>1, <4>2
      <4>3. CASE i \in DOMAIN calls[k]
        BY <2>1, <3>1, <4>3 DEF Announced
      <4> QED BY <4>1, <4>2, <4>3
    <3>2. CASE j # k
      BY <2>1, <2>5, <3>2 DEF Announced
    <3> QED BY <3>1, <3>2
  <2> HIDE DEF last
  <2>6. ASSUME NEW i \in DOMAIN serverEvents'
        PROVE  serverEvents'[i].type = "onConnect" <=>
                 /\ calls'[serverEvents'[i].session] = << >>
                 /\ \A j \in 1..(i-1) : serverEvents'[j].session # serverEvents'[i].session
    <3> DEFINE s == serverEvents[i + 1].session
    <3>1. /\ i \in 1..(m - 1) /\ i + 1 \in DOMAIN serverEvents
          /\ serverEvents'[i] = serverEvents[i + 1]
      BY <2>1
    <3>2. serverEvents[i + 1].type = "onConnect" <=>
            calls[s] = << >> /\ \A j \in 1..i : serverEvents[j].session # s
      BY <3>1 DEF Announced
    <3>3. s \in DOMAIN calls
      BY <1>0, <3>1, EventSessions
    <3>4. CASE s = k
      BY <2>1, <3>1, <3>2, <3>4
    <3>5. CASE s # k
      <4>1. \A j \in 1..(i-1) : serverEvents'[j] = serverEvents[j + 1] /\ j + 1 \in 1..i
        BY <2>1, <3>1
      <4>2. (\A j \in 1..i : serverEvents[j].session # s)
              <=> (\A j \in 1..(i-1) : serverEvents'[j].session # s)
        <5>1. ASSUME NEW j \in 1..i, \A h \in 1..(i-1) : serverEvents'[h].session # s
              PROVE  serverEvents[j].session # s
          <6>1. CASE j = 1
            BY <3>5, <6>1
          <6>2. CASE j # 1
            <7>1. j - 1 \in 1..(i-1) /\ serverEvents'[j - 1] = serverEvents[j]
              BY <2>1, <3>1, <6>2
            <7> QED BY <5>1, <7>1
          <6> QED BY <6>1, <6>2
        <5> QED BY <4>1, <5>1
      <4> QED BY <2>1, <3>1, <3>2, <3>3, <3>5, <4>2
    <3> QED BY <3>4, <3>5
  <2>7. ASSUME NEW j \in DOMAIN calls
        PROVE  Unheard(calls'[j], serverEvents', j) <=> Unheard(calls[j], serverEvents, j) /\ j # k
    <3>1. CASE j = k
      BY <2>1, <3>1 DEF Unheard
    <3>2. CASE j # k
      <4>1. (\A i \in DOMAIN serverEvents : serverEvents[i].session # j)
              <=> (\A i \in DOMAIN serverEvents' : serverEvents'[i].session # j)
        <5>1. ASSUME NEW i \in 1..m, \A h \in 1..(m-1) : serverEvents'[h].session # j
              PROVE  serverEvents[i].session # j
          <6>1. CASE i = 1
            BY <3>2, <6>1
          <6>2. CASE i # 1
            <7>1. i - 1 \in 1..(m-1) /\ serverEvents'[i - 1] = serverEvents[i]
              BY <2>1, <6>2
            <7> QED BY <5>1, <7>1
          <6> QED BY <6>1, <6>2
        <5>2. ASSUME NEW i \in 1..(m-1), \A h \in 1..m : serverEvents[h].session # j
              PROVE  serverEvents'[i].session # j
          <6>1. i + 1 \in 1..m
            BY <2>1
          <6> QED BY <2>1, <5>2, <6>1
        <5>3. DOMAIN serverEvents = 1..m /\ DOMAIN serverEvents' = 1..(m-1)
          BY <2>1
        <5> QED BY <5>1, <5>2, <5>3
      <4> QED BY <2>1, <2>7, <3>2, <4>1 DEF Unheard
    <3> QED BY <3>1, <3>2
  <2>8. ~Unheard(calls[k], serverEvents, k)
          /\ \A j \in DOMAIN calls : Announcing(serverIo', j) <=> Announcing(serverIo, j)
    BY <2>1 DEF Unheard, Announcing
  <2>9. ASSUME NEW j \in DOMAIN calls
        PROVE  /\ Unheard(calls'[j], serverEvents', j) <=> Announcing(serverIo', j)
               /\ Dead(serverSessions'[j]) /\ calls'[j] = << >>
                    => server'.pc = "events" /\ ~Unheard(calls'[j], serverEvents', j)
               /\ serverSessions'[j].pending # {} \/ server'.leaving = <<j>> => calls'[j] # << >>
    <3>1. CASE j = k
      BY <2>1, <2>7, <2>8, <3>1 DEF Announced
    <3>2. CASE j # k
      BY <1>0, <2>1, <2>7, <2>8, <3>2 DEF Announced
    <3> QED BY <3>1, <3>2
  <2>10. DOMAIN calls' = DOMAIN calls
    BY <2>1
  <2> QED BY <2>5, <2>6, <2>9, <2>10 DEF Announced
<1>9. CASE ServerEventsDone
  <2>1. server'.leaving = server.leaving
    BY <1>9 DEF ServerEventsDone, ServerTyped
  <2>2. UNCHANGED <<serverSessions, serverEvents, serverIo, calls>> /\ serverEvents = << >>
    BY <1>9 DEF ServerEventsDone
  <2>3. ASSUME NEW k \in DOMAIN calls, server'.leaving = <<k>>
        PROVE  server.leaving = <<k>> \/ (Dead(serverSessions[k]) /\ server.pc # "events")
    BY <2>3, <2>1
  <2>4. server'.pc = server.pc \/ server.pc # "events" \/ serverEvents = << >>
    BY <2>2
  <2> QED BY <1>2, <2>2, <2>3, <2>4
<1>10. CASE Erase
  BY <1>2, <1>10 DEF Erase
<1>11. CASE ServerMaintain
  <2>1. PICK m \in Maintained(n, serverSessions[n]) :
          serverSessions' = [serverSessions EXCEPT ![n] = m[1]]
    BY <1>11 DEF ServerMaintain
  <2>2. n # NoSession /\ n \in Nat /\ serverSessions[n] \in Sessions("reply")
    BY <1>0, <1>11, LenProperties DEF ServerMaintain, ServerTyped
  <2>3. m[1].pending = serverSessions[n].pending
        /\ m[1].quiet = serverSessions[n].quiet
        /\ (serverSessions[n].pending = {} => m[1].shouldClose = serverSessions[n].shouldClose)
    BY <2>2, MaintainedType DEF Reliable
  <2>4. DeadOnlyIfTold(m[1], server'.pc, calls[n], serverEvents, n)
    BY <1>0, <1>11, <1>b, <2>2, <2>3 DEF DeadOnlyIfTold, Dead, ServerMaintain
  <2>5. /\ UNCHANGED <<serverEvents, serverIo, calls>>
        /\ server.pc # "events" /\ server'.leaving = server.leaving
    BY <1>11 DEF ServerMaintain, ServerTyped
  <2>6. \A k \in DOMAIN calls : Announcing(serverIo', k) <=> Announcing(serverIo, k)
    BY <2>5 DEF Announcing
  <2> QED BY <1>1, <2>1, <2>2, <2>3, <2>4, <2>5, <2>6
<1>12. CASE SweepNothing
  BY <1>2, <1>12 DEF SweepNothing, ServerTyped
<1>13. CASE Callbacks
  <2>1. UNCHANGED <<serverSessions, serverEvents, serverIo>>
        /\ server.pc # "events" /\ server'.leaving = << >>
    BY <1>13 DEF Callbacks, ServerTyped
  <2>2. CASE calls' = calls
    BY <1>2, <2>1, <2>2
  <2>3. ASSUME NEW k \in DOMAIN calls, server.leaving = <<k>> PROVE Announced'
    <3> DEFINE last == Len(calls[k]) + 1
    <3>1. /\ DOMAIN calls' = DOMAIN calls
          /\ \A j \in DOMAIN calls \ {k} : calls'[j] = calls[j]
          /\ Len(calls[k]) \in Nat /\ DOMAIN calls[k] = 1..Len(calls[k])
          /\ DOMAIN calls'[k] = 1..last /\ calls'[k] # << >>
          /\ \A i \in DOMAIN calls[k] : calls'[k][i] = calls[k][i]
          /\ calls'[k][last][1] = "onDisconnect"
      BY <1>13, <2>3, ReportFacts
    <3>2. calls[k] # << >> /\ calls[k] \in Seq(Calls)
      BY <1>0, <2>3, ElementOfSeq, LenProperties DEF Announced, ServerTyped
    <3>3. last # 1
      BY <3>2, EmptySeq, LenProperties
    <3>4. ASSUME NEW j \in DOMAIN calls, NEW i \in DOMAIN calls'[j]
          PROVE  calls'[j][i][1] = "onConnect" <=> i = 1
      <4>1. CASE j = k /\ i = last
        BY <3>1, <3>3, <4>1
      <4>2. CASE j # k \/ i # last
        BY <3>1, <3>4, <4>2 DEF Announced
      <4> QED BY <4>1, <4>2
    <3>5. \A j \in DOMAIN calls : calls'[j] = << >> <=> calls[j] = << >>
      BY <3>1, <3>2
    <3>6. \A j \in DOMAIN calls :
            /\ Unheard(calls'[j], serverEvents', j) <=> Unheard(calls[j], serverEvents, j)
            /\ Announcing(serverIo', j) <=> Announcing(serverIo, j)
      BY <2>1, <3>5 DEF Unheard, Announcing
    <3>7. \A i \in DOMAIN serverEvents : serverEvents[i].session \in DOMAIN calls
      BY <1>0, EventSessions
    <3>8. DOMAIN calls' = DOMAIN calls
      BY <3>1
    <3>9. \A j \in DOMAIN calls : server'.leaving # <<j>>
      BY <2>1
    <3> HIDE DEF last
    <3> QED BY <2>1, <3>4, <3>5, <3>6, <3>7, <3>8, <3>9 DEF Announced
  <2> QED BY <1>13, <2>2, <2>3, CallbacksFacts
<1>14. CASE ServerSilence
  <2> DEFINE s == [serverSessions[n] EXCEPT !.quiet = TRUE]
  <2>1. /\ n # NoSession /\ serverSessions' = [serverSessions EXCEPT ![n] = s]
        /\ UNCHANGED <<server, serverIo, serverEvents, calls>>
        /\ server.pc = "events" /\ serverIo.holds = << >>
    BY <1>14 DEF ServerSilence
  <2>2. s.pending = serverSessions[n].pending
    BY <1>0, <2>1 DEF Sessions
  <2> HIDE DEF s
  <2>3. DeadOnlyIfTold(s, server'.pc, calls[n], serverEvents, n)
          /\ \A k \in DOMAIN calls : Announcing(serverIo', k) <=> Announcing(serverIo, k)
    BY <1>0, <2>1 DEF Announced, Announcing, DeadOnlyIfTold
  <2> QED BY <1>1, <2>1, <2>2, <2>3
<1> QED BY <1>3, <1>4, <1>5, <1>6, <1>7, <1>8, <1>9, <1>10, <1>11, <1>12, <1>13, <1>14
        DEF ServerStep, ServerMain
------------------------------------------------------------------------------
(* The end of a session: Reported.                                         *)

\* No step removes a session without its onDisconnect call to come or made.
LEMMA ReportedNext ==
  ASSUME ClientTyped, ServerTyped, Reported, [Next]_vars
  PROVE  Reported'
<1> DEFINE n == server.session
           Unreported(said) == \A i \in DOMAIN said : said[i][1] # "onDisconnect"
           ReportedOnce(said) == \A i, j \in DOMAIN said :
             said[i][1] = "onDisconnect" /\ said[j][1] = "onDisconnect" => i = j
<1>0. /\ DOMAIN calls = DOMAIN serverSessions /\ 0 \notin DOMAIN calls
      /\ n # 0 => n \in DOMAIN calls
  BY LenProperties DEF ServerTyped
<1>1. /\ n # 0 => server.leaving # <<n>>
      /\ server.leaving # << >> => server.pc = "callbacks"
      /\ \A k \in DOMAIN calls : (Present(k) <=> Unreported(calls[k])) /\ ReportedOnce(calls[k])
  BY DEF Reported
\* The calls and the map are as they were.
<1>2. ASSUME UNCHANGED calls, server'.session = n, server'.leaving = server.leaving,
             server'.pc = server.pc \/ server.pc # "callbacks"
      PROVE  Reported'
  BY <1>1, <1>2 DEF Reported, Present
<1>3. CASE UNCHANGED <<server, calls>>
  BY <1>2, <1>3
<1>4. CASE ~ServerStep
  BY <1>3, <1>4, ServerOrClient DEF vars, serverVars
<1>5. ASSUME NEW d \in toServer, AcceptConnect(d) PROVE Reported'
  <2> DEFINE k == Len(calls) + 1
  <2>1. /\ DOMAIN calls' = DOMAIN calls \cup {k} /\ k \notin DOMAIN calls /\ k # 0
        /\ calls'[k] = << >> /\ \A j \in DOMAIN calls : calls'[j] = calls[j]
        /\ n = 0 /\ server'.session = k
        /\ server'.leaving = server.leaving /\ server'.pc = server.pc
    BY <1>0, <1>5, AcceptFacts
  <2> HIDE DEF k
  <2>2. server'.leaving # <<k>>
    <3>1. CASE server.leaving = << >>
      BY <2>1, <3>1
    <3>2. ASSUME NEW j \in DOMAIN calls, server.leaving = <<j>> PROVE server'.leaving # <<k>>
      BY <2>1, <3>2
    <3> QED BY <1>0, <3>1, <3>2 DEF ServerTyped
  <2>3. ASSUME NEW j \in DOMAIN calls'
        PROVE  /\ (j = server'.session \/ <<j>> = server'.leaving) <=> Unreported(calls'[j])
               /\ ReportedOnce(calls'[j])
    <3>1. CASE j = k
      BY <2>1, <3>1
    <3>2. CASE j # k
      <4>1. j \in DOMAIN calls /\ j # 0 /\ calls'[j] = calls[j]
        BY <1>0, <2>1, <3>2
      <4>2. (j = server'.session \/ <<j>> = server'.leaving) <=> Present(j)
        BY <2>1, <3>2, <4>1 DEF Present
      <4> QED BY <1>1, <4>1, <4>2
    <3> QED BY <3>1, <3>2
  <2> QED BY <1>1, <2>1, <2>2, <2>3 DEF Reported, Present
<1>6. ASSUME NEW d \in toServer, AnswerConnect(d) \/ ServerLookup(d) PROVE Reported'
  BY <1>3, <1>6 DEF AnswerConnect, ServerLookup, serverVars
<1>7. CASE ServerHandle \/ ServerSilence
  BY <1>3, <1>7 DEF ServerHandle, ServerSilence
<1>8. CASE ServerEvent
  <2> DEFINE k == serverEvents[1].session
             last == Len(calls[k]) + 1
  <2>1. /\ k \in DOMAIN calls /\ DOMAIN calls' = DOMAIN calls
        /\ \A j \in DOMAIN calls \ {k} : calls'[j] = calls[j]
        /\ Len(calls[k]) \in Nat /\ DOMAIN calls[k] = 1..Len(calls[k])
        /\ DOMAIN calls'[k] = 1..last
        /\ \A i \in DOMAIN calls[k] : calls'[k][i] = calls[k][i]
        /\ calls'[k][last][1] # "onDisconnect"
        /\ UNCHANGED server
    BY <1>8, EventFacts
  <2>2. /\ \A i \in DOMAIN calls[k] : i \in DOMAIN calls'[k]
        /\ \A i \in DOMAIN calls'[k] : i \in DOMAIN calls[k] \/ i = last
    BY <2>1
  <2> HIDE DEF last
  <2>3. /\ Unreported(calls'[k]) <=> Unreported(calls[k])
        /\ ReportedOnce(calls[k]) => ReportedOnce(calls'[k])
    BY <2>1, <2>2
  <2>4. \A j \in DOMAIN calls : Unreported(calls'[j]) <=> Unreported(calls[j])
    BY <2>1, <2>3
  <2>5. \A j \in DOMAIN calls : ReportedOnce(calls'[j])
    BY <1>1, <2>1, <2>3
  <2>6. UNCHANGED server /\ DOMAIN calls' = DOMAIN calls
    BY <2>1
  <2> HIDE DEF k
  <2> QED BY <1>1, <2>4, <2>5, <2>6 DEF Reported, Present
<1>9. CASE ServerEventsDone \/ ServerMaintain \/ SweepNothing
  <2>1. /\ UNCHANGED calls /\ server'.session = n /\ server'.leaving = server.leaving
        /\ server.pc # "callbacks"
    BY <1>9 DEF ServerEventsDone, ServerMaintain, SweepNothing, ServerTyped
  <2> QED BY <1>2, <2>1
<1>10. CASE Erase
  <2>1. /\ UNCHANGED calls /\ n # 0 /\ server.pc = "sweep"
        /\ server' = [session |-> 0, leaving |-> <<n>>, pc |-> "callbacks"]
    BY <1>10 DEF Erase, NoSession
  <2>2. server.leaving = << >>
    BY <1>1, <2>1
  <2>3. ASSUME NEW j \in DOMAIN calls
        PROVE  (j = server'.session \/ <<j>> = server'.leaving) <=> Present(j)
    <3>1. j # 0 /\ <<j>> # << >> /\ (<<j>> = <<n>> <=> j = n)
      BY <1>0
    <3> QED BY <2>1, <2>2, <3>1 DEF Present
  <2> QED BY <1>1, <2>1, <2>3 DEF Reported, Present
<1>11. CASE Callbacks
  <2>1. server'.session = n /\ server'.leaving = << >>
    BY <1>11 DEF Callbacks, ServerTyped
  <2>2. ASSUME server.leaving = << >>, calls' = calls PROVE Reported'
    BY <1>1, <2>1, <2>2 DEF Reported, Present
  <2>3. ASSUME NEW k \in DOMAIN calls, server.leaving = <<k>> PROVE Reported'
    <3> DEFINE last == Len(calls[k]) + 1
    <3>1. /\ DOMAIN calls' = DOMAIN calls
          /\ \A j \in DOMAIN calls \ {k} : calls'[j] = calls[j]
          /\ Len(calls[k]) \in Nat /\ DOMAIN calls[k] = 1..Len(calls[k])
          /\ DOMAIN calls'[k] = 1..last
          /\ \A i \in DOMAIN calls[k] : calls'[k][i] = calls[k][i]
          /\ calls'[k][last][1] = "onDisconnect"
      BY <1>11, <2>3, ReportFacts
    <3>2. Unreported(calls[k]) /\ n # k
      BY <1>0, <1>1, <2>3 DEF Present
    <3>3. /\ last \in DOMAIN calls'[k]
          /\ \A i \in DOMAIN calls'[k] : i \in DOMAIN calls[k] \/ i = last
      BY <3>1
    <3> HIDE DEF last
    <3>4. ~Unreported(calls'[k]) /\ ReportedOnce(calls'[k])
      BY <3>1, <3>2, <3>3
    <3>5. ASSUME NEW j \in DOMAIN calls'
          PROVE  /\ (j = server'.session \/ <<j>> = server'.leaving) <=> Unreported(calls'[j])
                 /\ ReportedOnce(calls'[j])
      <4>1. CASE j = k
        BY <2>1, <3>2, <3>4, <4>1
      <4>2. CASE j # k
        <5>1. j \in DOMAIN calls /\ calls'[j] = calls[j]
          BY <3>1, <4>2
        <5>2. (j = server'.session \/ <<j>> = server'.leaving) <=> Present(j)
          <6>1. <<j>> # << >> /\ <<j>> # <<k>>
            BY <4>2
          <6> QED BY <2>1, <2>3, <6>1 DEF Present
        <5> QED BY <1>1, <5>1, <5>2
      <4> QED BY <4>1, <4>2
    <3> QED BY <2>1, <3>5 DEF Reported, Present
  <2> QED BY <1>11, <2>2, <2>3, CallbacksFacts
<1> QED BY <1>4, <1>5, <1>6, <1>7, <1>8, <1>9, <1>10, <1>11 DEF ServerStep, ServerMain

------------------------------------------------------------------------------
(* A packet is dispatched once: Once.                                      *)

\* No step hands a packet to the application a second time.
LEMMA OnceNext ==
  ASSUME ClientTyped, ServerTyped, Once, [Next]_vars
  PROVE  Once'
<1> DEFINE n == server.session
<1>0. /\ DOMAIN calls = DOMAIN serverSessions
      /\ n # NoSession => n \in DOMAIN calls /\ serverSessions[n] \in Sessions("reply")
  BY LenProperties, ElementOfSeq DEF ServerTyped, NoSession
\* The queue and the packets among the calls are as they were.
<1>1. ASSUME UNCHANGED serverEvents, DOMAIN calls \subseteq DOMAIN calls',
             \A k \in DOMAIN calls' : ToldOnce(calls'[k], serverSessions'[k].seen),
             \A k \in DOMAIN calls :
               /\ serverSessions[k].seen \subseteq serverSessions'[k].seen
               /\ \A seq : Untold(calls[k], seq) => Untold(calls'[k], seq)
      PROVE  Once'
  <2>1. \A i \in DOMAIN serverEvents : serverEvents[i].session \in DOMAIN calls
    BY <1>0, EventSessions
  <2> QED BY <1>1, <2>1 DEF Once
\* The calls too.
<1>2. ASSUME UNCHANGED <<serverEvents, calls>>,
             \A k \in DOMAIN calls : serverSessions'[k].seen = serverSessions[k].seen
      PROVE  Once'
  BY <1>0, <1>2, EventSessions DEF Once
\* A session in the map is updated.
<1>3. ASSUME UNCHANGED <<serverEvents, calls>>, n # NoSession, NEW s \in Sessions("reply"),
             serverSessions' = [serverSessions EXCEPT ![n] = s], s.seen = serverSessions[n].seen
      PROVE  Once'
  <2>1. \A k \in DOMAIN calls : serverSessions'[k].seen = serverSessions[k].seen
    BY <1>0, <1>3
  <2> QED BY <1>2, <1>3, <2>1
<1>4. CASE UNCHANGED <<serverSessions, serverEvents, calls>>
  BY <1>2, <1>4
<1>5. CASE ~ServerStep
  BY <1>4, <1>5, ServerOrClient DEF vars, serverVars
<1>6. ASSUME NEW d \in toServer, AnswerConnect(d) PROVE Once'
  <2> DEFINE s == Sent(serverSessions[n], "connectAck")
  <2>1. s \in Sessions("reply") /\ s.seen = serverSessions[n].seen
    BY <1>0, <1>6, SentType DEF AnswerConnect, Reliable
  <2>2. /\ n # NoSession /\ serverSessions' = [serverSessions EXCEPT ![n] = s]
        /\ UNCHANGED <<serverEvents, calls>>
    BY <1>6 DEF AnswerConnect
  <2> HIDE DEF s
  <2> QED BY <1>3, <2>1, <2>2
<1>7. ASSUME NEW d \in toServer, AcceptConnect(d) PROVE Once'
  <2> DEFINE k == Len(calls) + 1
  <2>1. /\ DOMAIN calls' = DOMAIN calls \cup {k} /\ calls'[k] = << >>
        /\ \A j \in DOMAIN calls : calls'[j] = calls[j] /\ serverSessions'[j] = serverSessions[j]
        /\ serverEvents' = serverEvents
    BY <1>0, <1>7, AcceptFacts
  <2> HIDE DEF k
  <2>2. ToldOnce(calls'[k], serverSessions'[k].seen)
    BY <2>1 DEF ToldOnce
  <2>3. \A j \in DOMAIN calls : ToldOnce(calls'[j], serverSessions'[j].seen)
    BY <2>1 DEF Once
  <2> QED BY <1>1, <2>1, <2>2, <2>3
<1>8. ASSUME NEW d \in toServer, ServerLookup(d) PROVE Once'
  BY <1>4, <1>8 DEF ServerLookup, serverVars
<1>9. CASE ServerHandle
  <2> DEFINE k == serverIo.holds[1]
             d == serverIo.holds[2]
             new == serverIo.holds[3]
             fresh == d.seq \notin serverSessions[k].seen /\ d.type # "ack"
             m == Len(serverEvents)
             first == IF new THEN 1 ELSE 0
             last == IF fresh THEN first + 1 ELSE first
  <2>1. /\ k \in DOMAIN calls /\ new \in BOOLEAN
        /\ m \in Nat /\ DOMAIN serverEvents = 1..m
        /\ DOMAIN serverEvents' = 1..(m + last)
        /\ \A i \in 1..m : serverEvents'[i] = serverEvents[i]
        /\ new => serverEvents'[m + 1].type = "onConnect"
        /\ fresh => serverEvents'[m + last].session = k /\ serverEvents'[m + last].seq = d.seq
        /\ serverSessions'[k].seen = serverSessions[k].seen \cup {d.seq}
        /\ \A j \in DOMAIN serverSessions \ {k} : serverSessions'[j] = serverSessions[j]
        /\ calls' = calls
    BY <1>0, <1>9, HandleFacts
  <2>2. fresh => d.seq \notin serverSessions[k].seen
    OBVIOUS
  <2>3. /\ last \in 0..2
        /\ \A i \in (m + 1)..(m + last) : ~(new /\ i = m + 1) => fresh /\ i = m + last
    <3> HIDE DEF fresh, new
    <3>1. CASE new
      BY <2>1, <3>1
    <3>2. CASE ~new
      <4>1. CASE fresh
        BY <2>1, <3>2, <4>1
      <4>2. CASE ~fresh
        <5>1. last = 0
          BY <3>2, <4>2
        <5>2. m \in Nat
          BY <2>1
        <5> HIDE DEF last, m
        <5>3. (m + 1)..(m + last) = {}
          BY <5>1, <5>2
        <5> QED BY <5>1, <5>3
      <4> QED BY <4>1, <4>2
    <3> QED BY <3>1, <3>2
  <2> HIDE DEF fresh, new, d, k, first, last
  <2>4. \A j \in DOMAIN calls : serverSessions[j].seen \subseteq serverSessions'[j].seen
    BY <1>0, <2>1
  <2>5. \A j \in DOMAIN calls : ToldOnce(calls[j], serverSessions'[j].seen)
    BY <2>4 DEF Once, ToldOnce
  <2>6. \A i \in DOMAIN serverEvents' : IsPacket(serverEvents'[i]) =>
          i \in DOMAIN serverEvents \/ (i \notin DOMAIN serverEvents /\ fresh /\ i = m + last)
    BY <2>1, <2>3 DEF IsPacket
  <2>7. \A i \in DOMAIN serverEvents :
          serverEvents[i].session \in DOMAIN calls /\ serverEvents'[i] = serverEvents[i]
    BY <1>0, <2>1, EventSessions
  <2>8. ASSUME fresh, NEW i \in DOMAIN serverEvents, IsPacket(serverEvents[i]),
               serverEvents[i].session = k
        PROVE  serverEvents[i].seq # d.seq
    BY <2>2, <2>8 DEF Once
  <2>9. fresh => Untold(calls[k], d.seq)
    BY <2>1, <2>2 DEF Once, ToldOnce, Untold
  <2>10. ASSUME NEW i \in DOMAIN serverEvents', IsPacket(serverEvents'[i])
         PROVE  /\ serverEvents'[i].seq \in serverSessions'[serverEvents'[i].session].seen
                /\ Untold(calls[serverEvents'[i].session], serverEvents'[i].seq)
                /\ \A j \in DOMAIN serverEvents' :
                     /\ IsPacket(serverEvents'[j])
                     /\ serverEvents'[j].session = serverEvents'[i].session
                     /\ serverEvents'[j].seq = serverEvents'[i].seq
                     => i = j
    <3>1. CASE i \in DOMAIN serverEvents
      <4>1. ASSUME NEW j \in DOMAIN serverEvents', IsPacket(serverEvents'[j]),
                   serverEvents'[j].session = serverEvents'[i].session,
                   serverEvents'[j].seq = serverEvents'[i].seq
            PROVE  i = j
        BY <2>1, <2>6, <2>7, <2>8, <2>10, <3>1, <4>1 DEF Once
      <4> QED BY <2>4, <2>7, <2>10, <3>1, <4>1 DEF Once
    <3>2. CASE i \notin DOMAIN serverEvents
      <4>1. /\ fresh /\ i = m + last
            /\ serverEvents'[i].session = k /\ serverEvents'[i].seq = d.seq
        BY <2>1, <2>6, <2>10, <3>2
      <4>2. ASSUME NEW j \in DOMAIN serverEvents', IsPacket(serverEvents'[j]),
                   serverEvents'[j].session = k, serverEvents'[j].seq = d.seq
            PROVE  i = j
        BY <2>6, <2>7, <2>8, <4>1, <4>2
      <4> QED BY <2>1, <2>9, <4>1, <4>2
    <3> QED BY <3>1, <3>2
  <2> QED BY <2>1, <2>5, <2>10 DEF Once
<1>10. CASE ServerEvent
  <2> DEFINE e == serverEvents[1]
             k == e.session
             m == Len(serverEvents)
             last == Len(calls[k]) + 1
  <2>1. /\ m \in Nat \ {0} /\ DOMAIN serverEvents = 1..m
        /\ DOMAIN serverEvents' = 1..(m - 1)
        /\ \A i \in 1..(m - 1) : serverEvents'[i] = serverEvents[i + 1]
        /\ k \in DOMAIN calls /\ DOMAIN calls' = DOMAIN calls
        /\ \A j \in DOMAIN calls \ {k} : calls'[j] = calls[j]
        /\ Len(calls[k]) \in Nat /\ DOMAIN calls[k] = 1..Len(calls[k])
        /\ DOMAIN calls'[k] = 1..last
        /\ \A i \in DOMAIN calls[k] : calls'[k][i] = calls[k][i]
        /\ calls'[k][last][1] = IF e.type = "onConnect" THEN "onConnect" ELSE "message"
        /\ e.type # "onConnect" => calls'[k][last][3] = e.seq
        /\ serverSessions'[k].seen = serverSessions[k].seen
        /\ \A j \in DOMAIN serverSessions \ {k} : serverSessions'[j] = serverSessions[j]
    BY <1>10, EventFacts
  <2>2. /\ \A i \in DOMAIN calls'[k] : i \in DOMAIN calls[k] \/ i = last
        /\ last \notin DOMAIN calls[k]
    BY <2>1
  <2>3. \A i \in DOMAIN serverEvents' :
          i + 1 \in DOMAIN serverEvents /\ i + 1 # 1 /\ serverEvents'[i] = serverEvents[i + 1]
    BY <2>1
  <2>4. 1 \in DOMAIN serverEvents
    BY <2>1
  <2> HIDE DEF last
  <2>5. \A j \in DOMAIN calls : serverSessions'[j].seen = serverSessions[j].seen
    BY <1>0, <2>1
  <2>6. IsPacket(e) => e.seq \in serverSessions[k].seen /\ Untold(calls[k], e.seq)
    BY <2>4 DEF Once
  <2>7. ToldOnce(calls'[k], serverSessions[k].seen)
    <3>1. ToldOnce(calls[k], serverSessions[k].seen)
      BY <2>1 DEF Once
    <3> QED BY <2>1, <2>2, <2>6, <3>1 DEF ToldOnce, Untold, IsPacket
  <2>8. \A j \in DOMAIN calls : ToldOnce(calls'[j], serverSessions'[j].seen)
    BY <2>1, <2>5, <2>7 DEF Once
  <2>9. ASSUME NEW i \in DOMAIN serverEvents', IsPacket(serverEvents'[i])
        PROVE  /\ serverEvents'[i].seq \in serverSessions'[serverEvents'[i].session].seen
               /\ Untold(calls'[serverEvents'[i].session], serverEvents'[i].seq)
               /\ \A j \in DOMAIN serverEvents' :
                    /\ IsPacket(serverEvents'[j])
                    /\ serverEvents'[j].session = serverEvents'[i].session
                    /\ serverEvents'[j].seq = serverEvents'[i].seq
                    => i = j
    <3> DEFINE f == serverEvents[i + 1]
    <3>1. /\ i \in Nat /\ i + 1 \in DOMAIN serverEvents /\ i + 1 # 1
          /\ serverEvents'[i] = f /\ IsPacket(f) /\ f.session \in DOMAIN calls
      BY <1>0, <2>1, <2>3, <2>9, EventSessions
    <3>2. f.seq \in serverSessions[f.session].seen /\ Untold(calls[f.session], f.seq)
      BY <3>1 DEF Once
    <3>3. IsPacket(e) /\ f.session = k => f.seq # e.seq
      BY <2>4, <3>1 DEF Once
    <3>4. Untold(calls'[f.session], f.seq)
      <4>1. CASE f.session = k
        <5>1. ASSUME NEW h \in DOMAIN calls'[k], calls'[k][h][1] = "message"
              PROVE  calls'[k][h][3] # f.seq
          <6>1. CASE h \in DOMAIN calls[k]
            BY <2>1, <3>2, <4>1, <5>1, <6>1 DEF Untold
          <6>2. CASE h = last
            BY <2>1, <3>3, <4>1, <5>1, <6>2 DEF IsPacket
          <6> QED BY <2>2, <6>1, <6>2
        <5> QED BY <4>1, <5>1 DEF Untold
      <4>2. CASE f.session # k
        BY <2>1, <3>1, <3>2, <4>2
      <4> QED BY <4>1, <4>2
    <3>5. ASSUME NEW j \in DOMAIN serverEvents', IsPacket(serverEvents'[j]),
                 serverEvents'[j].session = f.session, serverEvents'[j].seq = f.seq
          PROVE  i = j
      <4>1. j \in Nat /\ j + 1 \in DOMAIN serverEvents /\ serverEvents'[j] = serverEvents[j + 1]
        BY <2>1, <2>3
      <4>2. i + 1 = j + 1
        BY <3>1, <3>5, <4>1 DEF Once
      <4> QED BY <3>1, <4>1, <4>2
    <3> QED BY <2>5, <3>1, <3>2, <3>4, <3>5
  <2>10. DOMAIN calls' = DOMAIN calls
    BY <2>1
  <2> QED BY <2>8, <2>9, <2>10 DEF Once
<1>11. CASE ServerEventsDone \/ Erase \/ SweepNothing
  BY <1>4, <1>11 DEF ServerEventsDone, Erase, SweepNothing
<1>12. CASE ServerMaintain
  <2>1. PICK m \in Maintained(n, serverSessions[n]) :
          serverSessions' = [serverSessions EXCEPT ![n] = m[1]]
    BY <1>12 DEF ServerMaintain
  <2>2. n # NoSession /\ n \in Nat /\ serverSessions[n] \in Sessions("reply")
    BY <1>0, <1>12, LenProperties DEF ServerMaintain, ServerTyped
  <2>3. m[1] \in Sessions("reply") /\ m[1].seen = serverSessions[n].seen
    BY <2>2, MaintainedType DEF Reliable
  <2>4. UNCHANGED <<serverEvents, calls>>
    BY <1>12 DEF ServerMaintain
  <2> QED BY <1>3, <2>1, <2>2, <2>3, <2>4
<1>13. CASE Callbacks
  <2>1. UNCHANGED <<serverSessions, serverEvents>>
    BY <1>13 DEF Callbacks
  <2>2. CASE calls' = calls
    BY <1>4, <2>1, <2>2
  <2>3. ASSUME NEW k \in DOMAIN calls, server.leaving = <<k>> PROVE Once'
    <3> DEFINE last == Len(calls[k]) + 1
    <3>1. /\ DOMAIN calls' = DOMAIN calls
          /\ \A j \in DOMAIN calls \ {k} : calls'[j] = calls[j]
          /\ Len(calls[k]) \in Nat /\ DOMAIN calls[k] = 1..Len(calls[k])
          /\ DOMAIN calls'[k] = 1..last
          /\ \A i \in DOMAIN calls[k] : calls'[k][i] = calls[k][i]
          /\ calls'[k][last][1] # "message"
      BY <1>13, <2>3, ReportFacts
    <3>2. \A i \in DOMAIN calls'[k] : i \in DOMAIN calls[k] \/ i = last
      BY <3>1
    <3> HIDE DEF last
    <3>3. \A seq : Untold(calls[k], seq) => Untold(calls'[k], seq)
      BY <3>1, <3>2 DEF Untold
    <3>4. ToldOnce(calls'[k], serverSessions[k].seen)
      <4>1. ToldOnce(calls[k], serverSessions[k].seen)
        BY <2>3 DEF Once
      <4> QED BY <3>1, <3>2, <4>1 DEF ToldOnce
    <3>5. \A j \in DOMAIN calls : ToldOnce(calls'[j], serverSessions'[j].seen)
      BY <2>1, <3>1, <3>4 DEF Once
    <3>6. ASSUME NEW j \in DOMAIN calls
          PROVE  /\ serverSessions[j].seen \subseteq serverSessions'[j].seen
                 /\ \A seq : Untold(calls[j], seq) => Untold(calls'[j], seq)
      BY <2>1, <3>1, <3>3
    <3> QED BY <1>1, <2>1, <3>1, <3>5, <3>6
  <2> QED BY <1>13, <2>2, <2>3, CallbacksFacts
<1>14. CASE ServerSilence
  <2> DEFINE s == [serverSessions[n] EXCEPT !.quiet = TRUE]
  <2>1. /\ n # NoSession /\ serverSessions' = [serverSessions EXCEPT ![n] = s]
        /\ UNCHANGED <<serverEvents, calls>>
    BY <1>14 DEF ServerSilence
  <2>2. s \in Sessions("reply") /\ s.seen = serverSessions[n].seen
    BY <1>0, <2>1 DEF Sessions
  <2> HIDE DEF s
  <2> QED BY <1>3, <2>1, <2>2
<1> QED BY <1>5, <1>6, <1>7, <1>8, <1>9, <1>10, <1>11, <1>12, <1>13, <1>14
        DEF ServerStep, ServerMain

------------------------------------------------------------------------------
(* The theorems.                                                           *)

\* The initial state satisfies the inductive invariant.
LEMMA ConnectionInit == Init => IInv
<1> SUFFICES ASSUME Init PROVE IInv
  OBVIOUS
<1>1. ClientTyped
  BY BoundsAssumption DEF Init, ClientTyped, NoSession
<1>2. ServerTyped
  BY BoundsAssumption DEF Init, ServerTyped, NoSession
<1>3. serverEvents = << >> /\ calls = << >> /\ server.leaving = << >>
      /\ DOMAIN serverEvents = {} /\ DOMAIN calls = {} /\ server.session = 0
  BY DEF Init, NoSession
<1>4. Announced /\ Reported /\ Once
  BY <1>3 DEF Announced, Reported, Once
<1> QED BY <1>1, <1>2, <1>4 DEF IInv

\* Every step preserves the inductive invariant.
LEMMA ConnectionNext == IInv /\ [Next]_vars => IInv'
BY ClientTypedNext, ServerTypedNext, AnnouncedNext, ReportedNext, OnceNext DEF IInv

\* The inductive invariant holds throughout.
LEMMA ConnectionInv == Spec => []IInv
BY ConnectionInit, ConnectionNext, PTL DEF Spec

(***************************************************************************)
(* Client and server keep their shapes: a session that is in a map, on the *)
(* wire or in a queue was created, and the server's map never holds any    *)
(* but the newest of an endpoint.                                          *)
(***************************************************************************)
THEOREM ConnectionTypeOK == Spec => []TypeOK
<1>1. IInv => TypeOK
  <2> SUFFICES ASSUME IInv PROVE TypeOK
    OBVIOUS
  <2>1. \A i \in DOMAIN serverEvents : serverEvents[i].session \in DOMAIN serverSessions
    BY EventSessions DEF IInv
  <2>2. \A i \in DOMAIN clientEvents : clientEvents[i] \in ServerTypes \cup {"onDisconnect"}
    BY ElementOfSeq, LenProperties DEF IInv, ClientTyped
  <2>3. /\ client.session \in 0..Len(clientSessions) /\ client.connected \in BOOLEAN
        /\ client.retries \in 0..MaxRetries /\ client.pc \in {"events", "check"}
        /\ \A d \in toServer : d.type \in ClientTypes /\ d.from \in DOMAIN clientSessions
    BY DEF IInv, ClientTyped, ClientDatagrams
  <2>4. /\ server.session \in {0, Len(serverSessions)}
        /\ server.pc \in {"events", "sweep", "callbacks"}
        /\ \A d \in toClient : d.type \in ServerTypes /\ d.from \in DOMAIN serverSessions
    BY DEF IInv, ServerTyped, ServerDatagrams
  <2> QED BY <2>1, <2>2, <2>3, <2>4 DEF TypeOK
<1> QED BY <1>1, ConnectionInv, PTL

(***************************************************************************)
(* However the I/O thread and the main thread of the server interleave,    *)
(* the application hears of a session by onConnect, once and first.        *)
(***************************************************************************)
THEOREM ConnectionAnnouncedFirst == Spec => []AnnouncedFirst
<1>1. IInv => AnnouncedFirst
  <2> SUFFICES ASSUME IInv, NEW k \in DOMAIN calls, calls[k] # << >>
               PROVE  Positions(k, <<"onConnect">>) = {1}
    BY DEF AnnouncedFirst
  <2>1. calls[k] \in Seq(Calls)
    BY ElementOfSeq, LenProperties DEF IInv, ServerTyped
  <2>2. 1 \in DOMAIN calls[k] /\ \A i \in DOMAIN calls[k] : calls[k][i] \in Calls
    BY <2>1, EmptySeq, LenProperties, ElementOfSeq
  <2>3. ASSUME NEW i \in DOMAIN calls[k]
        PROVE  calls[k][i] = <<"onConnect">> <=> calls[k][i][1] = "onConnect"
    BY <2>2 DEF Calls
  <2>4. \A i \in DOMAIN calls[k] : calls[k][i][1] = "onConnect" <=> i = 1
    BY DEF IInv, Announced
  <2> QED BY <2>2, <2>3, <2>4 DEF Positions
<1> QED BY <1>1, ConnectionInv, PTL

(***************************************************************************)
(* Every session that is no longer in the server's map has been reported   *)
(* by onDisconnect exactly once, or is about to be; no other has been.     *)
(***************************************************************************)
THEOREM ConnectionRemovedIsReported == Spec => []RemovedIsReported
<1>1. IInv => RemovedIsReported
  <2> DEFINE gone == <<"onDisconnect">>
  <2> SUFFICES ASSUME IInv, NEW k \in DOMAIN calls
               PROVE  Cardinality(Positions(k, gone)) =
                        IF k = server.session \/ <<k>> = server.leaving THEN 0 ELSE 1
    BY DEF RemovedIsReported
  <2>1. calls[k] \in Seq(Calls)
    BY ElementOfSeq, LenProperties DEF IInv, ServerTyped
  <2>2. ASSUME NEW i \in DOMAIN calls[k]
        PROVE  calls[k][i] = gone <=> calls[k][i][1] = "onDisconnect"
    <3>1. calls[k][i] \in Calls
      BY <2>1, LenProperties, ElementOfSeq
    <3> QED BY <3>1 DEF Calls
  <2>3. Positions(k, gone) = {i \in DOMAIN calls[k] : calls[k][i][1] = "onDisconnect"}
    BY <2>2 DEF Positions
  <2>4. CASE Present(k)
    <3>1. Positions(k, gone) = {}
      BY <2>3, <2>4 DEF IInv, Reported
    <3> QED BY <2>4, <3>1, FS_EmptySet DEF Present
  <2>5. CASE ~Present(k)
    <3>1. PICK i \in DOMAIN calls[k] : calls[k][i][1] = "onDisconnect"
      BY <2>5 DEF IInv, Reported
    <3>2. Positions(k, gone) = {i}
      BY <2>3, <3>1 DEF IInv, Reported
    <3> QED BY <2>5, <3>2, FS_Singleton DEF Present
  <2> QED BY <2>4, <2>5
<1> QED BY <1>1, ConnectionInv, PTL

(***************************************************************************)
(* However often, late and in whatever order the network repeats its       *)
(* datagrams, a session of the server dispatches each packet at most once. *)
(***************************************************************************)
THEOREM ConnectionDispatchedOnce == Spec => []DispatchedOnce
<1>1. IInv => DispatchedOnce
  BY DEF IInv, Once, ToldOnce, DispatchedOnce, Messages
<1> QED BY <1>1, ConnectionInv, PTL
=============================================================================
