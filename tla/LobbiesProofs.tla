----------------------------- MODULE LobbiesProofs -----------------------------
(***************************************************************************)
(* Proofs about the lobbies, for any set of sessions, any number of        *)
(* lobbies and any number of packets.                                      *)
(***************************************************************************)
EXTENDS MCLobbies, TLAPS, SequenceTheorems, FiniteSetTheorems

Room ==
  [players : SUBSET Sessions, alive : SUBSET Sessions, state : States, queue : Seq(Actions),
   running : BOOLEAN, thread : {"none", "actions", "ticks", "ended"}]

(***************************************************************************)
(* TypeOK, with the types the proof needs of every field.                  *)
(***************************************************************************)
Typed ==
  /\ TypeOK
  /\ manager \in [lobbies : SUBSET Ids, lookup : [Sessions -> Ids \cup {NoLobby}], next : Nat]
  /\ room \in [Ids -> Room]
  /\ main \in [pc : {"send", "reap", "events"}, index : Int]

(***************************************************************************)
(* The inductive invariant.  LookupAgrees needs from Typed that a lobby    *)
(* that does not exist yet has no players and an empty queue, and that no  *)
(* session is looked up in it.                                             *)
(***************************************************************************)
IInv == Typed /\ LookupAgrees

------------------------------------------------------------------------------
(* What a push and a pop do to PlaysAfter.                                 *)

\* A pushed action that is not a join or leave of s changes nothing for s.
LEMMA PushOther ==
  ASSUME NEW queue \in Seq(Actions), NEW players, NEW s \in Sessions, NEW action \in Actions,
         action # <<"join", s>>, action # <<"leave", s>>
  PROVE  PlaysAfter(Append(queue, action), players, s) <=> PlaysAfter(queue, players, s)
<1> DEFINE longer == Append(queue, action)
<1>1. /\ Len(queue) \in Nat
      /\ DOMAIN queue = 1..Len(queue)
      /\ DOMAIN longer = 1..(Len(queue) + 1)
      /\ longer[Len(queue) + 1] = action
      /\ \A i \in 1..Len(queue) : longer[i] = queue[i]
  BY AppendProperties, LenProperties
<1> HIDE DEF longer
<1>2. \A i \in DOMAIN queue : i \in DOMAIN longer /\ longer[i] = queue[i]
  BY <1>1
<1>3. \A i \in DOMAIN longer :
        longer[i] \in {<<"join", s>>, <<"leave", s>>} => i \in DOMAIN queue /\ longer[i] = queue[i]
  BY <1>1
<1>4. (\A i \in DOMAIN longer : longer[i] # <<"leave", s>>) <=>
        \A i \in DOMAIN queue : queue[i] # <<"leave", s>>
  BY <1>2, <1>3
<1>5. ASSUME NEW i \in DOMAIN queue
      PROVE  (\A j \in DOMAIN longer : j > i => longer[j] # <<"leave", s>>) <=>
               \A j \in DOMAIN queue : j > i => queue[j] # <<"leave", s>>
  BY <1>2, <1>3
<1>6. (\E i \in DOMAIN longer :
         longer[i] = <<"join", s>> /\ \A j \in DOMAIN longer : j > i => longer[j] # <<"leave", s>>)
        <=>
      \E i \in DOMAIN queue :
         queue[i] = <<"join", s>> /\ \A j \in DOMAIN queue : j > i => queue[j] # <<"leave", s>>
  BY <1>2, <1>3, <1>5
<1>7. PlaysAfter(longer, players, s) <=> PlaysAfter(queue, players, s)
  BY <1>4, <1>6 DEF PlaysAfter
<1> QED BY <1>7 DEF longer

\* A pushed join or leave of s decides for s.
LEMMA PushOwn ==
  ASSUME NEW queue \in Seq(Actions), NEW players, NEW s \in Sessions
  PROVE  /\ PlaysAfter(Append(queue, <<"join", s>>), players, s)
         /\ ~PlaysAfter(Append(queue, <<"leave", s>>), players, s)
<1>1. ASSUME NEW action \in Actions
      PROVE  /\ Len(queue) \in Nat
             /\ DOMAIN Append(queue, action) = 1..(Len(queue) + 1)
             /\ Append(queue, action)[Len(queue) + 1] = action
  BY AppendProperties, LenProperties
<1>2. <<"join", s>> \in Actions /\ <<"leave", s>> \in Actions /\ <<"join", s>> # <<"leave", s>>
  BY DEF Actions
<1>3. PlaysAfter(Append(queue, <<"join", s>>), players, s)
  <2> DEFINE q == Append(queue, <<"join", s>>)
  <2>1. Len(queue) \in Nat /\ DOMAIN q = 1..(Len(queue) + 1) /\ q[Len(queue) + 1] = <<"join", s>>
    BY <1>1, <1>2
  <2> HIDE DEF q
  <2>2. PlaysAfter(q, players, s)
    BY <2>1 DEF PlaysAfter
  <2> QED BY <2>2 DEF q
<1>4. ~PlaysAfter(Append(queue, <<"leave", s>>), players, s)
  <2> DEFINE q == Append(queue, <<"leave", s>>)
  <2>1. Len(queue) \in Nat /\ DOMAIN q = 1..(Len(queue) + 1) /\ q[Len(queue) + 1] = <<"leave", s>>
    BY <1>1, <1>2
  <2> HIDE DEF q
  <2>2. ~PlaysAfter(q, players, s)
    BY <1>2, <2>1 DEF PlaysAfter
  <2> QED BY <2>2 DEF q
<1> QED BY <1>3, <1>4

\* Running the head of the queue, with its effect on s, changes nothing for s.
LEMMA PopHead ==
  ASSUME NEW queue \in Seq(Actions), queue # << >>, NEW players, NEW after, NEW s \in Sessions,
         Head(queue) = <<"join", s>> => s \in after,
         Head(queue) = <<"leave", s>> => s \notin after,
         Head(queue) \notin {<<"join", s>>, <<"leave", s>>} => (s \in after <=> s \in players)
  PROVE  PlaysAfter(Tail(queue), after, s) <=> PlaysAfter(queue, players, s)
<1> DEFINE rest == Tail(queue)
<1>1. /\ Len(queue) \in Nat \ {0}
      /\ DOMAIN queue = 1..Len(queue)
      /\ DOMAIN rest = 1..(Len(queue) - 1)
      /\ \A i \in 1..(Len(queue) - 1) : rest[i] = queue[i + 1]
      /\ Head(queue) = queue[1]
  BY HeadTailProperties, EmptySeq, LenProperties
<1>2. <<"join", s>> # <<"leave", s>>
  OBVIOUS
<1> HIDE DEF rest
<1> DEFINE NoLeave(q) == \A i \in DOMAIN q : q[i] # <<"leave", s>>
           JoinLast(q) == \E i \in DOMAIN q :
             q[i] = <<"join", s>> /\ \A j \in DOMAIN q : j > i => q[j] # <<"leave", s>>
<1>3. NoLeave(queue) <=> Head(queue) # <<"leave", s>> /\ NoLeave(rest)
  <2>1. ASSUME NoLeave(queue) PROVE Head(queue) # <<"leave", s>> /\ NoLeave(rest)
    BY <1>1, <2>1
  <2>2. ASSUME Head(queue) # <<"leave", s>>, NoLeave(rest), NEW i \in DOMAIN queue
        PROVE  queue[i] # <<"leave", s>>
    <3>1. CASE i = 1
      BY <1>1, <2>2, <3>1
    <3>2. CASE i # 1
      <4>1. i - 1 \in DOMAIN rest /\ rest[i - 1] = queue[i]
        BY <1>1, <3>2
      <4> QED BY <2>2, <4>1
    <3> QED BY <3>1, <3>2
  <2> QED BY <2>1, <2>2
<1>4. JoinLast(queue) <=> JoinLast(rest) \/ (Head(queue) = <<"join", s>> /\ NoLeave(rest))
  <2>1. ASSUME JoinLast(queue)
        PROVE  JoinLast(rest) \/ (Head(queue) = <<"join", s>> /\ NoLeave(rest))
    <3>1. PICK i \in DOMAIN queue :
            queue[i] = <<"join", s>> /\ \A j \in DOMAIN queue : j > i => queue[j] # <<"leave", s>>
      BY <2>1
    <3>2. CASE i = 1
      <4>1. ASSUME NEW k \in DOMAIN rest PROVE rest[k] # <<"leave", s>>
        <5>1. k + 1 \in DOMAIN queue /\ k + 1 > i /\ rest[k] = queue[k + 1]
          BY <1>1, <3>2
        <5> QED BY <3>1, <5>1
      <4> QED BY <1>1, <3>1, <3>2, <4>1
    <3>3. CASE i # 1
      <4>1. i - 1 \in DOMAIN rest /\ rest[i - 1] = queue[i]
        BY <1>1, <3>3
      <4>2. ASSUME NEW k \in DOMAIN rest, k > i - 1 PROVE rest[k] # <<"leave", s>>
        <5>1. k + 1 \in DOMAIN queue /\ k + 1 > i /\ rest[k] = queue[k + 1]
          BY <1>1, <4>2
        <5> QED BY <3>1, <5>1
      <4> QED BY <3>1, <4>1, <4>2
    <3> QED BY <3>2, <3>3
  <2>2. ASSUME JoinLast(rest) PROVE JoinLast(queue)
    <3>1. PICK i \in DOMAIN rest :
            rest[i] = <<"join", s>> /\ \A j \in DOMAIN rest : j > i => rest[j] # <<"leave", s>>
      BY <2>2
    <3>2. i + 1 \in DOMAIN queue /\ queue[i + 1] = rest[i]
      BY <1>1
    <3>3. ASSUME NEW j \in DOMAIN queue, j > i + 1 PROVE queue[j] # <<"leave", s>>
      <4>1. j - 1 \in DOMAIN rest /\ j - 1 > i /\ rest[j - 1] = queue[j]
        BY <1>1, <3>3
      <4> QED BY <3>1, <4>1
    <3> QED BY <3>1, <3>2, <3>3
  <2>3. ASSUME Head(queue) = <<"join", s>>, NoLeave(rest) PROVE JoinLast(queue)
    <3>1. 1 \in DOMAIN queue /\ queue[1] = <<"join", s>>
      BY <1>1, <2>3
    <3>2. ASSUME NEW j \in DOMAIN queue, j > 1 PROVE queue[j] # <<"leave", s>>
      <4>1. j - 1 \in DOMAIN rest /\ rest[j - 1] = queue[j]
        BY <1>1, <3>2
      <4> QED BY <2>3, <4>1
    <3> QED BY <3>1, <3>2
  <2> QED BY <2>1, <2>2, <2>3
<1>5. /\ PlaysAfter(queue, players, s) <=> JoinLast(queue) \/ (s \in players /\ NoLeave(queue))
      /\ PlaysAfter(rest, after, s) <=> JoinLast(rest) \/ (s \in after /\ NoLeave(rest))
  BY DEF PlaysAfter
<1> HIDE DEF NoLeave, JoinLast
<1>6. PlaysAfter(rest, after, s) <=> PlaysAfter(queue, players, s)
  BY <1>2, <1>3, <1>4, <1>5
<1> QED BY <1>6 DEF rest

------------------------------------------------------------------------------
(* What the actions do to the rooms.                                       *)

\* LookupAgrees of the other rooms is not disturbed by a step of lobby id.
LEMMA LobbyStep ==
  ASSUME IInv, NEW id \in Ids, id < manager.next, NEW r \in Room, r.alive \subseteq r.players,
         \A s \in Sessions : PlaysAfter(r.queue, r.players, s) <=>
                               PlaysAfter(room[id].queue, room[id].players, s),
         room' = [room EXCEPT ![id] = r], UNCHANGED <<manager, main>>
  PROVE  IInv'
<1>1. /\ room' \in [Ids -> Room] /\ room'[id] = r
      /\ \A k \in Ids : k # id => room'[k] = room[k]
  BY DEF IInv, Typed
<1>2. \A k \in Ids : room'[k].alive \subseteq room'[k].players
  BY <1>1 DEF IInv, Typed, TypeOK
<1>3. \A k \in Ids : room'[k] \in Room
  BY <1>1
<1>4. \A k \in Ids : \A i \in DOMAIN room'[k].queue : room'[k].queue[i] \in Actions
  BY <1>3, ElementOfSeq, LenProperties DEF Room
<1>5. \A k \in Ids : k >= manager.next => room'[k] = NewRoom
  BY <1>1 DEF IInv, Typed, TypeOK, Ids
<1>6. Typed'
  BY <1>1, <1>2, <1>3, <1>4, <1>5 DEF IInv, Typed, TypeOK, Room
<1>7. LookupAgrees'
  BY <1>1 DEF IInv, LookupAgrees
<1> QED BY <1>6, <1>7 DEF IInv

\* A thread exists only in a lobby that was created.
LEMMA ThreadExists ==
  ASSUME Typed, NEW id \in Ids, room[id].thread # "none"
  PROVE  id < manager.next
BY DEF Typed, TypeOK, NewRoom, Ids

\* A tick, and the turns of the loops, leave the queue and the players alone.
LEMMA SameQueue ==
  ASSUME IInv, NEW id \in Ids, room[id].thread # "none",
         NEW r \in Room, r.alive \subseteq r.players,
         r.queue = room[id].queue, r.players = room[id].players,
         room' = [room EXCEPT ![id] = r], UNCHANGED <<manager, main>>
  PROVE  IInv'
<1>1. id < manager.next
  BY ThreadExists DEF IInv
<1> QED BY <1>1, LobbyStep

\* The lobby after a queued action.
AfterAction(id, r, kind, s) == Perform(id, r, <<kind, s>>)[1]

\* What a queued action does to its lobby, once it has left the queue.
LEMMA Performed ==
  ASSUME NEW id \in Ids, NEW r \in Room, r.alive \subseteq r.players,
         NEW kind \in {"join", "leave", "start", "input"}, NEW s \in Sessions
  PROVE  LET after == AfterAction(id, r, kind, s) IN
         /\ after \in Room /\ after.alive \subseteq after.players /\ after.queue = r.queue
         /\ kind = "join" => after.players = r.players \cup {s}
         /\ kind = "leave" => after.players = r.players \ {s}
         /\ kind \in {"start", "input"} => after.players = r.players
<1> DEFINE after == AfterAction(id, r, kind, s)
<1>1. CASE kind = "join"
  <2>1. after = Joined(id, r, s)[1]
    BY <1>1 DEF AfterAction, Perform
  <2>2. CASE s \in r.players
    <3>1. after = r
      BY <2>1, <2>2 DEF Joined
    <3> QED BY <1>1, <2>2, <3>1
  <2>3. CASE s \notin r.players
    <3>1. PICK state \in States : after = [r EXCEPT !.players = @ \cup {s}, !.state = state]
      BY <2>1, <2>3 DEF Joined, Room, States
    <3>2. after.players = r.players \cup {s} /\ after.alive = r.alive /\ after.queue = r.queue
      BY <3>1 DEF Room
    <3>3. r.players \cup {s} \in SUBSET Sessions
      BY DEF Room
    <3>4. after \in Room
      BY <3>1, <3>3 DEF Room
    <3> QED BY <1>1, <3>2, <3>4
  <2> QED BY <2>2, <2>3
<1>2. CASE kind = "leave"
  <2>1. after = Left(id, r, s)
    BY <1>2 DEF AfterAction, Perform
  <2> DEFINE gone == [r EXCEPT !.players = r.players \ {s}, !.alive = @ \ {s}]
  <2>2. gone \in Room /\ gone.alive \subseteq gone.players /\ gone.queue = r.queue
        /\ gone.players = r.players \ {s}
    BY DEF Room
  <2>3. after = gone \/ after = [gone EXCEPT !.state = Waiting, !.running = @ /\ id = 0]
    BY <2>1 DEF Left
  <2> HIDE DEF gone
  <2>4. [gone EXCEPT !.state = Waiting, !.running = @ /\ id = 0] \in Room
    <3>1. (gone.running /\ id = 0) \in BOOLEAN
      OBVIOUS
    <3> QED BY <2>2, <3>1 DEF Room, States
  <2>5. after \in Room /\ after.alive \subseteq after.players /\ after.queue = r.queue
        /\ after.players = r.players \ {s}
    BY <2>2, <2>3, <2>4 DEF Room
  <2> QED BY <1>2, <2>5
<1>3. CASE kind = "start"
  <2>1. after = [r EXCEPT !.state = Running, !.alive = r.players]
    BY <1>3 DEF AfterAction, Perform, Restarted
  <2> QED BY <1>3, <2>1 DEF Room, States
<1>4. CASE kind = "input"
  <2>1. after = r
    BY <1>4 DEF AfterAction, Perform
  <2> QED BY <1>4, <2>1
<1> QED BY <1>1, <1>2, <1>3, <1>4

\* Running the head of the queue, when that does not throw.
LEMMA ActRoom ==
  ASSUME IInv, NEW id \in Ids, Act(id), ~Throws(room[id], Head(room[id].queue))
  PROVE  /\ UNCHANGED <<manager, main, fate>>
         /\ \E after \in Room :
              /\ room' = [room EXCEPT ![id] = after]
              /\ after.alive \subseteq after.players
              /\ after.queue = Tail(room[id].queue)
              /\ \A t \in Sessions :
                   /\ Head(room[id].queue) = <<"join", t>> => t \in after.players
                   /\ Head(room[id].queue) = <<"leave", t>> => t \notin after.players
                   /\ Head(room[id].queue) \notin {<<"join", t>>, <<"leave", t>>} =>
                        (t \in after.players <=> t \in room[id].players)
<1> DEFINE r == room[id]
           popped == [r EXCEPT !.queue = Tail(@)]
           action == Head(r.queue)
           after == Perform(id, popped, action)[1]
<1>1. r \in Room /\ r.queue \in Seq(Actions) /\ r.queue # << >> /\ r.alive \subseteq r.players
  BY DEF IInv, Typed, TypeOK, Room, Act
<1>2. room' = [room EXCEPT ![id] = after] /\ UNCHANGED <<manager, main, fate>>
  BY DEF Act, Step
<1>3. action \in Actions /\ Tail(r.queue) \in Seq(Actions)
  BY <1>1, HeadTailProperties, EmptySeq
<1>4. PICK kind \in {"join", "leave", "start", "input"}, s \in Sessions : action = <<kind, s>>
  BY <1>3 DEF Actions
<1>5. popped \in Room /\ popped.alive \subseteq popped.players
      /\ popped.queue = Tail(r.queue) /\ popped.players = r.players
  BY <1>1, <1>3 DEF Room
<1> HIDE DEF popped
<1>6. /\ after \in Room /\ after.alive \subseteq after.players /\ after.queue = popped.queue
      /\ kind = "join" => after.players = popped.players \cup {s}
      /\ kind = "leave" => after.players = popped.players \ {s}
      /\ kind \in {"start", "input"} => after.players = popped.players
  <2>1. after = AfterAction(id, popped, kind, s)
    BY <1>4 DEF AfterAction
  <2> HIDE DEF after, r, action
  <2>2. popped \in Room /\ popped.alive \subseteq popped.players
    BY <1>5
  <2> QED BY ONLY <2>1, <2>2, Performed
<1> HIDE DEF after
<1>7. ASSUME NEW t \in Sessions
      PROVE  /\ action = <<"join", t>> => t \in after.players
             /\ action = <<"leave", t>> => t \notin after.players
             /\ action \notin {<<"join", t>>, <<"leave", t>>} =>
                  (t \in after.players <=> t \in r.players)
  <2> HIDE DEF action, r
  <2> QED BY <1>4, <1>5, <1>6
<1> QED BY <1>2, <1>5, <1>6, <1>7

\* Running the head of the queue.
LEMMA ActIInv ==
  ASSUME IInv, NEW id \in Ids, Act(id)
  PROVE  IInv'
<1>1. room[id].queue \in Seq(Actions) /\ room[id].queue # << >> /\ room[id].thread = "actions"
  BY DEF IInv, Typed, Room, Act
<1>2. id < manager.next
  BY <1>1, ThreadExists DEF IInv
<1>3. CASE Throws(room[id], Head(room[id].queue))
  <2>1. UNCHANGED <<manager, room, main>>
    BY <1>3 DEF Act
  <2> QED BY <2>1 DEF IInv, Typed, TypeOK, LookupAgrees
<1>4. CASE ~Throws(room[id], Head(room[id].queue))
  <2>1. UNCHANGED <<manager, main>>
    BY <1>4, ActRoom
  <2>2. PICK after \in Room :
          /\ room' = [room EXCEPT ![id] = after]
          /\ after.alive \subseteq after.players
          /\ after.queue = Tail(room[id].queue)
          /\ \A t \in Sessions :
               /\ Head(room[id].queue) = <<"join", t>> => t \in after.players
               /\ Head(room[id].queue) = <<"leave", t>> => t \notin after.players
               /\ Head(room[id].queue) \notin {<<"join", t>>, <<"leave", t>>} =>
                    (t \in after.players <=> t \in room[id].players)
    BY <1>4, ActRoom
  <2>3. ASSUME NEW t \in Sessions
        PROVE  PlaysAfter(after.queue, after.players, t) <=>
                 PlaysAfter(room[id].queue, room[id].players, t)
    <3> DEFINE queue == room[id].queue
               players == room[id].players
               left == after.players
    <3>1. /\ queue \in Seq(Actions) /\ queue # << >>
          /\ Head(queue) = <<"join", t>> => t \in left
          /\ Head(queue) = <<"leave", t>> => t \notin left
          /\ Head(queue) \notin {<<"join", t>>, <<"leave", t>>} => (t \in left <=> t \in players)
      BY <1>1, <2>2
    <3>2. after.queue = Tail(queue)
      BY <2>2
    <3> HIDE DEF queue, players, left
    <3>3. PlaysAfter(Tail(queue), left, t) <=> PlaysAfter(queue, players, t)
      BY <3>1, PopHead
    <3> QED BY <3>2, <3>3 DEF queue, players, left
  <2> QED BY <1>2, <2>1, <2>2, <2>3, LobbyStep
<1> QED BY <1>3, <1>4

\* The rest of a lobby's thread.
LEMMA ThreadIInv ==
  ASSUME IInv, NEW id \in Ids,
         ActionsDone(id) \/ TicksDone(id) \/ \E dead \in SUBSET Sessions : Tick(id, dead)
  PROVE  IInv'
<1> DEFINE r == room[id]
<1>1. r \in Room /\ r.alive \subseteq r.players
  BY DEF IInv, Typed, TypeOK
<1>2. CASE ActionsDone(id)
  <2> DEFINE done == [r EXCEPT !.thread = "ticks"]
  <2>1. /\ done \in Room /\ done.alive \subseteq done.players
        /\ done.queue = r.queue /\ done.players = r.players
    BY <1>1 DEF Room
  <2>2. r.thread # "none" /\ room' = [room EXCEPT ![id] = done] /\ UNCHANGED <<manager, main>>
    BY <1>2 DEF ActionsDone, Step
  <2> QED BY <2>1, <2>2, SameQueue
<1>3. CASE TicksDone(id)
  <2> DEFINE done == [r EXCEPT !.thread = IF r.running THEN "actions" ELSE "ended"]
  <2>1. /\ done \in Room /\ done.alive \subseteq done.players
        /\ done.queue = r.queue /\ done.players = r.players
    BY <1>1 DEF Room
  <2>2. r.thread # "none" /\ room' = [room EXCEPT ![id] = done] /\ UNCHANGED <<manager, main>>
    BY <1>3 DEF TicksDone, Step
  <2> QED BY <2>1, <2>2, SameQueue
<1>4. ASSUME NEW dead \in SUBSET Sessions, Tick(id, dead) PROVE IInv'
  <2> DEFINE over == Restarted(r, Over)
             hit == [r EXCEPT !.alive = @ \ dead]
  <2>1. r.thread # "none" /\ UNCHANGED <<manager, main>>
    BY <1>4 DEF Tick, Step
  <2>2. room' = [room EXCEPT ![id] = over] \/ room' = [room EXCEPT ![id] = hit]
    BY <1>4 DEF Tick, Step
  <2>3. /\ over \in Room /\ over.alive \subseteq over.players
        /\ over.queue = r.queue /\ over.players = r.players
    BY <1>1 DEF Room, Restarted, States
  <2>4. /\ hit \in Room /\ hit.alive \subseteq hit.players
        /\ hit.queue = r.queue /\ hit.players = r.players
    BY <1>1 DEF Room
  <2> HIDE DEF over, hit
  <2> QED BY <2>1, <2>2, <2>3, <2>4, SameQueue
<1> QED BY <1>2, <1>3, <1>4

------------------------------------------------------------------------------
(* What the main thread does to them.                                      *)

\* The start index of Manager::update is the id of a lobby at most.
LEMMA StartIndex ==
  ASSUME Typed
  PROVE  Cardinality(manager.lobbies) - 1 \in 0..LastId
<1>1. manager.lobbies \subseteq Ids /\ 0 \in manager.lobbies /\ LastId \in Nat
  BY LastIdAssumption DEF Typed, TypeOK
<1>2. IsFiniteSet(Ids) /\ Cardinality(Ids) = LastId + 1
  BY <1>1, FS_Interval DEF Ids
<1>3. /\ IsFiniteSet(manager.lobbies)
      /\ Cardinality(manager.lobbies) <= LastId + 1
      /\ Cardinality(manager.lobbies) \in Nat
  BY <1>1, <1>2, FS_Subset, FS_CardinalityType
<1>4. Cardinality(manager.lobbies) # 0
  BY <1>1, <1>3, FS_EmptySet
<1> QED BY <1>1, <1>3, <1>4

\* The shape of a turn of Manager::update.
LEMMA ReapShape ==
  ASSUME Reap
  PROVE  /\ manager' = manager \/
              (main.index > 0 /\ manager' = [manager EXCEPT !.lobbies = manager.lobbies \ {main.index}])
         /\ main' = main \/ (main.index > 0 /\ main' = [main EXCEPT !.index = main.index - 1])
         /\ UNCHANGED room
<1>1. CASE main.index \notin manager.lobbies
  BY <1>1 DEF Reap
<1>2. CASE main.index \in manager.lobbies
  BY <1>2 DEF Reap
<1> QED BY <1>1, <1>2

\* A turn of Manager::update takes at most one lobby, not lobby 0, out of the map.
LEMMA ReapIInv ==
  ASSUME IInv, Reap
  PROVE  IInv'
<1>1. /\ manager' \in [lobbies : SUBSET Ids, lookup : [Sessions -> Ids \cup {NoLobby}], next : Nat]
      /\ 0 \in manager'.lobbies /\ manager'.lobbies \subseteq manager.lobbies
      /\ manager'.lookup = manager.lookup /\ manager'.next = manager.next
  <2>1. CASE manager' = manager
    BY <2>1 DEF IInv, Typed, TypeOK
  <2>2. CASE main.index > 0 /\
             manager' = [manager EXCEPT !.lobbies = manager.lobbies \ {main.index}]
    <3>1. 0 \in manager.lobbies \ {main.index}
      BY <2>2 DEF IInv, Typed, TypeOK
    <3> QED BY <2>2, <3>1 DEF IInv, Typed
  <2> QED BY <2>1, <2>2, ReapShape
<1>2. main' \in [pc : {"send", "reap", "events"}, index : Int] /\ main'.index \in 0..LastId
  <2>1. CASE main' = main
    BY <2>1 DEF IInv, Typed, TypeOK
  <2>2. CASE main.index > 0 /\ main' = [main EXCEPT !.index = main.index - 1]
    <3>1. main.index - 1 \in 0..LastId /\ main.index - 1 \in Int
      BY <2>2, LastIdAssumption DEF IInv, Typed, TypeOK
    <3> QED BY <2>2, <3>1 DEF IInv, Typed
  <2> QED BY <2>1, <2>2, ReapShape
<1>3. UNCHANGED room
  BY ReapShape
<1>4. Typed'
  BY <1>1, <1>2, <1>3 DEF IInv, Typed, TypeOK
<1>5. LookupAgrees'
  BY <1>1, <1>3 DEF IInv, LookupAgrees
<1> QED BY <1>4, <1>5 DEF IInv

\* Sending, reaping and the turns of the main loop leave queues and lookup alone.
LEMMA MainIInv ==
  ASSUME IInv, MainLoop
  PROVE  IInv'
<1>1. CASE Reap
  BY <1>1, ReapIInv
<1>2. CASE Send \/ SendDone \/ ReapDone \/ EventsDone
  <2>1. UNCHANGED <<manager, room>>
    BY <1>2 DEF Send, SendDone, ReapDone, EventsDone
  <2>2. main' \in [pc : {"send", "reap", "events"}, index : Int] /\ main'.index \in 0..LastId
    <3>1. CASE SendDone
      BY <3>1, StartIndex DEF SendDone, IInv
    <3>2. CASE Send \/ ReapDone \/ EventsDone
      BY <3>2 DEF Send, ReapDone, EventsDone, IInv, Typed, TypeOK
    <3> QED BY <1>2, <3>1, <3>2
  <2>3. Typed'
    BY <2>1, <2>2 DEF IInv, Typed, TypeOK
  <2>4. LookupAgrees'
    BY <2>1 DEF IInv, LookupAgrees
  <2> QED BY <2>3, <2>4 DEF IInv
<1> QED BY <1>1, <1>2 DEF MainLoop

------------------------------------------------------------------------------
(* What the clients do to them.                                            *)

\* Pushed appends to the queue of one room and leaves everything else.
LEMMA PushedRoom ==
  ASSUME NEW rooms \in [Ids -> Room], NEW id \in Ids, NEW action \in Actions
  PROVE  /\ Pushed(rooms, id, action) \in [Ids -> Room]
         /\ \A k \in Ids : /\ Pushed(rooms, id, action)[k].players = rooms[k].players
                           /\ Pushed(rooms, id, action)[k].alive = rooms[k].alive
                           /\ Pushed(rooms, id, action)[k].state = rooms[k].state
                           /\ k # id => Pushed(rooms, id, action)[k] = rooms[k]
         /\ Pushed(rooms, id, action)[id].queue = Append(rooms[id].queue, action)
<1> DEFINE r == [rooms[id] EXCEPT !.queue = Append(@, action)]
<1>1. Append(rooms[id].queue, action) \in Seq(Actions)
  BY AppendProperties DEF Room
<1>2. r \in Room /\ r.players = rooms[id].players /\ r.alive = rooms[id].alive
      /\ r.state = rooms[id].state /\ r.queue = Append(rooms[id].queue, action)
  BY <1>1 DEF Room
<1>3. Pushed(rooms, id, action) = [rooms EXCEPT ![id] = r]
  BY DEF Pushed
<1> HIDE DEF r
<1> QED BY <1>2, <1>3

\* Typed in the next state, from what an event of a client changes.
LEMMA EventTyped ==
  ASSUME IInv, room' \in [Ids -> Room], \A k \in Ids : room'[k].alive \subseteq room'[k].players,
         \A k \in Ids : k >= manager'.next => room'[k] = NewRoom,
         manager' \in [lobbies : SUBSET Ids, lookup : [Sessions -> Ids \cup {NoLobby}], next : Nat],
         manager'.next \in 1..(LastId + 1), 0 \in manager'.lobbies,
         manager'.lobbies \subseteq 0..(manager'.next - 1),
         manager'.lookup \in [Sessions -> 0..(manager'.next - 1) \cup {NoLobby}],
         UNCHANGED main
  PROVE  Typed'
<1>1. \A k \in Ids : \A i \in DOMAIN room'[k].queue : room'[k].queue[i] \in Actions
  BY ElementOfSeq, LenProperties DEF Room
<1>2. \A k \in Ids : room'[k].players \subseteq Sessions /\ room'[k].state \in States
  BY DEF Room
<1> QED BY <1>1, <1>2 DEF IInv, Typed, TypeOK

\* A lobby that holds a session, or may hold it soon, was created.
LEMMA LookupExists ==
  ASSUME Typed, NEW s \in Sessions, manager.lookup[s] # NoLobby
  PROVE  manager.lookup[s] \in Ids /\ manager.lookup[s] < manager.next
<1>1. manager.lookup[s] \in 0..(manager.next - 1) /\ manager.next \in 1..(LastId + 1)
  BY DEF Typed, TypeOK
<1> QED BY <1>1, LastIdAssumption DEF Ids

\* A push to a lobby that exists leaves Typed, whatever becomes of the lookup of s.
LEMMA PushTyped ==
  ASSUME IInv, NEW id \in Ids, id < manager.next, NEW action \in Actions,
         NEW s \in Sessions, NEW there \in 0..(manager.next - 1) \cup {NoLobby},
         room' = Pushed(room, id, action),
         manager' = [manager EXCEPT !.lookup = [manager.lookup EXCEPT ![s] = there]],
         UNCHANGED main
  PROVE  Typed'
<1>1. manager.next \in 1..(LastId + 1) /\ LastId \in Nat
  BY LastIdAssumption DEF IInv, Typed, TypeOK
<1>2. /\ room' \in [Ids -> Room]
      /\ \A k \in Ids : room'[k].alive \subseteq room'[k].players /\ (k # id => room'[k] = room[k])
  <2>1. room \in [Ids -> Room] /\ \A k \in Ids : room[k].alive \subseteq room[k].players
    BY DEF IInv, Typed, TypeOK
  <2>2. /\ Pushed(room, id, action) \in [Ids -> Room]
        /\ \A k \in Ids : /\ Pushed(room, id, action)[k].players = room[k].players
                          /\ Pushed(room, id, action)[k].alive = room[k].alive
                          /\ k # id => Pushed(room, id, action)[k] = room[k]
    BY <2>1, PushedRoom
  <2> QED BY <2>1, <2>2
<1>3. \A k \in Ids : k >= manager.next => room'[k] = NewRoom
  BY <1>1, <1>2 DEF IInv, Typed, TypeOK, Ids
<1>4. there \in Ids \cup {NoLobby}
  BY <1>1 DEF Ids
<1>5. /\ [manager.lookup EXCEPT ![s] = there] \in [Sessions -> Ids \cup {NoLobby}]
      /\ [manager.lookup EXCEPT ![s] = there] \in [Sessions -> 0..(manager.next - 1) \cup {NoLobby}]
  BY <1>4 DEF IInv, Typed, TypeOK
<1>6. /\ manager' \in [lobbies : SUBSET Ids, lookup : [Sessions -> Ids \cup {NoLobby}], next : Nat]
      /\ manager'.next = manager.next /\ manager'.lobbies = manager.lobbies
      /\ manager'.lookup = [manager.lookup EXCEPT ![s] = there]
  BY <1>5 DEF IInv, Typed
<1>7. 0 \in manager.lobbies /\ manager.lobbies \subseteq 0..(manager.next - 1)
  BY DEF IInv, Typed, TypeOK
<1> QED BY <1>1, <1>2, <1>3, <1>5, <1>6, <1>7, EventTyped

\* joinRoom of a lobby that exists.
LEMMA JoinRoomIInv ==
  ASSUME IInv, NEW s \in Sessions, NEW id \in Ids, JoinRoom(s, id)
  PROVE  IInv'
<1> DEFINE action == <<"join", s>>
<1>1. /\ action \in Actions /\ id < manager.next /\ id \in 0..(manager.next - 1)
  BY DEF Actions, JoinRoom, IInv, Typed, TypeOK
<1>2. /\ room' = Pushed(room, id, action) /\ UNCHANGED main
      /\ manager' = [manager EXCEPT !.lookup = [manager.lookup EXCEPT ![s] = id]]
      /\ manager.lookup[s] = NoLobby
  BY DEF JoinRoom, Dispatch, IInv, Typed
<1>3. Typed'
  BY <1>1, <1>2, PushTyped
<1>4. LookupAgrees'
  <2>1. /\ manager'.lookup[s] = id
        /\ \A t \in Sessions : t # s => manager'.lookup[t] = manager.lookup[t]
    BY <1>2 DEF IInv, Typed
  <2>2. /\ \A k \in Ids : /\ room'[k].players = room[k].players
                          /\ k # id => room'[k] = room[k]
        /\ room'[id].queue = Append(room[id].queue, action)
    <3>1. room \in [Ids -> Room]
      BY DEF IInv, Typed
    <3>2. /\ \A k \in Ids : /\ Pushed(room, id, action)[k].players = room[k].players
                            /\ k # id => Pushed(room, id, action)[k] = room[k]
          /\ Pushed(room, id, action)[id].queue = Append(room[id].queue, action)
      BY <1>1, <3>1, PushedRoom
    <3> QED BY <1>2, <3>2
  <2>3. room[id].queue \in Seq(Actions)
    BY DEF IInv, Typed, Room
  <2>4. \A k \in Ids : ~PlaysAfter(room[k].queue, room[k].players, s)
    BY <1>2 DEF IInv, LookupAgrees, Ids, NoLobby
  <2>5. PlaysAfter(room'[id].queue, room'[id].players, s)
    BY <2>2, <2>3, PushOwn
  <2>6. \A t \in Sessions : t # s =>
          (PlaysAfter(room'[id].queue, room'[id].players, t)
             <=> PlaysAfter(room[id].queue, room[id].players, t))
    BY <1>1, <2>2, <2>3, PushOther
  <2>7. SUFFICES ASSUME NEW t \in Sessions, NEW k \in Ids
                 PROVE  manager'.lookup[t] = k <=>
                          PlaysAfter(room'[k].queue, room'[k].players, t)
    BY DEF LookupAgrees
  <2>8. CASE t = s
    BY <2>1, <2>2, <2>4, <2>5, <2>8
  <2>9. CASE t # s
    BY <2>1, <2>2, <2>6, <2>9 DEF IInv, LookupAgrees
  <2> QED BY <2>8, <2>9
<1> QED BY <1>3, <1>4 DEF IInv

\* Nobody plays in a lobby that has just been created or does not exist.
LEMMA FreshRoom ==
  ASSUME NEW t \in Sessions, NEW r \in {NewRoom, Started}
  PROVE  ~PlaysAfter(r.queue, r.players, t)
<1>1. NewRoom.queue = << >> /\ NewRoom.players = {}
  BY DEF NewRoom
<1>2. Started.queue = << >> /\ Started.players = {}
  BY DEF NewRoom, Started
<1>3. r.queue = << >> /\ r.players = {}
  BY <1>1, <1>2
<1> QED BY <1>3 DEF PlaysAfter

\* The rooms once joinRoom has created the lobby with the next id.
LEMMA CreatedRooms ==
  ASSUME IInv, manager.next \in Ids
  PROVE  LET rooms == [room EXCEPT ![manager.next] = Started] IN
         /\ rooms \in [Ids -> Room]
         /\ rooms[manager.next] = Started
         /\ \A k \in Ids : rooms[k].alive \subseteq rooms[k].players
         /\ \A k \in Ids : k # manager.next => rooms[k] = room[k]
         /\ \A k \in Ids : k > manager.next => rooms[k] = NewRoom
<1> DEFINE rooms == [room EXCEPT ![manager.next] = Started]
<1>1. Started \in Room /\ Started.alive \subseteq Started.players
  BY EmptySeq DEF Started, NewRoom, Room, States
<1>2. rooms \in [Ids -> Room] /\ rooms[manager.next] = Started
      /\ \A k \in Ids : k # manager.next => rooms[k] = room[k]
  BY <1>1 DEF IInv, Typed
<1> HIDE DEF rooms
<1>3. \A k \in Ids : rooms[k].alive \subseteq rooms[k].players
  BY <1>1, <1>2 DEF IInv, Typed, TypeOK
<1>4. \A k \in Ids : k > manager.next => rooms[k] = NewRoom
  BY <1>2 DEF IInv, Typed, TypeOK, Ids
<1> QED BY <1>2, <1>3, <1>4 DEF rooms

\* joinRoom of a new lobby that lets the session in.
LEMMA JoinCreatedIInv ==
  ASSUME IInv, NEW s \in Sessions, JoinNewRoom(s), manager.next < LastId
  PROVE  IInv'
<1> DEFINE id == manager.next
           action == <<"join", s>>
           rooms == [room EXCEPT ![manager.next] = Started]
<1>1. id \in Ids /\ id \in 1..LastId /\ LastId \in Nat /\ action \in Actions
  BY LastIdAssumption DEF IInv, Typed, TypeOK, Ids, Actions
<1>2. /\ room' = Pushed(rooms, id, action) /\ UNCHANGED main
      /\ manager' = [lobbies |-> manager.lobbies \cup {id},
                     lookup |-> [manager.lookup EXCEPT ![s] = id], next |-> id + 1]
      /\ manager.lookup[s] = NoLobby
  <2>1. manager.next <= LastId /\ ~(manager.next >= LastId)
    BY <1>1
  <2> QED BY <2>1 DEF JoinNewRoom
<1>3. /\ rooms \in [Ids -> Room] /\ rooms[id] = Started
      /\ \A k \in Ids : rooms[k].alive \subseteq rooms[k].players
      /\ \A k \in Ids : k # id => rooms[k] = room[k]
      /\ \A k \in Ids : k > id => rooms[k] = NewRoom
  BY <1>1, CreatedRooms
<1> HIDE DEF rooms
<1>4. /\ room' \in [Ids -> Room]
      /\ \A k \in Ids : room'[k].players = rooms[k].players /\ room'[k].alive = rooms[k].alive
      /\ \A k \in Ids : k # id => room'[k] = rooms[k]
      /\ room'[id].queue = Append(rooms[id].queue, action)
  <2>1. /\ Pushed(rooms, id, action) \in [Ids -> Room]
        /\ \A k \in Ids : /\ Pushed(rooms, id, action)[k].players = rooms[k].players
                          /\ Pushed(rooms, id, action)[k].alive = rooms[k].alive
                          /\ k # id => Pushed(rooms, id, action)[k] = rooms[k]
        /\ Pushed(rooms, id, action)[id].queue = Append(rooms[id].queue, action)
    <3> HIDE DEF id, action
    <3> QED BY <1>1, <1>3, PushedRoom
  <2> QED BY <1>2, <2>1
<1>5. /\ [manager.lookup EXCEPT ![s] = id] \in [Sessions -> Ids \cup {NoLobby}]
      /\ [manager.lookup EXCEPT ![s] = id] \in [Sessions -> 0..id \cup {NoLobby}]
  BY <1>1 DEF IInv, Typed, TypeOK, Ids
<1>6. /\ manager.lobbies \cup {id} \in SUBSET Ids
      /\ manager.lobbies \cup {id} \subseteq 0..id
      /\ 0 \in manager.lobbies
  BY <1>1 DEF IInv, Typed, TypeOK, Ids
<1>7. Typed'
  <2>1. manager' \in [lobbies : SUBSET Ids, lookup : [Sessions -> Ids \cup {NoLobby}], next : Nat]
    BY <1>1, <1>2, <1>5, <1>6
  <2>2. /\ manager'.next = id + 1 /\ manager'.next - 1 = id /\ manager'.next \in 1..(LastId + 1)
        /\ manager'.lobbies = manager.lobbies \cup {id}
        /\ manager'.lookup = [manager.lookup EXCEPT ![s] = id]
    BY <1>1, <1>2
  <2>3. \A k \in Ids : k >= manager'.next => room'[k] = NewRoom
    BY <1>1, <1>3, <1>4, <2>2 DEF Ids
  <2>4. \A k \in Ids : room'[k].alive \subseteq room'[k].players
    BY <1>3, <1>4
  <2> HIDE DEF id
  <2> QED BY <1>2, <1>4, <1>5, <1>6, <2>1, <2>2, <2>3, <2>4, EventTyped
<1>8. LookupAgrees'
  <2>1. /\ manager'.lookup[s] = id
        /\ \A t \in Sessions : t # s => manager'.lookup[t] = manager.lookup[t]
        /\ \A t \in Sessions : manager.lookup[t] # id
    BY <1>1, <1>2 DEF IInv, Typed, TypeOK, NoLobby
  <2>2. rooms[id].queue \in Seq(Actions)
    BY <1>1, <1>3 DEF Room
  <2>3. PlaysAfter(room'[id].queue, room'[id].players, s)
    BY <1>4, <2>2, PushOwn
  <2>4. ASSUME NEW t \in Sessions, t # s PROVE ~PlaysAfter(room'[id].queue, room'[id].players, t)
    <3>1. action # <<"join", t>> /\ action # <<"leave", t>>
      BY <2>4
    <3>2. ~PlaysAfter(rooms[id].queue, rooms[id].players, t)
      BY <1>3, FreshRoom
    <3> QED BY <1>1, <1>4, <2>2, <3>1, <3>2, PushOther
  <2>5. \A k \in Ids : k # id => room'[k] = room[k]
    BY <1>3, <1>4
  <2>6. SUFFICES ASSUME NEW t \in Sessions, NEW k \in Ids
                 PROVE  manager'.lookup[t] = k <=>
                          PlaysAfter(room'[k].queue, room'[k].players, t)
    BY DEF LookupAgrees
  <2>7. CASE k = id
    BY <2>1, <2>3, <2>4, <2>7
  <2>8. CASE k # id
    <3>1. manager'.lookup[t] = k <=> manager.lookup[t] = k
      BY <1>2, <2>1, <2>8 DEF NoLobby, Ids
    <3> QED BY <2>5, <2>8, <3>1 DEF IInv, LookupAgrees
  <2> QED BY <2>7, <2>8
<1> QED BY <1>7, <1>8 DEF IInv

\* joinRoom of a new lobby that refuses the session.
LEMMA JoinRefusedIInv ==
  ASSUME IInv, NEW s \in Sessions, JoinNewRoom(s), manager.next >= LastId
  PROVE  IInv'
<1> DEFINE id == manager.next
           rooms == [room EXCEPT ![manager.next] = Started]
<1>1. id \in 1..(LastId + 1) /\ LastId \in Nat
  BY LastIdAssumption DEF IInv, Typed, TypeOK
<1>2. CASE id = LastId
  <2>1. /\ room' = rooms /\ UNCHANGED main
        /\ manager' = [lobbies |-> manager.lobbies \cup {id}, lookup |-> manager.lookup,
                       next |-> id + 1]
    BY <1>1, <1>2 DEF JoinNewRoom
  <2>2. id \in Ids
    BY <1>1, <1>2 DEF Ids
  <2>3. /\ rooms \in [Ids -> Room] /\ rooms[id] = Started
        /\ \A k \in Ids : rooms[k].alive \subseteq rooms[k].players
        /\ \A k \in Ids : k # id => rooms[k] = room[k]
        /\ \A k \in Ids : k > id => rooms[k] = NewRoom
    BY <2>2, CreatedRooms
  <2> HIDE DEF rooms
  <2>4. /\ manager.lobbies \cup {id} \in SUBSET Ids
        /\ manager.lobbies \cup {id} \subseteq 0..id
        /\ 0 \in manager.lobbies
        /\ manager.lookup \in [Sessions -> Ids \cup {NoLobby}]
        /\ manager.lookup \in [Sessions -> 0..id \cup {NoLobby}]
    BY <1>1, <2>2 DEF IInv, Typed, TypeOK
  <2>5. manager' \in [lobbies : SUBSET Ids, lookup : [Sessions -> Ids \cup {NoLobby}], next : Nat]
    BY <1>1, <2>1, <2>4
  <2>6. /\ manager'.next = id + 1 /\ manager'.next - 1 = id /\ manager'.next \in 1..(LastId + 1)
        /\ manager'.lobbies = manager.lobbies \cup {id}
        /\ manager'.lookup = manager.lookup
    BY <1>1, <1>2, <2>1
  <2>7. \A k \in Ids : k >= manager'.next => room'[k] = NewRoom
    BY <1>1, <2>1, <2>3, <2>6 DEF Ids
  <2>8. Typed'
    BY <2>1, <2>3, <2>4, <2>5, <2>6, <2>7, EventTyped
  <2>9. LookupAgrees'
    <3>1. SUFFICES ASSUME NEW t \in Sessions, NEW k \in Ids
                   PROVE  manager'.lookup[t] = k <=>
                            PlaysAfter(room'[k].queue, room'[k].players, t)
      BY DEF LookupAgrees
    <3>2. CASE k = id
      <4>1. manager.lookup[t] # id
        BY <1>1 DEF IInv, Typed, TypeOK, NoLobby
      <4> QED BY <2>1, <2>3, <2>6, <3>2, <4>1, FreshRoom
    <3>3. CASE k # id
      BY <2>1, <2>3, <2>6, <3>3 DEF IInv, LookupAgrees
    <3> QED BY <3>2, <3>3
  <2> QED BY <2>8, <2>9 DEF IInv
<1>3. CASE id = LastId + 1
  <2>1. /\ UNCHANGED <<room, main>>
        /\ manager' = [lobbies |-> manager.lobbies, lookup |-> manager.lookup, next |-> id]
    BY <1>1, <1>3 DEF JoinNewRoom
  <2>2. UNCHANGED manager
    BY <2>1 DEF IInv, Typed
  <2> QED BY <2>1, <2>2 DEF IInv, Typed, TypeOK, LookupAgrees
<1> QED BY <1>1, <1>2, <1>3

\* A START or an input in the queue says nothing of who plays.
LEMMA PushActionIInv ==
  ASSUME IInv, NEW s \in Sessions, NEW kind \in {"start", "input"}, PushAction(s, kind)
  PROVE  IInv'
<1> DEFINE id == manager.lookup[s]
           action == <<kind, s>>
<1>1. /\ action \in Actions
      /\ \A t \in Sessions : action # <<"join", t>> /\ action # <<"leave", t>>
  BY DEF Actions
<1>2. /\ room' = Pushed(room, id, action) /\ UNCHANGED <<manager, main>>
      /\ id \in Ids /\ id < manager.next
  BY LookupExists DEF PushAction, IInv
<1>3. /\ room \in [Ids -> Room] /\ \A k \in Ids : room[k].alive \subseteq room[k].players
      /\ room[id].queue \in Seq(Actions)
  BY <1>2 DEF IInv, Typed, TypeOK, Room
<1>4. /\ id \in 0..(manager.next - 1) \cup {NoLobby}
      /\ manager' = [manager EXCEPT !.lookup = [manager.lookup EXCEPT ![s] = id]]
  BY <1>2 DEF IInv, Typed, TypeOK
<1> HIDE DEF id, action
<1>5. Typed'
  BY <1>1, <1>2, <1>4, PushTyped
<1>6. LookupAgrees'
  <2>1. /\ \A k \in Ids : /\ Pushed(room, id, action)[k].players = room[k].players
                          /\ k # id => Pushed(room, id, action)[k] = room[k]
        /\ Pushed(room, id, action)[id].queue = Append(room[id].queue, action)
    BY <1>1, <1>2, <1>3, PushedRoom
  <2>2. \A t \in Sessions : PlaysAfter(room'[id].queue, room'[id].players, t) <=>
                              PlaysAfter(room[id].queue, room[id].players, t)
    BY <1>1, <1>2, <1>3, <2>1, PushOther
  <2>3. \A t \in Sessions, k \in Ids :
          PlaysAfter(room'[k].queue, room'[k].players, t) <=>
            PlaysAfter(room[k].queue, room[k].players, t)
    BY <1>2, <2>1, <2>2
  <2> QED BY <1>2, <2>3 DEF IInv, LookupAgrees
<1> QED BY <1>5, <1>6 DEF IInv

\* leaveRoom: the lookup forgets the session, and its lobby is asked to.
LEMMA DisconnectIInv ==
  ASSUME IInv, NEW s \in Sessions, Disconnect(s)
  PROVE  IInv'
<1> DEFINE id == manager.lookup[s]
           action == <<"leave", s>>
<1>1. UNCHANGED main /\
      manager' = [manager EXCEPT !.lookup = [manager.lookup EXCEPT ![s] = NoLobby]]
  BY DEF Disconnect, IInv, Typed
<1>2. CASE id = NoLobby
  <2>1. UNCHANGED <<room, manager>>
    BY <1>1, <1>2 DEF Disconnect, IInv, Typed
  <2> QED BY <1>1, <2>1 DEF IInv, Typed, TypeOK, LookupAgrees
<1>3. CASE id # NoLobby
  <2>1. /\ room' = Pushed(room, id, action) /\ action \in Actions
        /\ id \in Ids /\ id < manager.next
    BY <1>3, LookupExists DEF Disconnect, IInv, Actions
  <2>2. /\ room \in [Ids -> Room] /\ room[id].queue \in Seq(Actions)
    BY <2>1 DEF IInv, Typed, Room
  <2>3. /\ manager'.lookup[s] = NoLobby
        /\ \A t \in Sessions : t # s => manager'.lookup[t] = manager.lookup[t]
    BY <1>1 DEF IInv, Typed
  <2>4. \A k \in Ids : k # id => ~PlaysAfter(room[k].queue, room[k].players, s)
    BY DEF IInv, LookupAgrees
  <2> HIDE DEF id
  <2>5. Typed'
    BY <1>1, <2>1, PushTyped
  <2>6. /\ \A k \in Ids : /\ Pushed(room, id, action)[k].players = room[k].players
                          /\ k # id => Pushed(room, id, action)[k] = room[k]
        /\ Pushed(room, id, action)[id].queue = Append(room[id].queue, action)
    BY <2>1, <2>2, PushedRoom
  <2>7. ~PlaysAfter(room'[id].queue, room'[id].players, s)
    <3>1. room'[id].queue = Append(room[id].queue, action)
      BY <2>1, <2>6
    <3> QED BY <2>2, <3>1, PushOwn
  <2>8. ASSUME NEW t \in Sessions, t # s
        PROVE  PlaysAfter(room'[id].queue, room'[id].players, t) <=>
                 PlaysAfter(room[id].queue, room[id].players, t)
    <3>1. action # <<"join", t>> /\ action # <<"leave", t>>
      BY <2>8
    <3>2. /\ room'[id].queue = Append(room[id].queue, action)
          /\ room'[id].players = room[id].players
      BY <2>1, <2>6
    <3> HIDE DEF action
    <3> QED BY <2>1, <2>2, <3>1, <3>2, PushOther
  <2>9. LookupAgrees'
    <3>1. SUFFICES ASSUME NEW t \in Sessions, NEW k \in Ids
                   PROVE  manager'.lookup[t] = k <=>
                            PlaysAfter(room'[k].queue, room'[k].players, t)
      BY DEF LookupAgrees
    <3>2. CASE t = s
      <4>1. NoLobby # k
        BY LastIdAssumption DEF NoLobby, Ids
      <4> QED BY <2>1, <2>3, <2>4, <2>6, <2>7, <3>2, <4>1
    <3>3. CASE t # s
      <4>1. PlaysAfter(room'[k].queue, room'[k].players, t) <=>
              PlaysAfter(room[k].queue, room[k].players, t)
        BY <2>1, <2>6, <2>8, <3>3
      <4> QED BY <2>3, <3>3, <4>1 DEF IInv, LookupAgrees
    <3> QED BY <3>2, <3>3
  <2> QED BY <2>5, <2>9 DEF IInv
<1> QED BY <1>2, <1>3

------------------------------------------------------------------------------

\* Lobby 0 is there and nobody is in it.
LEMMA InitIInv == Init => IInv
<1> SUFFICES ASSUME Init PROVE IInv
  OBVIOUS
<1>1. LastId \in Nat \ {0} /\ 0 \in Ids
  BY LastIdAssumption DEF Ids
<1>2. NewRoom \in Room /\ Started \in Room
  BY EmptySeq DEF NewRoom, Started, Room, States
<1>3. /\ room \in [Ids -> Room] /\ \A id \in Ids : room[id] \in {NewRoom, Started}
      /\ \A id \in Ids : id >= 1 => room[id] = NewRoom
  BY <1>2 DEF Init, Ids
<1>4. /\ NewRoom.alive = {} /\ NewRoom.players = {} /\ NewRoom.state \in States
      /\ NewRoom.queue = << >>
      /\ Started.alive = {} /\ Started.players = {} /\ Started.state \in States
      /\ Started.queue = << >>
  BY DEF NewRoom, Started, States
<1>5. \A id \in Ids : /\ room[id].alive = {} /\ room[id].players = {}
                      /\ room[id].state \in States /\ room[id].queue = << >>
  BY <1>3, <1>4
<1>6. /\ manager = [lobbies |-> {0}, lookup |-> [s \in Sessions |-> NoLobby], next |-> 1]
      /\ main = [pc |-> "send", index |-> 0]
  BY DEF Init
<1>7. manager.next = 1 /\ manager.lobbies = {0} /\ \A s \in Sessions : manager.lookup[s] = NoLobby
  BY <1>6
<1>8. TypeOK
  <2>1. manager.lookup \in [Sessions -> 0..(manager.next - 1) \cup {NoLobby}]
    BY <1>6
  <2>2. main.index \in 0..LastId
    BY <1>1, <1>6
  <2>3. \A id \in Ids : \A i \in DOMAIN room[id].queue : room[id].queue[i] \in Actions
    BY <1>5
  <2> QED BY <1>1, <1>3, <1>5, <1>7, <2>1, <2>2, <2>3 DEF TypeOK
<1>9. Typed
  BY <1>1, <1>3, <1>6, <1>8 DEF Typed
<1>10. LookupAgrees
  <2>1. ASSUME NEW s \in Sessions, NEW id \in Ids
        PROVE  manager.lookup[s] # id /\ ~PlaysAfter(room[id].queue, room[id].players, s)
    BY <1>1, <1>3, <1>7, FreshRoom DEF NoLobby, Ids
  <2> QED BY <2>1 DEF LookupAgrees
<1> QED BY <1>9, <1>10 DEF IInv

\* Every step of the server keeps the inductive invariant.
LEMMA NextIInv ==
  ASSUME IInv, [Next]_vars
  PROVE  IInv'
<1>1. ASSUME UNCHANGED <<manager, room, main>> PROVE IInv'
  BY <1>1 DEF IInv, Typed, TypeOK, LookupAgrees
<1>2. CASE MainLoop
  BY <1>2, MainIInv
<1>3. ASSUME NEW s \in Sessions, NEW id \in Ids, JoinRoom(s, id) PROVE IInv'
  BY <1>3, JoinRoomIInv
<1>4. ASSUME NEW s \in Sessions, JoinNewRoom(s) PROVE IInv'
  <2>1. manager.next \in Int /\ LastId \in Int
    BY LastIdAssumption DEF IInv, Typed
  <2>2. manager.next < LastId \/ manager.next >= LastId
    BY <2>1
  <2> QED BY <1>4, <2>2, JoinCreatedIInv, JoinRefusedIInv
<1>5. ASSUME NEW s \in Sessions, NEW kind \in {"start", "input"}, PushAction(s, kind) PROVE IInv'
  BY <1>5, PushActionIInv
<1>6. ASSUME NEW s \in Sessions, Disconnect(s) PROVE IInv'
  BY <1>6, DisconnectIInv
<1>7. ASSUME NEW s \in Sessions, PushToFreed(s) PROVE IInv'
  BY <1>1, <1>7 DEF PushToFreed
<1>8. ASSUME NEW id \in Ids, LobbyThread(id) PROVE IInv'
  BY <1>8, ActIInv, ThreadIInv DEF LobbyThread
<1>9. ASSUME NEW id \in Ids, NEW dead \in SUBSET Sessions, Tick(id, dead) PROVE IInv'
  BY <1>9, ThreadIInv
<1>10. ASSUME NEW id \in Ids, UseAfterFree(id) PROVE IInv'
  BY <1>1, <1>10 DEF UseAfterFree
<1>11. CASE UNCHANGED vars
  BY <1>1, <1>11 DEF vars
<1> QED BY <1>2, <1>3, <1>4, <1>5, <1>6, <1>7, <1>8, <1>9, <1>10, <1>11 DEF Next

(***************************************************************************)
(* The inductive invariant holds of the server, whatever its sessions, the *)
(* highest lobby id and the number of packets.                             *)
(***************************************************************************)
THEOREM LobbiesInvariance == Spec => []IInv
<1>1. Init => IInv
  BY InitIInv
<1>2. IInv /\ [Next]_vars => IInv'
  BY NextIInv
<1> QED BY <1>1, <1>2, PTL DEF Spec

(***************************************************************************)
(* Type correctness: only players are alive, Manager::update counts down   *)
(* ids that exist or once did, and nbLobbies is one past the last of them. *)
(***************************************************************************)
THEOREM LobbiesTypeOK == Spec => []TypeOK
<1>1. IInv => TypeOK
  BY DEF IInv, Typed
<1> QED BY <1>1, LobbiesInvariance, PTL

(***************************************************************************)
(* _playerLookup agrees with the lobbies, up to what their queues hold:    *)
(* whatever the order in which the main thread pushes joins and leaves and *)
(* the lobby threads run them, a session plays in one lobby at most, the   *)
(* one it is looked up in (joinRoom, leaveRoom, join, leave).              *)
(***************************************************************************)
THEOREM LookupAlwaysAgrees == Spec => []LookupAgrees
<1>1. IInv => LookupAgrees
  BY DEF IInv
<1> QED BY <1>1, LobbiesInvariance, PTL

(***************************************************************************)
(* What the lobbies and their manager promise the players, one part each:  *)
(* an input finds its player, an empty lobby stops, a player knows the     *)
(* state of its lobby, and every lobby is listed.                          *)
(***************************************************************************)

------------------------------------------------------------------------------
(* The input of a session is run only while the session has a player.      *)
(* LookupAgrees speaks of the end of a queue, where the input is pushed;   *)
(* InputsAhead speaks of the place in the queue where it is now.           *)

\* Whether s is one of the players when the lobby comes to the n-th action of its queue.
PlaysBefore(queue, players, s, n) ==
  \/ \E i \in DOMAIN queue :
       /\ i < n /\ queue[i] = <<"join", s>>
       /\ \A j \in DOMAIN queue : i < j /\ j < n => queue[j] # <<"leave", s>>
  \/ /\ s \in players
     /\ \A i \in DOMAIN queue : i < n => queue[i] # <<"leave", s>>

\* Each input in the queue finds its player.
InputsAhead(queue, players) ==
  \A s \in Sessions : \A n \in DOMAIN queue :
    queue[n] = <<"input", s>> => PlaysBefore(queue, players, s, n)

\* InputsAhead of every lobby.
Ahead == \A id \in Ids : InputsAhead(room[id].queue, room[id].players)

(***************************************************************************)
(* The inductive invariant.  An input is pushed to the lobby its session   *)
(* is looked up in, so LookupAgrees gives InputsAhead at the push.         *)
(***************************************************************************)
InputInv ==
  /\ IInv
  /\ InputsFindTheirPlayer
  /\ Ahead

------------------------------------------------------------------------------
(* What a push and a pop do to InputsAhead.                                *)

\* Pushing an action, which for an input means that its session plays by then.
LEMMA PushAhead ==
  ASSUME NEW queue \in Seq(Actions), NEW players, NEW action \in Actions,
         InputsAhead(queue, players),
         \A s \in Sessions : action = <<"input", s>> => PlaysAfter(queue, players, s)
  PROVE  InputsAhead(Append(queue, action), players)
<1> DEFINE longer == Append(queue, action)
<1>1. /\ Len(queue) \in Nat
      /\ DOMAIN queue = 1..Len(queue)
      /\ DOMAIN longer = 1..(Len(queue) + 1)
      /\ longer[Len(queue) + 1] = action
      /\ \A i \in 1..Len(queue) : longer[i] = queue[i]
  BY AppendProperties, LenProperties
<1> HIDE DEF longer
<1>2. SUFFICES ASSUME NEW s \in Sessions, NEW n \in DOMAIN longer, longer[n] = <<"input", s>>
               PROVE  PlaysBefore(longer, players, s, n)
  BY DEF InputsAhead, longer
<1>3. \A i \in DOMAIN queue : i \in DOMAIN longer /\ longer[i] = queue[i]
  BY <1>1
<1>4. \A i \in DOMAIN longer : i < n => i \in DOMAIN queue /\ longer[i] = queue[i]
  BY <1>1
<1>5. CASE n \in DOMAIN queue
  <2>1. PlaysBefore(queue, players, s, n)
    BY <1>2, <1>3, <1>5 DEF InputsAhead
  <2> QED BY <1>3, <1>4, <2>1 DEF PlaysBefore
<1>6. CASE n \notin DOMAIN queue
  <2>1. n = Len(queue) + 1
    BY <1>1, <1>6
  <2>2. PlaysAfter(queue, players, s)
    BY <1>1, <1>2, <2>1
  <2>3. \A i \in DOMAIN queue : i < n
    BY <1>1, <2>1
  <2> QED BY <1>3, <1>4, <2>2, <2>3 DEF PlaysAfter, PlaysBefore
<1> QED BY <1>5, <1>6

\* Running the head of the queue, with its effect on the players.
LEMMA PopAhead ==
  ASSUME NEW queue \in Seq(Actions), queue # << >>, NEW players, NEW after,
         InputsAhead(queue, players),
         \A s \in Sessions :
           /\ Head(queue) = <<"join", s>> => s \in after
           /\ Head(queue) = <<"leave", s>> => s \notin after
           /\ Head(queue) \notin {<<"join", s>>, <<"leave", s>>} => (s \in after <=> s \in players)
  PROVE  InputsAhead(Tail(queue), after)
<1> DEFINE rest == Tail(queue)
<1>1. /\ Len(queue) \in Nat \ {0}
      /\ DOMAIN queue = 1..Len(queue)
      /\ DOMAIN rest = 1..(Len(queue) - 1)
      /\ \A i \in 1..(Len(queue) - 1) : rest[i] = queue[i + 1]
      /\ Head(queue) = queue[1]
  BY HeadTailProperties, EmptySeq, LenProperties
<1> HIDE DEF rest
<1>2. SUFFICES ASSUME NEW s \in Sessions, NEW n \in DOMAIN rest, rest[n] = <<"input", s>>
               PROVE  PlaysBefore(rest, after, s, n)
  BY DEF InputsAhead, rest
<1>3. PlaysBefore(queue, players, s, n + 1)
  <2>1. n + 1 \in DOMAIN queue /\ queue[n + 1] = <<"input", s>>
    BY <1>1, <1>2
  <2> QED BY <2>1 DEF InputsAhead
<1>4. \A i \in DOMAIN rest : /\ i + 1 \in DOMAIN queue /\ rest[i] = queue[i + 1]
                             /\ i + 1 > 1 /\ (i < n <=> i + 1 < n + 1)
  BY <1>1
<1>5. \A i \in DOMAIN queue : i # 1 => /\ i - 1 \in DOMAIN rest /\ rest[i - 1] = queue[i]
                                       /\ (i < n + 1 <=> i - 1 < n)
  BY <1>1
<1>6. 1 \in DOMAIN queue /\ 1 < n + 1
  BY <1>1
<1>7. CASE \E i \in DOMAIN queue :
             /\ i < n + 1 /\ queue[i] = <<"join", s>>
             /\ \A j \in DOMAIN queue : i < j /\ j < n + 1 => queue[j] # <<"leave", s>>
  <2>1. PICK i \in DOMAIN queue :
          /\ i < n + 1 /\ queue[i] = <<"join", s>>
          /\ \A j \in DOMAIN queue : i < j /\ j < n + 1 => queue[j] # <<"leave", s>>
    BY <1>7
  <2>2. ASSUME NEW j \in DOMAIN rest, i - 1 < j, j < n PROVE rest[j] # <<"leave", s>>
    <3>1. i < j + 1 /\ j + 1 < n + 1
      BY <1>1, <2>2
    <3> QED BY <1>4, <2>1, <3>1
  <2>3. CASE i = 1
    <3>1. s \in after
      BY <1>1, <2>1, <2>3
    <3>2. \A j \in DOMAIN rest : j < n => rest[j] # <<"leave", s>>
      BY <1>1, <2>2, <2>3
    <3> QED BY <3>1, <3>2 DEF PlaysBefore
  <2>4. CASE i # 1
    BY <1>5, <2>1, <2>2, <2>4 DEF PlaysBefore
  <2> QED BY <2>3, <2>4
<1>8. CASE s \in players /\ \A i \in DOMAIN queue : i < n + 1 => queue[i] # <<"leave", s>>
  <2>1. s \in after
    BY <1>1, <1>6, <1>8
  <2>2. \A i \in DOMAIN rest : i < n => rest[i] # <<"leave", s>>
    BY <1>4, <1>8
  <2> QED BY <2>1, <2>2 DEF PlaysBefore
<1> QED BY <1>3, <1>7, <1>8 DEF PlaysBefore

\* An input at the head of the queue finds its player.
LEMMA HeadAhead ==
  ASSUME NEW queue \in Seq(Actions), queue # << >>, NEW players, InputsAhead(queue, players)
  PROVE  \A s \in Sessions : Head(queue) = <<"input", s>> => s \in players
<1>1. 1 \in DOMAIN queue /\ Head(queue) = queue[1] /\ \A i \in DOMAIN queue : ~(i < 1)
  BY HeadTailProperties, EmptySeq, LenProperties
<1> QED BY <1>1 DEF InputsAhead, PlaysBefore

------------------------------------------------------------------------------
(* The steps.                                                              *)

\* A push to one lobby.
LEMMA PushedAhead ==
  ASSUME NEW rooms \in [Ids -> Room], NEW id \in Ids, NEW action \in Actions,
         \A k \in Ids : InputsAhead(rooms[k].queue, rooms[k].players),
         \A s \in Sessions : action = <<"input", s>> =>
                               PlaysAfter(rooms[id].queue, rooms[id].players, s),
         room' = Pushed(rooms, id, action)
  PROVE  Ahead'
<1>1. /\ \A k \in Ids : /\ Pushed(rooms, id, action)[k].players = rooms[k].players
                        /\ k # id => Pushed(rooms, id, action)[k] = rooms[k]
      /\ Pushed(rooms, id, action)[id].queue = Append(rooms[id].queue, action)
  BY PushedRoom
<1>2. /\ room'[id].queue = Append(rooms[id].queue, action)
      /\ room'[id].players = rooms[id].players
      /\ \A k \in Ids : k # id => room'[k] = rooms[k]
  BY <1>1
<1>3. InputsAhead(Append(rooms[id].queue, action), rooms[id].players)
  <2> DEFINE queue == rooms[id].queue
             players == rooms[id].players
  <2>1. queue \in Seq(Actions) /\ InputsAhead(queue, players)
        /\ \A s \in Sessions : action = <<"input", s>> => PlaysAfter(queue, players, s)
    BY DEF Room
  <2> HIDE DEF queue, players
  <2>2. InputsAhead(Append(queue, action), players)
    BY <2>1, PushAhead
  <2> QED BY <2>2 DEF queue, players
<1>4. ASSUME NEW k \in Ids PROVE InputsAhead(room'[k].queue, room'[k].players)
  <2>1. CASE k = id
    BY <1>2, <1>3, <2>1
  <2>2. CASE k # id
    BY <1>2, <2>2
  <2> QED BY <2>1, <2>2
<1> QED BY <1>4 DEF Ahead

\* joinRoom of a new lobby.
LEMMA JoinNewAhead ==
  ASSUME IInv, Ahead, NEW s \in Sessions, JoinNewRoom(s)
  PROVE  Ahead'
<1> DEFINE rooms == IF manager.next <= LastId THEN [room EXCEPT ![manager.next] = Started] ELSE room
<1>1. manager.next \in 1..(LastId + 1) /\ LastId \in Nat \ {0} /\ room \in [Ids -> Room]
  BY LastIdAssumption DEF IInv, Typed, TypeOK
<1>2. /\ rooms \in [Ids -> Room]
      /\ \A k \in Ids : rooms[k] = room[k] \/ rooms[k] = Started
  <2>1. CASE manager.next <= LastId
    <3>1. manager.next \in Ids
      BY <1>1, <2>1 DEF Ids
    <3> QED BY <2>1, <3>1, CreatedRooms
  <2>2. CASE ~(manager.next <= LastId)
    BY <1>1, <2>2
  <2> QED BY <2>1, <2>2
<1>3. \A k \in Ids : InputsAhead(rooms[k].queue, rooms[k].players)
  <2>1. Started.queue = << >>
    BY DEF Started, NewRoom
  <2>2. InputsAhead(Started.queue, Started.players)
    BY <2>1 DEF InputsAhead
  <2> HIDE DEF rooms
  <2> QED BY <1>2, <2>2 DEF Ahead
<1>4. room' = rooms \/ (manager.next < LastId /\ room' = Pushed(rooms, manager.next, <<"join", s>>))
  BY <1>1 DEF JoinNewRoom
<1> HIDE DEF rooms
<1>5. CASE room' = rooms
  BY <1>3, <1>5 DEF Ahead
<1>6. CASE manager.next < LastId /\ room' = Pushed(rooms, manager.next, <<"join", s>>)
  <2>1. manager.next \in Ids /\ <<"join", s>> \in Actions
    BY <1>1, <1>6 DEF Ids, Actions
  <2>2. \A t \in Sessions : <<"join", s>> # <<"input", t>>
    OBVIOUS
  <2> QED BY <1>2, <1>3, <1>6, <2>1, <2>2, PushedAhead
<1> QED BY <1>4, <1>5, <1>6

\* The actions that push to a lobby that exists.
LEMMA ClientAhead ==
  ASSUME IInv, Ahead, NEW s \in Sessions,
         \/ \E id \in Ids : JoinRoom(s, id)
         \/ \E kind \in {"start", "input"} : PushAction(s, kind)
         \/ Disconnect(s)
  PROVE  Ahead'
<1>1. room \in [Ids -> Room] /\ \A k \in Ids : InputsAhead(room[k].queue, room[k].players)
  BY DEF IInv, Typed, Ahead
<1>2. ASSUME NEW id \in Ids, JoinRoom(s, id) PROVE Ahead'
  <2>1. room' = Pushed(room, id, <<"join", s>>) /\ <<"join", s>> \in Actions
    BY <1>2 DEF JoinRoom, Actions
  <2>2. \A t \in Sessions : <<"join", s>> # <<"input", t>>
    OBVIOUS
  <2> QED BY <1>1, <2>1, <2>2, PushedAhead
<1>3. ASSUME NEW kind \in {"start", "input"}, PushAction(s, kind) PROVE Ahead'
  <2> DEFINE id == manager.lookup[s]
  <2>1. room' = Pushed(room, id, <<kind, s>>) /\ <<kind, s>> \in Actions /\ id \in Ids
    BY <1>3, LookupExists DEF PushAction, Actions, IInv
  <2>2. PlaysAfter(room[id].queue, room[id].players, s)
    BY <2>1 DEF IInv, LookupAgrees
  <2>3. \A t \in Sessions : <<kind, s>> = <<"input", t>> => t = s
    OBVIOUS
  <2> HIDE DEF id
  <2> QED BY <1>1, <2>1, <2>2, <2>3, PushedAhead
<1>4. CASE Disconnect(s)
  <2> DEFINE id == manager.lookup[s]
  <2>1. CASE id = NoLobby
    BY <1>4, <2>1 DEF Disconnect, Ahead
  <2>2. CASE id # NoLobby
    <3>1. room' = Pushed(room, id, <<"leave", s>>) /\ <<"leave", s>> \in Actions /\ id \in Ids
      BY <1>4, <2>2, LookupExists DEF Disconnect, Actions, IInv
    <3>2. \A t \in Sessions : <<"leave", s>> # <<"input", t>>
      OBVIOUS
    <3> HIDE DEF id
    <3> QED BY <1>1, <3>1, <3>2, PushedAhead
  <2> QED BY <2>1, <2>2
<1> QED BY <1>2, <1>3, <1>4

\* A queued action is run: it does not throw, and what is left of the queue stays ahead.
LEMMA ActAhead ==
  ASSUME IInv, Ahead, NEW id \in Ids, Act(id)
  PROVE  Ahead' /\ UNCHANGED fate
<1> DEFINE queue == room[id].queue
           players == room[id].players
<1>1. /\ queue \in Seq(Actions) /\ queue # << >> /\ InputsAhead(queue, players)
      /\ room \in [Ids -> Room]
  BY DEF IInv, Typed, Room, Act, Ahead
<1>2. ~Throws(room[id], Head(queue))
  <2>1. \A s \in Sessions : Head(queue) = <<"input", s>> => s \in players
    <3> HIDE DEF queue, players
    <3> QED BY <1>1, HeadAhead
  <2>2. Head(queue) \in Actions
    BY <1>1, HeadTailProperties, EmptySeq
  <2>3. PICK kind \in {"join", "leave", "start", "input"}, s \in Sessions :
          Head(queue) = <<kind, s>>
    BY <2>2 DEF Actions
  <2>4. Head(queue)[1] = kind /\ Head(queue)[2] = s
    BY <2>3
  <2>5. kind = "input" => s \in players
    BY <2>1, <2>3
  <2> QED BY <2>4, <2>5 DEF Throws
<1>3. PICK after \in Room :
        /\ room' = [room EXCEPT ![id] = after]
        /\ after.queue = Tail(queue)
        /\ \A t \in Sessions :
             /\ Head(queue) = <<"join", t>> => t \in after.players
             /\ Head(queue) = <<"leave", t>> => t \notin after.players
             /\ Head(queue) \notin {<<"join", t>>, <<"leave", t>>} =>
                  (t \in after.players <=> t \in players)
  BY <1>2, ActRoom
<1>4. InputsAhead(Tail(queue), after.players)
  <2> DEFINE left == after.players
  <2>1. \A t \in Sessions :
          /\ Head(queue) = <<"join", t>> => t \in left
          /\ Head(queue) = <<"leave", t>> => t \notin left
          /\ Head(queue) \notin {<<"join", t>>, <<"leave", t>>} => (t \in left <=> t \in players)
    BY <1>3
  <2> HIDE DEF queue, players, left
  <2>2. InputsAhead(Tail(queue), left)
    BY <1>1, <2>1, PopAhead
  <2> QED BY <2>2 DEF left
<1>5. \A k \in Ids : InputsAhead(room'[k].queue, room'[k].players)
  <2>1. room'[id] = after /\ \A k \in Ids : k # id => room'[k] = room[k]
    BY <1>1, <1>3
  <2>2. InputsAhead(room'[id].queue, room'[id].players)
    BY <1>3, <1>4, <2>1
  <2> QED BY <2>1, <2>2 DEF Ahead
<1>6. UNCHANGED fate
  BY <1>2, ActRoom
<1> QED BY <1>5, <1>6 DEF Ahead

\* The other steps leave the queues and the players alone, and never end for want of a player.
LEMMA OtherAhead ==
  ASSUME IInv, Ahead, fate # "no player",
         \/ MainLoop
         \/ \E s \in Sessions : PushToFreed(s)
         \/ \E id \in Ids : \/ ActionsDone(id) \/ TicksDone(id) \/ UseAfterFree(id)
                            \/ \E dead \in SUBSET Sessions : Tick(id, dead)
         \/ UNCHANGED vars
  PROVE  Ahead' /\ fate' # "no player"
<1>1. room \in [Ids -> Room] /\ \A k \in Ids : InputsAhead(room[k].queue, room[k].players)
  BY DEF IInv, Typed, Ahead
<1>2. ASSUME NEW id \in Ids, NEW r, r.queue = room[id].queue, r.players = room[id].players,
             room' = [room EXCEPT ![id] = r]
      PROVE  Ahead'
  <2>1. room'[id] = r /\ \A k \in Ids : k # id => room'[k] = room[k]
    BY <1>1, <1>2
  <2>2. InputsAhead(room'[id].queue, room'[id].players)
    BY <1>1, <1>2, <2>1
  <2> QED BY <1>1, <2>1, <2>2 DEF Ahead
<1>3. CASE MainLoop
  <2>1. UNCHANGED room /\ fate' # "no player"
    BY <1>3 DEF MainLoop, Send, SendDone, Reap, ReapDone, EventsDone
  <2> QED BY <2>1 DEF Ahead
<1>4. CASE (\E s \in Sessions : PushToFreed(s)) \/ (\E id \in Ids : UseAfterFree(id))
           \/ UNCHANGED vars
  <2>1. UNCHANGED room /\ fate' # "no player"
    BY <1>4 DEF PushToFreed, UseAfterFree, vars
  <2> QED BY <2>1 DEF Ahead
<1>5. ASSUME NEW id \in Ids, ActionsDone(id) \/ TicksDone(id)
      PROVE  Ahead' /\ fate' # "no player"
  <2>1. room[id] \in Room
    BY <1>1
  <2>2. PICK thread : room' = [room EXCEPT ![id] = [room[id] EXCEPT !.thread = thread]]
    BY <1>5 DEF ActionsDone, TicksDone, Step
  <2>3. UNCHANGED fate
    BY <1>5 DEF ActionsDone, TicksDone, Step
  <2> DEFINE r == [room[id] EXCEPT !.thread = thread]
  <2>4. r.queue = room[id].queue /\ r.players = room[id].players
    BY <2>1 DEF Room
  <2> HIDE DEF r
  <2>5. room' = [room EXCEPT ![id] = r]
    BY <2>2 DEF r
  <2> QED BY <1>2, <2>3, <2>4, <2>5
<1>6. ASSUME NEW id \in Ids, NEW dead \in SUBSET Sessions, Tick(id, dead)
      PROVE  Ahead' /\ fate' # "no player"
  <2> DEFINE over == Restarted(room[id], Over)
             hit == [room[id] EXCEPT !.alive = @ \ dead]
  <2>1. /\ room' = [room EXCEPT ![id] = over] \/ room' = [room EXCEPT ![id] = hit]
        /\ UNCHANGED fate
    BY <1>6 DEF Tick, Step
  <2>2. /\ over.queue = room[id].queue /\ over.players = room[id].players
        /\ hit.queue = room[id].queue /\ hit.players = room[id].players
    BY <1>1 DEF Room, Restarted
  <2> HIDE DEF over, hit
  <2> QED BY <1>2, <2>1, <2>2
<1> QED BY <1>3, <1>4, <1>5, <1>6

\* Every step keeps the inductive invariant.
LEMMA NextInputInv ==
  ASSUME InputInv, [Next]_vars
  PROVE  InputInv'
<1>1. IInv /\ Ahead /\ fate # "no player"
  BY DEF InputInv, InputsFindTheirPlayer
<1>2. Ahead' /\ fate' # "no player"
  <2>1. ASSUME NEW s \in Sessions, JoinNewRoom(s) PROVE Ahead' /\ fate' # "no player"
    BY <1>1, <2>1, JoinNewAhead DEF JoinNewRoom
  <2>2. ASSUME NEW s \in Sessions,
               \/ \E id \in Ids : JoinRoom(s, id)
               \/ \E kind \in {"start", "input"} : PushAction(s, kind)
               \/ Disconnect(s)
        PROVE  Ahead' /\ fate' # "no player"
    <3>1. UNCHANGED fate
      BY <2>2 DEF JoinRoom, PushAction, Disconnect
    <3> QED BY <1>1, <2>2, <3>1, ClientAhead
  <2>3. ASSUME NEW id \in Ids, Act(id) PROVE Ahead' /\ fate' # "no player"
    BY <1>1, <2>3, ActAhead
  <2> QED BY <1>1, <2>1, <2>2, <2>3, OtherAhead DEF Next, LobbyThread
<1>3. IInv'
  BY <1>1, NextIInv
<1> QED BY <1>2, <1>3 DEF InputInv, InputsFindTheirPlayer

(***************************************************************************)
(* handleUserInput never asks for the value of an absent player id: by the *)
(* time a lobby comes to an input, the JOIN of its session has been run,   *)
(* and no leave since, in every interleaving of the main thread with the   *)
(* threads of the lobbies.                                                 *)
(***************************************************************************)
THEOREM InputsAlwaysFindTheirPlayer == Spec => []InputsFindTheirPlayer
<1>1. Init => InputInv
  <2> SUFFICES ASSUME Init PROVE InputInv
    OBVIOUS
  <2>1. \A id \in Ids : room[id].queue = << >>
    BY DEF Init, NewRoom, Started
  <2>2. Ahead
    BY <2>1 DEF Ahead, InputsAhead
  <2>3. InputsFindTheirPlayer
    BY DEF Init, InputsFindTheirPlayer
  <2> QED BY <2>2, <2>3, InitIInv DEF InputInv
<1>2. InputInv /\ [Next]_vars => InputInv'
  BY NextInputInv
<1>3. InputInv => InputsFindTheirPlayer
  BY DEF InputInv
<1> QED BY <1>1, <1>2, <1>3, PTL DEF Spec

------------------------------------------------------------------------------
(* No lobby goes on running for nobody.                                    *)

\* A player is about to join.
Awaited(queue) == \E s \in Sessions : \E i \in DOMAIN queue : queue[i] = <<"join", s>>

\* EmptyLobbiesStop of one lobby.
StopsEmpty(r) == r.running /\ r.players = {} => Awaited(r.queue)

(***************************************************************************)
(* The inductive invariant: of IInv it needs the types, and that the next  *)
(* id is not yet in use.                                                   *)
(***************************************************************************)
EmptyInv == IInv /\ EmptyLobbiesStop

\* EmptyLobbiesStop, one lobby at a time.
LEMMA EveryRoom == EmptyLobbiesStop <=> \A id \in 1..(LastId - 1) : StopsEmpty(room[id])
BY DEF EmptyLobbiesStop, StopsEmpty, Awaited

\* The same of the next state.
LEMMA EveryRoomNext ==
  EmptyLobbiesStop' <=> \A id \in 1..(LastId - 1) : StopsEmpty(room'[id])
BY DEF EmptyLobbiesStop, StopsEmpty, Awaited

------------------------------------------------------------------------------
(* The queue.                                                              *)

\* A push leaves the join that is awaited in the queue.
LEMMA PushAwaited ==
  ASSUME NEW queue \in Seq(Actions), NEW action \in Actions
  PROVE  /\ Awaited(queue) => Awaited(Append(queue, action))
         /\ \A s \in Sessions : action = <<"join", s>> => Awaited(Append(queue, action))
<1> DEFINE longer == Append(queue, action)
<1>1. /\ DOMAIN queue = 1..Len(queue) /\ Len(queue) \in Nat
      /\ DOMAIN longer = 1..(Len(queue) + 1)
      /\ longer[Len(queue) + 1] = action
      /\ \A i \in 1..Len(queue) : longer[i] = queue[i]
  BY AppendProperties, LenProperties
<1> HIDE DEF longer
<1>2. Awaited(queue) => Awaited(longer)
  BY <1>1 DEF Awaited
<1>3. ASSUME NEW s \in Sessions, action = <<"join", s>> PROVE Awaited(longer)
  <2>1. Len(queue) + 1 \in DOMAIN longer /\ longer[Len(queue) + 1] = <<"join", s>>
    BY <1>1, <1>3
  <2> QED BY <2>1 DEF Awaited
<1> QED BY <1>2, <1>3 DEF longer

\* Running an action that is not a join leaves it there too.
LEMMA PopAwaited ==
  ASSUME NEW queue \in Seq(Actions), queue # << >>, Awaited(queue),
         \A s \in Sessions : Head(queue) # <<"join", s>>
  PROVE  Awaited(Tail(queue))
<1> DEFINE rest == Tail(queue)
<1>1. /\ Len(queue) \in Nat \ {0}
      /\ DOMAIN queue = 1..Len(queue)
      /\ DOMAIN rest = 1..(Len(queue) - 1)
      /\ \A i \in 1..(Len(queue) - 1) : rest[i] = queue[i + 1]
      /\ Head(queue) = queue[1]
  BY HeadTailProperties, EmptySeq, LenProperties
<1> HIDE DEF rest
<1>2. PICK s \in Sessions, i \in DOMAIN queue : queue[i] = <<"join", s>>
  BY DEF Awaited
<1>3. i # 1
  BY <1>1, <1>2
<1>4. i - 1 \in DOMAIN rest /\ rest[i - 1] = <<"join", s>>
  BY <1>1, <1>2, <1>3
<1> QED BY <1>4 DEF Awaited, rest

------------------------------------------------------------------------------
(* The steps of a lobby's thread.                                          *)

\* An action leaves an empty lobby running only if it was so before, and is not a join.
LEMMA LeftEmpty ==
  ASSUME NEW id \in Ids \ {0}, NEW r \in Room,
         NEW kind \in {"join", "leave", "start", "input"}, NEW s \in Sessions,
         AfterAction(id, r, kind, s).running, AfterAction(id, r, kind, s).players = {}
  PROVE  kind # "join" /\ r.running /\ r.players = {}
<1> DEFINE after == AfterAction(id, r, kind, s)
<1>1. CASE kind = "join"
  <2>1. after = Joined(id, r, s)[1]
    BY <1>1 DEF AfterAction, Perform
  <2>2. s \in after.players
    <3>1. CASE s \in r.players
      BY <2>1, <3>1 DEF Joined
    <3>2. CASE s \notin r.players
      <4>1. PICK state : after = [r EXCEPT !.players = @ \cup {s}, !.state = state]
        BY <2>1, <3>2 DEF Joined
      <4> QED BY <4>1 DEF Room
    <3> QED BY <3>1, <3>2
  <2> QED BY <2>2
<1>2. CASE kind = "leave"
  <2>1. after = Left(id, r, s)
    BY <1>2 DEF AfterAction, Perform
  <2> DEFINE gone == [r EXCEPT !.players = r.players \ {s}, !.alive = @ \ {s}]
  <2>2. gone \in Room /\ gone.players = r.players \ {s} /\ gone.running = r.running
    BY DEF Room
  <2>3. CASE s \notin r.players \/ r.players \ {s} # {}
    <3>1. after = gone
      BY <2>1, <2>3 DEF Left
    <3> HIDE DEF gone
    <3>2. r.players \ {s} = {} /\ r.running
      BY <2>2, <3>1
    <3> QED BY <1>2, <2>3, <3>2
  <2>4. CASE ~(s \notin r.players \/ r.players \ {s} # {})
    <3>1. after = [gone EXCEPT !.state = Waiting, !.running = @ /\ id = 0]
      BY <2>1, <2>4 DEF Left
    <3> HIDE DEF gone
    <3>2. after.running = (gone.running /\ id = 0)
      BY <2>2, <3>1 DEF Room
    <3> QED BY <3>2
  <2> QED BY <2>3, <2>4
<1>3. CASE kind = "start"
  <2>1. after = [r EXCEPT !.state = Running, !.alive = r.players]
    BY <1>3 DEF AfterAction, Perform, Restarted
  <2>2. after.running = r.running /\ after.players = r.players
    BY <2>1 DEF Room
  <2> QED BY <1>3, <2>2
<1>4. CASE kind = "input"
  <2>1. after = r
    BY <1>4 DEF AfterAction, Perform
  <2> QED BY <1>4, <2>1
<1> QED BY <1>1, <1>2, <1>3, <1>4

\* A queued action is run.
LEMMA ActEmpty ==
  ASSUME EmptyInv, NEW id \in Ids, Act(id)
  PROVE  EmptyLobbiesStop'
<1> DEFINE r == room[id]
           popped == [r EXCEPT !.queue = Tail(@)]
           action == Head(r.queue)
<1>1. /\ r \in Room /\ r.queue \in Seq(Actions) /\ r.queue # << >> /\ room \in [Ids -> Room]
      /\ action \in Actions /\ Tail(r.queue) \in Seq(Actions)
  <2>1. r \in Room /\ r.queue \in Seq(Actions) /\ r.queue # << >> /\ room \in [Ids -> Room]
    BY DEF EmptyInv, IInv, Typed, Room, Act
  <2> QED BY <2>1, HeadTailProperties, EmptySeq
<1>2. CASE Throws(r, action)
  <2>1. UNCHANGED room
    BY <1>2 DEF Act
  <2> QED BY <2>1, EveryRoom, EveryRoomNext DEF EmptyInv
<1>3. CASE ~Throws(r, action)
  <2>1. PICK kind \in {"join", "leave", "start", "input"}, s \in Sessions : action = <<kind, s>>
    BY <1>1 DEF Actions
  <2> DEFINE after == AfterAction(id, popped, kind, s)
  <2>2. room' = [room EXCEPT ![id] = after]
    BY <1>3, <2>1 DEF Act, Step, AfterAction
  <2>3. /\ popped \in Room /\ popped.players = r.players /\ popped.running = r.running
        /\ popped.queue = Tail(r.queue)
    BY <1>1 DEF Room
  <2>4. after.queue = Tail(r.queue)
    <3>1. popped.alive \subseteq popped.players
      BY <1>1 DEF EmptyInv, IInv, Typed, TypeOK, Room
    <3> HIDE DEF popped
    <3> QED BY ONLY <2>3, <3>1, Performed, id \in Ids
  <2>5. ASSUME id \in 1..(LastId - 1), after.running, after.players = {}
        PROVE  Awaited(after.queue)
    <3>1. id \in Ids \ {0}
      BY <2>5
    <3>2. kind # "join" /\ popped.running /\ popped.players = {}
      <4> HIDE DEF popped
      <4> QED BY <2>3, <2>5, <3>1, LeftEmpty
    <3>3. Awaited(r.queue)
      BY <2>3, <2>5, <3>2, EveryRoom DEF EmptyInv, StopsEmpty
    <3>4. \A t \in Sessions : action # <<"join", t>>
      BY <2>1, <3>2
    <3>5. Awaited(Tail(r.queue))
      <4> DEFINE queue == r.queue
      <4>1. queue \in Seq(Actions) /\ queue # << >> /\ Awaited(queue)
            /\ \A t \in Sessions : Head(queue) # <<"join", t>>
        BY <1>1, <3>3, <3>4
      <4> HIDE DEF queue
      <4>2. Awaited(Tail(queue))
        BY <4>1, PopAwaited
      <4> QED BY <4>2 DEF queue
    <3> QED BY <2>4, <3>5
  <2> HIDE DEF after
  <2>6. room'[id] = after /\ \A k \in Ids : k # id => room'[k] = room[k]
    BY <1>1, <2>2
  <2>7. ASSUME NEW k \in 1..(LastId - 1) PROVE StopsEmpty(room'[k])
    <3>1. k \in Ids
      BY LastIdAssumption DEF Ids
    <3>2. CASE k = id
      BY <2>5, <2>6, <3>2 DEF StopsEmpty
    <3>3. CASE k # id
      BY <2>6, <3>1, <3>3, EveryRoom DEF EmptyInv
    <3> QED BY <3>2, <3>3
  <2> QED BY <2>7, EveryRoomNext
<1> QED BY <1>2, <1>3

\* The rest of the thread, which leaves the queue, the players and running alone.
LEMMA ThreadEmpty ==
  ASSUME EmptyInv, NEW id \in Ids,
         \/ ActionsDone(id) \/ TicksDone(id)
         \/ \E dead \in SUBSET Sessions : Tick(id, dead)
  PROVE  EmptyLobbiesStop'
<1>1. room \in [Ids -> Room] /\ room[id] \in Room
  BY DEF EmptyInv, IInv, Typed
<1>2. ASSUME NEW r, room' = [room EXCEPT ![id] = r], r.queue = room[id].queue,
             r.players = room[id].players, r.running = room[id].running
      PROVE  EmptyLobbiesStop'
  <2>1. room'[id] = r /\ \A k \in Ids : k # id => room'[k] = room[k]
    BY <1>1, <1>2
  <2>2. ASSUME NEW k \in 1..(LastId - 1) PROVE StopsEmpty(room'[k])
    <3>1. k \in Ids /\ StopsEmpty(room[k])
      BY LastIdAssumption, EveryRoom DEF Ids, EmptyInv
    <3> QED BY <1>2, <2>1, <3>1 DEF StopsEmpty
  <2> QED BY <2>2, EveryRoomNext
<1>3. CASE ActionsDone(id) \/ TicksDone(id)
  <2>1. PICK thread : room' = [room EXCEPT ![id] = [room[id] EXCEPT !.thread = thread]]
    BY <1>3 DEF ActionsDone, TicksDone, Step
  <2> DEFINE r == [room[id] EXCEPT !.thread = thread]
  <2>2. r.queue = room[id].queue /\ r.players = room[id].players /\ r.running = room[id].running
    BY <1>1 DEF Room
  <2> HIDE DEF r
  <2>3. room' = [room EXCEPT ![id] = r]
    BY <2>1 DEF r
  <2> QED BY <1>2, <2>2, <2>3
<1>4. ASSUME NEW dead \in SUBSET Sessions, Tick(id, dead) PROVE EmptyLobbiesStop'
  <2> DEFINE over == Restarted(room[id], Over)
             hit == [room[id] EXCEPT !.alive = @ \ dead]
  <2>1. room' = [room EXCEPT ![id] = over] \/ room' = [room EXCEPT ![id] = hit]
    BY <1>4 DEF Tick, Step
  <2>2. /\ over.queue = room[id].queue /\ over.players = room[id].players
        /\ over.running = room[id].running
        /\ hit.queue = room[id].queue /\ hit.players = room[id].players
        /\ hit.running = room[id].running
    BY <1>1 DEF Room, Restarted
  <2> HIDE DEF over, hit
  <2> QED BY <1>2, <2>1, <2>2
<1> QED BY <1>3, <1>4

------------------------------------------------------------------------------
(* The steps of the main thread.                                           *)

\* A push to one lobby, which stays as it is but for its queue.
LEMMA PushedEmpty ==
  ASSUME NEW rooms \in [Ids -> Room], NEW id \in Ids, NEW action \in Actions,
         \A k \in 1..(LastId - 1) :
           StopsEmpty(rooms[k]) \/ (k = id /\ \E s \in Sessions : action = <<"join", s>>),
         room' = Pushed(rooms, id, action)
  PROVE  EmptyLobbiesStop'
<1> DEFINE r == [rooms[id] EXCEPT !.queue = Append(@, action)]
<1>1. /\ r.queue = Append(rooms[id].queue, action) /\ r.players = rooms[id].players
      /\ r.running = rooms[id].running /\ rooms[id].queue \in Seq(Actions)
  BY DEF Room
<1>2. room' = [rooms EXCEPT ![id] = r]
  BY DEF Pushed
<1> HIDE DEF r
<1>3. room'[id] = r /\ \A k \in Ids : k # id => room'[k] = rooms[k]
  BY <1>2
<1>4. /\ Awaited(rooms[id].queue) => Awaited(r.queue)
      /\ \A s \in Sessions : action = <<"join", s>> => Awaited(r.queue)
  BY <1>1, PushAwaited
<1>5. ASSUME NEW k \in 1..(LastId - 1) PROVE StopsEmpty(room'[k])
  <2>1. k \in Ids
    BY LastIdAssumption DEF Ids
  <2>2. CASE k = id
    BY <1>1, <1>3, <1>4, <2>2 DEF StopsEmpty
  <2>3. CASE k # id
    BY <1>3, <2>1, <2>3
  <2> QED BY <2>2, <2>3
<1> QED BY <1>5, EveryRoomNext

\* joinRoom of a new lobby: it runs from the start, and its first action is the join.
LEMMA JoinNewEmpty ==
  ASSUME EmptyInv, NEW s \in Sessions, JoinNewRoom(s)
  PROVE  EmptyLobbiesStop'
<1> DEFINE id == manager.next
           rooms == IF id <= LastId THEN [room EXCEPT ![id] = Started] ELSE room
<1>1. id \in 1..(LastId + 1) /\ LastId \in Nat \ {0} /\ room \in [Ids -> Room] /\ IInv
  BY LastIdAssumption DEF EmptyInv, IInv, Typed, TypeOK
<1>2. rooms \in [Ids -> Room] /\ \A k \in Ids : k # id => rooms[k] = room[k]
  <2>1. CASE id <= LastId
    <3>1. id \in Ids
      BY <1>1, <2>1 DEF Ids
    <3> QED BY <1>1, <2>1, <3>1, CreatedRooms
  <2>2. CASE ~(id <= LastId)
    BY <1>1, <2>2
  <2> QED BY <2>1, <2>2
<1>3. \A k \in 1..(LastId - 1) : k # id => StopsEmpty(rooms[k])
  <2>1. \A k \in 1..(LastId - 1) : k \in Ids
    BY <1>1 DEF Ids
  <2> QED BY <1>2, <2>1, EveryRoom DEF EmptyInv
<1>4. \/ id >= LastId /\ room' = rooms
      \/ id < LastId /\ room' = Pushed(rooms, id, <<"join", s>>)
  BY <1>1 DEF JoinNewRoom
<1> HIDE DEF rooms
<1>5. CASE id >= LastId /\ room' = rooms
  BY <1>1, <1>3, <1>5, EveryRoomNext
<1>6. CASE id < LastId /\ room' = Pushed(rooms, id, <<"join", s>>)
  <2>1. id \in Ids /\ <<"join", s>> \in Actions
    BY <1>1, <1>6 DEF Ids, Actions
  <2> HIDE DEF id
  <2> QED BY <1>2, <1>3, <1>6, <2>1, PushedEmpty
<1> QED BY <1>4, <1>5, <1>6

\* The actions that push to a lobby that exists.
LEMMA ClientEmpty ==
  ASSUME EmptyInv, NEW s \in Sessions,
         \/ \E id \in Ids : JoinRoom(s, id)
         \/ \E kind \in {"start", "input"} : PushAction(s, kind)
         \/ Disconnect(s)
  PROVE  EmptyLobbiesStop'
<1>1. /\ room \in [Ids -> Room] /\ Typed
      /\ \A k \in 1..(LastId - 1) : StopsEmpty(room[k])
  BY EveryRoom DEF EmptyInv, IInv, Typed
<1>2. \/ UNCHANGED room
      \/ \E id \in Ids, action \in Actions : room' = Pushed(room, id, action)
  <2>1. ASSUME NEW id \in Ids, JoinRoom(s, id)
        PROVE  <<"join", s>> \in Actions /\ room' = Pushed(room, id, <<"join", s>>)
    BY <2>1 DEF JoinRoom, Actions
  <2>2. ASSUME NEW kind \in {"start", "input"}, PushAction(s, kind)
        PROVE  /\ <<kind, s>> \in Actions /\ manager.lookup[s] \in Ids
               /\ room' = Pushed(room, manager.lookup[s], <<kind, s>>)
    BY <1>1, <2>2, LookupExists DEF PushAction, Actions
  <2>3. ASSUME Disconnect(s), manager.lookup[s] # NoLobby
        PROVE  /\ <<"leave", s>> \in Actions /\ manager.lookup[s] \in Ids
               /\ room' = Pushed(room, manager.lookup[s], <<"leave", s>>)
    BY <1>1, <2>3, LookupExists DEF Disconnect, Actions
  <2>4. ASSUME Disconnect(s), manager.lookup[s] = NoLobby PROVE UNCHANGED room
    BY <2>4 DEF Disconnect
  <2> QED BY <2>1, <2>2, <2>3, <2>4
<1>3. CASE UNCHANGED room
  BY <1>1, <1>3, EveryRoomNext
<1>4. ASSUME NEW id \in Ids, NEW action \in Actions, room' = Pushed(room, id, action)
      PROVE  EmptyLobbiesStop'
  BY <1>1, <1>4, PushedEmpty
<1> QED BY <1>2, <1>3, <1>4

\* Every step keeps the inductive invariant.
LEMMA NextEmptyInv ==
  ASSUME EmptyInv, [Next]_vars
  PROVE  EmptyInv'
<1>1. EmptyLobbiesStop'
  <2>1. CASE \/ MainLoop
             \/ \E s \in Sessions : PushToFreed(s)
             \/ \E id \in Ids : UseAfterFree(id)
             \/ UNCHANGED vars
    <3>1. UNCHANGED room
      BY <2>1 DEF MainLoop, Send, SendDone, Reap, ReapDone, EventsDone, PushToFreed, UseAfterFree,
                  vars
    <3> QED BY <3>1, EveryRoom, EveryRoomNext DEF EmptyInv
  <2> QED BY <2>1, ActEmpty, ThreadEmpty, JoinNewEmpty, ClientEmpty DEF Next, LobbyThread
<1>2. IInv'
  BY NextIInv DEF EmptyInv
<1> QED BY <1>1, <1>2 DEF EmptyInv

(***************************************************************************)
(* No lobby but lobby 0 and the one with the highest id runs without a     *)
(* player, or one about to join: leave stops it in the step that empties   *)
(* it, whatever joined meanwhile, in every interleaving of the threads.    *)
(***************************************************************************)
THEOREM EmptyLobbiesAlwaysStop == Spec => []EmptyLobbiesStop
<1>1. Init => EmptyInv
  <2> SUFFICES ASSUME Init PROVE EmptyInv
    OBVIOUS
  <2>1. \A id \in 1..(LastId - 1) : room[id] = NewRoom
    BY LastIdAssumption DEF Init, Ids
  <2>2. ~NewRoom.running
    BY DEF NewRoom
  <2>3. EmptyLobbiesStop
    BY <2>1, <2>2 DEF EmptyLobbiesStop
  <2> QED BY <2>3, InitIInv DEF EmptyInv
<1>2. EmptyInv /\ [Next]_vars => EmptyInv'
  BY NextEmptyInv
<1>3. EmptyInv => EmptyLobbiesStop
  BY DEF EmptyInv
<1> QED BY <1>1, <1>2, <1>3, PTL DEF Spec

------------------------------------------------------------------------------
(* A connected player knows the game state of its lobby.                   *)

\* A packet that tells sessions a game state.
News == [to : SUBSET Sessions, id : Ids, state : States \cup {"GameMenu"}]

\* Where s is addressed in the queue of packets, and what s knows once they were all sent.
Addressed(queue, s) == {i \in DOMAIN queue : s \in queue[i].to}

Told(queue, before, s) ==
  IF Addressed(queue, s) = {} THEN before
  ELSE LET last == CHOOSE i \in Addressed(queue, s) : \A j \in Addressed(queue, s) : j <= i
       IN  <<[id |-> queue[last].id, state |-> queue[last].state]>>

\* Among the packets to a session there is a last one.
HasLast(queue) ==
  \A s \in Sessions :
    Addressed(queue, s) = {} \/
      \E i \in Addressed(queue, s) : \A j \in Addressed(queue, s) : j <= i

\* The types of what is kept of each session.
Linked == link \in [Sessions -> {"up", "down", "late"}] /\ DOMAIN told = Sessions

\* What a lobby sent waits for the main thread.
Posted == outgoing \in Seq(News) /\ HasLast(outgoing) /\ Linked

\* Only a session that ended leaves.
NoneLeaves(r, s) == \A i \in DOMAIN r.queue : r.queue[i] # <<"leave", s>>

UpStays == \A s \in Sessions : link[s] = "up" => \A id \in Ids : NoneLeaves(room[id], s)

(***************************************************************************)
(* The inductive invariant.  A lobby tells its players only, and by IInv   *)
(* and UpStays a connected session plays in one lobby at most: so what one *)
(* lobby sends never hides what another one has told.                      *)
(***************************************************************************)
KnowInv == IInv /\ Posted /\ UpStays /\ PlayersKnowTheState

------------------------------------------------------------------------------
(* The queue of packets.                                                   *)

\* The last packet is the one that counts.
LEMMA ToldAppend ==
  ASSUME NEW queue \in Seq(News), HasLast(queue), NEW e \in News
  PROVE  LET longer == Append(queue, e) IN
         /\ longer \in Seq(News) /\ HasLast(longer)
         /\ \A s \in Sessions : \A before :
              Told(longer, before, s) =
                IF s \in e.to THEN <<[id |-> e.id, state |-> e.state]>> ELSE Told(queue, before, s)
<1> DEFINE longer == Append(queue, e)
           n == Len(queue) + 1
<1>1. /\ Len(queue) \in Nat /\ DOMAIN queue = 1..Len(queue)
      /\ longer \in Seq(News) /\ DOMAIN longer = 1..n /\ longer[n] = e
      /\ \A i \in 1..Len(queue) : longer[i] = queue[i]
  BY AppendProperties, LenProperties
<1> HIDE DEF longer
<1>2. ASSUME NEW s \in Sessions
      PROVE  IF s \in e.to
               THEN /\ n \in Addressed(longer, s) /\ \A j \in Addressed(longer, s) : j <= n
               ELSE Addressed(longer, s) = Addressed(queue, s)
  <2>1. CASE s \in e.to
    BY <1>1, <2>1 DEF Addressed
  <2>2. CASE s \notin e.to
    BY <1>1, <2>2 DEF Addressed
  <2> QED BY <2>1, <2>2
<1>3. HasLast(longer)
  BY <1>2 DEF HasLast
<1>4. ASSUME NEW s \in Sessions, NEW before
      PROVE  Told(longer, before, s) =
               IF s \in e.to THEN <<[id |-> e.id, state |-> e.state]>> ELSE Told(queue, before, s)
  <2>1. CASE s \in e.to
    <3> DEFINE mine == Addressed(longer, s)
               last == CHOOSE i \in mine : \A j \in mine : j <= i
    <3>1. n \in mine /\ \A j \in mine : j <= n
      BY <1>2, <2>1
    <3>2. last \in mine /\ \A j \in mine : j <= last
      BY <3>1
    <3>3. mine \subseteq 1..n
      BY <1>1 DEF Addressed
    <3> HIDE DEF mine, last
    <3>4. last \in Nat /\ n \in Nat /\ last <= n /\ n <= last
      BY <1>1, <3>1, <3>2, <3>3
    <3>5. last = n
      BY <3>4
    <3>6. mine # {}
      BY <3>1
    <3>7. Told(longer, before, s) = <<[id |-> longer[last].id, state |-> longer[last].state]>>
      BY <3>6 DEF Told, mine, last
    <3> QED BY <1>1, <2>1, <3>5, <3>7
  <2>2. CASE s \notin e.to
    <3> DEFINE mine == Addressed(queue, s)
               last == CHOOSE i \in mine : \A j \in mine : j <= i
    <3>1. Addressed(longer, s) = mine
      BY <1>2, <2>2
    <3>2. CASE mine = {}
      BY <2>2, <3>1, <3>2 DEF Told
    <3>3. CASE mine # {}
      <4>1. last \in mine
        BY <3>3 DEF HasLast
      <4>2. longer[last] = queue[last]
        BY <1>1, <4>1 DEF Addressed
      <4>3. /\ Told(longer, before, s) = <<[id |-> longer[last].id, state |-> longer[last].state]>>
            /\ Told(queue, before, s) = <<[id |-> queue[last].id, state |-> queue[last].state]>>
        BY <3>1, <3>3 DEF Told
      <4> QED BY <2>2, <4>2, <4>3
    <3> QED BY <3>2, <3>3
  <2> QED BY <2>1, <2>2
<1> QED BY <1>1, <1>3, <1>4 DEF longer

\* The queue grew to longer by a packet that tells the sessions in to the state of lobby id.
Tells(queue, longer, to, id, state) ==
  /\ longer \in Seq(News) /\ HasLast(longer)
  /\ \A s \in Sessions : \A before :
       Told(longer, before, s) =
         IF s \in to THEN <<[id |-> id, state |-> state]>> ELSE Told(queue, before, s)

\* What the packet of Tell does to the queue.
LEMMA ToldTell ==
  ASSUME NEW queue \in Seq(News), HasLast(queue), NEW to \in SUBSET Sessions, NEW id \in Ids,
         NEW state \in States \cup {"GameMenu"}
  PROVE  Tells(queue, queue \o Tell(to, id, state), to, id, state)
<1> DEFINE e == [to |-> to, id |-> id, state |-> state]
<1>1. e \in News /\ e.to = to /\ e.id = id /\ e.state = state
  BY DEF News
<1>2. CASE to = {}
  <2>1. queue \o Tell(to, id, state) = queue
    BY <1>2, ConcatEmptySeq DEF Tell
  <2> QED BY <1>2, <2>1 DEF Tells
<1>3. CASE to # {}
  <2>1. Tell(to, id, state) = <<e>>
    BY <1>3 DEF Tell
  <2> HIDE DEF e
  <2>2. queue \o Tell(to, id, state) = Append(queue, e)
    BY <1>1, <2>1, AppendIsConcat
  <2>3. LET more == Append(queue, e) IN
         /\ more \in Seq(News) /\ HasLast(more)
         /\ \A s \in Sessions : \A before :
              Told(more, before, s) =
                IF s \in e.to THEN <<[id |-> e.id, state |-> e.state]>> ELSE Told(queue, before, s)
    BY <1>1, ToldAppend
  <2> QED BY <1>1, <2>2, <2>3 DEF Tells
<1> QED BY <1>2, <1>3

\* The property, in these terms.
LEMMA KnownNow ==
  PlayersKnowTheState <=>
    \A id \in Ids : \A s \in room[id].players :
      link[s] = "up" => Told(outgoing, told[s], s) = <<[id |-> id, state |-> room[id].state]>>
BY DEF PlayersKnowTheState, LastTold, Told, Addressed

\* The same of the next state.
LEMMA KnownNext ==
  PlayersKnowTheState' <=>
    \A id \in Ids : \A s \in room'[id].players :
      link'[s] = "up" => Told(outgoing', told'[s], s) = <<[id |-> id, state |-> room'[id].state]>>
BY DEF PlayersKnowTheState, LastTold, Told, Addressed

\* A connected session plays in the lobby it is looked up in.
LEMMA PlaysInOne ==
  ASSUME IInv, UpStays, NEW s \in Sessions, link[s] = "up", NEW id \in Ids, s \in room[id].players
  PROVE  manager.lookup[s] = id
<1>1. PlaysAfter(room[id].queue, room[id].players, s)
  BY DEF UpStays, NoneLeaves, PlaysAfter
<1> QED BY <1>1 DEF IInv, LookupAgrees

------------------------------------------------------------------------------
(* The steps of a lobby's thread.                                          *)

\* What s knows of lobby id with the players and the state of r, if it plays there.
Knows(queue, before, s, id, r) ==
  s \in r.players => Told(queue, before, s) = <<[id |-> id, state |-> r.state]>>

(***************************************************************************)
(* The lobby goes from r to after, and queue grows to longer: the players  *)
(* know the new state if they knew the old one, and the rest of the        *)
(* sessions are told nothing.                                              *)
(***************************************************************************)
KeepsKnown(id, r, after, queue, longer) ==
  /\ longer \in Seq(News) /\ HasLast(longer)
  /\ \A s \in Sessions : \A before :
       /\ Knows(queue, before, s, id, r) => Knows(longer, before, s, id, after)
       /\ s \notin r.players /\ s \notin after.players =>
            Told(longer, before, s) = Told(queue, before, s)

\* A queued action tells every player, and the one who joins, of what it changes.
LEMMA PerformTells ==
  ASSUME NEW queue \in Seq(News), HasLast(queue), NEW id \in Ids, NEW r \in Room,
         NEW kind \in {"join", "leave", "start", "input"}, NEW s \in Sessions
  PROVE  LET done == Perform(id, r, <<kind, s>>)
         IN  KeepsKnown(id, r, done[1], queue, queue \o done[2])
<1> DEFINE done == Perform(id, r, <<kind, s>>)
<1>1. r.players \in SUBSET Sessions /\ {s} \in SUBSET Sessions /\ r.state \in States
  BY DEF Room
<1>2. queue \o << >> = queue
  BY ConcatEmptySeq
<1>a. ASSUME NEW x, NEW y, done = <<x, y>> PROVE done[1] = x /\ done[2] = y
  <2> HIDE DEF done
  <2> QED BY <1>a
<1>b. ASSUME NEW x, done = <<x, << >>>>, x.players = r.players, x.state = r.state
      PROVE  KeepsKnown(id, r, done[1], queue, queue \o done[2])
  <2>1. done[1] = x /\ queue \o done[2] = queue
    BY <1>2, <1>a, <1>b
  <2> HIDE DEF done
  <2> QED BY <1>b, <2>1 DEF KeepsKnown, Knows
<1>3. CASE kind = "join"
  <2>1. done = Joined(id, r, s)
    BY <1>3 DEF Perform
  <2>2. CASE s \in r.players
    <3>1. done = <<r, << >>>>
      BY <2>1, <2>2 DEF Joined
    <3> HIDE DEF done
    <3> QED BY <1>b, <3>1 DEF done
  <2>3. CASE s \notin r.players
    <3> DEFINE state == IF r.state = Waiting THEN Open ELSE r.state
               opened == IF r.state = Waiting THEN Tell(r.players, id, Open) ELSE << >>
               after == [r EXCEPT !.players = @ \cup {s}, !.state = state]
               longer == queue \o opened
    <3>1. done = <<after, opened \o Tell({s}, id, state)>>
      BY <2>1, <2>3 DEF Joined
    <3>2. after.players = r.players \cup {s} /\ after.state = state
      BY DEF Room
    <3>3. Open \in States /\ state \in States
      BY <1>1 DEF States
    <3>4. /\ longer \in Seq(News) /\ HasLast(longer)
          /\ \A t \in Sessions : \A before :
               Told(longer, before, t) =
                 IF r.state = Waiting /\ t \in r.players
                   THEN <<[id |-> id, state |-> Open]>> ELSE Told(queue, before, t)
      <4>1. CASE r.state = Waiting
        <5>1. longer = queue \o Tell(r.players, id, Open)
          BY <4>1
        <5> HIDE DEF longer
        <5>2. Tells(queue, longer, r.players, id, Open)
          BY <1>1, <3>3, <5>1, ToldTell
        <5> QED BY <4>1, <5>2 DEF Tells
      <4>2. CASE r.state # Waiting
        BY <1>2, <4>2
      <4> QED BY <4>1, <4>2
    <3> DEFINE all == longer \o Tell({s}, id, state)
    <3>5. queue \o done[2] = all
      <4>1. opened \in Seq(News) /\ Tell({s}, id, state) \in Seq(News)
        <5>1. ASSUME NEW to \in SUBSET Sessions, NEW x \in States
              PROVE  Tell(to, id, x) \in Seq(News)
          <6>1. [to |-> to, id |-> id, state |-> x] \in News
            BY DEF News
          <6> QED BY <6>1, EmptySeq DEF Tell
        <5> QED BY <1>1, <3>3, <5>1
      <4> DEFINE added == Tell({s}, id, state)
      <4> HIDE DEF opened, after, added
      <4>2. done[2] = opened \o added
        <5> DEFINE both == opened \o added
        <5>1. done = <<after, both>>
          BY <3>1 DEF added
        <5> HIDE DEF both, done
        <5> QED BY <1>a, <5>1 DEF both, done
      <4>3. queue \o (opened \o added) = (queue \o opened) \o added
        BY <4>1, ConcatAssociative DEF added
      <4> HIDE DEF done
      <4> QED BY <4>2, <4>3 DEF added
    <3> HIDE DEF longer
    <3>6. /\ all \in Seq(News) /\ HasLast(all)
          /\ \A t \in Sessions : \A before :
               Told(all, before, t) =
                 IF t \in {s} THEN <<[id |-> id, state |-> state]>> ELSE Told(longer, before, t)
      <4>1. state \in States \cup {"GameMenu"} /\ {s} \in SUBSET Sessions
        BY <1>1, <3>3
      <4>2. longer \in Seq(News) /\ HasLast(longer)
        BY <3>4
      <4>3. all = longer \o Tell({s}, id, state)
        OBVIOUS
      <4> HIDE DEF state, all
      <4>4. Tells(longer, all, {s}, id, state)
        BY <4>1, <4>2, <4>3, ToldTell
      <4> QED BY <4>4 DEF Tells
    <3> HIDE DEF all
    <3>7. ASSUME NEW t \in Sessions, NEW before
          PROVE  /\ Knows(queue, before, t, id, r) => Knows(all, before, t, id, after)
                 /\ t \notin after.players => Told(all, before, t) = Told(queue, before, t)
      <4>1. CASE t = s
        BY <3>2, <3>6, <4>1 DEF Knows
      <4>2. CASE t # s
        <5>1. Told(all, before, t) = IF r.state = Waiting /\ t \in r.players
                THEN <<[id |-> id, state |-> Open]>> ELSE Told(queue, before, t)
          BY <3>4, <3>6, <4>2
        <5> QED BY <3>2, <4>2, <5>1 DEF Knows
      <4> QED BY <4>1, <4>2
    <3>8. done[1] = after
      <4> DEFINE both == opened \o Tell({s}, id, state)
      <4>1. done = <<after, both>>
        BY <3>1
      <4> HIDE DEF both, after, done
      <4> QED BY <1>a, <4>1 DEF done
    <3> HIDE DEF done, after
    <3> QED BY <3>5, <3>6, <3>7, <3>8 DEF KeepsKnown, done
  <2> QED BY <2>2, <2>3
<1>4. CASE kind = "leave"
  <2>1. done = <<Left(id, r, s), << >>>>
    BY <1>4 DEF Perform
  <2> DEFINE after == Left(id, r, s)
             gone == [r EXCEPT !.players = r.players \ {s}, !.alive = @ \ {s}]
  <2>2. gone \in Room /\ gone.players = r.players \ {s} /\ gone.state = r.state
    BY DEF Room
  <2>3. after.players = r.players \ {s} /\ (after.players # {} => after.state = r.state)
    <3>1. CASE s \notin r.players \/ r.players \ {s} # {}
      <4>1. after = gone
        BY <3>1 DEF Left
      <4> HIDE DEF gone, after
      <4> QED BY <2>2, <4>1
    <3>2. CASE ~(s \notin r.players \/ r.players \ {s} # {})
      <4>1. after = [gone EXCEPT !.state = Waiting, !.running = @ /\ id = 0]
        BY <3>2 DEF Left
      <4> HIDE DEF gone, after
      <4>2. after.players = gone.players
        BY <2>2, <4>1 DEF Room
      <4> QED BY <2>2, <3>2, <4>2
    <3> QED BY <3>1, <3>2
  <2> HIDE DEF after
  <2>4. \A t \in Sessions : \A before :
          Knows(queue, before, t, id, r) => Knows(queue, before, t, id, after)
    BY <2>3 DEF Knows
  <2>5. done[1] = after /\ queue \o done[2] = queue
    BY <1>2, <1>a, <2>1 DEF after
  <2> HIDE DEF done
  <2> QED BY <2>4, <2>5 DEF KeepsKnown, done
<1>5. CASE kind = "start"
  <2> DEFINE after == Restarted(r, Running)
             longer == queue \o Tell(r.players, id, Running)
  <2>1. done = <<after, Tell(r.players, id, Running)>>
    BY <1>5 DEF Perform
  <2>2. after.players = r.players /\ after.state = Running
    BY DEF Room, Restarted
  <2>3. /\ longer \in Seq(News) /\ HasLast(longer)
        /\ \A t \in Sessions : \A before :
             Told(longer, before, t) =
               IF t \in r.players THEN <<[id |-> id, state |-> Running]>>
               ELSE Told(queue, before, t)
    <3>1. Running \in States \cup {"GameMenu"}
      BY DEF States
    <3>2. longer = queue \o Tell(r.players, id, Running)
      OBVIOUS
    <3> HIDE DEF longer
    <3>3. Tells(queue, longer, r.players, id, Running)
      BY <1>1, <3>1, <3>2, ToldTell
    <3> QED BY <3>3 DEF Tells
  <2> HIDE DEF after
  <2>4. done[1] = after /\ queue \o done[2] = longer
    BY <1>a, <2>1 DEF after
  <2> HIDE DEF done, longer
  <2> QED BY <2>2, <2>3, <2>4 DEF KeepsKnown, Knows, done
<1>6. CASE kind = "input"
  <2>1. done = <<r, << >>>>
    BY <1>6 DEF Perform
  <2> HIDE DEF done
  <2> QED BY <1>b, <2>1 DEF done
<1> QED BY <1>3, <1>4, <1>5, <1>6

\* A step of one lobby that keeps what its players know keeps what all players know.
LEMMA StepKnown ==
  ASSUME KnowInv, IInv', UpStays', NEW id \in Ids, NEW r, NEW after, NEW sent,
         r.players = room[id].players, r.state = room[id].state,
         Step(id, after, sent), KeepsKnown(id, r, after, outgoing, outgoing \o sent)
  PROVE  Posted' /\ PlayersKnowTheState'
<1>1. /\ room' = [room EXCEPT ![id] = after] /\ outgoing' = outgoing \o sent
      /\ told' = told /\ link' = link
  BY DEF Step
<1>2. room'[id] = after /\ \A k \in Ids : k # id => room'[k] = room[k]
  BY <1>1 DEF KnowInv, IInv, Typed
<1>3. Posted'
  BY <1>1 DEF KeepsKnown, KnowInv, Posted, Linked, HasLast, Addressed
<1>4. ASSUME NEW k \in Ids, NEW s \in room'[k].players, link[s] = "up"
      PROVE  Told(outgoing', told[s], s) = <<[id |-> k, state |-> room'[k].state]>>
  <2>1. s \in Sessions
    BY DEF IInv, Typed, TypeOK
  <2>2. CASE k = id
    <3>1. Knows(outgoing, told[s], s, id, r)
      BY <1>4, KnownNow DEF KnowInv, Knows
    <3>2. Knows(outgoing', told[s], s, id, after)
      BY <1>1, <2>1, <3>1 DEF KeepsKnown
    <3> QED BY <1>2, <2>2, <3>2 DEF Knows
  <2>3. CASE k # id
    <3>1. s \in room[k].players
      BY <1>2, <2>3
    <3>2. s \notin r.players
      BY <1>4, <2>1, <2>3, <3>1, PlaysInOne DEF KnowInv
    <3>3. s \notin after.players
      <4>1. \A j \in Ids : s \in room'[j].players => manager'.lookup[s] = j
        <5> SUFFICES ASSUME NEW j \in Ids, s \in room'[j].players PROVE manager'.lookup[s] = j
          OBVIOUS
        <5>1. \A i \in DOMAIN room'[j].queue : room'[j].queue[i] # <<"leave", s>>
          BY <1>1, <1>4, <2>1 DEF UpStays, NoneLeaves
        <5> QED BY <2>1, <5>1 DEF IInv, LookupAgrees, PlaysAfter
      <4> QED BY <1>2, <2>3, <4>1
    <3>4. Told(outgoing', told[s], s) = Told(outgoing, told[s], s)
      BY <1>1, <2>1, <3>2, <3>3 DEF KeepsKnown
    <3> QED BY <1>2, <1>4, <2>3, <3>1, <3>4, KnownNow DEF KnowInv
  <2> QED BY <2>2, <2>3
<1> QED BY <1>1, <1>3, <1>4, KnownNext

\* A turn of the thread leaves no new action in the queue.
LEMMA ThreadUp ==
  ASSUME KnowInv, NEW id \in Ids,
         \/ LobbyThread(id) \/ \E dead \in SUBSET Sessions : Tick(id, dead)
  PROVE  UpStays'
<1> DEFINE old == room[id].queue
<1>1. room \in [Ids -> Room] /\ old \in Seq(Actions) /\ IInv /\ UpStays
  BY DEF KnowInv, IInv, Typed, Room
<1>2. link' = link
  BY DEF LobbyThread, Act, ActionsDone, TicksDone, Tick, Step
<1>3. \/ room' = room
      \/ \E after \in Room : /\ room' = [room EXCEPT ![id] = after]
                             /\ after.queue = old \/ (after.queue = Tail(old) /\ old # << >>)
  <2>1. CASE Act(id)
    <3>1. CASE Throws(room[id], Head(old))
      BY <2>1, <3>1 DEF Act
    <3>2. CASE ~Throws(room[id], Head(old))
      <4>1. old # << >>
        BY <2>1 DEF Act
      <4> QED BY <1>1, <2>1, <3>2, <4>1, ActRoom
    <3> QED BY <3>1, <3>2
  <2>2. CASE ActionsDone(id) \/ TicksDone(id)
    <3>1. PICK thread \in {"none", "actions", "ticks", "ended"} :
            room' = [room EXCEPT ![id] = [room[id] EXCEPT !.thread = thread]]
      BY <2>2 DEF ActionsDone, TicksDone, Step
    <3> DEFINE after == [room[id] EXCEPT !.thread = thread]
    <3>2. after \in Room /\ after.queue = old
      BY <1>1 DEF Room
    <3> HIDE DEF old
    <3> QED BY <3>1, <3>2
  <2>3. ASSUME NEW dead \in SUBSET Sessions, Tick(id, dead)
        PROVE  \E after \in Room : room' = [room EXCEPT ![id] = after] /\ after.queue = old
    <3> DEFINE over == Restarted(room[id], Over)
               hit == [room[id] EXCEPT !.alive = @ \ dead]
    <3>1. room' = [room EXCEPT ![id] = over] \/ room' = [room EXCEPT ![id] = hit]
      BY <2>3 DEF Tick, Step
    <3>2. /\ over \in Room /\ over.queue = old
          /\ hit \in Room /\ hit.queue = old
      BY <1>1 DEF Room, Restarted, States
    <3> HIDE DEF over, hit
    <3> QED BY <3>1, <3>2
  <2> QED BY <2>1, <2>2, <2>3 DEF LobbyThread
<1> SUFFICES ASSUME NEW s \in Sessions, link[s] = "up", NEW k \in Ids
             PROVE  NoneLeaves(room'[k], s)
  BY <1>2 DEF UpStays, NoneLeaves
<1>4. NoneLeaves(room[k], s) /\ NoneLeaves(room[id], s)
  BY <1>1 DEF UpStays
<1>5. CASE room' = room
  BY <1>4, <1>5
<1>6. ASSUME NEW after \in Room, room' = [room EXCEPT ![id] = after],
             after.queue = old \/ (after.queue = Tail(old) /\ old # << >>)
      PROVE  NoneLeaves(room'[k], s)
  <2>1. room'[k] = IF k = id THEN after ELSE room[k]
    BY <1>1, <1>6
  <2>2. CASE after.queue = old
    BY <1>4, <2>1, <2>2 DEF NoneLeaves
  <2>3. CASE after.queue = Tail(old) /\ old # << >>
    <3>1. /\ Len(old) \in Nat /\ DOMAIN old = 1..Len(old)
          /\ DOMAIN Tail(old) = 1..(Len(old) - 1)
          /\ \A i \in 1..(Len(old) - 1) : Tail(old)[i] = old[i + 1]
      BY <1>1, <2>3, HeadTailProperties, EmptySeq, LenProperties
    <3>2. \A i \in DOMAIN Tail(old) : i + 1 \in DOMAIN old /\ Tail(old)[i] = old[i + 1]
      BY <3>1
    <3>3. \A i \in DOMAIN Tail(old) : Tail(old)[i] # <<"leave", s>>
      BY <1>4, <3>2 DEF NoneLeaves
    <3> QED BY <1>4, <2>1, <2>3, <3>3 DEF NoneLeaves
  <2> QED BY <1>6, <2>2, <2>3
<1> QED BY <1>3, <1>5, <1>6

\* A turn of the thread tells the players what they have to know.
LEMMA ThreadKnown ==
  ASSUME KnowInv, IInv', NEW id \in Ids,
         \/ LobbyThread(id) \/ \E dead \in SUBSET Sessions : Tick(id, dead)
  PROVE  Posted' /\ PlayersKnowTheState'
<1> DEFINE r == room[id]
<1>1. /\ r \in Room /\ r.queue \in Seq(Actions) /\ UpStays' /\ r.players \in SUBSET Sessions
      /\ outgoing \in Seq(News) /\ HasLast(outgoing)
  BY ThreadUp DEF KnowInv, IInv, Typed, Room, Posted
<1>2. ASSUME NEW after, after.players = r.players, after.state = r.state, Step(id, after, << >>)
      PROVE  Posted' /\ PlayersKnowTheState'
  <2>1. outgoing \o << >> = outgoing
    BY <1>1, ConcatEmptySeq
  <2>2. KeepsKnown(id, r, after, outgoing, outgoing \o << >>)
    BY <1>1, <1>2, <2>1 DEF KeepsKnown, Knows
  <2> QED BY <1>1, <1>2, <2>2, StepKnown
<1>3. CASE Act(id)
  <2> DEFINE popped == [r EXCEPT !.queue = Tail(@)]
             action == Head(r.queue)
             done == Perform(id, popped, action)
  <2>1. r.queue # << >> /\ action \in Actions /\ Tail(r.queue) \in Seq(Actions)
    <3>1. r.queue # << >>
      BY <1>3 DEF Act
    <3> QED BY <1>1, <3>1, HeadTailProperties, EmptySeq
  <2>2. popped \in Room /\ popped.players = r.players /\ popped.state = r.state
    BY <1>1, <2>1 DEF Room
  <2>3. CASE Throws(r, action)
    <3>1. UNCHANGED <<room, outgoing, link, told>>
      BY <1>3, <2>3 DEF Act
    <3>2. Posted'
      BY <3>1 DEF KnowInv, Posted, Linked, HasLast, Addressed
    <3> QED BY <3>1, <3>2, KnownNow, KnownNext DEF KnowInv
  <2>4. CASE ~Throws(r, action)
    <3>1. Step(id, done[1], done[2])
      BY <1>3, <2>4 DEF Act
    <3>2. PICK kind \in {"join", "leave", "start", "input"}, s \in Sessions : action = <<kind, s>>
      BY <2>1 DEF Actions
    <3> HIDE DEF popped, action, r
    <3>3. KeepsKnown(id, popped, done[1], outgoing, outgoing \o done[2])
      BY <1>1, <2>2, <3>2, PerformTells
    <3> QED BY <1>1, <2>2, <3>1, <3>3, StepKnown DEF r
  <2> QED BY <2>3, <2>4
<1>4. CASE ActionsDone(id) \/ TicksDone(id)
  <2>1. PICK thread : Step(id, [r EXCEPT !.thread = thread], << >>)
    BY <1>4 DEF ActionsDone, TicksDone
  <2> DEFINE after == [r EXCEPT !.thread = thread]
  <2>2. after.players = r.players /\ after.state = r.state
    BY <1>1 DEF Room
  <2> HIDE DEF after
  <2> QED BY <1>2, <2>1, <2>2 DEF after
<1>5. ASSUME NEW dead \in SUBSET Sessions, Tick(id, dead)
      PROVE  Posted' /\ PlayersKnowTheState'
  <2> DEFINE over == Restarted(r, Over)
             hit == [r EXCEPT !.alive = @ \ dead]
             sent == Tell(r.players, id, Over)
  <2>1. Step(id, over, sent) \/ Step(id, hit, << >>)
    BY <1>5 DEF Tick
  <2>2. /\ over.players = r.players /\ over.state = Over
        /\ hit.players = r.players /\ hit.state = r.state
    BY <1>1 DEF Room, Restarted
  <2>3. Tells(outgoing, outgoing \o sent, r.players, id, Over)
    <3>1. Over \in States \cup {"GameMenu"}
      BY DEF States
    <3> QED BY <1>1, <3>1, ToldTell
  <2> HIDE DEF over, hit, sent
  <2>4. KeepsKnown(id, r, over, outgoing, outgoing \o sent)
    BY <2>2, <2>3 DEF Tells, KeepsKnown, Knows
  <2>5. CASE Step(id, over, sent)
    BY <1>1, <2>4, <2>5, StepKnown
  <2>6. CASE Step(id, hit, << >>)
    BY <1>2, <2>2, <2>6
  <2> QED BY <2>1, <2>5, <2>6
<1> QED BY <1>3, <1>4, <1>5 DEF LobbyThread

------------------------------------------------------------------------------
(* The steps of the main thread.                                           *)

\* Who is told nothing, and whose players and states stay, keeps what it knows.
LEMMA QuietKnown ==
  ASSUME KnowInv, outgoing' = outgoing, Linked',
         \A k \in Ids : room'[k].players = room[k].players /\ room'[k].state = room[k].state,
         \A s \in Sessions : link'[s] = "up" => link[s] = "up" /\ told'[s] = told[s]
  PROVE  Posted' /\ PlayersKnowTheState'
<1>1. Posted'
  BY DEF KnowInv, Posted, HasLast, Addressed
<1>2. ASSUME NEW k \in Ids, NEW s \in room'[k].players, link'[s] = "up"
      PROVE  Told(outgoing', told'[s], s) = <<[id |-> k, state |-> room'[k].state]>>
  <2>1. s \in room[k].players /\ s \in Sessions
    BY DEF KnowInv, IInv, Typed, TypeOK
  <2>2. link[s] = "up" /\ told'[s] = told[s]
    BY <1>2, <2>1
  <2> QED BY <2>1, <2>2, KnownNow DEF KnowInv
<1> QED BY <1>1, <1>2, KnownNext

\* A push that is no leave of a connected session.
LEMMA PushStays ==
  ASSUME NEW rooms \in [Ids -> Room], NEW id \in Ids, NEW action \in Actions, NEW s \in Sessions,
         action # <<"leave", s>>, \A k \in Ids : NoneLeaves(rooms[k], s)
  PROVE  \A k \in Ids : NoneLeaves(Pushed(rooms, id, action)[k], s)
<1> DEFINE pushed == Pushed(rooms, id, action)
           old == rooms[id].queue
<1>1. /\ \A k \in Ids : k # id => pushed[k] = rooms[k]
      /\ pushed[id].queue = Append(old, action)
  BY PushedRoom
<1>2. old \in Seq(Actions)
  BY DEF Room
<1> HIDE DEF pushed
<1>3. \A i \in DOMAIN old : old[i] # <<"leave", s>>
  BY DEF NoneLeaves
<1> HIDE DEF old
<1>4. /\ Len(old) \in Nat /\ DOMAIN old = 1..Len(old)
      /\ DOMAIN Append(old, action) = 1..(Len(old) + 1)
      /\ Append(old, action)[Len(old) + 1] = action
      /\ \A i \in 1..Len(old) : Append(old, action)[i] = old[i]
  BY <1>2, AppendProperties, LenProperties
<1> DEFINE longer == Append(old, action)
<1>5. \A i \in DOMAIN longer : longer[i] # <<"leave", s>>
  <2>1. /\ Len(old) \in Nat /\ DOMAIN old = 1..Len(old) /\ DOMAIN longer = 1..(Len(old) + 1)
        /\ longer[Len(old) + 1] = action
        /\ \A i \in 1..Len(old) : longer[i] = old[i]
    BY <1>4
  <2> HIDE DEF longer
  <2> SUFFICES ASSUME NEW i \in DOMAIN longer PROVE longer[i] # <<"leave", s>>
    OBVIOUS
  <2>2. CASE i = Len(old) + 1
    BY <2>1, <2>2
  <2>3. CASE i \in DOMAIN old
    BY <1>3, <2>1, <2>3
  <2> QED BY <2>1, <2>2, <2>3
<1>6. NoneLeaves(pushed[id], s)
  BY <1>1, <1>5 DEF NoneLeaves
<1> QED BY <1>1, <1>6 DEF pushed

\* Manager::update, and the ends of the loops.
LEMMA MainKnown ==
  ASSUME KnowInv, MainLoop
  PROVE  Posted' /\ UpStays' /\ PlayersKnowTheState'
<1>1. UNCHANGED <<room, link>>
  BY DEF MainLoop, Send, SendDone, Reap, ReapDone, EventsDone
<1>2. UpStays'
  BY <1>1 DEF KnowInv, UpStays, NoneLeaves
<1>3. CASE UNCHANGED <<outgoing, told>>
  <2>1. Linked'
    BY <1>1, <1>3 DEF KnowInv, Posted, Linked
  <2> QED BY <1>1, <1>2, <1>3, <2>1, QuietKnown
<1>4. CASE Send
  <2>1. /\ outgoing' = << >>
        /\ told' = [s \in Sessions |-> IF link[s] = "up" THEN LastTold(s) ELSE << >>]
    BY <1>4 DEF Send
  <2>2. \A s : Addressed(outgoing', s) = {}
    BY <2>1, EmptySeq DEF Addressed
  <2>3. Posted'
    BY <1>1, <2>1, <2>2, EmptySeq DEF KnowInv, Posted, Linked, HasLast
  <2>4. ASSUME NEW k \in Ids, NEW s \in room'[k].players, link'[s] = "up"
        PROVE  Told(outgoing', told'[s], s) = <<[id |-> k, state |-> room'[k].state]>>
    <3>1. s \in room[k].players /\ s \in Sessions /\ link[s] = "up"
      BY <1>1, <2>4 DEF KnowInv, IInv, Typed, TypeOK
    <3>2. Told(outgoing', told'[s], s) = LastTold(s)
      BY <2>1, <2>2, <3>1 DEF Told
    <3> QED BY <1>1, <3>1, <3>2 DEF KnowInv, PlayersKnowTheState
  <2> QED BY <1>2, <2>3, <2>4, KnownNext
<1> QED BY <1>3, <1>4 DEF MainLoop, SendDone, Reap, ReapDone, EventsDone

\* A push of an action that is no leave, to a lobby that exists.
LEMMA PushKnown ==
  ASSUME KnowInv, NEW id \in Ids, NEW action \in Actions,
         room' = Pushed(room, id, action), outgoing' = outgoing, told' = told, Linked',
         \A s \in Sessions : link'[s] = "up" => link[s] = "up" /\ action # <<"leave", s>>
  PROVE  Posted' /\ UpStays' /\ PlayersKnowTheState'
<1>1. room \in [Ids -> Room]
  BY DEF KnowInv, IInv, Typed
<1>2. \A k \in Ids : room'[k].players = room[k].players /\ room'[k].state = room[k].state
  BY <1>1, PushedRoom
<1>3. ASSUME NEW s \in Sessions, link'[s] = "up", NEW k \in Ids PROVE NoneLeaves(room'[k], s)
  BY <1>1, <1>3, PushStays DEF KnowInv, UpStays
<1>4. UpStays'
  BY <1>3 DEF UpStays, NoneLeaves
<1> QED BY <1>2, <1>4, QuietKnown

\* joinRoom of a lobby that exists.
LEMMA JoinRoomKnown ==
  ASSUME KnowInv, NEW s \in Sessions, NEW id \in Ids, JoinRoom(s, id)
  PROVE  Posted' /\ UpStays' /\ PlayersKnowTheState'
<1> DEFINE action == <<"join", s>>
<1>1. action \in Actions /\ \A t \in Sessions : action # <<"leave", t>>
  BY DEF Actions
<1>2. /\ room' = Pushed(room, id, action) /\ UNCHANGED <<outgoing, told>> /\ Linked'
      /\ \A t \in Sessions : link'[t] = "up" => link[t] = "up"
  BY DEF JoinRoom, Late, KnowInv, Posted, Linked
<1> HIDE DEF action
<1> QED BY <1>1, <1>2, PushKnown

\* pushActionToLobby.
LEMMA PushActionKnown ==
  ASSUME KnowInv, NEW s \in Sessions, NEW kind \in {"start", "input"}, PushAction(s, kind)
  PROVE  Posted' /\ UpStays' /\ PlayersKnowTheState'
<1> DEFINE action == <<kind, s>>
<1>1. action \in Actions /\ \A t \in Sessions : action # <<"leave", t>>
  BY DEF Actions
<1>2. manager.lookup[s] \in Ids
  BY LookupExists DEF PushAction, KnowInv, IInv
<1>3. room' = Pushed(room, manager.lookup[s], action) /\ UNCHANGED <<outgoing, told, link>>
  BY DEF PushAction
<1>4. Linked'
  BY <1>3 DEF KnowInv, Posted, Linked
<1> HIDE DEF action
<1> QED BY <1>1, <1>2, <1>3, <1>4, PushKnown

\* onDisconnect: the leave is of a session that is not connected any more.
LEMMA DisconnectKnown ==
  ASSUME KnowInv, NEW s \in Sessions, Disconnect(s)
  PROVE  Posted' /\ UpStays' /\ PlayersKnowTheState'
<1> DEFINE id == manager.lookup[s]
           action == <<"leave", s>>
<1>1. /\ outgoing' = outgoing /\ Linked'
      /\ \A t \in Sessions :
           link'[t] = "up" => link[t] = "up" /\ told'[t] = told[t] /\ action # <<"leave", t>>
  BY DEF Disconnect, KnowInv, Posted, Linked
<1>2. CASE id = NoLobby
  <2>1. room' = room
    BY <1>2 DEF Disconnect
  <2>2. UpStays'
    BY <1>1, <2>1 DEF KnowInv, UpStays, NoneLeaves
  <2> QED BY <1>1, <2>1, <2>2, QuietKnown
<1>3. CASE id # NoLobby
  <2>1. id \in Ids /\ action \in Actions /\ room \in [Ids -> Room]
    BY <1>3, LookupExists DEF KnowInv, IInv, Typed, Actions
  <2>2. room' = Pushed(room, id, action)
    BY <1>3 DEF Disconnect
  <2> HIDE DEF action, id
  <2>3. \A k \in Ids : room'[k].players = room[k].players /\ room'[k].state = room[k].state
    BY <2>1, <2>2, PushedRoom
  <2>4. ASSUME NEW t \in Sessions, link'[t] = "up", NEW k \in Ids PROVE NoneLeaves(room'[k], t)
    BY <1>1, <2>1, <2>2, <2>4, PushStays DEF KnowInv, UpStays
  <2>5. UpStays'
    BY <2>4 DEF UpStays, NoneLeaves
  <2> QED BY <1>1, <2>3, <2>5, QuietKnown
<1> QED BY <1>2, <1>3
\* A lobby is created with nobody in it, and only a session without a lobby is refused one.
LEMMA JoinNewRoomKnown ==
  ASSUME KnowInv, NEW s \in Sessions, JoinNewRoom(s)
  PROVE  Posted' /\ UpStays' /\ PlayersKnowTheState'
<1> DEFINE id == manager.next
           action == <<"join", s>>
           created == [room EXCEPT ![id] = Started]
<1>1. /\ Linked' /\ told' = told /\ \A t \in Sessions : link'[t] = "up" => link[t] = "up"
      /\ manager.lookup[s] = NoLobby
  BY DEF JoinNewRoom, Late, KnowInv, Posted, Linked
<1>2. id \in 1..(LastId + 1) /\ LastId \in Nat
  BY LastIdAssumption DEF KnowInv, IInv, Typed, TypeOK
<1> DEFINE rooms == IF id <= LastId THEN created ELSE room
<1>3. /\ rooms \in [Ids -> Room]
      /\ \A k \in Ids : /\ rooms[k].players = room[k].players /\ rooms[k].state = room[k].state
                        /\ rooms[k] = room[k] \/ rooms[k] = Started
  <2>1. CASE id <= LastId
    <3>1. id \in Ids
      BY <1>2, <2>1 DEF Ids
    <3>2. /\ created \in [Ids -> Room] /\ created[id] = Started
          /\ \A k \in Ids : k # id => created[k] = room[k]
      BY <3>1, CreatedRooms DEF KnowInv
    <3>3. room[id] = NewRoom
      BY <1>2, <3>1 DEF KnowInv, IInv, Typed, TypeOK
    <3>4. Started.players = NewRoom.players /\ Started.state = NewRoom.state
      BY DEF Started, NewRoom
    <3> HIDE DEF created
    <3> QED BY <2>1, <3>2, <3>3, <3>4
  <2>2. CASE ~(id <= LastId)
    BY <2>2 DEF KnowInv, IInv, Typed
  <2> QED BY <2>1, <2>2
<1>4. ASSUME NEW t \in Sessions, link[t] = "up", NEW k \in Ids PROVE NoneLeaves(rooms[k], t)
  <2>1. NoneLeaves(Started, t)
    BY EmptySeq DEF NoneLeaves, Started, NewRoom
  <2>2. NoneLeaves(room[k], t)
    BY <1>4 DEF KnowInv, UpStays
  <2> HIDE DEF rooms
  <2> QED BY <1>3, <2>1, <2>2
<1>5. CASE id < LastId
  <2>1. room' = Pushed(rooms, id, action) /\ outgoing' = outgoing
    BY <1>2, <1>5 DEF JoinNewRoom
  <2>2. id \in Ids /\ action \in Actions /\ \A t \in Sessions : action # <<"leave", t>>
    BY <1>2, <1>5 DEF Ids, Actions
  <2> HIDE DEF rooms, action, id
  <2>3. \A k \in Ids : room'[k].players = room[k].players /\ room'[k].state = room[k].state
    BY <1>3, <2>1, <2>2, PushedRoom
  <2>4. ASSUME NEW t \in Sessions, link'[t] = "up", NEW k \in Ids PROVE NoneLeaves(room'[k], t)
    <3>1. \A j \in Ids : NoneLeaves(rooms[j], t)
      BY <1>1, <1>4, <2>4
    <3> QED BY <1>3, <2>1, <2>2, <3>1, PushStays
  <2>5. UpStays'
    BY <2>4 DEF UpStays, NoneLeaves
  <2> QED BY <1>1, <2>1, <2>3, <2>5, QuietKnown
<1>6. CASE id >= LastId
  <2>1. room' = rooms /\ outgoing' = outgoing \o Tell({s}, 0, "GameMenu")
    BY <1>2, <1>6 DEF JoinNewRoom
  <2> HIDE DEF rooms, id
  <2>2. UpStays'
    BY <1>1, <1>4, <2>1 DEF UpStays, NoneLeaves
  <2>3. Tells(outgoing, outgoing', {s}, 0, "GameMenu")
    <3>1. /\ outgoing \in Seq(News) /\ HasLast(outgoing)
          /\ {s} \in SUBSET Sessions /\ 0 \in Ids /\ "GameMenu" \in States \cup {"GameMenu"}
      BY <1>2 DEF KnowInv, Posted, Ids
    <3> QED BY <2>1, <3>1, ToldTell
  <2>4. Posted'
    BY <1>1, <2>3 DEF Tells, Posted, HasLast, Addressed
  <2>5. ASSUME NEW k \in Ids, NEW t \in room'[k].players, link'[t] = "up"
        PROVE  Told(outgoing', told'[t], t) = <<[id |-> k, state |-> room'[k].state]>>
    <3>1. /\ t \in room[k].players /\ t \in Sessions /\ link[t] = "up"
          /\ room'[k].state = room[k].state
      BY <1>1, <1>3, <2>1, <2>5 DEF KnowInv, IInv, Typed, TypeOK
    <3>2. manager.lookup[t] = k
      BY <3>1, PlaysInOne DEF KnowInv
    <3>3. t # s
      BY <1>1, <3>2, LastIdAssumption DEF NoLobby, Ids
    <3>4. Told(outgoing', told[t], t) = Told(outgoing, told[t], t)
      BY <2>3, <3>1, <3>3 DEF Tells
    <3> QED BY <1>1, <3>1, <3>4, KnownNow DEF KnowInv
  <2> QED BY <2>2, <2>4, <2>5, KnownNext
<1> QED BY <1>2, <1>5, <1>6

------------------------------------------------------------------------------

\* At first nobody plays, and nothing was sent.
LEMMA InitKnown == Init => KnowInv
<1> SUFFICES ASSUME Init PROVE KnowInv
  OBVIOUS
<1>1. IInv
  BY InitIInv
<1>2. NewRoom.players = {} /\ NewRoom.queue = << >> /\ Started.players = {} /\ Started.queue = << >>
  BY DEF Started, NewRoom
<1>3. \A k \in Ids : room[k].players = {} /\ room[k].queue = << >>
  BY <1>2 DEF Init
<1>4. Posted
  BY EmptySeq DEF Init, Posted, Linked, HasLast, Addressed
<1>5. UpStays
  BY <1>3, EmptySeq DEF UpStays, NoneLeaves
<1>6. PlayersKnowTheState
  BY <1>3 DEF PlayersKnowTheState
<1> QED BY <1>1, <1>4, <1>5, <1>6 DEF KnowInv

\* Every step.
LEMMA NextKnown ==
  ASSUME KnowInv, [Next]_vars
  PROVE  KnowInv'
<1>1. IInv'
  BY NextIInv DEF KnowInv
<1>2. ASSUME UNCHANGED <<room, outgoing, link, told>>
      PROVE  Posted' /\ UpStays' /\ PlayersKnowTheState'
  <2>1. Linked' /\ UpStays'
    BY <1>2 DEF KnowInv, Posted, Linked, UpStays, NoneLeaves
  <2> QED BY <1>2, <2>1, QuietKnown
<1>3. CASE MainLoop
  BY <1>1, <1>3, MainKnown DEF KnowInv
<1>4. ASSUME NEW s \in Sessions, NEW id \in Ids, JoinRoom(s, id) PROVE KnowInv'
  BY <1>1, <1>4, JoinRoomKnown DEF KnowInv
<1>5. ASSUME NEW s \in Sessions, JoinNewRoom(s) PROVE KnowInv'
  BY <1>1, <1>5, JoinNewRoomKnown DEF KnowInv
<1>6. ASSUME NEW s \in Sessions, NEW kind \in {"start", "input"}, PushAction(s, kind)
      PROVE  KnowInv'
  BY <1>1, <1>6, PushActionKnown DEF KnowInv
<1>7. ASSUME NEW s \in Sessions, Disconnect(s) PROVE KnowInv'
  BY <1>1, <1>7, DisconnectKnown DEF KnowInv
<1>8. ASSUME NEW s \in Sessions, PushToFreed(s) PROVE KnowInv'
  BY <1>1, <1>2, <1>8 DEF PushToFreed, KnowInv
<1>9. ASSUME NEW id \in Ids, LobbyThread(id) \/ \E dead \in SUBSET Sessions : Tick(id, dead)
      PROVE  KnowInv'
  BY <1>1, <1>9, ThreadUp, ThreadKnown DEF KnowInv
<1>10. ASSUME NEW id \in Ids, UseAfterFree(id) PROVE KnowInv'
  BY <1>1, <1>2, <1>10 DEF UseAfterFree, KnowInv
<1>11. CASE UNCHANGED vars
  BY <1>1, <1>2, <1>11 DEF vars, KnowInv
<1> QED BY <1>3, <1>4, <1>5, <1>6, <1>7, <1>8, <1>9, <1>10, <1>11 DEF Next

(***************************************************************************)
(* Whatever the sessions, the lobbies and the order of their steps, a      *)
(* connected player is told of every change of the game state of its       *)
(* lobby, and of no other's (join, changeGameState, run, joinRoom).        *)
(***************************************************************************)
THEOREM PlayersAlwaysKnowTheState == Spec => []PlayersKnowTheState
<1>1. Init => KnowInv
  BY InitKnown
<1>2. KnowInv /\ [Next]_vars => KnowInv'
  BY NextKnown
<1>3. KnowInv => PlayersKnowTheState
  BY DEF KnowInv
<1> QED BY <1>1, <1>2, <1>3, PTL DEF Spec

------------------------------------------------------------------------------
(* Every lobby is listed, on one page.                                     *)

\* The page of the place m, where pages have size places.
LEMMA PageOf ==
  ASSUME NEW m \in Nat, NEW size \in Nat \ {0}
  PROVE  /\ m \div size \in Nat
         /\ \A q \in Nat : q * size <= m /\ m < q * size + size <=> q = m \div size
         /\ \A n \in Nat : m <= n => m \div size <= n \div size
<1> DEFINE page(n) == n \div size
           rest(n) == n % size
<1>1. ASSUME NEW n \in Nat
      PROVE  /\ page(n) \in Nat /\ rest(n) \in Nat /\ rest(n) < size
             /\ n = size * page(n) + rest(n)
  OBVIOUS
<1>2. ASSUME NEW p \in Nat, NEW q \in Nat, p < q PROVE size * p + size <= size * q
  <2>1. q - (p + 1) \in Nat
    BY <1>2
  <2>2. size * (q - (p + 1)) >= 0
    BY <2>1
  <2>3. size * (q - (p + 1)) = size * q - (size * p + size)
    OBVIOUS
  <2> DEFINE a == size * p
             b == size * q
             c == size * (q - (p + 1))
  <2>4. a \in Int /\ b \in Int /\ c \in Int
    OBVIOUS
  <2>5. c >= 0 /\ c = b - (a + size)
    BY <2>2, <2>3
  <2> HIDE DEF a, b, c
  <2>6. a + size <= b
    BY <2>4, <2>5
  <2> QED BY <2>6 DEF a, b
<1>3. ASSUME NEW q \in Nat PROVE q * size = size * q /\ size * q \in Int
  OBVIOUS
<1> HIDE DEF page, rest
<1>4. ASSUME NEW q \in Nat
      PROVE  q * size <= m /\ m < q * size + size <=> q = page(m)
  <2>1. page(m) \in Nat /\ rest(m) \in Nat /\ rest(m) < size /\ m = size * page(m) + rest(m)
    BY <1>1
  <2> DEFINE a == size * q
             b == size * page(m)
  <2>2. a \in Int /\ b \in Int /\ q * size = a
    BY <1>3, <2>1
  <2>3. q < page(m) => a + size <= b
    BY <1>2, <2>1
  <2>4. page(m) < q => b + size <= a
    BY <1>2, <2>1
  <2>5. q = page(m) => a = b
    OBVIOUS
  <2>6. m = b + rest(m)
    BY <2>1
  <2> DEFINE p == page(m)
             r == rest(m)
  <2>7. p \in Nat /\ r \in Nat /\ r < size /\ m = b + r
    BY <2>1, <2>6
  <2>8. (q < p => a + size <= b) /\ (p < q => b + size <= a) /\ (q = p => a = b)
    BY <2>3, <2>4, <2>5
  <2> HIDE DEF a, b, p, r
  <2>9. a <= m /\ m < a + size <=> q = p
    <3>1. CASE q = p
      BY <2>2, <2>7, <2>8, <3>1
    <3>2. CASE q < p
      BY <2>2, <2>7, <2>8, <3>2
    <3>3. CASE p < q
      BY <2>2, <2>7, <2>8, <3>3
    <3> QED BY <2>7, <3>1, <3>2, <3>3
  <2> QED BY <2>2, <2>9 DEF p
<1>5. ASSUME NEW n \in Nat, m <= n PROVE page(m) <= page(n)
  <2>1. /\ page(m) \in Nat /\ rest(m) \in Nat /\ m = size * page(m) + rest(m)
        /\ page(n) \in Nat /\ rest(n) \in Nat /\ n = size * page(n) + rest(n) /\ rest(n) < size
    BY <1>1
  <2> DEFINE a == size * page(n)
             b == size * page(m)
  <2>2. a \in Int /\ b \in Int
    BY <1>3, <2>1
  <2>3. page(n) < page(m) => a + size <= b
    BY <1>2, <2>1
  <2>4. m = b + rest(m) /\ n = a + rest(n)
    BY <2>1
  <2> HIDE DEF a, b
  <2> QED BY <1>5, <2>1, <2>2, <2>3, <2>4
<1>6. page(m) \in Nat
  BY <1>1
<1> QED BY <1>4, <1>5, <1>6 DEF page

\* The keys of the map, in some order: each once.
LEMMA OrderedOnce ==
  ASSUME Typed, NEW keys \in Orders(manager.lobbies)
  PROVE  LET n == Cardinality(manager.lobbies) IN
         /\ n \in Nat /\ Len(keys) = n /\ DOMAIN keys = 1..n
         /\ \A id \in manager.lobbies : \E i \in 1..n : keys[i] = id
         /\ \A i, j \in 1..n : keys[i] = keys[j] => i = j
<1> DEFINE n == Cardinality(manager.lobbies)
<1>1. manager.lobbies \subseteq Ids /\ LastId \in Nat
  BY LastIdAssumption DEF Typed
<1>2. IsFiniteSet(Ids)
  BY <1>1, FS_Interval DEF Ids
<1>3. IsFiniteSet(manager.lobbies) /\ n \in Nat
  BY <1>1, <1>2, FS_Subset, FS_CardinalityType
<1>4. keys \in [1..n -> manager.lobbies] /\ \A id \in manager.lobbies : \E i \in 1..n : keys[i] = id
  BY DEF Orders
<1> HIDE DEF n
<1>5. keys \in Seq(manager.lobbies)
  BY <1>3, <1>4, SeqDef
<1>6. Len(keys) \in Nat /\ DOMAIN keys = 1..Len(keys)
  BY <1>5, LenProperties
<1>7. DOMAIN keys = 1..n
  BY <1>4
<1>8. Len(keys) = n
  <2>1. 1..Len(keys) = 1..n
    BY <1>6, <1>7
  <2>2. ASSUME NEW k \in Nat PROVE Cardinality(1..k) = k
    BY FS_Interval
  <2> QED BY <1>3, <1>6, <2>1, <2>2
<1>9. IsFiniteSet(1..n) /\ Cardinality(1..n) = n
  BY <1>3, FS_Interval
<1>10. keys \in Surjection(1..n, manager.lobbies)
  BY <1>4 DEF Surjection
<1>11. keys \in Injection(1..n, manager.lobbies)
  BY <1>9, <1>10, FS_Surjection DEF n
<1>12. \A i, j \in 1..n : keys[i] = keys[j] => i = j
  BY <1>11 DEF Injection, IsInjective
<1> QED BY <1>3, <1>4, <1>7, <1>8, <1>12 DEF n

\* The places of the keys on a page.
LEMMA OnPage ==
  ASSUME NEW keys, NEW n \in Nat, Len(keys) = n, \A i, j \in 1..n : keys[i] = keys[j] => i = j,
         NEW k \in 1..n, NEW q \in Nat
  PROVE  LET ids == LobbyListAck(keys, q).roomIds
         IN  (\E i \in DOMAIN ids : ids[i] = keys[k]) <=> q = (k - 1) \div PageSize
<1> DEFINE offset == q * PageSize
           size == IF n < offset + PageSize THEN n - offset ELSE PageSize
           ids == LobbyListAck(keys, q).roomIds
<1>1. PageSize \in Nat \ {0} /\ offset \in Nat
  BY PageSizeAssumption
<1>2. ids = [i \in 1..size |-> keys[offset + i]]
  BY DEF LobbyListAck, LobbiesId
<1>3. k - 1 \in Nat
  OBVIOUS
<1>4. offset <= k - 1 /\ k - 1 < offset + PageSize <=> q = (k - 1) \div PageSize
  BY <1>1, <1>3, PageOf
<1>5. size \in Int /\ size <= PageSize /\ offset + size <= n
      /\ (n < offset + PageSize => offset + size = n) /\ (offset + PageSize <= n => size = PageSize)
  BY <1>1
<1> HIDE DEF ids, size, offset
<1>6. ASSUME NEW i \in DOMAIN ids, ids[i] = keys[k]
      PROVE  offset <= k - 1 /\ k - 1 < offset + PageSize
  <2>1. i \in 1..size /\ keys[offset + i] = keys[k]
    BY <1>2, <1>6
  <2>2. offset + i \in 1..n
    BY <1>1, <1>5, <2>1
  <2>3. offset + i = k
    BY <2>1, <2>2
  <2> QED BY <1>1, <1>5, <2>1, <2>3
<1>7. ASSUME offset <= k - 1, k - 1 < offset + PageSize
      PROVE  \E i \in DOMAIN ids : ids[i] = keys[k]
  <2>1. k - offset \in 1..size /\ offset + (k - offset) = k
    BY <1>1, <1>5, <1>7
  <2> QED BY <1>2, <2>1
<1>8. (\E i \in DOMAIN ids : ids[i] = keys[k]) <=> q = (k - 1) \div PageSize
  BY <1>4, <1>6, <1>7
<1> QED BY <1>8 DEF ids

(***************************************************************************)
(* A client that asks for one page after the other, as many as the answers *)
(* say there are, is told of every lobby, on one page: whatever the order  *)
(* of the keys, the size of the pages and the lobbies that were reaped.    *)
(***************************************************************************)
THEOREM EveryLobbyIsAlwaysListed == Spec => []EveryLobbyIsListed
<1>1. ASSUME Typed PROVE EveryLobbyIsListed
  <2> SUFFICES ASSUME NEW keys \in Orders(manager.lobbies), NEW id \in manager.lobbies
               PROVE  \E p \in 0..(LobbiesMaxPage - 1) : \A q \in 0..LobbiesMaxPage :
                        LET ids == LobbyListAck(keys, q).roomIds
                        IN  (\E i \in DOMAIN ids : ids[i] = id) <=> q = p
    BY DEF EveryLobbyIsListed
  <2> DEFINE n == Cardinality(manager.lobbies)
  <2>1. /\ n \in Nat /\ Len(keys) = n
        /\ \A i, j \in 1..n : keys[i] = keys[j] => i = j
        /\ \E i \in 1..n : keys[i] = id
    BY <1>1, OrderedOnce
  <2>2. LobbiesMaxPage = n \div PageSize + 1
    BY DEF LobbiesMaxPage
  <2> HIDE DEF n
  <2>3. PICK k \in 1..n : keys[k] = id
    BY <2>1
  <2> DEFINE p == (k - 1) \div PageSize
             last == n \div PageSize
  <2>4. p \in Nat /\ p <= last
    <3>1. k - 1 \in Nat /\ k - 1 <= n
      BY <2>1
    <3> QED BY <2>1, <3>1, PageOf, PageSizeAssumption
  <2>5. last \in Nat
    BY <2>1, PageOf, PageSizeAssumption
  <2>6. ASSUME NEW q \in Nat
        PROVE  LET ids == LobbyListAck(keys, q).roomIds
               IN  (\E i \in DOMAIN ids : ids[i] = id) <=> q = p
    BY <2>1, <2>3, OnPage
  <2> HIDE DEF p, last
  <2>7. LobbiesMaxPage = last + 1
    BY <2>2 DEF last
  <2>8. p \in 0..(LobbiesMaxPage - 1) /\ 0..LobbiesMaxPage \subseteq Nat
    BY <2>4, <2>5, <2>7
  <2> QED BY <2>6, <2>8
<1>2. IInv => EveryLobbyIsListed
  BY <1>1 DEF IInv
<1> QED BY <1>2, LobbiesInvariance, PTL
================================================================================
