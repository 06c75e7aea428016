-------------------------- MODULE ReplayWindowProofs --------------------------
(***************************************************************************)
(* Proofs about the replay protection, for every width of the bitfield,    *)
(* every bound on the history and every set of sequence ids.               *)
(***************************************************************************)
EXTENDS ReplayWindow, AckWindowProofs

(***************************************************************************)
(* The inductive invariant.  ReplayProtection needs nothing but WindowOK;  *)
(* NothingUnseenAcknowledged is not inductive, because an id in the        *)
(* history that the head has not passed by Width yet is not a duplicate    *)
(* today: it must speak of every id the window knows.                      *)
(***************************************************************************)
IInv ==
  /\ TypeOK
  /\ WindowOK(window)
  /\ ~window.received => accepted = {}
  /\ ReplayProtection
  /\ fullShift \/ Known(window) \subseteq accepted

------------------------------------------------------------------------------

\* IInv holds initially.
LEMMA InitIInv == Init => IInv
<1> SUFFICES ASSUME Init PROVE IInv
  OBVIOUS
<1>1. window \in Window /\ ~window.received /\ window.bits = {} /\ window.history = << >>
  BY DEF Init, EmptyWindow, Window
<1>2. Known(window) = {}
  BY <1>1 DEF Known, AcknowledgedIds, Range
<1> QED BY <1>1, <1>2 DEF Init, IInv, TypeOK, WindowOK, ReplayProtection

\* Processing a packet preserves IInv.
LEMMA AcceptIInv ==
  ASSUME IInv, NEW s \in SeqIds, Accept(s)
  PROVE  IInv'
<1>1. s \in Nat /\ WindowOK(window) /\ accepted \subseteq SeqIds
  BY SeqIdsAssumption DEF IInv, TypeOK
<1>2. Updated(window, s, window')
  BY <1>1, UpdateCorrect DEF Accept
<1>3. WindowOK(window') /\ window'.received /\ IsDuplicate(window', s)
  BY <1>2 DEF Updated
<1>4. TypeOK'
  <2>1. Range(window.history) \subseteq Nat
    BY <1>1, RangeOfSeq DEF WindowOK, Window
  <2>2. fullShift' \in BOOLEAN
    BY DEF Accept
  <2> QED BY <1>1, <1>3, <2>1, <2>2 DEF IInv, TypeOK, Accept, WindowOK
<1>5. ReplayProtection'
  <2> SUFFICES ASSUME NEW a \in (accepted \ evicted)' PROVE IsDuplicate(window', a)
    BY DEF ReplayProtection
  <2>1. CASE a = s
    BY <1>3, <2>1
  <2>2. CASE a # s
    <3>1. a \in accepted \ evicted /\ a \notin Range(window.history) \ Range(window'.history)
      BY <2>2 DEF Accept
    <3>2. a \in Nat /\ IsDuplicate(window, a)
      BY <1>1, <3>1, SeqIdsAssumption DEF IInv, ReplayProtection
    <3> QED BY <1>2, <3>1, <3>2 DEF Updated
  <2> QED BY <2>1, <2>2
<1>6. fullShift' \/ Known(window') \subseteq accepted'
  <2> SUFFICES ASSUME ~fullShift' PROVE Known(window') \subseteq accepted'
    OBVIOUS
  <2>1. ~fullShift /\ ~(window.received /\ s - window.ackId = Width)
    BY DEF Accept, IInv, TypeOK
  <2>2. Known(window) \subseteq accepted /\ Known(window') \subseteq Known(window) \cup {s}
    BY <1>2, <2>1 DEF IInv, Updated
  <2> QED BY <2>2 DEF Accept
<1>7. (WindowOK(window))' /\ (~window.received => accepted = {})'
  BY <1>3 DEF WindowOK, Window
<1>8. (fullShift \/ Known(window) \subseteq accepted)'
  BY <1>6 DEF Known, AcknowledgedIds, Range
<1> QED BY <1>4, <1>5, <1>7, <1>8 DEF IInv

(***************************************************************************)
(* IInv is an invariant of every receive window.                           *)
(***************************************************************************)
THEOREM Invariance == Spec => []IInv
<1>1. IInv /\ [Next]_vars => IInv'
  <2> SUFFICES ASSUME IInv, [Next]_vars PROVE IInv'
    OBVIOUS
  <2>1. ASSUME NEW s \in SeqIds, Accept(s) PROVE IInv'
    BY <2>1, AcceptIInv
  <2>2. CASE UNCHANGED vars
    BY <2>2 DEF vars, IInv, TypeOK, WindowOK, ReplayProtection, Known, AcknowledgedIds,
                IsDuplicate, InHistory, Range
  <2> QED BY <2>1, <2>2 DEF Next, Drop
<1> QED BY InitIInv, <1>1, PTL DEF Spec

\* Type correctness of the receive window, for every width and history bound.
THEOREM TypeCorrect == Spec => []TypeOK
<1>1. IInv => TypeOK
  BY DEF IInv
<1> QED BY Invariance, <1>1, PTL

(***************************************************************************)
(* At most once processing: a processed packet stays a duplicate until the *)
(* bounded history drops its id, whatever arrives in whatever order.       *)
(***************************************************************************)
THEOREM AtMostOnce == Spec => []ReplayProtection
<1>1. IInv => ReplayProtection
  BY DEF IInv
<1> QED BY Invariance, <1>1, PTL

(***************************************************************************)
(* As long as the head never moves by exactly Width, no packet that never  *)
(* arrived is dropped or acknowledged.                                     *)
(***************************************************************************)
THEOREM NoFalseAcknowledgement == Spec => []NothingUnseenAcknowledged
<1>1. IInv => NothingUnseenAcknowledged
  <2> SUFFICES ASSUME IInv, ~fullShift, NEW s \in SeqIds \ accepted
               PROVE  ~IsDuplicate(window, s) /\ s \notin AcknowledgedIds(window)
    BY DEF NothingUnseenAcknowledged
  <2>1. Known(window) \subseteq accepted /\ WindowOK(window) /\ s \in Nat
    BY SeqIdsAssumption DEF IInv
  <2>2. s \notin Known(window)
    BY <2>1
  <2> QED BY <2>1, <2>2, DuplicateIsKnown DEF Known
<1> QED BY Invariance, <1>1, PTL
==============================================================================
