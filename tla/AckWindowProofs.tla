--------------------------- MODULE AckWindowProofs ---------------------------
(***************************************************************************)
(* Lemmas about the receive window, for every width of the bitfield and    *)
(* every bound on the history: what updateAcknowledgeInfo does to what the *)
(* window knows.                                                           *)
(***************************************************************************)
EXTENDS AckWindow, TLAPS, SequenceTheorems, FiniteSetTheorems

(***************************************************************************)
(* Every id the window remembers, whether as a bit, as the head or in the  *)
(* history.                                                                *)
(***************************************************************************)
Known(w) == AcknowledgedIds(w) \cup Range(w.history)

\* A window the session can be in: no bit stands for an id below 0.
WindowOK(w) ==
  /\ w \in Window
  /\ \A d \in w.bits : d <= w.ackId
  /\ ~w.received => w.bits = {} /\ w.history = << >>

------------------------------------------------------------------------------

\* The ids that fall out of the field form a finite set of naturals.
LEMMA FallenIdsFinite ==
  ASSUME NEW w, WindowOK(w), NEW shift \in Nat
  PROVE  /\ FallenIds(w, shift) \subseteq Nat /\ IsFiniteSet(FallenIds(w, shift))
         /\ FallenIds(w, shift) \subseteq 0..w.ackId
<1>1. FallenIds(w, shift) \subseteq 0..w.ackId /\ w.ackId \in Nat
  BY WidthAssumption DEF WindowOK, Window, FallenIds
<1>2. IsFiniteSet(0..w.ackId)
  BY <1>1, FS_Interval
<1>3. IsFiniteSet(FallenIds(w, shift))
  BY <1>1, <1>2, FS_Subset
<1> QED BY <1>1, <1>3

\* A listing of a finite set of ids is a sequence whose range is that set.
LEMMA DescendingRange ==
  ASSUME NEW ids \in SUBSET Nat, IsFiniteSet(ids), NEW list \in Descending(ids)
  PROVE  list \in Seq(Nat) /\ Range(list) = ids
<1>1. Cardinality(ids) \in Nat
  BY FS_CardinalityType
<1>2. /\ list \in [1..Cardinality(ids) -> ids]
      /\ \A t \in ids : \E i \in 1..Cardinality(ids) : list[i] = t
  BY DEF Descending, Bijection, Surjection, Injection
<1>3. list \in Seq(ids)
  BY <1>1, <1>2
<1>4. list \in Seq(Nat)
  BY <1>3, SeqMonotonic
<1>5. Range(list) = ids
  BY <1>2 DEF Range
<1> QED BY <1>4, <1>5

\* The range of a sequence after push_back.
LEMMA AppendRange ==
  ASSUME NEW h \in Seq(Nat), NEW s \in Nat
  PROVE  Append(h, s) \in Seq(Nat) /\ Range(Append(h, s)) = Range(h) \cup {s}
<1>1. /\ Append(h, s) \in Seq(Nat)
      /\ Append(h, s)[Len(h) + 1] = s
      /\ \A i \in 1..Len(h) : Append(h, s)[i] = h[i]
      /\ Len(h) \in Nat
      /\ DOMAIN Append(h, s) = 1..(Len(h) + 1)
      /\ DOMAIN h = 1..Len(h)
  BY AppendProperties, LenProperties
<1> QED BY <1>1 DEF Range

\* push_back after the eviction rule: the new id is in, and only the oldest may be out.
LEMMA PushOldRange ==
  ASSUME NEW h \in Seq(Nat), NEW s \in Nat
  PROVE  /\ PushOld(h, s) \in Seq(Nat)
         /\ s \in Range(PushOld(h, s))
         /\ Range(PushOld(h, s)) \subseteq Range(h) \cup {s}
<1> DEFINE longer == Append(h, s)
<1>1. /\ longer \in Seq(Nat)
      /\ Len(longer) = Len(h) + 1
      /\ longer[Len(h) + 1] = s
      /\ \A i \in 1..Len(h) : longer[i] = h[i]
      /\ Len(h) \in Nat
      /\ DOMAIN longer = 1..(Len(h) + 1)
      /\ DOMAIN h = 1..Len(h)
  BY AppendProperties, LenProperties
<1>2. Range(longer) = Range(h) \cup {s}
  BY <1>1 DEF Range
<1>3. CASE Len(longer) > MaxHistory
  <2>1. Len(h) \in Nat \ {0}
    BY <1>1, <1>3, MaxHistoryAssumption
  <2>2. /\ Tail(longer) \in Seq(Nat)
        /\ Len(Tail(longer)) = Len(h)
        /\ \A i \in 1..Len(h) : Tail(longer)[i] = longer[i + 1]
    BY <1>1, <2>1, HeadTailProperties
  <2>3. DOMAIN Tail(longer) = 1..Len(h)
    BY <2>2, LenProperties
  <2>4. Range(Tail(longer)) \subseteq Range(longer)
    BY <1>1, <2>2, <2>3 DEF Range
  <2>5. Tail(longer)[Len(h)] = s
    BY <1>1, <2>1, <2>2
  <2>6. s \in Range(Tail(longer))
    <3>1. Len(h) \in DOMAIN Tail(longer)
      BY <2>1, <2>3
    <3> HIDE DEF longer
    <3> QED BY <3>1, <2>5 DEF Range
  <2> QED BY <1>2, <1>3, <2>2, <2>4, <2>6 DEF PushOld
<1>4. CASE ~(Len(longer) > MaxHistory)
  BY <1>1, <1>2, <1>4 DEF PushOld
<1> QED BY <1>3, <1>4

(***************************************************************************)
(* What updateAcknowledgeInfo does to a window when a packet that is not a *)
(* duplicate arrives: the id becomes a duplicate, every duplicate stays    *)
(* one unless the history dropped it, and nothing else becomes known       *)
(* unless the head moved by exactly Width.                                 *)
(***************************************************************************)
Updated(w, s, v) ==
  /\ WindowOK(v)
  /\ v.received
  /\ IsDuplicate(v, s)
  /\ \A a \in Nat : IsDuplicate(w, a) =>
       IsDuplicate(v, a) \/ a \in Range(w.history) \ Range(v.history)
  /\ \/ w.received /\ s - w.ackId = Width
     \/ Known(v) \subseteq Known(w) \cup {s}
  /\ v.ackId \in {w.ackId, s}
  /\ Range(v.history) \subseteq Range(w.history) \cup (0..w.ackId) \cup {s}

\* The head moves further than the window is wide.
LEMMA SlideFar ==
  ASSUME NEW w, WindowOK(w), w.received, NEW s \in Nat, s > w.ackId + Width,
         NEW v \in UpdateAcknowledgeInfo(w, s)
  PROVE  Updated(w, s, v)
<1> DEFINE shift == s - w.ackId
<1>1. /\ w.ackId \in Nat /\ w.bits \subseteq 1..Width /\ w.history \in Seq(Nat)
      /\ Width \in Nat \ {0} /\ shift \in Nat /\ shift > Width /\ s > w.ackId
      /\ w \in Window
  BY WidthAssumption DEF WindowOK, Window
<1>2. PICK list \in Descending(FallenIds(w, shift)) :
        v = [w EXCEPT !.ackId = s, !.bits = {}, !.history = Append(w.history \o list, w.ackId)]
  <2>1. v \in SlideBeyond(w, s)
    BY <1>1 DEF UpdateAcknowledgeInfo
  <2> QED BY <2>1 DEF SlideBeyond
<1>3. FallenIds(w, shift) = {w.ackId - d : d \in w.bits}
  BY <1>1 DEF FallenIds
<1>4. list \in Seq(Nat) /\ Range(list) = {w.ackId - d : d \in w.bits}
  BY <1>1, <1>3, FallenIdsFinite, DescendingRange
<1>5. w.history \o list \in Seq(Nat) /\ Range(w.history \o list) = Range(w.history) \cup Range(list)
  BY <1>1, <1>4, RangeConcatenation, ConcatProperties
<1>6. /\ v.history \in Seq(Nat)
      /\ Range(v.history) = Range(w.history) \cup Range(list) \cup {w.ackId}
  BY <1>1, <1>2, <1>5, AppendRange DEF Window
<1>7. v.received /\ v.ackId = s /\ v.bits = {} /\ v \in Window
  BY <1>1, <1>2, <1>6 DEF Window
<1>8. WindowOK(v)
  BY <1>7 DEF WindowOK
<1>9. IsDuplicate(v, s)
  BY <1>7 DEF IsDuplicate
<1>10. ASSUME NEW a \in Nat, IsDuplicate(w, a) PROVE IsDuplicate(v, a)
  <2>1. a <= w.ackId
    BY <1>1, <1>10 DEF IsDuplicate
  <2>2. a \in Range(v.history)
    BY <1>1, <1>4, <1>6, <1>10, <2>1 DEF IsDuplicate, InHistory
  <2> QED BY <1>1, <1>7, <2>1, <2>2 DEF IsDuplicate, InHistory
<1>11. Known(v) \subseteq Known(w) \cup {s}
  BY <1>4, <1>6, <1>7 DEF Known, AcknowledgedIds
<1>12. Range(v.history) \subseteq Range(w.history) \cup (0..w.ackId) \cup {s}
  <2>1. Range(list) \subseteq 0..w.ackId /\ w.ackId \in 0..w.ackId
    BY <1>1, <1>3, <1>4, FallenIdsFinite
  <2> QED BY <1>6, <2>1
<1> QED BY <1>7, <1>8, <1>9, <1>10, <1>11, <1>12 DEF Updated

\* The head moves within the window.
LEMMA SlideNear ==
  ASSUME NEW w, WindowOK(w), w.received, NEW s \in Nat,
         s > w.ackId, s <= w.ackId + Width,
         NEW v \in UpdateAcknowledgeInfo(w, s)
  PROVE  Updated(w, s, v)
<1> DEFINE shift == s - w.ackId
<1>1. /\ w.ackId \in Nat /\ w.bits \subseteq 1..Width /\ w.history \in Seq(Nat)
      /\ Width \in Nat \ {0} /\ shift \in 1..Width
      /\ s = w.ackId + shift
      /\ w \in Window
  BY WidthAssumption DEF WindowOK, Window
<1>2. PICK bits \in ShiftLeft(w.bits, shift), list \in Descending(FallenIds(w, shift)) :
        v = [w EXCEPT !.ackId = s, !.bits = bits \cup {shift}, !.history = w.history \o list]
  <2>1. v \in SlideWithin(w, s)
    BY <1>1 DEF UpdateAcknowledgeInfo
  <2>2. PICK pair \in ShiftLeft(w.bits, shift) \X Descending(FallenIds(w, shift)) :
          v = [w EXCEPT !.ackId = s, !.bits = pair[1] \cup {shift},
                        !.history = w.history \o pair[2]]
    BY <2>1 DEF SlideWithin
  <2> QED BY <2>2
<1> HIDE DEF shift
<1>3. list \in Seq(Nat) /\ Range(list) = FallenIds(w, shift)
  BY <1>1, FallenIdsFinite, DescendingRange
<1>4. /\ w.history \o list \in Seq(Nat)
      /\ Range(w.history \o list) = Range(w.history) \cup FallenIds(w, shift)
  BY <1>1, <1>3, RangeConcatenation, ConcatProperties
<1>5. bits \subseteq 1..Width /\ \A d \in bits : d <= s
  BY <1>1 DEF ShiftLeft, WindowOK
<1>6. v.received /\ v.ackId = s /\ v.bits = bits \cup {shift} /\ v \in Window
  BY <1>1, <1>2, <1>4, <1>5 DEF Window, shift
<1>7. Range(v.history) = Range(w.history) \cup FallenIds(w, shift)
  BY <1>1, <1>2, <1>4 DEF Window
<1>8. WindowOK(v)
  <2>1. shift <= s
    BY <1>1
  <2> QED BY <1>5, <1>6, <2>1 DEF WindowOK
<1>9. IsDuplicate(v, s)
  BY <1>6 DEF IsDuplicate
<1>10. ASSUME NEW a \in Nat, IsDuplicate(w, a) PROVE IsDuplicate(v, a)
  <2>1. a <= w.ackId /\ a < s /\ s - a = shift + (w.ackId - a)
    BY <1>1, <1>10 DEF IsDuplicate
  <2>2. CASE a = w.ackId
    BY <1>1, <1>6, <2>1, <2>2 DEF IsDuplicate
  <2>3. CASE a < w.ackId /\ w.ackId - a \in w.bits /\ s - a <= Width
    <3>1. shift < Width
      BY <1>1, <2>1, <2>3
    <3>2. bits = {d + shift : d \in {e \in w.bits : e + shift <= Width}}
      BY <3>1 DEF ShiftLeft
    <3>3. (w.ackId - a) + shift \in bits
      BY <1>1, <2>1, <2>3, <3>2
    <3>4. s - a \in bits
      BY <1>1, <2>1, <3>3
    <3> QED BY <1>6, <2>1, <2>3, <3>4 DEF IsDuplicate
  <2>4. CASE a < w.ackId /\ w.ackId - a \in w.bits /\ s - a > Width
    <3>1. (w.ackId - a) + shift > Width /\ a = w.ackId - (w.ackId - a)
      <4> w.ackId \in Int /\ s \in Int /\ a \in Int /\ shift \in Int
        BY <1>1
      <4> QED BY <2>1, <2>4
    <3>2. a \in FallenIds(w, shift)
      BY <2>4, <3>1 DEF FallenIds
    <3> QED BY <1>6, <1>7, <2>1, <2>4, <3>2 DEF IsDuplicate, InHistory
  <2>5. CASE a < w.ackId /\ w.ackId - a > Width /\ InHistory(w, a)
    <3>1. s - a > Width
      BY <1>1, <2>1, <2>5
    <3> QED BY <1>6, <1>7, <2>1, <2>5, <3>1 DEF IsDuplicate, InHistory
  <2> QED BY <1>1, <1>10, <2>1, <2>2, <2>3, <2>4, <2>5 DEF IsDuplicate
<1>11. /\ v.ackId \in {w.ackId, s}
      /\ Range(v.history) \subseteq Range(w.history) \cup (0..w.ackId) \cup {s}
  <2>1. FallenIds(w, shift) \subseteq 0..w.ackId
    BY <1>1, FallenIdsFinite
  <2> QED BY <1>6, <1>7, <2>1
<1>12. CASE shift # Width
  <2>1. \A d \in bits : d - shift \in w.bits
    BY <1>1, <1>12 DEF ShiftLeft
  <2>2. \A d \in bits : s - d = w.ackId - (d - shift)
    BY <1>1, <1>5
  <2>3. \A d \in v.bits : s - d \in Known(w)
    <3> SUFFICES ASSUME NEW d \in v.bits PROVE s - d \in Known(w)
      OBVIOUS
    <3>1. CASE d = shift
      <4>1. s - d = w.ackId
        BY <1>1, <3>1
      <4> QED BY <4>1 DEF Known, AcknowledgedIds
    <3>2. CASE d \in bits
      BY <2>1, <2>2, <3>2 DEF Known, AcknowledgedIds
    <3> QED BY <1>6, <3>1, <3>2
  <2>4. FallenIds(w, shift) \subseteq Known(w)
    BY DEF FallenIds, Known, AcknowledgedIds
  <2>5. Known(v) \subseteq Known(w) \cup {s}
    BY <1>6, <1>7, <2>3, <2>4 DEF Known, AcknowledgedIds
  <2> QED BY <1>6, <1>8, <1>9, <1>10, <1>11, <2>5 DEF Updated
<1>13. CASE shift = Width
  BY <1>1, <1>6, <1>8, <1>9, <1>10, <1>13, <1>11 DEF Updated
<1> QED BY <1>12, <1>13

\* The first packet of the peer.
LEMMA FirstPacket ==
  ASSUME NEW w, WindowOK(w), ~w.received, NEW s \in Nat,
         NEW v \in UpdateAcknowledgeInfo(w, s)
  PROVE  Updated(w, s, v)
<1>1. v = [w EXCEPT !.received = TRUE, !.ackId = s]
  BY DEF UpdateAcknowledgeInfo
<1>2. v.received /\ v.ackId = s /\ v.bits = {} /\ v.history = << >> /\ v \in Window
  BY <1>1 DEF WindowOK, Window
<1>3. WindowOK(v)
  BY <1>2 DEF WindowOK
<1>4. Known(v) \subseteq Known(w) \cup {s}
  BY <1>2 DEF Known, AcknowledgedIds, Range
<1>5. Range(v.history) = {} /\ v.ackId = s
  BY <1>2 DEF Range
<1> QED BY <1>2, <1>3, <1>4, <1>5 DEF Updated, IsDuplicate

\* An older packet whose bit is still in the field.
LEMMA InsideWindow ==
  ASSUME NEW w, WindowOK(w), w.received, NEW s \in Nat,
         s < w.ackId, w.ackId - s <= Width,
         NEW v \in UpdateAcknowledgeInfo(w, s)
  PROVE  Updated(w, s, v)
<1>1. /\ w.ackId \in Nat /\ w.bits \subseteq 1..Width /\ w.history \in Seq(Nat)
      /\ Width \in Nat /\ w \in Window
      /\ w.ackId - s \in 1..Width /\ w.ackId - (w.ackId - s) = s /\ w.ackId - s <= w.ackId
  <2>1. /\ w.ackId \in Nat /\ w.bits \subseteq 1..Width /\ w.history \in Seq(Nat)
        /\ Width \in Nat /\ w \in Window
    BY WidthAssumption DEF WindowOK, Window
  <2> QED BY <2>1
<1>2. v = [w EXCEPT !.bits = w.bits \cup {w.ackId - s}]
  BY <1>1 DEF UpdateAcknowledgeInfo
<1>3. /\ v.received /\ v.ackId = w.ackId /\ v.bits = w.bits \cup {w.ackId - s}
      /\ v.history = w.history /\ v \in Window
  BY <1>1, <1>2 DEF Window
<1>4. WindowOK(v)
  BY <1>1, <1>3 DEF WindowOK
<1>5. IsDuplicate(v, s)
  BY <1>3 DEF IsDuplicate
<1>6. \A a \in Nat : IsDuplicate(w, a) => IsDuplicate(v, a)
  BY <1>3 DEF IsDuplicate, InHistory
<1>7. Known(v) \subseteq Known(w) \cup {s}
  BY <1>1, <1>3 DEF Known, AcknowledgedIds
<1> QED BY <1>3, <1>4, <1>5, <1>6, <1>7 DEF Updated

\* A packet too old for the field.
LEMMA OutOfWindow ==
  ASSUME NEW w, WindowOK(w), w.received, NEW s \in Nat,
         s < w.ackId, w.ackId - s > Width, ~InHistory(w, s),
         NEW v \in UpdateAcknowledgeInfo(w, s)
  PROVE  Updated(w, s, v)
<1>1. w.ackId \in Nat /\ w.history \in Seq(Nat) /\ Width \in Nat /\ w \in Window
  BY WidthAssumption DEF WindowOK, Window
<1>2. v = [w EXCEPT !.history = PushOld(w.history, s)]
  BY <1>1 DEF UpdateAcknowledgeInfo
<1>3. /\ v.received /\ v.ackId = w.ackId /\ v.bits = w.bits
      /\ v.history = PushOld(w.history, s) /\ v \in Window
  BY <1>1, <1>2, PushOldRange DEF Window
<1>4. s \in Range(v.history) /\ Range(v.history) \subseteq Range(w.history) \cup {s}
  BY <1>1, <1>3, PushOldRange
<1>5. WindowOK(v)
  BY <1>3 DEF WindowOK
<1>6. IsDuplicate(v, s)
  BY <1>3, <1>4 DEF IsDuplicate, InHistory
<1>7. \A a \in Nat : IsDuplicate(w, a) =>
        IsDuplicate(v, a) \/ a \in Range(w.history) \ Range(v.history)
  BY <1>3 DEF IsDuplicate, InHistory
<1>8. Known(v) \subseteq Known(w) \cup {s}
  BY <1>3, <1>4 DEF Known, AcknowledgedIds
<1>9. v.ackId \in {w.ackId, s}
        /\ Range(v.history) \subseteq Range(w.history) \cup (0..w.ackId) \cup {s}
  BY <1>3, <1>4
<1> QED BY <1>3, <1>5, <1>6, <1>7, <1>8, <1>9 DEF Updated

(***************************************************************************)
(* updateAcknowledgeInfo, whatever branch it takes.                        *)
(***************************************************************************)
THEOREM UpdateCorrect ==
  ASSUME NEW w, WindowOK(w), NEW s \in Nat, ~IsDuplicate(w, s),
         NEW v \in UpdateAcknowledgeInfo(w, s)
  PROVE  Updated(w, s, v)
<1>1. w.ackId \in Nat /\ Width \in Nat
  BY WidthAssumption DEF WindowOK, Window
<1>2. CASE ~w.received
  BY <1>2, FirstPacket
<1>3. CASE w.received /\ s > w.ackId + Width
  BY <1>3, SlideFar
<1>4. CASE w.received /\ s > w.ackId /\ s <= w.ackId + Width
  BY <1>4, SlideNear
<1>5. CASE w.received /\ s < w.ackId /\ w.ackId - s <= Width
  BY <1>5, InsideWindow
<1>6. CASE w.received /\ s < w.ackId /\ w.ackId - s > Width
  <2>1. ~InHistory(w, s)
    BY <1>6 DEF IsDuplicate
  <2> QED BY <1>6, <2>1, OutOfWindow
<1>7. ~(w.received /\ s = w.ackId)
  BY DEF IsDuplicate
<1> QED BY <1>1, <1>2, <1>3, <1>4, <1>5, <1>6, <1>7

\* A duplicate is an id the window knows.
LEMMA DuplicateIsKnown ==
  ASSUME NEW w, WindowOK(w), NEW s \in Nat, IsDuplicate(w, s)
  PROVE  s \in Known(w)
<1>1. w.ackId \in Nat
  BY DEF WindowOK, Window
<1>2. CASE s = w.ackId \/ InHistory(w, s)
  BY <1>2 DEF IsDuplicate, Known, AcknowledgedIds, InHistory
<1>3. CASE w.ackId - s \in w.bits
  <2>1. s = w.ackId - (w.ackId - s)
    BY <1>1
  <2> QED BY <1>3, <2>1 DEF IsDuplicate, Known, AcknowledgedIds
<1> QED BY <1>2, <1>3 DEF IsDuplicate
==============================================================================
