----------------------------- MODULE ReplayWindow -----------------------------
(***************************************************************************)
(* Session::handleIncoming seen through its replay protection alone: any   *)
(* id may arrive at any time, again and again and in any order, as UDP     *)
(* allows.  A duplicate is dropped; any other packet updates the window    *)
(* and is processed.                                                       *)
(***************************************************************************)
EXTENDS AckWindow

CONSTANT SeqIds   (* The sequence ids the peer uses.                       *)

ASSUME SeqIdsAssumption == SeqIds \subseteq Nat

VARIABLES
  window,       \* the receive window of the session
  accepted,     \* history variable: ids processed at least once
  evicted,      \* history variable: ids the bounded history dropped since
  fullShift     \* history variable: the head once moved by exactly Width

vars == <<window, accepted, evicted, fullShift>>

Init ==
  /\ window = EmptyWindow
  /\ accepted = {}
  /\ evicted = {}
  /\ fullShift = FALSE

Accept(s) ==
  /\ ~IsDuplicate(window, s)
  /\ window' \in UpdateAcknowledgeInfo(window, s)
  /\ accepted' = accepted \cup {s}
  /\ evicted' = (evicted \cup (Range(window.history) \ Range(window'.history))) \ {s}
  /\ fullShift' = (fullShift \/ (window.received /\ s - window.ackId = Width))

Drop(s) ==
  /\ IsDuplicate(window, s)
  /\ UNCHANGED vars

Next == \E s \in SeqIds : Accept(s) \/ Drop(s)

Spec == Init /\ [][Next]_vars

------------------------------------------------------------------------------

(***************************************************************************)
(* The window keeps the shape the code gives it: a head, a bitfield of     *)
(* Width bits below it, and a history without bounds of its own on ids     *)
(* (updateAcknowledgeInfo).                                                *)
(***************************************************************************)
TypeOK ==
  /\ window \in Window
  /\ accepted \subseteq SeqIds
  /\ evicted \subseteq Nat
  /\ fullShift \in BOOLEAN

(***************************************************************************)
(* At most once: a packet that was processed is recognised as a duplicate  *)
(* for ever after, except once the bounded history has dropped its id      *)
(* (isDuplicate, updateAcknowledgeInfo: bits must move to the history in   *)
(* the step in which they leave the field).                                *)
(***************************************************************************)
ReplayProtection == \A s \in accepted \ evicted : IsDuplicate(window, s)

(***************************************************************************)
(* No false duplicate: as long as the head never moved by exactly Width, a *)
(* packet that never arrived is neither dropped by isDuplicate nor         *)
(* acknowledged to its sender by the header rawSend builds.                *)
(***************************************************************************)
NothingUnseenAcknowledged ==
  fullShift \/ \A s \in SeqIds \ accepted :
                 ~IsDuplicate(window, s) /\ s \notin AcknowledgedIds(window)

(***************************************************************************)
(* What the comment of isDuplicate promises without any exception: it      *)
(* answers true only for "a packet [that] has already been received".      *)
(***************************************************************************)
DuplicateMeansReceived == \A s \in SeqIds : IsDuplicate(window, s) => s \in accepted
==============================================================================
