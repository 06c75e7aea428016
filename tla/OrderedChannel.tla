---------------------------- MODULE OrderedChannel ----------------------------
(***************************************************************************)
(* What the kOrdered reliability promises to an application, whatever the  *)
(* network does: on each flow (a direction and a channel) the packets      *)
(* handed up are at all times a prefix of the packets submitted.  Nothing  *)
(* is lost from the middle, repeated, reordered or taken back, and a flow  *)
(* never waits for another one.                                            *)
(***************************************************************************)
EXTENDS Integers, Sequences

CONSTANTS Flows, Messages

VARIABLES
  submitted,   \* submitted[f]: the packets sent on f, in order
  delivered    \* delivered[f]: the packets handed up on f, in order

Init ==
  /\ submitted = [f \in Flows |-> << >>]
  /\ delivered = [f \in Flows |-> << >>]

Submit(f) ==
  /\ UNCHANGED delivered
  /\ \E m \in Messages : submitted' = [submitted EXCEPT ![f] = Append(@, m)]

\* A gap may close and hand up several packets at once.
Deliver(f) ==
  /\ UNCHANGED submitted
  /\ \E n \in (Len(delivered[f]) + 1)..Len(submitted[f]) :
       delivered' = [delivered EXCEPT ![f] = SubSeq(submitted[f], 1, n)]

Next == \E f \in Flows : Submit(f) \/ Deliver(f)

Spec == Init /\ [][Next]_<<submitted, delivered>>
==============================================================================
