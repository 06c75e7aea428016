------------------------------ MODULE Replica ------------------------------
(***************************************************************************)
(* What a client may be shown of the entities of its lobby: only entities  *)
(* that were created, and each for as long as it lives once it is shown.   *)
(* An entity that is dead may be shown for ever, or be shown again: the    *)
(* server does not promise that every DESTROY arrives, nor that it comes   *)
(* last.  An entity that is gone never comes back, nor does its id.        *)
(***************************************************************************)
EXTENDS Naturals

VARIABLES
  created,   \* the entities that ever were, each a new number
  alive,     \* those that the lobby has
  shown      \* those that the client has

Init == created = {} /\ alive = {} /\ shown = {}

\* The lobby destroys entities and creates others.
Change ==
  /\ created \subseteq created'
  /\ alive' \ alive = created' \ created
  /\ UNCHANGED shown

Show ==
  /\ shown' \subseteq created
  /\ shown \subseteq shown'
  /\ UNCHANGED <<created, alive>>

Hide ==
  /\ shown' \subseteq shown
  /\ (shown \ shown') \cap alive = {}
  /\ UNCHANGED <<created, alive>>

Spec == Init /\ [][Change \/ Show \/ Hide]_<<created, alive, shown>>
=============================================================================
