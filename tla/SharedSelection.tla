---------------------------- MODULE SharedSelection ----------------------------
(***************************************************************************)
(* What the service and its viewports promise together about the selection  *)
(* they share: in one session it moves by one revision at a time, each      *)
(* revision is one client's, and every viewport sees revisions of a session  *)
(* in increasing order.  Nothing here knows of channels, locks, threads or   *)
(* connections: Service.tla has those, and implements this module.          *)
(***************************************************************************)
EXTENDS Integers

CONSTANTS
  Clients,    \* the viewports
  None        \* a viewport that has seen nothing; also the initial author

VARIABLES
  published,  \* every selection that was current, with its session and author
  view        \* what each viewport shows, or None

vars == <<published, view>>

Newer(s, old) ==
  \/ old = None
  \/ s.session > old.session
  \/ s.session = old.session /\ s.revision > old.revision

\* The selection of the session that is served last.
Latest == CHOOSE s \in published : \A other \in published \ {s} : Newer(s, other)

Init ==
  /\ published = {[session |-> 1, revision |-> 0, by |-> None]}
  /\ view = [c \in Clients |-> None]

\* A client's update follows the current selection.
Publish(c) ==
  /\ published' = published \cup
       {[session |-> Latest.session, revision |-> Latest.revision + 1, by |-> c]}
  /\ UNCHANGED view

\* A new process serves a selection that was once current.
Restart ==
  /\ \E s \in published :
       /\ s.session = Latest.session
       /\ published' = published \cup {[s EXCEPT !.session = @ + 1]}
  /\ UNCHANGED view

\* A viewport moves on, possibly past some revisions, never back.
Observe(c) ==
  /\ view'[c] \in published /\ Newer(view'[c], view[c])
  /\ view' = [view EXCEPT ![c] = view'[c]]
  /\ UNCHANGED published

Next == Restart \/ \E c \in Clients : Publish(c) \/ Observe(c)

Spec == Init /\ [][Next]_vars
=============================================================================
