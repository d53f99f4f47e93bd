--------------------------- MODULE MCInvestigations ---------------------------
(* An instance of Investigations.tla for TLC: a terminal and a service over  *)
(* one directory, two revisions, two interpreters.                           *)
EXTENDS Investigations, TLC

Profile(assembly, blocks, hidden, until) ==
  [assembly |-> assembly, observed |-> 1, from |-> 0, until |-> until,
   basis |-> [additive |-> blocks, excluded |-> hidden]]
Left == Profile("left", {{"a"}, {"b"}}, {}, 2)
Right == Profile("right", {{"c"}}, {"d"}, 2)
\* Beside a valid pair: one that shares a source, one that counts a source twice,
\* one observed after its profile ended.
MCInputs ==
  {<<Left, Right>>,
   <<Left, Profile("right", {{"a"}}, {}, 2)>>,
   <<Left, Profile("right", {{"c"}, {"c", "d"}}, {}, 2)>>,
   <<Left, Profile("right", {{"c"}}, {}, 1)>>}
MCInstalls == {[revision |-> 1, python |-> "a"], [revision |-> 1, python |-> "b"],
               [revision |-> 2, python |-> "a"]}

VARIABLE served       \* whether it is the tank's workspace that is served
allVars == <<vars, served>>

\* What clients of the tank's session ask, while nothing installed changes; or what becomes
\* of the tank, and of the circle and a session of it, while something does.
Surroundings ==
  IF served
  THEN /\ UNCHANGED world
       /\ \A c \in Commands : job'[c].lane # "circle"
       /\ \A c \in Services : job'[c].work # None => job'[c].work.selection = "whole"
  ELSE \A c \in Services : job'[c].lane # "tank"

ChosenInit == Init /\ served \in BOOLEAN
ChosenNext == Next /\ Surroundings /\ UNCHANGED served
ChosenSpec == ChosenInit /\ [][ChosenNext]_allVars

=============================================================================
