---------------------------- MODULE MCServiceFair ----------------------------
(* Instances of Service.tla for TLC under fairness: two viewports and a       *)
(* catalog that stays as it is, or one of them and a catalog that changes.     *)
EXTENDS Service, TLC

CONSTANT Stranger     \* the viewport that may stop reading, or never comes

VARIABLE together     \* whether it comes
allVars == <<vars, together>>

\* What the surroundings do: with two viewports nothing is committed, the process is not
\* started again, and no heartbeat comes due.
Surroundings ==
  IF together
  THEN /\ catalog' = 0 /\ selection'.session = 1
       /\ \A c \in Polling : ~Heartbeat(c)
  ELSE conn'[Stranger] = "closed"

ChosenInit == Init /\ together \in BOOLEAN
ChosenNext == Next /\ Surroundings /\ UNCHANGED together
ChosenSpec == ChosenInit /\ [][ChosenNext]_allVars /\ Fairness
=============================================================================
