----------------------------- MODULE FileRegister -----------------------------
(***************************************************************************)
(* What a reader of the files of src/ciw may rely on: under a name there is  *)
(* nothing or one whole document, whatever writers are at, and after a power *)
(* failure again one that was there.                                         *)
(***************************************************************************)
CONSTANTS Names, Documents, None

VARIABLES
  shown,     \* what a reader finds under each name
  lasting    \* what a power failure leaves there

vars == <<shown, lasting>>

Init ==
  /\ shown = [n \in Names |-> None]
  /\ lasting = [n \in Names |-> None]

Put(n, d) == shown' = [shown EXCEPT ![n] = d] /\ UNCHANGED lasting

Last(n) == lasting' = [lasting EXCEPT ![n] = shown[n]] /\ UNCHANGED shown

PowerFailure == shown' = lasting /\ UNCHANGED lasting

Next ==
  \/ \E n \in Names : Last(n) \/ \E d \in Documents : Put(n, d)
  \/ PowerFailure

Spec == Init /\ [][Next]_vars
=============================================================================
