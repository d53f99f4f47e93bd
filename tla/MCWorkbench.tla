----------------------------- MODULE MCWorkbench -----------------------------
(* Instances of Workbench.tla for TLC: a process recording whose bundles a   *)
(* design consumes and a candidate action may inspect, an instrument         *)
(* exchange, and two energy logs that name one capture run but differ in     *)
(* content.                                                                  *)
EXTENDS Workbench, TLC

CONSTANTS process, design, exchange, energy1, energy2

MCKind == [s \in Sources |->
  CASE s = process -> "observable" [] s = design -> "design" [] s = exchange -> "exchange" [] OTHER -> "energy"]
MCUpstreamKind == [k \in Kinds |-> IF k = "design" THEN "observable" ELSE None]
MCRun == [s \in Sources |-> IF MCKind[s] = "energy" THEN "run" ELSE None]
MCLog == [s \in Sources |->
  CASE s = energy1 -> "log1" [] s = energy2 -> "log2" [] OTHER -> None]
MCSourceSize == [s \in Sources |-> 1]
MCLimit == [k \in Kinds |-> 1]
MCSizes == [k \in Kinds |-> {1, 2}]
\* exchange_adapter._validate bounds the source but not the bundle.
LargeSizes == [k \in Kinds |->
  CASE k = "exchange" -> {MaxBytes} [] k = "energy" -> {1} [] OTHER -> {1, 2}]
ExchangeSizes == [k \in Kinds |-> IF k = "exchange" THEN {1, 4} ELSE {1, 2}]

\* Which instances are those whose records fit their reservations.
ASSUME RecordsFit <=> "exchange" \notin Kinds

Symmetric == Permutations(Ids) \cup Permutations(Threads)
=============================================================================
