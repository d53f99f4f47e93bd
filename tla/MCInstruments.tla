----------------------------- MODULE MCInstruments -----------------------------
(* Instances for TLC of four instruments that share no state: the project      *)
(* model, PLSR, the exchange and the machine manifest.  Each behaviour is of   *)
(* one of them, while the others stand still.                                  *)
EXTENDS Naturals

CONSTANTS
  Processes,     \* of the PLSR commands, and of the exchange's
  Machines,      \* that the manifests are about
  None

VARIABLES
  system,
  objects, edges, seen, context, events,               \* of the project model
  installed, models, runs, issued, evaluations,        \* of PLSR
  checkout, sessions, checks,                          \* of the exchange
  bundle, candidate, report, manifest, edits           \* of the machine manifest

projectVars == <<objects, edges, seen, context, events>>
plsrVars == <<installed, models, runs, issued, evaluations>>
exchangeVars == <<checkout, sessions, checks>>
manifestVars == <<bundle, candidate, report, manifest, edits>>
vars == <<system, projectVars, plsrVars, exchangeVars, manifestVars>>

-----------------------------------------------------------------------------
\* A project: a signal that is revised, a manual, which is evidence or no longer said to be,
\* and two results.
Signal(v) == [id |-> "signal", kind |-> "signal", content |-> v]
Manual(kind) == [id |-> "manual", kind |-> kind, content |-> 1]
Edge(relation, from, to, resolution) ==
  [relation |-> relation, from |-> from, to |-> to, resolution |-> resolution]
ModelEdges ==
  {Edge("computation", a, b, "resolved") : a \in {"signal", "r1", "r2"}, b \in {"r1", "r2"}}
  \cup {Edge("evidence", "manual", "r1", "resolved"), Edge("physical", "signal", "r1", "resolved"),
        Edge("physical", "motor", "signal", "unresolved")}
Bound(refs) == [place |-> [known |-> TRUE, refs |-> refs]]
ModelContexts == {<<>>, Bound({"manual"}), [place |-> [known |-> FALSE, refs |-> {}]]}

Project == INSTANCE ProjectModel WITH
  Declarations <- {Signal(1), Signal(2), Manual("evidence"), Manual("component")},
  Results <- {"r1", "r2"}, EdgeIds <- {"e1", "e2"}, Edges <- ModelEdges, Contexts <- ModelContexts,
  MaxPins <- 2, MaxHistory <- 6, MaxObjects <- 4, MaxEdges <- 2

\* PLSR: the outcome of the model m1 depends on what the engine computes with.
ModelOutcome(engine, model, sample) ==
  IF engine.pinned THEN (IF model = "m1" THEN engine.with ELSE 0) ELSE 9

Plsr == INSTANCE PLSR WITH
  Models <- {"m1", "m2"}, Samples <- {"x", "y"}, Names <- {"file"}, Dependencies <- {1, 2},
  Outcome <- ModelOutcome, MaxRuns <- 3, MaxResults <- 2, commands <- evaluations

\* The exchange: the figures for the first envelope depend on the Python that computes them.
ModelChecked(checker, python, source) ==
  IF checker # "pinned" THEN 9 ELSE IF source = "first" THEN python ELSE 0

Exchanged == INSTANCE Exchange WITH
  Sources <- {"first", "second"}, Trees <- {"tree"}, Pythons <- {1, 2}, Checked <- ModelChecked,
  MaxSessions <- 3, Pin <- "pinned", Other <- "other", commands <- checks

\* A machine: its firmware in two revisions, and its homing, established or not.
Bytes(about, says) == [about |-> about, says |-> says]
ModelContents ==
  {Bytes("firmware", "v1"), Bytes("firmware", "v2"), Bytes("homing", "established"), Bytes("homing", "lost")}

Manifest == INSTANCE MachineManifest WITH
  Contents <- ModelContents, Claims <- {"firmware", "homing"}, MaxEdits <- 2

-----------------------------------------------------------------------------
\* Who is not there has done nothing.
Init ==
  /\ system \in {"project", "plsr", "exchange", "manifest"}
  /\ Project!Init /\ (system # "project" => context = <<>>)
  /\ IF system = "plsr" THEN Plsr!Init
     ELSE installed = None /\ models = <<>> /\ runs = {} /\ issued = 0 /\ evaluations = <<>>
  /\ IF system = "exchange" THEN Exchanged!Init
     ELSE checkout = None /\ sessions = {} /\ checks = <<>>
  /\ IF system = "manifest" THEN Manifest!Init
     ELSE bundle = None /\ candidate = None /\ report = None /\ manifest = None /\ edits = 0

\* A project whose history is full stays as it is.
Full == events = 6 /\ UNCHANGED projectVars

Next ==
  /\ UNCHANGED system
  /\ \/ /\ system = "project" /\ (Project!Next \/ Full)
        /\ UNCHANGED <<plsrVars, exchangeVars, manifestVars>>
     \/ /\ system = "plsr" /\ Plsr!Next
        /\ UNCHANGED <<projectVars, exchangeVars, manifestVars>>
     \/ /\ system = "exchange" /\ Exchanged!Next
        /\ UNCHANGED <<projectVars, plsrVars, manifestVars>>
     \/ /\ system = "manifest" /\ Manifest!Next
        /\ UNCHANGED <<projectVars, plsrVars, exchangeVars>>

Spec == Init /\ [][Next]_vars

-----------------------------------------------------------------------------
(* The properties of the four; each is stated in the module of its system.   *)

\* Of the project model: a result is shown as current exactly while its derivation is.
StaleExactly == system = "project" => Project!StaleExactly


\* Of the exchange: nothing put together from several sessions is accepted.
AcceptedOfOneSession == system = "exchange" => Exchanged!AcceptedOfOneSession

\* Of the machine manifest: accepted claims are what retained bytes of the machine say.
AcceptedSupported == system = "manifest" => Manifest!AcceptedSupported

=============================================================================
