-------------------------------- MODULE Ledger --------------------------------
(***************************************************************************)
(* What src/ciw/session.py promises about the analyses and operations of a   *)
(* recording: results and executions are appended whole - a completed        *)
(* operation's execution together with its result - and a saved workspace is *)
(* a copy of both.  Nothing here knows of threads, locks, files or limits:   *)
(* Session.tla has those, and implements this module.                        *)
(***************************************************************************)
VARIABLES
  results,     \* retained results
  executions,  \* retained executions
  saved,       \* the results and executions of workspace.json, or None
  up           \* a process is serving the session

CONSTANT None  \* Python's None

vars == <<results, executions, saved, up>>

\* The execution and the result of one completed operation.
Binds(e, r) == e.completed /\ r.kind = "operation" /\ e.id = r.id
               /\ e.revision = r.revision /\ e.value = r.value

Init ==
  /\ results = {} /\ executions = {}
  /\ saved = None
  /\ up = TRUE

RetainAnalysis(r) ==
  /\ up /\ r.kind = "analysis"
  /\ results' = results \cup {r}
  /\ UNCHANGED <<executions, saved, up>>

RetainRefusal(e) ==
  /\ up /\ ~e.completed
  /\ executions' = executions \cup {e}
  /\ UNCHANGED <<results, saved, up>>

RetainPair(e, r) ==
  /\ up /\ Binds(e, r)
  /\ executions' = executions \cup {e}
  /\ results' = results \cup {r}
  /\ UNCHANGED <<saved, up>>

Save ==
  /\ up
  /\ saved' = [results |-> results, executions |-> executions]
  /\ UNCHANGED <<results, executions, up>>

\* A graceful stop leaves a complete workspace; a crash leaves the last one.
Shutdown ==
  /\ up /\ up' = FALSE
  /\ saved' = [results |-> results, executions |-> executions]
  /\ results' = {} /\ executions' = {}

Crash ==
  /\ up /\ up' = FALSE
  /\ results' = {} /\ executions' = {}
  /\ UNCHANGED saved

Reopen ==
  /\ ~up /\ up' = TRUE
  /\ results' = (IF saved = None THEN {} ELSE saved.results)
  /\ executions' = (IF saved = None THEN {} ELSE saved.executions)
  /\ UNCHANGED saved

Next ==
  \/ \E r \in results' \ results : RetainAnalysis(r)
  \/ \E e \in executions' \ executions : RetainRefusal(e)
  \/ \E e \in executions' \ executions, r \in results' \ results : RetainPair(e, r)
  \/ Save
  \/ Shutdown
  \/ Crash
  \/ Reopen

Spec == Init /\ [][Next]_vars
=============================================================================
