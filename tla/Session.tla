------------------------------- MODULE Session -------------------------------
(***************************************************************************)
(* The recording side of src/ciw/session.py: the shared selection, the       *)
(* analyses and operations that worker threads compute from it, the record   *)
(* files they write, and the saved workspace.  The numerical work runs       *)
(* outside the session lock; what was captured before it is published after  *)
(* it, under the lock, in memory and in one file per record.  The process    *)
(* may crash between any two of these steps.                                 *)
(***************************************************************************)
EXTENDS Integers, FiniteSets

CONSTANTS
  Threads,       \* worker threads of the service
  Values,        \* what a selection selects: channel, interval and cursor
  First,         \* the selection of a new session
  None,
  MaxRecords,    \* 1024, the limit on results and on executions
  MaxIssued,     \* bound: analyses and operations ever started
  MaxRevision    \* bound: selection revisions

ASSUME ConstantTypes ==
  /\ IsFiniteSet(Threads)
  /\ First \in Values
  /\ None \notin Threads
  /\ MaxRecords \in Nat /\ MaxIssued \in Nat /\ MaxRevision \in Nat

VARIABLES
  selection,     \* self.selection: its revision and what it selects
  results,       \* self.results
  executions,    \* self.executions
  pending,       \* self._pending_operations
  stage,         \* where each thread is in the request it handles
  job,           \* what the request captured
  disk,          \* the record files of output_dir
  saved,         \* workspace.json
  up,            \* a process is serving the session
  issued,        \* the number of identities drawn (uuid4 never repeats)
  history        \* history variable: what each revision selected

memory == <<selection, results, executions>>
threads == <<stage, job>>
vars == <<memory, pending, threads, disk, saved, up, issued, history>>

\* Stages in which a thread holds the session lock.
Locked == {"analysis-file", "execution-file", "result-file"}
\* Stages in which an operation awaits its finally clause.
SettledWhenDropped == {"dropped"}                         \* bug: clean-up only after a drop
Settled == {"settled", "dropped"}

LockFree == \A t \in Threads : stage[t] \notin Locked

Ids == 1..MaxIssued
\* "own" in a job: the request did not override the captured selection.
NoJob == [id |-> 0]

\* A record file; both halves of an operation share the identity of the operation.
File(kind, id) == <<kind, id>>
Files(R, E) == {File("result", r.id) : r \in R} \cup {File("execution", e.id) : e \in E}

\* What is selected, what a thread captured, the records, and workspace.json.
Selections == [revision : 0..MaxRevision, value : Values]
Jobs == [id : Ids, revision : 0..MaxRevision, value : Values, own : BOOLEAN, completed : BOOLEAN]
Results ==
  [id : Ids, kind : {"analysis", "operation"}, revision : 0..MaxRevision, value : Values,
   own : BOOLEAN]
Executions == [id : Ids, revision : 0..MaxRevision, value : Values, completed : BOOLEAN]
Workspaces ==
  [selection : Selections, results : SUBSET Results, executions : SUBSET Executions]

\* What the ledger of Ledger.tla keeps of a workspace.
Ledgers == [results : SUBSET Results, executions : SUBSET Executions]

ASSUME NoneAssumption == None \notin Workspaces /\ None \notin Ledgers

-----------------------------------------------------------------------------
\* What a request captures, and the records that are built from it.
CapturedLate(t, j) == [j EXCEPT !.revision = selection.revision]  \* bug: read at publication
Captured(t, j) == j

ResultOf(t, kind) ==
  LET j == Captured(t, job[t])
  IN  [id |-> j.id, kind |-> kind, revision |-> j.revision, value |-> j.value, own |-> j.own]

ExecutionOf(t) ==
  LET j == Captured(t, job[t])
  IN  [id |-> j.id, revision |-> j.revision, value |-> j.value, completed |-> j.completed]

\* The file of an operation that is written first.
FirstFileOfResult(id, completed) ==                       \* bug: the result goes first
  IF completed THEN File("result", id) ELSE File("execution", id)
FirstFile(id, completed) == File("execution", id)

\* Room for one more record, beside n operations in flight.
HasRoomAlone(R, n) == Cardinality(R) < MaxRecords         \* bug: ignores what is in flight
HasRoom(R, n) == Cardinality(R) + n < MaxRecords

\* The check before either half of an operation is written.
MayPublishUnchecked(completed) == TRUE                    \* bug: trusts the admission
MayPublish(completed) ==
  /\ Cardinality(executions) < MaxRecords
  /\ completed => Cardinality(results) < MaxRecords

-----------------------------------------------------------------------------
\* What from_workspace demands of a saved workspace.
Binds(e, r) ==
  e.completed /\ r.kind = "operation" /\ e.id = r.id
  /\ e.revision = r.revision /\ e.value = r.value

Accepts(w) ==
  /\ Cardinality(w.results) <= MaxRecords
  /\ Cardinality(w.executions) <= MaxRecords
  /\ \A r \in w.results : r.revision <= w.selection.revision
  /\ \A e \in w.executions : e.revision <= w.selection.revision
  /\ \A r1, r2 \in w.results : r1.id = r2.id => r1 = r2
  /\ \A e1, e2 \in w.executions : e1.id = e2.id => e1 = e2
  /\ \A e \in w.executions : e.completed => \E r \in w.results : Binds(e, r)
  /\ \A r \in w.results : r.kind = "operation" => \E e \in w.executions : Binds(e, r)

Workspace == [selection |-> selection, results |-> results, executions |-> executions]
NewWorkspace == [selection |-> [revision |-> 0, value |-> First], results |-> {},
                 executions |-> {}]

-----------------------------------------------------------------------------
\* A session that holds w, with no request in flight.
Load(w) ==
  /\ selection' = w.selection /\ results' = w.results /\ executions' = w.executions
  /\ pending' = 0
  /\ stage' = [t \in Threads |-> "idle"]
  /\ job' = [t \in Threads |-> NoJob]

Init ==
  /\ selection = NewWorkspace.selection /\ results = {} /\ executions = {}
  /\ pending = 0
  /\ stage = [t \in Threads |-> "idle"]
  /\ job = [t \in Threads |-> NoJob]
  /\ disk = {}
  /\ saved = None
  /\ up = TRUE
  /\ issued = 0
  /\ history = [r \in 0..MaxRevision |-> First]

\* selection.update with the current revision; any other is refused unchanged.
UpdateSelection(v) ==
  /\ up /\ LockFree
  /\ selection.revision < MaxRevision
  /\ selection' = [revision |-> selection.revision + 1, value |-> v]
  /\ history' = [history EXCEPT ![selection.revision + 1] = v]
  /\ UNCHANGED <<results, executions, pending, threads, disk, saved, up, issued>>

\* Capture the selection, or what the request puts in its place.
Capture(t, v, next) ==
  /\ up /\ LockFree /\ stage[t] = "idle"
  /\ issued < MaxIssued
  /\ issued' = issued + 1
  /\ stage' = [stage EXCEPT ![t] = next]
  /\ job' = [job EXCEPT ![t] =
               [id |-> issued + 1, revision |-> selection.revision, value |-> v,
                own |-> v = selection.value, completed |-> TRUE]]
  /\ UNCHANGED <<memory, disk, saved, up, history>>

\* analysis.stats and analysis.spectrum, before the computation.
StartAnalysis(t, v) == Capture(t, v, "analysing") /\ UNCHANGED pending

\* operation.execute, before the provider runs.
StartOperation(t, v) ==
  /\ HasRoom(results, pending) /\ HasRoom(executions, pending)
  /\ Capture(t, v, "operating")
  /\ pending' = pending + 1

Move(t, next) == stage' = [stage EXCEPT ![t] = next]

\* Enter the second critical section and write the result of an analysis.
WriteAnalysis(t) ==
  /\ up /\ LockFree /\ stage[t] = "analysing"
  /\ HasRoom(results, 0)
  /\ disk' = disk \cup {File("result", job[t].id)}
  /\ Move(t, "analysis-file")
  /\ UNCHANGED <<memory, pending, job, saved, up, issued, history>>

PublishAnalysis(t) ==
  /\ up /\ stage[t] = "analysis-file"
  /\ results' = results \cup {ResultOf(t, "analysis")}
  /\ Move(t, "idle")
  /\ job' = [job EXCEPT ![t] = NoJob]
  /\ UNCHANGED <<selection, executions, pending, disk, saved, up, issued, history>>

\* The computation raises, the limit is reached or the file cannot be written.
FailAnalysis(t) ==
  /\ up /\ LockFree /\ stage[t] = "analysing"
  /\ Move(t, "idle")
  /\ job' = [job EXCEPT ![t] = NoJob]
  /\ UNCHANGED <<memory, pending, disk, saved, up, issued, history>>

\* Enter the second critical section of an operation whose provider completed
\* or refused, and write the first file of the pair.
WriteExecution(t, completed) ==
  /\ up /\ LockFree /\ stage[t] = "operating"
  /\ MayPublish(completed)
  /\ disk' = disk \cup {FirstFile(job[t].id, completed)}
  /\ job' = [job EXCEPT ![t].completed = completed]
  /\ Move(t, "execution-file")
  /\ UNCHANGED <<memory, pending, saved, up, issued, history>>

WriteResult(t) ==
  /\ up /\ stage[t] = "execution-file" /\ job[t].completed
  /\ disk' = disk \cup {File("result", job[t].id)}
  /\ Move(t, "result-file")
  /\ UNCHANGED <<memory, pending, job, saved, up, issued, history>>

\* The limit was reached while the provider ran: neither half is retained.
Drop(t, completed) ==
  /\ up /\ LockFree /\ stage[t] = "operating"
  /\ ~MayPublish(completed)
  /\ job' = [job EXCEPT ![t].completed = completed]
  /\ Move(t, "dropped")
  /\ UNCHANGED <<memory, pending, disk, saved, up, issued, history>>

\* The provider raises what the runner does not catch, or a file of the pair
\* cannot be written: what is on disk stays there, memory is as before.
FailOperation(t) ==
  /\ up
  /\ \/ LockFree /\ stage[t] = "operating"
     \/ stage[t] = "execution-file" /\ job[t].completed
  /\ Move(t, "settled")
  /\ UNCHANGED <<memory, pending, job, disk, saved, up, issued, history>>

\* Both halves enter memory before the lock is released.
RetainedResultOnly(t) == UNCHANGED executions             \* bug: the execution is forgotten
RetainedExecution(t) == executions' = executions \cup {ExecutionOf(t)}

PublishOperation(t) ==
  /\ up
  /\ \/ /\ stage[t] = "execution-file" /\ ~job[t].completed
        /\ UNCHANGED results
     \/ /\ stage[t] = "result-file"
        /\ results' = results \cup {ResultOf(t, "operation")}
  /\ RetainedExecution(t)
  /\ Move(t, "settled")
  /\ UNCHANGED <<selection, pending, job, disk, saved, up, issued, history>>

\* The finally clause, in a critical section of its own.
Release(t) ==
  /\ up /\ LockFree /\ stage[t] \in Settled
  /\ pending' = pending - 1
  /\ Move(t, "idle")
  /\ job' = [job EXCEPT ![t] = NoJob]
  /\ UNCHANGED <<memory, disk, saved, up, issued, history>>

\* workspace.save: the whole file is replaced, under the lock.
Save ==
  /\ up /\ LockFree
  /\ saved' = Workspace
  /\ UNCHANGED <<memory, pending, threads, disk, up, issued, history>>

\* run_server leaves its serve block once every handler is done, then saves.
Shutdown ==
  /\ up /\ \A t \in Threads : stage[t] = "idle"
  /\ saved' = Workspace
  /\ up' = FALSE
  /\ Load(NewWorkspace)
  /\ UNCHANGED <<disk, issued, history>>

Crash ==
  /\ up /\ up' = FALSE
  /\ Load(NewWorkspace)
  /\ UNCHANGED <<disk, saved, issued, history>>

\* serve, with --workspace if one was saved: from_workspace validates all of it,
\* then writes every record file again.
Reopen ==
  LET w == IF saved = None THEN NewWorkspace ELSE saved
  IN  /\ ~up /\ Accepts(w)
      /\ up' = TRUE
      /\ Load(w)
      /\ disk' = disk \cup Files(w.results, w.executions)
      /\ UNCHANGED <<saved, issued, history>>

Start(t) == \E v \in Values : StartAnalysis(t, v) \/ StartOperation(t, v)

Finish(t) ==
  \/ WriteAnalysis(t) \/ PublishAnalysis(t) \/ FailAnalysis(t)
  \/ \E completed \in BOOLEAN : WriteExecution(t, completed) \/ Drop(t, completed)
  \/ WriteResult(t) \/ FailOperation(t) \/ PublishOperation(t)
  \/ Release(t)

Next ==
  \/ \E v \in Values : UpdateSelection(v)
  \/ \E t \in Threads : Start(t) \/ Finish(t)
  \/ Save
  \/ Shutdown
  \/ Crash
  \/ Reopen

Spec == Init /\ [][Next]_vars

\* A provider runs under a deadline, and a thread that waits for the session
\* lock gets it once the others leave it.
FairSpec == Spec /\ \A t \in Threads : WF_vars(Finish(t))

-----------------------------------------------------------------------------
\* Whatever moment the workspace was saved at, from_workspace accepts it
\* (session.py:490-561): no half of an operation pair without the other, no
\* record of a later selection, no list over its limit.
SavedReopens == saved # None => Accepts(saved)

\* A result that took its channel and interval from the selection carries what
\* the revision it names selected, although the selection moves while it is
\* computed (session.py:367-382, 418-425).
WholeCaptures == \A r \in results : r.own => r.value = history[r.revision]

\* A record is in memory only when its file is on disk, and the result file of
\* an operation is on disk only when its execution file is - also after a write
\* that failed and after a crash (session.py:386-387, 437-441).
RecordsOnDisk ==
  /\ Files(results, executions) \subseteq disk
  /\ \A r \in results : r.kind = "operation" => File("execution", r.id) \in disk
  /\ \A t \in Threads :
       stage[t] \in {"execution-file", "result-file"} => File("execution", job[t].id) \in disk

\* docs/ARCHITECTURE.md:83 "A refused accepted invocation retains its
\* execution": the limit may take the slot of a completed operation, whose
\* result competes with analyses, but never that of a refused one
\* (session.py:413-415, 434-436).
RefusalsRetained == \A t \in Threads : stage[t] = "dropped" => job[t].completed

\* Every operation whose provider was started is over some day, its slot given
\* back, whatever went wrong in between (session.py:442-444).
OperationsEnd == \A t \in Threads : stage[t] = "operating" ~> stage[t] = "idle"

\* The session implements the append-only ledger of Ledger.tla.
Abstract == INSTANCE Ledger WITH
  saved <- IF saved = None THEN None
           ELSE [results |-> saved.results, executions |-> saved.executions]
ImplementsLedger == Abstract!Spec
=============================================================================
