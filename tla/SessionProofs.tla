--------------------------- MODULE SessionProofs ----------------------------
(***************************************************************************)
(* Proofs about Session.tla, for every set of threads and selections and   *)
(* every limit: captures, fresh identities, the slots of operations; and   *)
(* what readers of a recording rely on: its steps are those of the append- *)
(* only ledger of Ledger.tla, its records are on disk, and whatever moment *)
(* it was saved at can be reopened.                                        *)
(***************************************************************************)
EXTENDS Session, FiniteSetTheorems, TLAPS

-----------------------------------------------------------------------------
(* Types.                                                                    *)

\* An operation between its two critical sections, or in the second one.
Operating == {"operating", "execution-file", "result-file"}
\* A request that has retained nothing yet.
Unpublished == {"analysing", "analysis-file"} \cup Operating
\* The stages of a thread that handles a request.
Busy == {"analysing", "analysis-file"} \cup Operating \cup Settled

MemoryOK ==
  /\ selection \in Selections
  /\ results \in SUBSET Results /\ IsFiniteSet(results)
  /\ executions \in SUBSET Executions /\ IsFiniteSet(executions)
  /\ up \in BOOLEAN
  /\ issued \in 0..MaxIssued
  /\ history \in [0..MaxRevision -> Values]

SavedOK ==
  saved # None =>
    /\ saved \in Workspaces
    /\ IsFiniteSet(saved.results) /\ IsFiniteSet(saved.executions)

ThreadsOK ==
  /\ stage \in [Threads -> Busy \cup {"idle"}]
  /\ job \in [Threads -> Jobs \cup {NoJob}]
  /\ \A t \in Threads : stage[t] # "idle" => job[t] \in Jobs
  /\ \A t, u \in Threads : stage[t] \in Locked /\ stage[u] \in Locked => t = u
  /\ \A t \in Threads : stage[t] = "result-file" => job[t].completed

Types == MemoryOK /\ SavedOK /\ ThreadsOK

LEMMA WorkspaceType ==
  ASSUME MemoryOK
  PROVE  /\ Workspace \in Workspaces /\ Workspace # None
         /\ Workspace.results = results /\ Workspace.executions = executions
         /\ Workspace.selection = selection
<1>1. Workspace \in Workspaces
  BY DEF MemoryOK, Workspace, Workspaces
<1> QED BY <1>1, NoneAssumption DEF Workspace

LEMMA NewWorkspaceType ==
  /\ NewWorkspace \in Workspaces
  /\ NewWorkspace.results = {} /\ NewWorkspace.executions = {}
  /\ NewWorkspace.selection = [revision |-> 0, value |-> First]
  /\ IsFiniteSet(NewWorkspace.results) /\ IsFiniteSet(NewWorkspace.executions)
BY ConstantTypes, FS_EmptySet DEF NewWorkspace, Workspaces, Selections

LEMMA LoadTypes ==
  ASSUME NEW w \in Workspaces, IsFiniteSet(w.results), IsFiniteSet(w.executions), Load(w),
         MemoryOK, up' \in BOOLEAN, UNCHANGED <<issued, history>>
  PROVE  MemoryOK' /\ ThreadsOK'
<1>1. MemoryOK'
  BY DEF Load, MemoryOK, Workspaces
<1>2. ThreadsOK'
  BY DEF Load, ThreadsOK, Locked
<1> QED BY <1>1, <1>2

LEMMA RecordTypes ==
  ASSUME Types, NEW t \in Threads, stage[t] # "idle", NEW kind \in {"analysis", "operation"}
  PROVE  /\ ResultOf(t, kind) \in Results
         /\ ResultOf(t, kind).id = job[t].id /\ ResultOf(t, kind).kind = kind
         /\ ResultOf(t, kind).revision = job[t].revision
         /\ ResultOf(t, kind).value = job[t].value /\ ResultOf(t, kind).own = job[t].own
         /\ ExecutionOf(t) \in Executions
         /\ ExecutionOf(t).id = job[t].id /\ ExecutionOf(t).completed = job[t].completed
         /\ ExecutionOf(t).revision = job[t].revision /\ ExecutionOf(t).value = job[t].value
<1>1. job[t] \in Jobs
  BY DEF Types, ThreadsOK
<1> QED BY <1>1 DEF ResultOf, ExecutionOf, Captured, Results, Executions, Jobs

\* A thread that leaves its critical section, or was in none, disturbs no other.
LEMMA LeaveLocked ==
  ASSUME ThreadsOK, NEW t \in Threads, NEW next \in (Busy \cup {"idle"}) \ Locked, Move(t, next),
         \/ job' = job /\ stage[t] # "idle"
         \/ job' = [job EXCEPT ![t] = NoJob] /\ next = "idle"
  PROVE  ThreadsOK'
BY DEF ThreadsOK, Move, Locked

LEMMA TypesNext == Types /\ [Next]_vars => Types'
<1> SUFFICES ASSUME Types, [Next]_vars PROVE Types'
  OBVIOUS
<1> USE DEF Types
<1>a. ASSUME UNCHANGED <<memory, up, history>>, issued' \in 0..MaxIssued PROVE MemoryOK'
  BY <1>a DEF MemoryOK, memory
<1>b. ASSUME UNCHANGED saved PROVE SavedOK'
  BY <1>b DEF SavedOK
<1>c. issued \in 0..MaxIssued
  BY DEF MemoryOK
<1>d. ASSUME UNCHANGED threads PROVE ThreadsOK'
  BY <1>d DEF ThreadsOK, threads
<1>1. ASSUME NEW v \in Values, UpdateSelection(v) PROVE Types'
  <2>1. MemoryOK'
    BY <1>1, ConstantTypes DEF UpdateSelection, MemoryOK, Selections
  <2> QED BY <1>1, <1>b, <1>d, <2>1 DEF UpdateSelection
<1>2. ASSUME NEW t \in Threads, NEW v \in Values, NEW next \in {"analysing", "operating"},
             Capture(t, v, next)
      PROVE  Types'
  <2> DEFINE j == [id |-> issued + 1, revision |-> selection.revision, value |-> v,
                own |-> v = selection.value, completed |-> TRUE]
  <2>1. issued + 1 \in Ids /\ issued' \in 0..MaxIssued
    BY <1>2, ConstantTypes, <1>c DEF Capture, Ids
  <2>2. j \in Jobs
    BY <2>1 DEF Jobs, MemoryOK, Selections
  <2>3. job' = [job EXCEPT ![t] = j] /\ stage' = [stage EXCEPT ![t] = next]
    BY <1>2 DEF Capture
  <2> HIDE DEF j
  <2>4. ThreadsOK'
    BY <2>2, <2>3 DEF ThreadsOK, Locked, Busy, Operating
  <2> QED BY <1>2, <2>1, <2>4, <1>a, <1>b DEF Capture
<1>3. ASSUME NEW t \in Threads, NEW v \in Values, StartAnalysis(t, v) \/ StartOperation(t, v)
      PROVE  Types'
  BY <1>3, <1>2 DEF StartAnalysis, StartOperation
<1>4. ASSUME NEW t \in Threads, WriteAnalysis(t) PROVE Types'
  <2>1. ThreadsOK'
    BY <1>4 DEF WriteAnalysis, Move, ThreadsOK, LockFree, Locked, Busy, Operating
  <2> QED BY <1>4, <2>1, <1>a, <1>b, <1>c DEF WriteAnalysis
<1>5. ASSUME NEW t \in Threads, PublishAnalysis(t) PROVE Types'
  <2>1. ThreadsOK'
    BY <1>5, LeaveLocked DEF PublishAnalysis, Locked
  <2>2. ResultOf(t, "analysis") \in Results
    BY <1>5, RecordTypes DEF PublishAnalysis
  <2>3. MemoryOK'
    BY <1>5, <2>2, FS_AddElement DEF PublishAnalysis, MemoryOK
  <2> QED BY <1>5, <2>1, <2>3, <1>b DEF PublishAnalysis
<1>6. ASSUME NEW t \in Threads, FailAnalysis(t) PROVE Types'
  <2>1. ThreadsOK'
    BY <1>6, LeaveLocked DEF FailAnalysis, Locked
  <2> QED BY <1>6, <2>1, <1>a, <1>b, <1>c DEF FailAnalysis
<1>7. ASSUME NEW t \in Threads, NEW completed \in BOOLEAN, WriteExecution(t, completed) PROVE Types'
  <2>1. [job[t] EXCEPT !.completed = completed] \in Jobs
    BY <1>7 DEF WriteExecution, ThreadsOK, Jobs
  <2>2. ThreadsOK'
    BY <1>7, <2>1 DEF WriteExecution, Move, ThreadsOK, LockFree, Locked, Busy, Operating
  <2> QED BY <1>7, <2>2, <1>a, <1>b, <1>c DEF WriteExecution
<1>8. ASSUME NEW t \in Threads, WriteResult(t) PROVE Types'
  <2>1. ThreadsOK'
    BY <1>8 DEF WriteResult, Move, ThreadsOK, Locked, Busy, Operating
  <2> QED BY <1>8, <2>1, <1>a, <1>b, <1>c DEF WriteResult
<1>9. ASSUME NEW t \in Threads, NEW completed \in BOOLEAN, Drop(t, completed) PROVE Types'
  <2>1. [job[t] EXCEPT !.completed = completed] \in Jobs
    BY <1>9 DEF Drop, ThreadsOK, Jobs
  <2>2. ThreadsOK'
    BY <1>9, <2>1 DEF Drop, Move, ThreadsOK, Locked, Busy, Settled
  <2> QED BY <1>9, <2>2, <1>a, <1>b, <1>c DEF Drop
<1>10. ASSUME NEW t \in Threads, FailOperation(t) PROVE Types'
  <2>1. ThreadsOK'
    BY <1>10, LeaveLocked DEF FailOperation, Locked, Busy, Settled
  <2> QED BY <1>10, <2>1, <1>a, <1>b, <1>c DEF FailOperation
<1>11. ASSUME NEW t \in Threads, PublishOperation(t) PROVE Types'
  <2>1. ThreadsOK'
    BY <1>11, LeaveLocked DEF PublishOperation, Locked, Busy, Settled
  <2>2. ResultOf(t, "operation") \in Results /\ ExecutionOf(t) \in Executions
    BY <1>11, RecordTypes DEF PublishOperation
  <2>3. MemoryOK'
    BY <1>11, <2>2, FS_AddElement DEF PublishOperation, RetainedExecution, MemoryOK
  <2> QED BY <1>11, <2>1, <2>3, <1>b DEF PublishOperation
<1>12. ASSUME NEW t \in Threads, Release(t) PROVE Types'
  <2>1. ThreadsOK'
    BY <1>12, LeaveLocked DEF Release, Locked
  <2> QED BY <1>12, <2>1, <1>a, <1>b, <1>c DEF Release
<1>13. CASE Save
  <2>1. SavedOK'
    BY <1>13, WorkspaceType DEF Save, SavedOK, MemoryOK
  <2> QED BY <1>13, <2>1, <1>a, <1>c, <1>d DEF Save
<1>14. CASE Shutdown
  <2>1. SavedOK'
    BY <1>14, WorkspaceType DEF Shutdown, SavedOK, MemoryOK
  <2> QED BY <1>14, <2>1, LoadTypes, NewWorkspaceType DEF Shutdown
<1>15. CASE Crash
  BY <1>15, <1>b, LoadTypes, NewWorkspaceType DEF Crash
<1>16. CASE Reopen
  <2> DEFINE w == IF saved = None THEN NewWorkspace ELSE saved
  <2>1. w \in Workspaces /\ IsFiniteSet(w.results) /\ IsFiniteSet(w.executions)
    BY NewWorkspaceType DEF SavedOK
  <2>2. Load(w) /\ up' = TRUE /\ UNCHANGED <<saved, issued, history>>
    BY <1>16 DEF Reopen
  <2> HIDE DEF w
  <2> QED BY <2>1, <2>2, <1>b, LoadTypes
<1>17. CASE UNCHANGED vars
  BY <1>17, <1>a, <1>b, <1>c, <1>d DEF vars
<1> QED BY <1>1, <1>3, <1>4, <1>5, <1>6, <1>7, <1>8, <1>9, <1>10, <1>11, <1>12, <1>13, <1>14,
           <1>15, <1>16, <1>17
        DEF Next, Start, Finish

LEMMA TypesInit == Init => Types
<1> SUFFICES ASSUME Init PROVE Types
  OBVIOUS
<1>1. MemoryOK
  BY ConstantTypes, FS_EmptySet, NewWorkspaceType DEF Init, MemoryOK, Selections
<1>2. SavedOK /\ ThreadsOK
  BY DEF Init, SavedOK, ThreadsOK, Locked
<1> QED BY <1>1, <1>2 DEF Types

LEMMA Typing == Spec => []Types
BY TypesInit, TypesNext, PTL DEF Spec

-----------------------------------------------------------------------------
(* What the steps of a request have in common.                               *)

\* Only two steps touch the records in memory.
LEMMA FinishRetains ==
  ASSUME NEW t \in Threads, Finish(t), ~PublishAnalysis(t), ~PublishOperation(t)
  PROVE  UNCHANGED memory
BY DEF Finish, WriteAnalysis, FailAnalysis, WriteExecution, WriteResult, Drop, FailOperation,
       Release, memory

\* What a request captured stays as it is until the request is over.
LEMMA FinishKeeps ==
  ASSUME Types, NEW t \in Threads, Finish(t)
  PROVE  /\ UNCHANGED <<selection, saved, up, issued, history>>
         /\ \A u \in Threads : stage'[u] # "idle" =>
              /\ stage[u] # "idle" /\ (stage'[u] \in Unpublished => stage[u] \in Unpublished)
              /\ job'[u].id = job[u].id /\ job'[u].revision = job[u].revision
              /\ job'[u].value = job[u].value /\ job'[u].own = job[u].own
<1>1. UNCHANGED <<selection, saved, up, issued, history>>
  BY DEF Finish, WriteAnalysis, PublishAnalysis, FailAnalysis, WriteExecution, WriteResult, Drop,
         FailOperation, PublishOperation, Release, memory
<1>2. stage \in [Threads -> Busy \cup {"idle"}] /\ job \in [Threads -> Jobs \cup {NoJob}]
  BY DEF Types, ThreadsOK
<1>3. stage[t] # "idle" /\ job[t] \in Jobs
  BY DEF Finish, WriteAnalysis, PublishAnalysis, FailAnalysis, WriteExecution, WriteResult, Drop,
         FailOperation, PublishOperation, Release, Types, ThreadsOK, Settled
<1>4. \E next \in Busy \cup {"idle"} :
        /\ stage' = [stage EXCEPT ![t] = next] /\ (next \in Unpublished => stage[t] \in Unpublished)
        /\ \/ job' = job
           \/ \E completed \in BOOLEAN : job' = [job EXCEPT ![t].completed = completed]
           \/ next = "idle" /\ job' = [job EXCEPT ![t] = NoJob]
  BY DEF Finish, WriteAnalysis, PublishAnalysis, FailAnalysis, WriteExecution, WriteResult, Drop,
         FailOperation, PublishOperation, Release, Move, Busy, Operating, Settled, Unpublished
<1>5. PICK next \in Busy \cup {"idle"} :
        /\ stage' = [stage EXCEPT ![t] = next] /\ (next \in Unpublished => stage[t] \in Unpublished)
        /\ \/ job' = job
           \/ \E completed \in BOOLEAN : job' = [job EXCEPT ![t].completed = completed]
           \/ next = "idle" /\ job' = [job EXCEPT ![t] = NoJob]
  BY <1>4
<1>6. ASSUME NEW u \in Threads, stage'[u] # "idle"
      PROVE  /\ stage[u] # "idle" /\ (stage'[u] \in Unpublished => stage[u] \in Unpublished)
             /\ job'[u].id = job[u].id /\ job'[u].revision = job[u].revision
             /\ job'[u].value = job[u].value /\ job'[u].own = job[u].own
  <2>1. CASE u # t
    BY <1>2, <1>5, <1>6, <2>1
  <2>2. CASE u = t
    BY <1>2, <1>3, <1>5, <1>6, <2>2 DEF Jobs
  <2> QED BY <2>1, <2>2
<1> QED BY <1>1, <1>6

-----------------------------------------------------------------------------
(* Captures: what was captured under a revision is what that revision        *)
(* selected.                                                                 *)

Traced(sel, R, E) ==
  /\ sel.value = history[sel.revision]
  /\ \A r \in R : r.revision <= sel.revision /\ (r.own => r.value = history[r.revision])
  /\ \A e \in E : e.revision <= sel.revision

JobsTraced ==
  \A t \in Threads : stage[t] # "idle" =>
    /\ job[t].revision <= selection.revision
    /\ job[t].own => job[t].value = history[job[t].revision]

CaptureInv ==
  /\ history[0] = First
  /\ Traced(selection, results, executions)
  /\ saved # None => Traced(saved.selection, saved.results, saved.executions)
  /\ up /\ saved # None => saved.selection.revision <= selection.revision
  /\ JobsTraced

\* Records of revisions up to the current one do not mind that the next is added.
LEMMA TracedLater ==
  ASSUME Types, NEW w \in Workspaces, Traced(w.selection, w.results, w.executions),
         w.selection.revision <= selection.revision, selection.revision < MaxRevision,
         NEW v \in Values, history' = [history EXCEPT ![selection.revision + 1] = v]
  PROVE  /\ w.selection.value = history'[w.selection.revision]
         /\ \A r \in w.results : r.own => r.value = history'[r.revision]
<1>1. history \in [0..MaxRevision -> Values] /\ selection.revision \in 0..MaxRevision
  BY DEF Types, MemoryOK, Selections
<1>2. /\ w.selection.revision \in 0..MaxRevision
      /\ \A r \in w.results : r.revision \in 0..MaxRevision
  BY DEF Workspaces, Selections, Results
<1>3. \A n \in 0..MaxRevision : n <= selection.revision => history'[n] = history[n]
  BY <1>1, ConstantTypes
<1>4. \A r \in w.results : r.revision <= selection.revision
  BY <1>1, <1>2, ConstantTypes DEF Traced
<1> QED BY <1>2, <1>3, <1>4 DEF Traced

LEMMA CaptureNext == Types /\ CaptureInv /\ [Next]_vars => CaptureInv'
<1> SUFFICES ASSUME Types, CaptureInv, [Next]_vars PROVE CaptureInv'
  OBVIOUS
<1> DEFINE New == [revision |-> 0, value |-> First]
<1>1. ASSUME NEW v \in Values, UpdateSelection(v) PROVE CaptureInv'
  <2>1. /\ selection \in Selections /\ selection.revision \in 0..MaxRevision
        /\ history \in [0..MaxRevision -> Values]
    BY DEF Types, MemoryOK, Selections
  <2>2. /\ up /\ selection.revision < MaxRevision
        /\ selection' = [revision |-> selection.revision + 1, value |-> v]
        /\ history' = [history EXCEPT ![selection.revision + 1] = v]
        /\ UNCHANGED <<results, executions, threads, saved, up>>
    BY <1>1 DEF UpdateSelection
  <2>3. selection'.revision = selection.revision + 1 /\ selection'.value = v
    BY <2>2
  <2>4. \A n \in 0..MaxRevision : n <= selection.revision => history'[n] = history[n]
    BY <2>1, <2>2, ConstantTypes
  <2>5. history'[0] = First
    BY <2>1, <2>4, ConstantTypes DEF CaptureInv
  <2>6. Traced(selection, results, executions)'
    <3>1. Workspace \in Workspaces /\ Workspace.selection = selection
          /\ Workspace.results = results /\ Workspace.executions = executions
      BY WorkspaceType DEF Types
    <3>2. \A r \in results : r.own => r.value = history'[r.revision]
      <4>1. Traced(Workspace.selection, Workspace.results, Workspace.executions)
        BY <3>1 DEF CaptureInv
      <4>2. Workspace.selection.revision <= selection.revision
        BY <2>1, <3>1
      <4>3. \A r \in Workspace.results : r.own => r.value = history'[r.revision]
        BY <2>2, <3>1, <4>1, <4>2, TracedLater
      <4> QED BY <3>1, <4>3
    <3>3. history'[selection.revision + 1] = v
      BY <2>1, <2>2, ConstantTypes
    <3>4. /\ \A r \in results : r.revision \in Int /\ r.revision <= selection.revision
          /\ \A e \in executions : e.revision \in Int /\ e.revision <= selection.revision
      BY DEF Types, MemoryOK, Results, Executions, CaptureInv, Traced
    <3> QED BY <2>1, <2>2, <2>3, <3>2, <3>3, <3>4 DEF Traced
  <2>7. saved' # None => Traced(saved.selection, saved.results, saved.executions)'
    <3> SUFFICES ASSUME saved # None PROVE Traced(saved.selection, saved.results, saved.executions)'
      BY <2>2
    <3>1. saved \in Workspaces
      BY DEF Types, SavedOK
    <3> QED BY <2>1, <2>2, <3>1, TracedLater DEF CaptureInv, Traced
  <2>8. up' /\ saved' # None => saved'.selection.revision <= selection'.revision
    <3> SUFFICES ASSUME saved # None PROVE saved.selection.revision <= selection.revision + 1
      BY <2>2, <2>3
    <3>1. saved.selection.revision \in Int
      BY DEF Types, SavedOK, Workspaces, Selections
    <3> QED BY <2>1, <2>2, <3>1 DEF CaptureInv
  <2>9. JobsTraced'
    <3> SUFFICES ASSUME NEW t \in Threads, stage[t] # "idle"
                 PROVE  /\ job[t].revision <= selection.revision + 1
                        /\ job[t].own => job[t].value = history'[job[t].revision]
      BY <2>2, <2>3 DEF JobsTraced, threads
    <3>1. job[t].revision \in 0..MaxRevision
      BY DEF Types, ThreadsOK, Jobs
    <3> QED BY <2>1, <2>4, <3>1, ConstantTypes DEF CaptureInv, JobsTraced
  <2> QED BY <2>5, <2>6, <2>7, <2>8, <2>9 DEF CaptureInv
<1>2. ASSUME NEW t \in Threads, Start(t) PROVE CaptureInv'
  <2>1. PICK v \in Values, next \in {"analysing", "operating"} : Capture(t, v, next)
    BY <1>2 DEF Start, StartAnalysis, StartOperation
  <2> DEFINE j == [id |-> issued + 1, revision |-> selection.revision, value |-> v,
                own |-> v = selection.value, completed |-> TRUE]
  <2>2. JobsTraced'
    <3>1. /\ job' = [job EXCEPT ![t] = j] /\ stage' = [stage EXCEPT ![t] = next]
          /\ UNCHANGED <<selection, history>>
      BY <2>1 DEF Capture, memory
    <3>2. /\ j.revision = selection.revision /\ j.value = v
          /\ j.own => v = selection.value
          /\ selection.revision \in 0..MaxRevision
      BY DEF Types, MemoryOK, Selections
    <3> HIDE DEF j
    <3>3. j.revision <= selection.revision /\ (j.own => j.value = history[j.revision])
      <4>1. j.revision <= selection.revision
        BY <3>2, ConstantTypes
      <4>2. selection.value = history[selection.revision]
        BY DEF CaptureInv, Traced
      <4> QED BY <3>2, <4>1, <4>2
    <3>4. /\ stage \in [Threads -> Busy \cup {"idle"}]
          /\ job \in [Threads -> Jobs \cup {NoJob}]
      BY DEF Types, ThreadsOK
    <3>5. ASSUME NEW u \in Threads, stage'[u] # "idle"
          PROVE  /\ job'[u].revision <= selection.revision
                 /\ job'[u].own => job'[u].value = history[job'[u].revision]
      <4>1. CASE u = t
        BY <3>1, <3>3, <3>4, <4>1
      <4>2. CASE u # t
        BY <3>1, <3>4, <3>5, <4>2 DEF CaptureInv, JobsTraced
      <4> QED BY <4>1, <4>2
    <3> QED BY <3>1, <3>5 DEF JobsTraced
  <2> QED BY <2>1, <2>2 DEF Capture, CaptureInv, Traced, memory
<1>3. ASSUME NEW t \in Threads, Finish(t) PROVE CaptureInv'
  <2>1. UNCHANGED <<selection, saved, up, history>> /\ JobsTraced'
    BY <1>3, FinishKeeps DEF CaptureInv, JobsTraced
  <2>2. CASE UNCHANGED memory
    BY <2>1, <2>2 DEF CaptureInv, Traced, memory
  <2>3. ASSUME NEW kind \in {"analysis", "operation"}, stage[t] # "idle"
        PROVE  /\ ResultOf(t, kind).revision <= selection.revision
               /\ ResultOf(t, kind).own =>
                    ResultOf(t, kind).value = history[ResultOf(t, kind).revision]
               /\ ExecutionOf(t).revision <= selection.revision
    BY <2>3, RecordTypes DEF CaptureInv, JobsTraced
  <2>4. CASE PublishAnalysis(t)
    <3>1. Traced(selection, results, executions)'
      BY <2>1, <2>3, <2>4 DEF PublishAnalysis, CaptureInv, Traced
    <3> QED BY <2>1, <3>1 DEF CaptureInv, Traced
  <2>5. CASE PublishOperation(t)
    <3>1. Traced(selection, results, executions)'
      BY <2>1, <2>3, <2>5 DEF PublishOperation, RetainedExecution, CaptureInv, Traced
    <3> QED BY <2>1, <3>1 DEF CaptureInv, Traced
  <2> QED BY <1>3, <2>2, <2>4, <2>5, FinishRetains
<1>4. history[0] = First => New.value = history[New.revision] /\ New.revision = 0
  OBVIOUS
<1>5. Traced(NewWorkspace.selection, NewWorkspace.results, NewWorkspace.executions)
  BY NewWorkspaceType DEF Traced, CaptureInv
<1>6. CASE Save
  <2>1. Traced(Workspace.selection, Workspace.results, Workspace.executions)
    BY WorkspaceType DEF Types, CaptureInv
  <2>2. selection.revision <= selection.revision
    BY DEF Types, MemoryOK, Selections
  <2>3. /\ UNCHANGED <<memory, threads, up, history>> /\ saved' = Workspace
        /\ Workspace.selection = selection
    BY <1>6, WorkspaceType DEF Save, Types
  <2> QED BY <2>1, <2>2, <2>3 DEF CaptureInv, Traced, JobsTraced, memory, threads
<1>7. ASSUME Load(NewWorkspace), ~up', UNCHANGED history, saved' \in {saved, Workspace}
      PROVE  CaptureInv'
  <2>1. Traced(selection, results, executions)'
    BY <1>5, <1>7 DEF Load, Traced
  <2>2. saved' # None => Traced(saved.selection, saved.results, saved.executions)'
    BY <1>7, WorkspaceType DEF CaptureInv, Traced, Types
  <2>3. JobsTraced'
    BY <1>7 DEF Load, JobsTraced
  <2> QED BY <1>7, <2>1, <2>2, <2>3 DEF CaptureInv
<1>8. CASE Shutdown \/ Crash
  BY <1>7, <1>8 DEF Shutdown, Crash
<1>9. CASE Reopen
  <2> DEFINE w == IF saved = None THEN NewWorkspace ELSE saved
  <2>1. Load(w) /\ UNCHANGED <<saved, history>>
    BY <1>9 DEF Reopen
  <2>2. Traced(w.selection, w.results, w.executions)
    BY <1>5 DEF CaptureInv
  <2>3. saved # None => saved.selection.revision <= w.selection.revision
    BY DEF Types, SavedOK, Workspaces, Selections
  <2> HIDE DEF w
  <2>4. Traced(selection, results, executions)' /\ JobsTraced'
    BY <2>1, <2>2 DEF Load, Traced, JobsTraced
  <2> QED BY <2>1, <2>3, <2>4 DEF Load, CaptureInv, Traced
<1>10. CASE UNCHANGED vars
  BY <1>10 DEF CaptureInv, Traced, JobsTraced, vars, memory, threads
<1> QED BY <1>1, <1>2, <1>3, <1>6, <1>8, <1>9, <1>10 DEF Next

LEMMA CaptureInit == Init => CaptureInv
<1> SUFFICES ASSUME Init PROVE CaptureInv
  OBVIOUS
<1>1. /\ history = [r \in 0..MaxRevision |-> First] /\ results = {} /\ executions = {}
      /\ selection = [revision |-> 0, value |-> First] /\ saved = None
      /\ \A t \in Threads : stage[t] = "idle"
  BY NewWorkspaceType DEF Init
<1>2. history[0] = First
  BY <1>1, ConstantTypes
<1> QED BY <1>1, <1>2 DEF CaptureInv, Traced, JobsTraced

\* A result that took its channel and interval from the selection carries what the
\* revision it names selected (session.py:367-382), for any number of threads whose
\* computations the selection overtakes.
THEOREM CapturesCorrect == Spec => []WholeCaptures
<1>1. CaptureInv => WholeCaptures
  BY DEF CaptureInv, Traced, WholeCaptures
<1> QED BY <1>1, CaptureInit, CaptureNext, Typing, PTL DEF Spec

-----------------------------------------------------------------------------
(* Identities: what a request will publish under its identity is not there   *)
(* yet, and no other request has it.                                         *)

Drawn(R, E) == (\A r \in R : r.id <= issued) /\ (\A e \in E : e.id <= issued)
Absent(id) == (\A r \in results : r.id # id) /\ (\A e \in executions : e.id # id)

JobsFresh ==
  /\ \A t \in Threads : stage[t] # "idle" => job[t].id <= issued
  /\ \A t, u \in Threads :
       t # u /\ stage[t] # "idle" /\ stage[u] # "idle" => job[t].id # job[u].id
  /\ \A t \in Threads : stage[t] \in Unpublished => Absent(job[t].id)

FreshInv ==
  /\ Drawn(results, executions)
  /\ saved # None => Drawn(saved.results, saved.executions)
  /\ JobsFresh

LEMMA FreshNext == Types /\ FreshInv /\ [Next]_vars => FreshInv'
<1> SUFFICES ASSUME Types, FreshInv, [Next]_vars PROVE FreshInv'
  OBVIOUS
<1>1. ASSUME NEW v \in Values, UpdateSelection(v) PROVE FreshInv'
  BY <1>1 DEF UpdateSelection, threads, FreshInv, Drawn, JobsFresh, Absent
<1>2. ASSUME NEW t \in Threads, Start(t) PROVE FreshInv'
  <2>1. PICK v \in Values, next \in {"analysing", "operating"} : Capture(t, v, next)
    BY <1>2 DEF Start, StartAnalysis, StartOperation
  <2> DEFINE j == [id |-> issued + 1, revision |-> selection.revision, value |-> v,
                own |-> v = selection.value, completed |-> TRUE]
  <2>2. /\ stage[t] = "idle" /\ stage' = [stage EXCEPT ![t] = next]
        /\ job' = [job EXCEPT ![t] = j] /\ issued' = issued + 1
        /\ UNCHANGED <<results, executions, saved>>
    BY <2>1 DEF Capture, memory
  <2>3. j.id = issued + 1 /\ issued \in Nat
    BY ConstantTypes DEF Types, MemoryOK
  <2> HIDE DEF j
  <2>4. /\ stage \in [Threads -> Busy \cup {"idle"}]
        /\ job \in [Threads -> Jobs \cup {NoJob}]
        /\ \A u \in Threads : stage[u] # "idle" => job[u].id \in Int
    BY DEF Types, ThreadsOK, Jobs, Ids
  <2>5. Drawn(results, executions)' /\ Absent(issued + 1)
    <3>1. (\A r \in results : r.id \in Int) /\ (\A e \in executions : e.id \in Int)
      BY DEF Types, MemoryOK, Results, Executions, Ids
    <3> QED BY <2>2, <2>3, <3>1 DEF FreshInv, Drawn, Absent
  <2>6. saved' # None => Drawn(saved.results, saved.executions)'
    <3> SUFFICES ASSUME saved # None PROVE Drawn(saved.results, saved.executions)'
      BY <2>2
    <3>1. (\A r \in saved.results : r.id \in Int) /\ (\A e \in saved.executions : e.id \in Int)
      BY DEF Types, SavedOK, Workspaces, Results, Executions, Ids
    <3> QED BY <2>2, <2>3, <3>1 DEF FreshInv, Drawn
  <2>7. /\ job'[t].id = issued + 1
        /\ \A u \in Threads \ {t} : stage'[u] = stage[u] /\ job'[u] = job[u]
    BY <2>2, <2>3, <2>4
  <2>8. \A u \in Threads \ {t} : stage[u] # "idle" => job[u].id <= issued
    BY DEF FreshInv, JobsFresh
  <2>9. JobsFresh'
    <3>1. \A u \in Threads : stage'[u] # "idle" => job'[u].id <= issued'
      BY <2>2, <2>3, <2>4, <2>7, <2>8
    <3>2. \A u, x \in Threads :
            u # x /\ stage'[u] # "idle" /\ stage'[x] # "idle" => job'[u].id # job'[x].id
      BY <2>3, <2>4, <2>7, <2>8 DEF FreshInv, JobsFresh
    <3>3. (\A u \in Threads : stage[u] \in Unpublished => Absent(job[u].id))'
      BY <2>2, <2>5, <2>7 DEF FreshInv, JobsFresh, Absent
    <3> QED BY <3>1, <3>2, <3>3 DEF JobsFresh
  <2> QED BY <2>5, <2>6, <2>9 DEF FreshInv
<1>3. ASSUME NEW t \in Threads, Finish(t) PROVE FreshInv'
  <2>1. /\ UNCHANGED <<saved, issued>>
        /\ \A u \in Threads : stage'[u] # "idle" =>
             /\ stage[u] # "idle" /\ (stage'[u] \in Unpublished => stage[u] \in Unpublished)
             /\ job'[u].id = job[u].id
    BY <1>3, FinishKeeps
  <2>2. \A u \in Threads : stage'[u] \in Unpublished => stage'[u] # "idle"
    BY DEF Unpublished, Operating
  <2>3. CASE UNCHANGED memory
    BY <2>1, <2>2, <2>3 DEF memory, FreshInv, Drawn, JobsFresh, Absent
  <2>4. ASSUME stage[t] # "idle", stage'[t] \notin Unpublished,
               \E kind \in {"analysis", "operation"} :
                 results' \in {results, results \cup {ResultOf(t, kind)}},
               executions' \in {executions, executions \cup {ExecutionOf(t)}}
        PROVE  FreshInv'
    <3>1. /\ \A r \in results' : r \in results \/ r.id = job[t].id
          /\ \A e \in executions' : e \in executions \/ e.id = job[t].id
      BY <2>4, RecordTypes
    <3>2. Drawn(results, executions)'
      BY <2>1, <2>4, <3>1 DEF FreshInv, Drawn, JobsFresh
    <3>3. \A u \in Threads : stage'[u] \in Unpublished => u # t /\ job[u].id # job[t].id
      BY <2>1, <2>2, <2>4 DEF FreshInv, JobsFresh
    <3>4. (\A u \in Threads : stage[u] \in Unpublished => Absent(job[u].id))'
      BY <2>1, <2>2, <3>1, <3>3 DEF FreshInv, JobsFresh, Absent
    <3> QED BY <2>1, <3>2, <3>4 DEF FreshInv, JobsFresh, Drawn
  <2>5. ASSUME NEW next, Move(t, next) PROVE stage'[t] = next
    BY <2>5 DEF Move, Types, ThreadsOK
  <2>6. CASE PublishAnalysis(t)
    BY <2>4, <2>5, <2>6 DEF PublishAnalysis, Unpublished, Operating
  <2>7. CASE PublishOperation(t)
    BY <2>4, <2>5, <2>7 DEF PublishOperation, RetainedExecution, Unpublished, Operating
  <2> QED BY <1>3, <2>3, <2>6, <2>7, FinishRetains
<1>4. ASSUME NEW w \in Workspaces, Load(w), Drawn(w.results, w.executions), issued' = issued,
             saved' = saved \/ saved' = Workspace
      PROVE  FreshInv'
  <2>1. saved' # None => Drawn(saved.results, saved.executions)'
    BY <1>4, WorkspaceType DEF FreshInv, Drawn, Types
  <2> QED BY <1>4, <2>1 DEF Load, FreshInv, Drawn, JobsFresh, Unpublished, Operating
<1>5. CASE Save
  BY <1>5, WorkspaceType DEF Save, memory, threads, Types, FreshInv, Drawn, JobsFresh, Absent
<1>6. CASE Shutdown \/ Crash
  BY <1>4, <1>6, NewWorkspaceType DEF Shutdown, Crash, Drawn
<1>7. CASE Reopen
  <2> DEFINE w == IF saved = None THEN NewWorkspace ELSE saved
  <2>1. w \in Workspaces /\ Drawn(w.results, w.executions)
    BY NewWorkspaceType DEF Types, SavedOK, FreshInv, Drawn
  <2>2. Load(w) /\ UNCHANGED <<saved, issued>>
    BY <1>7 DEF Reopen
  <2> HIDE DEF w
  <2> QED BY <1>4, <2>1, <2>2
<1>8. CASE UNCHANGED vars
  BY <1>8 DEF vars, memory, threads, FreshInv, Drawn, JobsFresh, Absent
<1> QED BY <1>1, <1>2, <1>3, <1>5, <1>6, <1>7, <1>8 DEF Next

LEMMA Freshness == Spec => []FreshInv
<1>1. Init => FreshInv
  BY DEF Init, FreshInv, Drawn, JobsFresh, Unpublished, Operating
<1> QED BY <1>1, FreshNext, Typing, PTL DEF Spec

-----------------------------------------------------------------------------
(* Slots: an operation in flight keeps a slot for its execution.             *)

InStages(S) == {t \in Threads : stage[t] \in S}

SlotInv ==
  /\ pending = Cardinality(InStages(Operating \cup Settled))
  /\ Cardinality(executions) + Cardinality(InStages(Operating)) <= MaxRecords
  /\ RefusalsRetained

LEMMA StagesFinite ==
  ASSUME NEW S
  PROVE  IsFiniteSet(InStages(S)) /\ Cardinality(InStages(S)) \in Nat
<1>1. InStages(S) \subseteq Threads
  BY DEF InStages
<1>2. IsFiniteSet(InStages(S))
  BY <1>1, FS_Subset, ConstantTypes
<1> QED BY <1>2, FS_CardinalityType

\* How a change of one thread's stage changes such a set.
LEMMA StageEnters ==
  ASSUME ThreadsOK, NEW t \in Threads, NEW next, Move(t, next), NEW S, stage[t] \notin S, next \in S
  PROVE  Cardinality(InStages(S)') = Cardinality(InStages(S)) + 1
<1>1. InStages(S)' = InStages(S) \cup {t} /\ t \notin InStages(S)
  BY DEF InStages, Move, ThreadsOK
<1> QED BY <1>1, StagesFinite, FS_AddElement

LEMMA StageLeaves ==
  ASSUME ThreadsOK, NEW t \in Threads, NEW next, Move(t, next), NEW S, stage[t] \in S, next \notin S
  PROVE  Cardinality(InStages(S)') = Cardinality(InStages(S)) - 1
<1>1. InStages(S)' = InStages(S) \ {t} /\ t \in InStages(S)
  BY DEF InStages, Move, ThreadsOK
<1> QED BY <1>1, StagesFinite, FS_RemoveElement

LEMMA StageStays ==
  ASSUME ThreadsOK, NEW t \in Threads, NEW next, Move(t, next), NEW S, stage[t] \in S <=> next \in S
  PROVE  InStages(S)' = InStages(S)
BY DEF InStages, Move, ThreadsOK

LEMMA SlotNext == Types /\ SlotInv /\ [Next]_vars => SlotInv'
<1> SUFFICES ASSUME Types, SlotInv, [Next]_vars PROVE SlotInv'
  OBVIOUS
<1> DEFINE Owing == Operating \cup Settled
<1>1. ThreadsOK /\ Cardinality(executions) \in Nat /\ MaxRecords \in Nat
  BY FS_CardinalityType, ConstantTypes DEF Types, MemoryOK
<1>2. /\ Cardinality(InStages(Operating)) \in Nat /\ Cardinality(InStages(Owing)) \in Nat
      /\ Cardinality(InStages(Operating)) <= Cardinality(InStages(Owing))
  <2>1. InStages(Operating) \subseteq InStages(Owing)
    BY DEF InStages
  <2> QED BY <2>1, StagesFinite, FS_Subset
<1>3. ASSUME UNCHANGED <<threads, pending, executions>> PROVE SlotInv'
  BY <1>3 DEF SlotInv, InStages, threads, RefusalsRetained
<1>4. ASSUME NEW t \in Threads, NEW next, Move(t, next), next # "dropped",
             UNCHANGED <<pending, executions>>,
             stage[t] \in Operating <=> next \in Operating, stage[t] \in Owing <=> next \in Owing,
             \A u \in Threads \ {t} : job'[u] = job[u]
      PROVE  SlotInv'
  <2>1. InStages(Operating)' = InStages(Operating) /\ InStages(Owing)' = InStages(Owing)
    BY <1>1, <1>4, StageStays
  <2>2. RefusalsRetained'
    BY <1>1, <1>4 DEF Move, ThreadsOK, SlotInv, RefusalsRetained
  <2> QED BY <1>4, <2>1, <2>2 DEF SlotInv
<1>5. ASSUME NEW t \in Threads, Start(t) PROVE SlotInv'
  <2>1. PICK v \in Values : StartAnalysis(t, v) \/ StartOperation(t, v)
    BY <1>5 DEF Start
  <2>2. CASE StartAnalysis(t, v)
    <3>1. /\ Move(t, "analysing") /\ stage[t] = "idle" /\ UNCHANGED <<pending, executions>>
          /\ \A u \in Threads \ {t} : job'[u] = job[u]
      BY <1>1, <2>2 DEF StartAnalysis, Capture, Move, memory, ThreadsOK
    <3> QED BY <3>1, <1>4 DEF Operating, Settled
  <2>3. CASE StartOperation(t, v)
    <3>1. /\ Move(t, "operating") /\ stage[t] = "idle" /\ pending' = pending + 1
          /\ executions' = executions /\ Cardinality(executions) + pending < MaxRecords
          /\ \A u \in Threads \ {t} : job'[u] = job[u]
      BY <1>1, <2>3 DEF StartOperation, HasRoom, Capture, Move, memory, ThreadsOK
    <3>2. /\ Cardinality(InStages(Operating)') = Cardinality(InStages(Operating)) + 1
          /\ Cardinality(InStages(Owing)') = Cardinality(InStages(Owing)) + 1
      BY <1>1, <3>1, StageEnters DEF Operating, Settled
    <3>3. RefusalsRetained'
      BY <1>1, <3>1 DEF Move, ThreadsOK, SlotInv, RefusalsRetained
    <3>4. pending' = Cardinality(InStages(Owing)')
      BY <1>2, <3>1, <3>2 DEF SlotInv
    <3>5. Cardinality(executions') + Cardinality(InStages(Operating)') <= MaxRecords
      BY <1>1, <1>2, <3>1, <3>2 DEF SlotInv
    <3> QED BY <3>3, <3>4, <3>5 DEF SlotInv, InStages
  <2> QED BY <2>1, <2>2, <2>3
<1>6. ASSUME NEW t \in Threads, WriteAnalysis(t) \/ PublishAnalysis(t) \/ FailAnalysis(t) \/ WriteResult(t)
      PROVE  SlotInv'
  <2>1. PICK next : /\ Move(t, next) /\ next # "dropped" /\ UNCHANGED <<pending, executions>>
                    /\ stage[t] \in Operating <=> next \in Operating
                    /\ stage[t] \in Owing <=> next \in Owing
                    /\ \A u \in Threads \ {t} : job'[u] = job[u]
    BY <1>1, <1>6 DEF WriteAnalysis, PublishAnalysis, FailAnalysis, WriteResult, memory, Operating,
                      Settled, ThreadsOK
  <2> QED BY <2>1, <1>4
<1>7. ASSUME NEW t \in Threads, NEW completed \in BOOLEAN, WriteExecution(t, completed) PROVE SlotInv'
  <2>1. /\ Move(t, "execution-file") /\ stage[t] = "operating" /\ UNCHANGED <<pending, executions>>
        /\ \A u \in Threads \ {t} : job'[u] = job[u]
    BY <1>1, <1>7 DEF WriteExecution, memory, ThreadsOK
  <2> QED BY <2>1, <1>4 DEF Operating
\* An operation that leaves its critical section gives up the slot it kept.
<1>8. ASSUME NEW t \in Threads, stage[t] \in Operating, NEW next \in Settled, Move(t, next),
             pending' = pending,
             Cardinality(executions') <= Cardinality(executions) + 1, Cardinality(executions') \in Nat,
             next = "dropped" => job'[t].completed, \A u \in Threads \ {t} : job'[u] = job[u]
      PROVE  SlotInv'
  <2>1. Cardinality(InStages(Operating)') = Cardinality(InStages(Operating)) - 1
    BY <1>1, <1>8, StageLeaves DEF Operating, Settled
  <2>2. InStages(Owing)' = InStages(Owing)
    BY <1>1, <1>8, StageStays
  <2>3. RefusalsRetained'
    BY <1>1, <1>8 DEF Move, ThreadsOK, SlotInv, RefusalsRetained
  <2>4. Cardinality(executions') + Cardinality(InStages(Operating)') <= MaxRecords
    BY <1>1, <1>2, <1>8, <2>1 DEF SlotInv
  <2>5. pending' = Cardinality(InStages(Owing)')
    BY <1>8, <2>2 DEF SlotInv
  <2> QED BY <2>3, <2>4, <2>5 DEF SlotInv, InStages
<1>9. ASSUME NEW t \in Threads, NEW completed \in BOOLEAN, Drop(t, completed) PROVE SlotInv'
  <2>1. /\ stage[t] = "operating" /\ Move(t, "dropped") /\ ~MayPublish(completed)
        /\ UNCHANGED <<pending, executions>>
        /\ job' = [job EXCEPT ![t].completed = completed]
    BY <1>9 DEF Drop, memory
  <2>2. Cardinality(InStages(Operating)) > 0
    <3>1. t \in InStages(Operating)
      BY <2>1 DEF InStages, Operating
    <3> QED BY <3>1, <1>2, StagesFinite, FS_EmptySet
  <2>3. completed
    BY <1>1, <1>2, <2>1, <2>2 DEF MayPublish, SlotInv
  <2>4. job'[t].completed /\ \A u \in Threads \ {t} : job'[u] = job[u]
    BY <1>1, <2>1, <2>3 DEF ThreadsOK, Jobs
  <2> QED BY <1>1, <1>8, <2>1, <2>4 DEF Operating, Settled
<1>10. ASSUME NEW t \in Threads, FailOperation(t) PROVE SlotInv'
  BY <1>1, <1>8, <1>10 DEF FailOperation, memory, Operating, Settled
<1>11. ASSUME NEW t \in Threads, PublishOperation(t) PROVE SlotInv'
  <2>1. /\ stage[t] \in Operating /\ Move(t, "settled") /\ UNCHANGED <<pending, job>>
        /\ executions' = executions \cup {ExecutionOf(t)}
    BY <1>11 DEF PublishOperation, RetainedExecution, Operating
  <2>2. Cardinality(executions') <= Cardinality(executions) + 1 /\ Cardinality(executions') \in Nat
    <3> DEFINE e == ExecutionOf(t)
    <3>1. IsFiniteSet(executions) /\ executions' = executions \cup {e}
      BY <2>1 DEF Types, MemoryOK
    <3> HIDE DEF e
    <3>2. /\ IsFiniteSet(executions \cup {e})
          /\ Cardinality(executions \cup {e})
               = IF e \in executions THEN Cardinality(executions) ELSE Cardinality(executions) + 1
      BY <3>1, FS_AddElement
    <3>3. Cardinality(executions \cup {e}) \in Nat
      BY <3>2, FS_CardinalityType
    <3> QED BY <1>1, <3>1, <3>2, <3>3
  <2> QED BY <1>8, <2>1, <2>2 DEF Settled
<1>12. ASSUME NEW t \in Threads, Release(t) PROVE SlotInv'
  <2>1. /\ stage[t] \in Settled /\ Move(t, "idle") /\ pending' = pending - 1
        /\ executions' = executions /\ job' = [job EXCEPT ![t] = NoJob]
    BY <1>12 DEF Release, memory
  <2>2. Cardinality(InStages(Owing)') = Cardinality(InStages(Owing)) - 1
    BY <1>1, <2>1, StageLeaves DEF Operating, Settled
  <2>3. InStages(Operating)' = InStages(Operating)
    BY <1>1, <2>1, StageStays DEF Operating, Settled
  <2>4. RefusalsRetained'
    BY <1>1, <2>1 DEF Move, ThreadsOK, SlotInv, RefusalsRetained
  <2>5. pending' = Cardinality(InStages(Owing)')
    BY <2>1, <2>2 DEF SlotInv
  <2> QED BY <2>1, <2>3, <2>4, <2>5 DEF SlotInv
<1>13. ASSUME NEW w, Load(w), Cardinality(w.executions) <= MaxRecords, Cardinality(w.executions) \in Nat
       PROVE  SlotInv'
  <2>1. /\ InStages(Operating)' = {} /\ InStages(Owing)' = {}
    BY <1>13 DEF Load, InStages, Operating, Settled
  <2>2. Cardinality({}) = 0
    BY FS_EmptySet
  <2>3. executions' = w.executions /\ pending' = 0 /\ RefusalsRetained'
    BY <1>13 DEF Load, RefusalsRetained
  <2>4. pending' = Cardinality(InStages(Owing)')
    BY <2>1, <2>2, <2>3
  <2>5. Cardinality(executions') + Cardinality(InStages(Operating)') <= MaxRecords
    BY <1>13, <2>1, <2>2, <2>3
  <2> QED BY <2>3, <2>4, <2>5 DEF SlotInv, InStages
<1>14. CASE Shutdown \/ Crash
  BY <1>1, <1>13, <1>14, NewWorkspaceType, FS_EmptySet DEF Shutdown, Crash
<1>15. CASE Reopen
  <2> DEFINE w == IF saved = None THEN NewWorkspace ELSE saved
  <2>1. Load(w) /\ Cardinality(w.executions) <= MaxRecords
    BY <1>15 DEF Reopen, Accepts
  <2>2. Cardinality(w.executions) \in Nat
    BY NewWorkspaceType, FS_CardinalityType DEF Types, SavedOK
  <2> HIDE DEF w
  <2> QED BY <2>1, <2>2, <1>13
<1>16. CASE Save \/ UNCHANGED vars \/ \E v \in Values : UpdateSelection(v)
  BY <1>3, <1>16 DEF Save, UpdateSelection, vars, memory
<1> QED BY <1>5, <1>6, <1>7, <1>9, <1>10, <1>11, <1>12, <1>14, <1>15, <1>16 DEF Next, Finish

LEMMA SlotInit == Init => SlotInv
<1> SUFFICES ASSUME Init PROVE SlotInv
  OBVIOUS
<1>1. \A S \in {Operating, Operating \cup Settled} : InStages(S) = {}
  BY DEF Init, InStages, Operating, Settled
<1>2. InStages(Operating) = {} /\ InStages(Operating \cup Settled) = {} /\ executions = {}
  BY <1>1 DEF Init
<1>3. RefusalsRetained /\ pending = 0
  BY DEF Init, RefusalsRetained
<1> QED BY <1>2, <1>3, FS_EmptySet, ConstantTypes DEF SlotInv

\* A refused invocation is never dropped (docs/ARCHITECTURE.md:83): its slot was kept for
\* it since it was admitted, whatever analyses and operations ran meanwhile.
THEOREM RefusalsCorrect == Spec => []RefusalsRetained
<1>1. SlotInv => RefusalsRetained
  BY DEF SlotInv
<1> QED BY <1>1, SlotInit, SlotNext, Typing, PTL DEF Spec

-----------------------------------------------------------------------------
(* The ledger.                                                               *)

\* What the ledger sees of workspace.json is its records.
LEMMA LedgerOfSaved ==
  ASSUME NEW w \in Workspaces
  PROVE  /\ w # None
         /\ [results |-> w.results, executions |-> w.executions] # None
<1>1. [results |-> w.results, executions |-> w.executions] \in Ledgers
  BY DEF Workspaces, Ledgers
<1> QED BY <1>1, NoneAssumption

LEMMA InitRefines == Init => Abstract!Init
BY DEF Init, Abstract!Init

\* The identity of a request is fresh, so what it publishes is new.
LEMMA PublishRefines ==
  ASSUME Types, FreshInv, NEW t \in Threads, PublishAnalysis(t) \/ PublishOperation(t)
  PROVE  Abstract!Next
<1>1. stage[t] # "idle" /\ up /\ UNCHANGED saved /\ up' = up
  BY DEF PublishAnalysis, PublishOperation
<1>2. ASSUME NEW kind \in {"analysis", "operation"}
      PROVE  ResultOf(t, kind) \notin results /\ ExecutionOf(t) \notin executions
  <2>1. Absent(job[t].id)
    BY DEF PublishAnalysis, PublishOperation, FreshInv, JobsFresh, Unpublished, Operating
  <2> QED BY <1>1, <2>1, RecordTypes DEF Absent
<1>3. CASE PublishAnalysis(t)
  <2> DEFINE r == ResultOf(t, "analysis")
  <2>1. r.kind = "analysis" /\ r \notin results
    BY <1>1, <1>2, RecordTypes
  <2>2. results' = results \cup {r} /\ UNCHANGED executions
    BY <1>3 DEF PublishAnalysis
  <2> HIDE DEF r
  <2>3. r \in results' \ results
    BY <2>1, <2>2
  <2>4. Abstract!RetainAnalysis(r)
    BY <1>1, <2>1, <2>2 DEF Abstract!RetainAnalysis
  <2> QED BY <2>3, <2>4 DEF Abstract!Next
<1>4. CASE PublishOperation(t)
  <2> DEFINE r == ResultOf(t, "operation")
             e == ExecutionOf(t)
  <2>1. /\ r \notin results /\ e \notin executions
        /\ e.completed = job[t].completed
        /\ r.kind = "operation" /\ e.id = r.id /\ e.revision = r.revision /\ e.value = r.value
    BY <1>1, <1>2, RecordTypes
  <2>2. /\ executions' = executions \cup {e}
        /\ \/ ~job[t].completed /\ UNCHANGED results
           \/ stage[t] = "result-file" /\ results' = results \cup {r}
    BY <1>4 DEF PublishOperation, RetainedExecution
  <2>3. stage[t] = "result-file" => job[t].completed
    BY DEF Types, ThreadsOK
  <2> HIDE DEF r, e
  <2>4. e \in executions' \ executions
    BY <2>1, <2>2
  <2>5. CASE ~job[t].completed /\ UNCHANGED results
    <3>1. Abstract!RetainRefusal(e)
      BY <1>1, <2>1, <2>2, <2>5 DEF Abstract!RetainRefusal
    <3> QED BY <2>4, <3>1 DEF Abstract!Next
  <2>6. CASE stage[t] = "result-file" /\ results' = results \cup {r}
    <3>1. r \in results' \ results
      BY <2>1, <2>6
    <3>2. Abstract!RetainPair(e, r)
      BY <1>1, <2>1, <2>2, <2>3, <2>6 DEF Abstract!RetainPair, Abstract!Binds
    <3> QED BY <2>4, <3>1, <3>2 DEF Abstract!Next
  <2> QED BY <2>2, <2>5, <2>6
<1> QED BY <1>3, <1>4

LEMMA NextRefines == Types /\ FreshInv /\ [Next]_vars => [Abstract!Next]_(Abstract!vars)
<1> SUFFICES ASSUME Types, FreshInv, [Next]_vars PROVE [Abstract!Next]_(Abstract!vars)
  OBVIOUS
<1>1. ASSUME UNCHANGED <<results, executions, saved, up>> PROVE UNCHANGED Abstract!vars
  BY <1>1 DEF Abstract!vars
<1>2. ASSUME NEW v \in Values, UpdateSelection(v) PROVE UNCHANGED Abstract!vars
  BY <1>1, <1>2 DEF UpdateSelection
<1>3. ASSUME NEW t \in Threads, Start(t) PROVE UNCHANGED Abstract!vars
  BY <1>1, <1>3 DEF Start, StartAnalysis, StartOperation, Capture, memory
<1>4. ASSUME NEW t \in Threads, Finish(t) PROVE [Abstract!Next]_(Abstract!vars)
  <2>1. CASE PublishAnalysis(t) \/ PublishOperation(t)
    BY <2>1, PublishRefines
  <2>2. CASE ~PublishAnalysis(t) /\ ~PublishOperation(t)
    <3>1. UNCHANGED memory /\ UNCHANGED <<saved, up>>
      BY <1>4, <2>2, FinishRetains, FinishKeeps
    <3> QED BY <1>1, <3>1 DEF memory
  <2> QED BY <2>1, <2>2
<1>5. CASE Save
  <2>1. Abstract!Save
    BY <1>5, WorkspaceType DEF Save, memory, Types, Abstract!Save
  <2> QED BY <2>1 DEF Abstract!Next
<1>6. CASE Shutdown
  <2>1. Abstract!Shutdown
    BY <1>6, WorkspaceType, NewWorkspaceType DEF Shutdown, Load, Types, Abstract!Shutdown
  <2> QED BY <2>1 DEF Abstract!Next
<1>7. CASE Crash
  <2>1. Abstract!Crash
    BY <1>7, NewWorkspaceType DEF Crash, Load, Abstract!Crash
  <2> QED BY <2>1 DEF Abstract!Next
<1>8. CASE Reopen
  <2>1. saved # None => [results |-> saved.results, executions |-> saved.executions] # None
    BY LedgerOfSaved DEF Types, SavedOK
  <2>2. Abstract!Reopen
    BY <1>8, <2>1, NewWorkspaceType DEF Reopen, Load, Abstract!Reopen
  <2> QED BY <2>2 DEF Abstract!Next
<1>9. CASE UNCHANGED vars
  BY <1>1, <1>9 DEF vars, memory
<1> QED BY <1>2, <1>3, <1>4, <1>5, <1>6, <1>7, <1>8, <1>9 DEF Next

\* Every behaviour of a recording - concurrent requests, failed writes, crashes and
\* restarts included - is one of the append-only ledger: analyses and operations are
\* retained whole and never altered (session.py:367-445).
THEOREM LedgerImplemented == Spec => ImplementsLedger
BY InitRefines, NextRefines, Typing, Freshness, PTL DEF Spec, ImplementsLedger, Abstract!Spec

-----------------------------------------------------------------------------
(* The record files: the steps that write one, and those that only retain    *)
(* what a request wrote before.                                              *)

DiskInv ==
  /\ RecordsOnDisk
  /\ \A t \in Threads :
       stage[t] \in {"analysis-file", "result-file"} => File("result", job[t].id) \in disk

LEMMA DiskNext == Types /\ DiskInv /\ [Next]_vars => DiskInv'
<1> SUFFICES ASSUME Types, DiskInv, [Next]_vars PROVE DiskInv'
  OBVIOUS
<1>1. stage \in [Threads -> Busy \cup {"idle"}] /\ job \in [Threads -> Jobs \cup {NoJob}]
  BY DEF Types, ThreadsOK
\* A step after which t holds no lock, or t has what its stage needs on disk.
<1>2. ASSUME NEW t \in Threads, UNCHANGED <<results, executions>>, disk \subseteq disk',
             \A u \in Threads \ {t} : stage'[u] = stage[u] /\ job'[u] = job[u],
             stage'[t] \in {"analysis-file", "result-file"} => File("result", job'[t].id) \in disk',
             stage'[t] \in {"execution-file", "result-file"} =>
               File("execution", job'[t].id) \in disk'
      PROVE  DiskInv'
  BY <1>2 DEF DiskInv, RecordsOnDisk
<1>3. ASSUME NEW t \in Threads, stage'[t] \notin Locked,
             \A u \in Threads \ {t} : stage'[u] = stage[u] /\ job'[u] = job[u],
             UNCHANGED disk,
             Files(results', executions') \subseteq disk,
             \A r \in results' \ results : r.kind = "operation" => File("execution", r.id) \in disk
      PROVE  DiskInv'
  BY <1>3 DEF DiskInv, RecordsOnDisk, Locked
<1>4. ASSUME NEW t \in Threads, Start(t) PROVE DiskInv'
  <2>1. PICK v \in Values, next \in {"analysing", "operating"} : Capture(t, v, next)
    BY <1>4 DEF Start, StartAnalysis, StartOperation
  <2>2. /\ UNCHANGED <<results, executions, disk>> /\ stage'[t] = next
        /\ \A u \in Threads \ {t} : stage'[u] = stage[u] /\ job'[u] = job[u]
    BY <1>1, <2>1 DEF Capture, memory
  <2> QED BY <1>2, <2>2
<1>5. ASSUME NEW t \in Threads, WriteAnalysis(t) PROVE DiskInv'
  BY <1>1, <1>2, <1>5 DEF WriteAnalysis, Move, memory
<1>6. ASSUME NEW t \in Threads, FailAnalysis(t) \/ FailOperation(t) \/ Release(t) PROVE DiskInv'
  BY <1>1, <1>2, <1>6 DEF FailAnalysis, FailOperation, Release, Move, memory
<1>7. ASSUME NEW t \in Threads, NEW completed \in BOOLEAN, WriteExecution(t, completed)
      PROVE  DiskInv'
  <2>1. job[t] \in Jobs
    BY <1>7 DEF WriteExecution, Types, ThreadsOK
  <2>2. job'[t].id = job[t].id
    BY <1>1, <1>7, <2>1 DEF WriteExecution, Jobs
  <2> QED BY <1>1, <1>2, <1>7, <2>2 DEF WriteExecution, FirstFile, Move, memory
<1>8. ASSUME NEW t \in Threads, NEW completed \in BOOLEAN, Drop(t, completed) PROVE DiskInv'
  BY <1>1, <1>2, <1>8 DEF Drop, Move, memory
<1>9. ASSUME NEW t \in Threads, WriteResult(t) PROVE DiskInv'
  <2>1. File("execution", job[t].id) \in disk
    BY <1>9 DEF WriteResult, DiskInv, RecordsOnDisk
  <2> QED BY <1>1, <1>2, <1>9, <2>1 DEF WriteResult, Move, memory
<1>10. ASSUME NEW t \in Threads, PublishAnalysis(t) PROVE DiskInv'
  <2> DEFINE r == ResultOf(t, "analysis")
  <2>1. r.id = job[t].id /\ r.kind = "analysis"
    BY <1>10, RecordTypes DEF PublishAnalysis
  <2>2. results' = results \cup {r} /\ UNCHANGED <<executions, disk>>
    BY <1>10 DEF PublishAnalysis
  <2> HIDE DEF r
  <2>3. File("result", r.id) \in disk
    BY <1>10, <2>1 DEF PublishAnalysis, DiskInv
  <2>4. Files(results', executions') \subseteq disk
    BY <2>2, <2>3 DEF DiskInv, RecordsOnDisk, Files
  <2>5. stage'[t] \notin Locked /\ \A u \in Threads \ {t} : stage'[u] = stage[u] /\ job'[u] = job[u]
    BY <1>1, <1>10 DEF PublishAnalysis, Move, Locked
  <2> QED BY <1>3, <2>1, <2>2, <2>4, <2>5
<1>11. ASSUME NEW t \in Threads, PublishOperation(t) PROVE DiskInv'
  <2> DEFINE r == ResultOf(t, "operation")
             e == ExecutionOf(t)
  <2>1. r.id = job[t].id /\ e.id = job[t].id
    BY <1>11, RecordTypes DEF PublishOperation
  <2>2. /\ executions' = executions \cup {e} /\ UNCHANGED disk
        /\ \/ UNCHANGED results
           \/ stage[t] = "result-file" /\ results' = results \cup {r}
    BY <1>11 DEF PublishOperation, RetainedExecution
  <2> HIDE DEF r, e
  <2>3. /\ File("execution", job[t].id) \in disk
        /\ stage[t] = "result-file" => File("result", job[t].id) \in disk
    BY <1>11 DEF PublishOperation, DiskInv, RecordsOnDisk
  <2>4. Files(results', executions') \subseteq disk
    BY <2>1, <2>2, <2>3 DEF DiskInv, RecordsOnDisk, Files
  <2>5. stage'[t] \notin Locked /\ \A u \in Threads \ {t} : stage'[u] = stage[u] /\ job'[u] = job[u]
    BY <1>1, <1>11 DEF PublishOperation, Move, Locked
  <2> QED BY <1>3, <2>1, <2>2, <2>3, <2>4, <2>5
<1>12. ASSUME NEW w, Load(w), Files(w.results, w.executions) \subseteq disk',
              \A r \in w.results : r.kind = "operation" => \E e \in w.executions : e.id = r.id
       PROVE  DiskInv'
  BY <1>12 DEF Load, DiskInv, RecordsOnDisk, Files
<1>13. CASE Shutdown \/ Crash
  BY <1>12, <1>13, NewWorkspaceType DEF Shutdown, Crash, Files
<1>14. CASE Reopen
  BY <1>12, <1>14 DEF Reopen, Accepts, Binds
<1>15. CASE Save \/ UNCHANGED vars \/ \E v \in Values : UpdateSelection(v)
  BY <1>15 DEF Save, UpdateSelection, vars, memory, threads, DiskInv, RecordsOnDisk
<1> QED BY <1>4, <1>5, <1>6, <1>7, <1>8, <1>9, <1>10, <1>11, <1>13, <1>14, <1>15 DEF Next, Finish

\* Whatever write fails and wherever the process stops, a record in memory is also on
\* disk, and the result of an operation never without its execution
\* (session.py:386-387, 437-441).
THEOREM FilesCorrect == Spec => []RecordsOnDisk
<1>1. Init => DiskInv
  BY DEF Init, DiskInv, RecordsOnDisk, Files
<1>2. DiskInv => RecordsOnDisk
  BY DEF DiskInv
<1> QED BY <1>1, <1>2, DiskNext, Typing, PTL DEF Spec

-----------------------------------------------------------------------------
(* Saved workspaces: what memory holds between two critical sections is what *)
(* from_workspace accepts.                                                   *)

Unique(R, E) ==
  /\ \A r1, r2 \in R : r1.id = r2.id => r1 = r2
  /\ \A e1, e2 \in E : e1.id = e2.id => e1 = e2

Paired(R, E) ==
  /\ \A e \in E : e.completed => \E r \in R : Binds(e, r)
  /\ \A r \in R : r.kind = "operation" => \E e \in E : Binds(e, r)

\* The thread that holds the lock and will retain a result has room for it.
RoomHeld ==
  \A t \in Threads :
    \/ stage[t] = "analysis-file"
    \/ stage[t] \in {"execution-file", "result-file"} /\ job[t].completed
    => Cardinality(results) < MaxRecords

RecordInv ==
  /\ Cardinality(results) <= MaxRecords
  /\ Unique(results, executions)
  /\ Paired(results, executions)
  /\ RoomHeld
  /\ SavedReopens

LEMMA WorkspaceAccepted ==
  ASSUME Types, CaptureInv, SlotInv, RecordInv
  PROVE  Accepts(Workspace)
<1>1. Cardinality(executions) <= MaxRecords
  <2>1. Cardinality(InStages(Operating)) \in Nat /\ Cardinality(executions) \in Nat
    BY StagesFinite, FS_CardinalityType DEF Types, MemoryOK
  <2> QED BY <2>1, ConstantTypes DEF SlotInv
<1>2. /\ Workspace.results = results /\ Workspace.executions = executions
      /\ Workspace.selection = selection
  BY WorkspaceType DEF Types
<1> QED BY <1>1, <1>2 DEF Accepts, RecordInv, Unique, Paired, CaptureInv, Traced

LEMMA RecordNext ==
  Types /\ FreshInv /\ CaptureInv /\ SlotInv /\ RecordInv /\ [Next]_vars => RecordInv'
<1> SUFFICES ASSUME Types, FreshInv, CaptureInv, SlotInv, RecordInv, [Next]_vars PROVE RecordInv'
  OBVIOUS
<1>1. /\ stage \in [Threads -> Busy \cup {"idle"}] /\ job \in [Threads -> Jobs \cup {NoJob}]
      /\ IsFiniteSet(results) /\ Cardinality(results) \in Nat /\ MaxRecords \in Nat
  BY FS_CardinalityType, ConstantTypes DEF Types, ThreadsOK, MemoryOK
\* Nothing is retained, and the room of the thread that moved is held.
<1>2. ASSUME NEW t \in Threads, UNCHANGED <<results, executions, saved>>,
             \A u \in Threads \ {t} : stage'[u] = stage[u] /\ job'[u] = job[u],
             \/ stage'[t] \notin Locked
             \/ stage'[t] = "execution-file" /\ ~job'[t].completed
             \/ Cardinality(results) < MaxRecords
      PROVE  RecordInv'
  <2>1. RoomHeld'
    BY <1>2 DEF RecordInv, RoomHeld, Locked
  <2> QED BY <1>2, <2>1 DEF RecordInv, Unique, Paired, SavedReopens
\* The thread that held the lock retained its records and left.
<1>3. ASSUME NEW t \in Threads, stage[t] \in Locked, stage'[t] \notin Locked,
             \A u \in Threads \ {t} : stage'[u] = stage[u], UNCHANGED saved,
             Cardinality(results') <= MaxRecords,
             Unique(results, executions)', Paired(results, executions)'
      PROVE  RecordInv'
  <2>1. \A u \in Threads : stage'[u] \notin Locked
    BY <1>3 DEF Types, ThreadsOK
  <2>2. RoomHeld'
    BY <2>1 DEF RoomHeld, Locked
  <2> QED BY <1>3, <2>2 DEF RecordInv, SavedReopens
<1>4. ASSUME NEW t \in Threads, Start(t) PROVE RecordInv'
  <2>1. PICK v \in Values, next \in {"analysing", "operating"} : Capture(t, v, next)
    BY <1>4 DEF Start, StartAnalysis, StartOperation
  <2>2. /\ UNCHANGED <<results, executions, saved>> /\ stage'[t] = next
        /\ \A u \in Threads \ {t} : stage'[u] = stage[u] /\ job'[u] = job[u]
    BY <1>1, <2>1 DEF Capture, memory
  <2> QED BY <1>2, <2>2 DEF Locked
<1>5. ASSUME NEW t \in Threads, WriteAnalysis(t) PROVE RecordInv'
  BY <1>1, <1>2, <1>5 DEF WriteAnalysis, HasRoom, Move, memory
<1>6. ASSUME NEW t \in Threads, FailAnalysis(t) \/ FailOperation(t) \/ Release(t) PROVE RecordInv'
  BY <1>1, <1>2, <1>6 DEF FailAnalysis, FailOperation, Release, Move, memory, Locked
<1>7. ASSUME NEW t \in Threads, NEW completed \in BOOLEAN,
             WriteExecution(t, completed) \/ Drop(t, completed)
      PROVE  RecordInv'
  <2>1. job[t] \in Jobs
    BY <1>7 DEF WriteExecution, Drop, Types, ThreadsOK
  <2>2. job'[t].completed = completed
    BY <1>1, <1>7, <2>1 DEF WriteExecution, Drop, Jobs
  <2>3. /\ UNCHANGED <<results, executions, saved>>
        /\ \A u \in Threads \ {t} : stage'[u] = stage[u] /\ job'[u] = job[u]
    BY <1>1, <1>7 DEF WriteExecution, Drop, Move, memory
  <2>4. CASE WriteExecution(t, completed)
    <3>1. stage'[t] = "execution-file" /\ (completed => Cardinality(results) < MaxRecords)
      BY <1>1, <2>4 DEF WriteExecution, MayPublish, Move
    <3> QED BY <1>2, <2>2, <2>3, <3>1
  <2>5. CASE Drop(t, completed)
    <3>1. stage'[t] = "dropped"
      BY <1>1, <2>5 DEF Drop, Move
    <3> QED BY <1>2, <2>3, <3>1 DEF Locked
  <2> QED BY <1>7, <2>4, <2>5
<1>8. ASSUME NEW t \in Threads, WriteResult(t) PROVE RecordInv'
  <2>1. Cardinality(results) < MaxRecords
    BY <1>8 DEF WriteResult, RecordInv, RoomHeld
  <2> QED BY <1>1, <1>2, <1>8, <2>1 DEF WriteResult, Move, memory
<1>9. ASSUME NEW r, Cardinality(results) < MaxRecords
      PROVE  Cardinality(results \cup {r}) <= MaxRecords
  <2>1. Cardinality(results \cup {r})
          = IF r \in results THEN Cardinality(results) ELSE Cardinality(results) + 1
    BY <1>1, FS_AddElement
  <2> QED BY <1>1, <1>9, <2>1
<1>10. ASSUME NEW t \in Threads, PublishAnalysis(t) PROVE RecordInv'
  <2> DEFINE r == ResultOf(t, "analysis")
  <2>1. r.id = job[t].id /\ r.kind = "analysis" /\ Absent(job[t].id)
    BY <1>10, RecordTypes DEF PublishAnalysis, FreshInv, JobsFresh, Unpublished
  <2>2. /\ results' = results \cup {r} /\ executions' = executions /\ saved' = saved
        /\ stage[t] \in Locked /\ stage'[t] \notin Locked
        /\ \A u \in Threads \ {t} : stage'[u] = stage[u]
    BY <1>1, <1>10 DEF PublishAnalysis, Move, Locked
  <2> HIDE DEF r
  <2>3. Cardinality(results') <= MaxRecords
    BY <1>9, <1>10, <2>2 DEF PublishAnalysis, RecordInv, RoomHeld
  <2>4. Unique(results, executions)'
    BY <2>1, <2>2 DEF RecordInv, Unique, Absent
  <2>5. Paired(results, executions)'
    BY <2>1, <2>2 DEF RecordInv, Paired
  <2> QED BY <1>3, <2>2, <2>3, <2>4, <2>5
<1>11. ASSUME NEW t \in Threads, PublishOperation(t) PROVE RecordInv'
  <2> DEFINE r == ResultOf(t, "operation")
             e == ExecutionOf(t)
  <2>1. /\ r.id = job[t].id /\ e.id = job[t].id /\ e.completed = job[t].completed
        /\ Absent(job[t].id)
        /\ e.completed => Binds(e, r)
    BY <1>11, RecordTypes
       DEF PublishOperation, FreshInv, JobsFresh, Unpublished, Operating, Binds
  <2>2. /\ executions' = executions \cup {e} /\ saved' = saved
        /\ \/ ~job[t].completed /\ results' = results
           \/ stage[t] = "result-file" /\ results' = results \cup {r}
    BY <1>11 DEF PublishOperation, RetainedExecution
  <2>3. /\ stage[t] \in Locked /\ stage'[t] \notin Locked
        /\ \A u \in Threads \ {t} : stage'[u] = stage[u]
    BY <1>1, <1>11 DEF PublishOperation, Move, Locked
  <2>4. stage[t] = "result-file" => job[t].completed /\ Cardinality(results) < MaxRecords
    BY DEF Types, ThreadsOK, RecordInv, RoomHeld
  <2> HIDE DEF r, e
  <2>5. Cardinality(results') <= MaxRecords
    BY <1>9, <2>2, <2>4 DEF RecordInv
  <2>6. Unique(results, executions)'
    BY <2>1, <2>2 DEF RecordInv, Unique, Absent
  <2>7. Paired(results, executions)'
    BY <2>1, <2>2, <2>4 DEF RecordInv, Paired
  <2> QED BY <1>3, <2>2, <2>3, <2>5, <2>6, <2>7
<1>12. ASSUME NEW w, Load(w), Cardinality(w.results) <= MaxRecords,
              Unique(w.results, w.executions), Paired(w.results, w.executions), SavedReopens'
       PROVE  RecordInv'
  BY <1>12 DEF Load, RecordInv, Unique, Paired, RoomHeld
<1>13. /\ Cardinality(NewWorkspace.results) <= MaxRecords
       /\ Unique(NewWorkspace.results, NewWorkspace.executions)
       /\ Paired(NewWorkspace.results, NewWorkspace.executions)
  BY <1>1, NewWorkspaceType, FS_EmptySet DEF Unique, Paired
<1>14. CASE Shutdown
  BY <1>12, <1>13, <1>14, WorkspaceAccepted DEF Shutdown, SavedReopens
<1>15. CASE Crash
  BY <1>12, <1>13, <1>15 DEF Crash, RecordInv, SavedReopens
<1>16. CASE Reopen
  BY <1>12, <1>16 DEF Reopen, Accepts, Unique, Paired, RecordInv, SavedReopens
<1>17. CASE Save
  <2>1. SavedReopens'
    BY <1>17, WorkspaceAccepted DEF Save, SavedReopens
  <2> QED BY <1>17, <2>1 DEF Save, memory, threads, RecordInv, Unique, Paired, RoomHeld
<1>18. CASE UNCHANGED vars \/ \E v \in Values : UpdateSelection(v)
  BY <1>18 DEF UpdateSelection, vars, memory, threads, RecordInv, Unique, Paired, RoomHeld,
               SavedReopens
<1> QED BY <1>4, <1>5, <1>6, <1>7, <1>8, <1>10, <1>11, <1>14, <1>15, <1>16, <1>17, <1>18
        DEF Next, Finish

\* from_workspace accepts the workspace that was saved last, whatever moment it was saved
\* at and however many requests were in flight (session.py:490-561).
THEOREM ReopeningCorrect == Spec => []SavedReopens
<1>1. Init => RecordInv
  BY FS_EmptySet, ConstantTypes DEF Init, RecordInv, Unique, Paired, RoomHeld, SavedReopens
<1>2. RecordInv => SavedReopens
  BY DEF RecordInv
<1>3. Spec => []CaptureInv
  BY CaptureInit, CaptureNext, Typing, PTL DEF Spec
<1>4. Spec => []SlotInv
  BY SlotInit, SlotNext, Typing, PTL DEF Spec
<1> QED BY <1>1, <1>2, <1>3, <1>4, RecordNext, Typing, Freshness, PTL DEF Spec
=============================================================================
