---------------------------- MODULE Investigations ----------------------------
(***************************************************************************)
(* The commands around one saved workspace: create, covariance, replay and   *)
(* serve, over the tank lane (RCI calibrates two assemblies, FSRT estimates, *)
(* JSPT pushes a covariance forward) and the circle lane (GTE reconciles     *)
(* points).  A command reads a workspace, binds pinned runtimes, executes an *)
(* operation through the session, saves, and a replay then compares.  No     *)
(* lock is held on a directory: two commands may work on one, and what is    *)
(* installed may change between any two steps of a command.                  *)
(***************************************************************************)
EXTENDS Integers, Sequences, FiniteSets

CONSTANTS
  Terminals,     \* where create, covariance and replay are run, one at a time
  Services,      \* where serve runs
  Directories,
  None,
  Lanes,         \* \subseteq {"tank", "circle"}
  Inputs,        \* pairs of assemblies that an operator may declare
  Served,        \* bound: the lanes whose workspaces are served
  Asked,         \* parameters a client may ask for
  Selections,    \* what a client may select: the whole source or a part of it
  Installs,      \* what the providers may be found installed as
  MaxRelease,    \* bound: releases of the workbench, each with its pins
  MaxChanges,    \* bound: changes of what is installed
  MaxRecords,    \* the 1024 results or executions of a session
  MaxEvidence,   \* bound: investigations created
  MaxExecutions  \* bound: executions in all

ASSUME InvestigationTypes ==
  /\ Served \subseteq Lanes /\ Lanes \subseteq {"tank", "circle"}
  /\ [revision |-> 1, python |-> "a"] \in Installs
  /\ Installs \subseteq [revision : 1..MaxRelease, python : {"a", "b"}]
  /\ None \notin Directories /\ None \notin BOOLEAN
  /\ MaxRecords \in Nat \ {0}

Commands == Terminals \cup Services

VARIABLES
  files,         \* workspace.json of each directory
  installed,     \* the checkouts and the interpreter that the operator supplies
  release,       \* the release of the workbench: its current and historical pins
  changes,       \* changes of installed so far
  evidence,      \* identities drawn so far (uuid4 never repeats): of evidence,
  issued,        \* and of executions
  job            \* the command of each terminal

world == <<installed, release, changes>>
drawn == <<evidence, issued>>
vars == <<files, world, drawn, job>>

Operations == {"fsrt", "jspt", "gte"}
OperationsOf == [tank |-> {"fsrt", "jspt"}, circle |-> {"gte"}]

Elements(s) == {s[i] : i \in 1..Len(s)}
LastOf(s) == s[Len(s)]
\* The places of an operation's entries, and the last of some places.
Of(s, op) == {i \in 1..Len(s) : s[i].op = op}
LastAt(s, places) == s[CHOOSE i \in places : \A k \in places : k <= i]

-----------------------------------------------------------------------------
(* Runtimes. *)

\* The pin allowlist and, for a replay, the identity that was retained.
AcceptsRevision(id, expected) ==                \* bug: the interpreter is not compared
  IF expected = None THEN id.revision = release
  ELSE id.revision = expected.revision /\ id.revision <= release
Accepts(id, expected) ==
  IF expected = None THEN id.revision = release
  ELSE id = expected /\ id.revision <= release

\* An adapter can be constructed for a provider.
Bindable(expected) == Accepts(installed, expected)

\* runtime_identity compares with what the adapter found when it was constructed.
StillInstalled(bound) == TRUE                   \* bug: any installation will do
StillBound(bound) == installed = bound

\* The content that an identity commits to: not who computed it.
Content(d) == [d EXCEPT !.by = None]

-----------------------------------------------------------------------------
(* The tank source: two calibrated assemblies. *)

\* What contributes to the uncertainty of one assembly: additive blocks of source
\* identities, and identities that are excluded and represented by none.
UnitedSources(basis) == UNION basis.additive
DistinctSources(basis) ==
  /\ \A a, b \in basis.additive : a # b => a \cap b = {}
  /\ basis.excluded \cap UnitedSources(basis) = {}

\* The observation was acquired while its profile applied.
Applicable(sensor) == sensor.from <= sensor.observed /\ sensor.observed < sensor.until

\* A measurement answers its request: raw bytes, profile, assembly and basis.
ValidBatch(m, sensor) ==
  /\ m.request = sensor
  /\ Applicable(sensor)
  /\ DistinctSources(sensor.basis)

\* Across assemblies nothing is shared that would make them dependent.
Independent(sensors) ==
  /\ sensors[1].assembly # sensors[2].assembly
  /\ sensors[1].observed = sensors[2].observed
  /\ UnitedSources(sensors[1].basis) \cap UnitedSources(sensors[2].basis) = {}

Requests(source) == [i \in 1..Len(source.measured) |-> source.measured[i].request]
ValidSource(source) ==
  source.lane = "tank" =>
    /\ Len(source.measured) = 2
    /\ \A i \in 1..2 : ValidBatch(source.measured[i], Requests(source)[i])
    /\ Independent(Requests(source))

NewSource(lane, measured, runtime) ==
  [id |-> evidence + 1, lane |-> lane, measured |-> measured, runtime |-> runtime]

-----------------------------------------------------------------------------
(* Payloads and links: what an answer and a saved result are held to. *)

\* FSRT used the retained calibrated masses, their covariances and the model.
FsrtPayload(d, e, source) == d.of = source.id /\ d.parameters = e.parameters
\* JSPT pushed the declared source artifact through the declared map.
JsptPayload(d, e) == d.of = e.parameters.artifact /\ d.parameters = e.parameters
\* GTE reconciled the whole retained batch, which the selection must contain.
GtePayload(d, e, source) ==
  e.selection = "whole" /\ d.of = source.id /\ d.parameters = e.parameters

ValidPayload(d, e, source) ==
  CASE e.op = "fsrt" -> FsrtPayload(d, e, source)
    [] e.op = "jspt" -> JsptPayload(d, e)
    [] e.op = "gte" -> GtePayload(d, e, source)

\* The artifact of a result that a covariance may be taken from.
Bearing(r) == r.op \in {"fsrt", "jspt"}
Linked(parameters, results) ==
  \E r \in Elements(results) :
    r.id = parameters.source /\ Bearing(r) /\ Content(r.data) = parameters.artifact

\* Every covariance names a retained source; and who goes from covariances to their
\* sources leaves every set of them, so that no chain closes.
SourcesRetained(results) ==
  \A i \in 1..Len(results) :
    results[i].op = "jspt" =>
      /\ Linked(results[i].parameters, results)
      /\ results[i].parameters.source # results[i].id
Acyclic(results) ==
  \A S \in SUBSET Of(results, "jspt") :
    S # {} => \E i \in S : \A j \in S : results[j].id # results[i].parameters.source

\* An execution and the result that it names say the same.
Bound(e, r) ==
  /\ r.id = e.id /\ r.op = e.op /\ r.runtime = e.runtime
  /\ r.parameters = e.parameters /\ r.selection = e.selection

\* A session takes no further operation, and no larger workspace is read.
Full(w) == Len(w.executions) >= MaxRecords \/ Len(w.results) >= MaxRecords

\* from_workspace: all is validated before anything is constructed or written.
Reopens(w) ==
  /\ Len(w.executions) <= MaxRecords /\ Len(w.results) <= MaxRecords
  /\ ValidSource(w.source)
  /\ \A r \in Elements(w.results) :
       /\ ValidPayload(r.data, r, w.source)
       /\ \E e \in Elements(w.executions) : e.outcome = "completed" /\ Bound(e, r)
  /\ \A e \in Elements(w.executions) :
       e.outcome = "completed" =>
         e.runtime # None /\ \E r \in Elements(w.results) : Bound(e, r)
  /\ \A i, j \in 1..Len(w.executions) : w.executions[i].id = w.executions[j].id => i = j
  /\ SourcesRetained(w.results) /\ Acyclic(w.results)

-----------------------------------------------------------------------------
(* The session of a command. *)

NewSession(source) ==
  [source |-> source, selection |-> "whole", executions |-> <<>>, results |-> <<>>]

NoJob == [kind |-> None, stage |-> "idle", op |-> None, from |-> None, to |-> None,
          lane |-> None, sensors |-> <<>>, measured |-> <<>>, base |-> None,
          expected |-> None, adapter |-> [op \in Operations |-> None], parameters |-> None,
          entry |-> None, work |-> None, old |-> None, oldData |-> None,
          matches |-> None, wrote |-> FALSE, steady |-> TRUE, stale |-> FALSE]
\* How a command ends with an error: a check refuses, the session is full, a file
\* cannot be written, or a replay finds another outcome.
Errors == {"refused", "full", "failed", "mismatch"}
Ended == {"idle", "returned"} \cup Errors

Init ==
  /\ files = [d \in Directories |-> None]
  /\ installed = [revision |-> 1, python |-> "a"]
  /\ release = 1 /\ changes = 0
  /\ evidence = 0 /\ issued = 0
  /\ job = [c \in Commands |-> NoJob]

At(c, stage) == job[c].stage = stage
To(c, j) == job' = [job EXCEPT ![c] = j]
\* A command that ends leaves its outcome; what it held in memory is gone.
Ending(j, error) == [NoJob EXCEPT !.stage = error, !.wrote = j.wrote]
Refused(j) == Ending(j, "refused")
Wrote(j) == [j EXCEPT !.wrote = TRUE]
\* Whether a check let the command on, or ended it with an AdapterRefusal.
Checked(c, passed, j) == To(c, IF passed THEN j ELSE Refused(job[c]))
Begun(c, passed, j) == job[c].stage \in Ended /\ To(c, IF passed THEN j ELSE Refused(j))

\* What is installed changes; or a new release of the workbench moves the pins, and
\* the checkouts with them or not.
Change(id) ==
  /\ changes < MaxChanges /\ id # installed
  /\ installed' = id
  /\ changes' = changes + 1
  /\ job' = [c \in Commands |-> [job[c] EXCEPT !.steady = @ /\ job[c].stage \in Ended]]
  /\ UNCHANGED <<files, release, drawn>>
Release ==
  /\ release < MaxRelease /\ changes < MaxChanges
  /\ release' = release + 1
  /\ installed' \in {installed, [installed EXCEPT !.revision = release + 1]}
  /\ changes' = changes + 1
  /\ job' = [c \in Commands |-> [job[c] EXCEPT !.steady = @ /\ job[c].stage \in Ended]]
  /\ UNCHANGED <<files, drawn>>

-----------------------------------------------------------------------------
(* create_investigation *)

\* Two assemblies whose independence is declared; the RCI runtime is bound first.
CreateTank(c, d, input) ==
  /\ "tank" \in Lanes /\ evidence < MaxEvidence
  /\ Begun(c, Bindable(None),
             [NoJob EXCEPT !.kind = "create", !.stage = "calibrating", !.to = d, !.lane = "tank",
                !.op = "fsrt", !.sensors = input, !.parameters = "own",
                !.expected = installed])
  /\ UNCHANGED <<files, world, drawn>>

\* One circle request; the pin of its runtime is validated before any write.
CreateCircle(c, d) ==
  /\ "circle" \in Lanes /\ evidence < MaxEvidence
  /\ Begun(c, Bindable(None),
             [NoJob EXCEPT !.kind = "create", !.stage = "measured", !.to = d, !.lane = "circle",
                !.op = "gte", !.parameters = "own"])
  /\ UNCHANGED <<files, world, drawn>>

\* The next calibration: RCI answers under the runtime it was bound with, or the
\* command ends.  A replay demands the measurement that was retained.
Calibrate(c, value, right) ==
  LET j == job[c]
      i == Len(j.measured) + 1
      m == [request |-> IF right THEN j.sensors[i] ELSE None, value |-> value,
            by |-> installed]
      reproduced == j.kind = "replay" =>
                      Content(m) = Content(j.base.source.measured[i])
  IN  /\ At(c, "calibrating") /\ i <= 2
      /\ Checked(c, /\ StillBound(j.expected)
                    /\ m.request = j.sensors[i] /\ ValidBatch(m, j.sensors[i])
                    /\ reproduced,
                 [j EXCEPT !.measured = Append(@, m),
                           !.stage = IF i = 2 THEN "measured" ELSE "calibrating"])
      /\ UNCHANGED <<files, world, drawn>>

\* The run is made and its source validated, the session writes the recording, and
\* the runtime of the operation is bound.
MakeRun(c, stored) ==
  LET j == job[c]
      source == NewSource(j.lane, j.measured, IF j.lane = "tank" THEN j.expected ELSE None)
      made == (j.lane = "tank" => StillBound(j.expected)) /\ ValidSource(source)
  IN  /\ At(c, "measured") /\ j.kind = "create" /\ evidence < MaxEvidence
      /\ evidence' = IF made THEN evidence + 1 ELSE evidence
      /\ To(c, IF ~made THEN Refused(j)
               ELSE IF ~stored THEN Ending(Wrote(j), "failed")
               ELSE IF ~Bindable(None) THEN Refused(Wrote(j))
               ELSE [j EXCEPT !.stage = "bound", !.wrote = TRUE, !.measured = <<>>,
                              !.sensors = <<>>, !.expected = None,
                              !.work = NewSession(source), !.adapter[j.op] = installed])
      /\ UNCHANGED <<files, world, issued>>

-----------------------------------------------------------------------------
(* replay_investigation and replay_covariance; execute_covariance *)

\* The first reading of the workspace, in a temporary directory.  A tank replay
\* recalibrates under the retained runtime before it looks at any execution.
Replay(c, d, to, op) ==
  LET w == files[d]
      tank == op = "fsrt"
      j == [NoJob EXCEPT !.kind = "replay", !.from = d, !.to = to, !.op = op, !.base = w,
              !.lane = w.source.lane,
              !.sensors = IF tank THEN Requests(w.source) ELSE <<>>,
              !.expected = IF tank THEN w.source.runtime ELSE None]
      readable == Reopens(w) /\ op \in OperationsOf[w.source.lane]
  IN  /\ w # None
      /\ Begun(c, readable /\ (tank => Bindable(w.source.runtime)),
                  [j EXCEPT !.stage = IF tank THEN "calibrating" ELSE "measured"])
      /\ UNCHANGED <<files, world, drawn>>

\* The last execution of the operation names the runtime that must replay it.
Latest(w, op) ==
  IF Of(w.executions, op) = {} THEN None ELSE LastAt(w.executions, Of(w.executions, op))
ReplayableLater(last) ==                        \* bug: the pin is left to the binding
  last # None /\ last.runtime # None
Replayable(last) == last # None /\ last.runtime # None /\ Bindable(last.runtime)

\* The data to compare with: FSRT takes its last result, the others the result
\* that the execution names.
Compared(w, last) ==
  LET places == IF last.op = "fsrt" THEN Of(w.results, "fsrt")
                ELSE {i \in 1..Len(w.results) : w.results[i].id = last.id}
  IN  IF last.outcome # "completed" \/ places = {} THEN None ELSE LastAt(w.results, places).data

Pin(c) ==
  LET j == job[c]
      last == Latest(j.base, j.op)
  IN  /\ At(c, "measured") /\ j.kind = "replay"
      /\ Checked(c, Replayable(last),
                 [j EXCEPT !.stage = "pinned", !.measured = <<>>, !.sensors = <<>>, !.old = last,
                           !.oldData = Compared(j.base, last),
                           !.expected = last.runtime, !.parameters = last.parameters])
      /\ UNCHANGED <<files, world, drawn>>

\* A covariance of a retained result, the last that bears one unless it is named.
Covariance(c, d, to, i) ==
  LET w == files[d]
      r == w.results[i]
  IN  /\ w # None /\ i \in 1..Len(w.results)
      /\ Begun(c, Reopens(w) /\ Bearing(r) /\ Bindable(None),
                  [NoJob EXCEPT !.kind = "covariance", !.stage = "pinned", !.from = d, !.to = to,
                     !.op = "jspt", !.base = w, !.lane = w.source.lane,
                     !.parameters = [source |-> r.id, artifact |-> Content(r.data)]])
      /\ UNCHANGED <<files, world, drawn>>

\* The second reading, which writes the records to the output directory, and the
\* binding.  GTE restores the selection of the execution that it repeats, which the
\* session of another lane, saved meanwhile, has no channel for.
Restored(w, old) == IF old # None /\ old.op = "gte" THEN [w EXCEPT !.selection = old.selection] ELSE w
Restorable(w, old) == old # None /\ old.op = "gte" => w.source.lane = "circle"
Open(c, stored) ==
  LET j == job[c]
      w == files[j.from]
  IN  /\ At(c, "pinned")
      /\ To(c, IF ~Reopens(w) THEN Refused(j)
               ELSE IF ~stored THEN Ending(Wrote(j), "failed")
               ELSE IF ~(Bindable(j.expected) /\ Restorable(w, j.old)) THEN Refused(Wrote(j))
               ELSE [j EXCEPT !.stage = "bound", !.wrote = TRUE, !.stale = w # j.base,
                              !.base = None, !.work = Restored(w, j.old),
                              !.lane = w.source.lane, !.adapter[j.op] = installed])
      /\ UNCHANGED <<files, world, drawn>>

-----------------------------------------------------------------------------
(* operation.execute, and the session that serve keeps *)

\* A served session goes on after every answer; a command raises what is answered as
\* an error, though its recording and records have been written.
Serving(j) ==
  [j EXCEPT !.stage = "serving", !.op = None, !.parameters = None, !.entry = None]
Erred(j, error) == IF j.kind = "serve" THEN Serving(j) ELSE Ending(j, error)

\* An operation is admitted while there is room for its records.
TurnedAway(c) ==
  LET j == job[c]
  IN  /\ At(c, "bound") /\ Full(j.work)
      /\ To(c, Erred(j, "full"))
      /\ UNCHANGED <<files, world, drawn>>

\* Its records are written, and only then kept in memory; there may be no room any
\* more (an analysis may have taken it, which is in Session), or no disk.
Recorded(j, w, stored) ==
  IF Full(j.work) THEN Erred(j, "full")
  ELSE IF ~stored THEN Erred(j, "failed")
  ELSE [j EXCEPT !.stage = "executed", !.entry = None, !.work = w]

\* The envelope: what was selected and asked, and the runtime if one was identified.
Identify(c, stored) ==
  LET j == job[c]
      bound == j.adapter[j.op]
      e == [id |-> issued + 1, op |-> j.op, selection |-> j.work.selection,
            parameters |-> j.parameters, runtime |-> None, outcome |-> "refused"]
      refused(code) == [j.work EXCEPT !.executions = Append(@, [e EXCEPT !.outcome = code])]
  IN  /\ At(c, "bound") /\ ~Full(j.work) /\ issued < MaxExecutions
      /\ issued' = issued + 1
      /\ To(c, IF bound = None THEN Recorded(j, refused("unbound"), stored)
               ELSE IF ~StillBound(bound) THEN Recorded(j, refused("changed"), stored)
               ELSE [j EXCEPT !.stage = "invoking", !.entry = [e EXCEPT !.runtime = bound]])
      /\ UNCHANGED <<files, world, evidence>>

\* The answer about its subject, or about another.
Answer(e, source, value, right) ==
  [op |-> e.op, parameters |-> e.parameters, value |-> value, by |-> installed,
   of |-> IF ~right THEN None ELSE IF e.op = "jspt" THEN e.parameters.artifact ELSE source.id]

\* The outcome of an invocation: what the provider says counts only if the source
\* is of the operation's lane and linked, the runtime is still the bound one and the
\* payload is valid.
OutcomeUnlinked(c, e, w, d) ==                  \* bug: any artifact is a source
  IF e.op \notin OperationsOf[w.source.lane] THEN "foreign"
  ELSE IF ~StillBound(job[c].adapter[e.op]) THEN "changed"
  ELSE IF d # None /\ ValidPayload(d, e, w.source) THEN "completed" ELSE "refused"
Outcome(c, e, w, d) ==
  IF e.op \notin OperationsOf[w.source.lane] THEN "foreign"
  ELSE IF e.op = "jspt" /\ ~Linked(e.parameters, w.results) THEN "unlinked"
  ELSE IF ~StillBound(job[c].adapter[e.op]) THEN "changed"
  ELSE IF d # None /\ e.op = "gte" /\ e.selection # "whole" THEN "selection_scope"
  ELSE IF d # None /\ ValidPayload(d, e, w.source) THEN "completed" ELSE "refused"

Publish(w, e, d) ==
  [w EXCEPT !.executions = Append(@, e),
            !.results = IF e.outcome # "completed" THEN @
                        ELSE Append(@, [id |-> e.id, op |-> e.op, selection |-> e.selection,
                                        parameters |-> e.parameters, runtime |-> e.runtime,
                                        data |-> d])]

Invoke(c, d, stored) ==
  LET j == job[c]
      e == [j.entry EXCEPT !.outcome = Outcome(c, j.entry, j.work, d)]
  IN  /\ At(c, "invoking")
      /\ To(c, Recorded(j, Publish(j.work, e, d), stored))
      /\ UNCHANGED <<files, world, drawn>>

\* serve with a workspace, and the runtimes that the operator binds, which may be of no
\* or some operations.  One that cannot write its records or bind ends as it began.
Serve(c, d, ops) ==
  LET w == files[d]
  IN  /\ w # None /\ Reopens(w) /\ w.source.lane \in Served
      /\ ops \subseteq OperationsOf[w.source.lane] /\ (ops # {} => Bindable(None))
      /\ job[c].stage \in Ended
      /\ To(c, [NoJob EXCEPT !.kind = "serve", !.stage = "serving", !.to = d,
                  !.wrote = TRUE, !.work = w, !.lane = w.source.lane,
                  !.adapter = [op \in Operations |-> IF op \in ops THEN installed ELSE None]])
      /\ UNCHANGED <<files, world, drawn>>

Select(c, s) ==
  /\ At(c, "serving") /\ job[c].work.selection # s
  /\ To(c, [job[c] EXCEPT !.work.selection = s])
  /\ UNCHANGED <<files, world, drawn>>

\* What a client may ask of an operation: a covariance of a retained result, with the
\* artifact of that or another one; of the others, parameters of its own.
Askable(op, w) ==
  IF op # "jspt" THEN Asked
  ELSE {[source |-> r.id, artifact |-> Content(s.data)] : r, s \in Elements(w.results)}
Execute(c, op, parameters) ==
  /\ At(c, "serving") /\ parameters \in Askable(op, job[c].work)
  /\ To(c, [job[c] EXCEPT !.stage = "bound", !.op = op, !.parameters = parameters])
  /\ UNCHANGED <<files, world, drawn>>
Answered(c) ==
  /\ At(c, "executed") /\ job[c].kind = "serve"
  /\ To(c, Serving(job[c]))
  /\ UNCHANGED <<files, world, drawn>>

-----------------------------------------------------------------------------
(* save_workspace, and what a replay reports *)

\* What a command prints of the session: how its newest execution ended, and its
\* newest result.
Completed(w) == LastOf(w.executions).outcome = "completed"
Newest(w) == LastOf(w.results).data

\* FSRT and JSPT compare two completed executions only; GTE also two refusals.
Matches(old, oldData, w) ==
  IF old.outcome = "completed" /\ Completed(w) THEN Content(oldData) = Content(Newest(w))
  ELSE IF old.op # "gte" THEN None
  ELSE LastOf(w.executions).outcome = old.outcome

\* A command saves once, after its execution; a replay then compares, and raises a
\* mismatch although both outcomes are saved.
Save(c, stored) ==
  LET j == job[c]
      matches == IF j.kind = "replay" THEN Matches(j.old, j.oldData, j.work) ELSE None
  IN  /\ At(c, "executed") /\ j.kind # "serve"
      /\ files' = IF stored THEN [files EXCEPT ![j.to] = j.work] ELSE files
      /\ To(c, IF ~stored THEN Ending(j, "failed")
               ELSE [Ending(j, IF matches = FALSE THEN "mismatch" ELSE "returned")
                       EXCEPT !.matches = matches])
      /\ UNCHANGED <<world, drawn>>

\* A served session is saved when a client asks, which changes nothing if it fails, and
\* when the service stops.
SaveServed(c) ==
  /\ At(c, "serving")
  /\ files' = [files EXCEPT ![job[c].to] = job[c].work]
  /\ UNCHANGED <<world, drawn, job>>
Stop(c) ==
  /\ At(c, "serving")
  /\ files' = [files EXCEPT ![job[c].to] = job[c].work]
  /\ To(c, NoJob)
  /\ UNCHANGED <<world, drawn>>

\* The process of a command ends at any moment, or by an exception that nothing
\* catches; what it held in memory is lost.
Killed(c) ==
  /\ job[c].stage \notin Ended
  /\ To(c, NoJob)
  /\ UNCHANGED <<files, world, drawn>>

-----------------------------------------------------------------------------
\* The number that is answered first is the usual one; only what is retained can be
\* drifted from.
Numbers(retained) == IF retained THEN {"usual", "drifted"} ELSE {"usual"}

Begin(c) ==
  \/ /\ c \in Terminals
     /\ \/ \E d \in Directories, input \in Inputs : CreateTank(c, d, input)
        \/ \E d \in Directories : CreateCircle(c, d)
        \/ \E d, to \in Directories, op \in Operations : Replay(c, d, to, op)
        \/ \E d, to \in Directories, i \in 1..MaxExecutions : Covariance(c, d, to, i)
  \/ /\ c \in Services
     /\ \E d \in Directories, ops \in SUBSET Operations : Serve(c, d, ops)
Proceed(c) ==
  \/ \E value \in Numbers(job[c].kind = "replay"), right \in BOOLEAN : Calibrate(c, value, right)
  \/ Pin(c) \/ TurnedAway(c) \/ Answered(c) \/ SaveServed(c) \/ Stop(c) \/ Killed(c)
  \/ \E stored \in BOOLEAN :
       MakeRun(c, stored) \/ Open(c, stored) \/ Identify(c, stored) \/ Save(c, stored)
  \/ \E stored \in BOOLEAN : Invoke(c, None, stored)
  \/ /\ At(c, "invoking")
     /\ LET j == job[c]
            Seen(r) == r.op = j.op /\ r.parameters = j.parameters
        IN  \E value \in Numbers(\E r \in Elements(j.work.results) : Seen(r)), right, stored \in BOOLEAN :
              Invoke(c, Answer(j.entry, j.work.source, value, right), stored)
  \/ /\ At(c, "serving")
     /\ \E op \in OperationsOf[job[c].lane] :
          \E parameters \in Askable(op, job[c].work) : Execute(c, op, parameters)
  \/ \E s \in Selections : Select(c, s)

Next ==
  \/ \E c \in Commands : Begin(c) \/ Proceed(c)
  \/ \E id \in Installs : Change(id)
  \/ Release
Spec == Init /\ [][Next]_vars

-----------------------------------------------------------------------------
(* Correctness. *)

\* Every saved workspace passes the whole validation of from_workspace, whatever
\* two commands did to its directory: results and executions bind each other, the
\* payloads are about the source, and each covariance names a retained source.
WorkspacesReopen == \A d \in Directories : files[d] # None => Reopens(files[d])

\* The runtime that a record names is the one that computed it, though what is
\* installed changes between and within the steps of a command (runner.execute,
\* create_investigation: the identity is taken apart from the invocation).
RuntimesNamed ==
  \A d \in Directories :
    files[d] # None =>
      /\ \A m \in Elements(files[d].source.measured) : m.by = files[d].source.runtime
      /\ \A r \in Elements(files[d].results) : r.data.by = r.runtime

\* "Pin validation precedes any writes into the requested destination": while what is
\* installed stays as it is, a replay, a covariance or a circle create that has begun
\* to write is not refused any more.  It may still end with an error, at the disk, at a
\* session without room, or after it saved an outcome that does not match; or when
\* another command saved over the workspace between its two readings.
PinsPrecedeWrites ==
  [][\A c \in Terminals :
       LET j == job[c]
           error == job'[c].stage
       IN  /\ j.steady /\ (j.kind = "create" => j.lane = "circle")
           /\ j.stage \notin Ended /\ error \in Errors /\ job'[c].wrote
           => \/ error = "failed"
              \/ error = "full" /\ Full(j.work)
              \/ error = "mismatch" /\ files'[j.to] = j.work
              \/ j.stage = "pinned" /\ files[j.from] # j.base]_vars

\* What a replay reports: a match is the same data from the same source, by the
\* same runtime with the same parameters, and for GTE under the same selection.
\* After a mismatch the two outcomes are both retained, unless another command
\* saved over the source while this one ran.
DataOf(w, e) == (CHOOSE r \in Elements(w.results) : r.id = e.id).data
Honest(j, matches) ==
  LET new == LastOf(j.work.executions)
  IN  /\ matches = TRUE =>
           /\ new.outcome = j.old.outcome /\ new.parameters = j.old.parameters
           /\ j.op = "gte" => new.selection = j.old.selection
           /\ new.outcome = "completed" =>
                /\ new.runtime = j.old.runtime
                /\ Content(DataOf(j.work, new)) = Content(j.oldData)
      /\ matches = FALSE /\ ~j.stale =>
           /\ j.old \in Elements(j.work.executions) /\ new # j.old
           /\ j.oldData # None => \E r \in Elements(j.work.results) : r.data = j.oldData
ReplaysHonest ==
  [][\A c \in Commands :
       At(c, "executed") /\ job[c].kind = "replay" /\ job'[c].stage \in {"returned", "mismatch"}
       => Honest(job[c], job'[c].matches)]_vars
=============================================================================
