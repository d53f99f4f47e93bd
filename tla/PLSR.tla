--------------------------------- MODULE PLSR ---------------------------------
(***************************************************************************)
(* The PLSR terminal instrument: commands that import a model, evaluate a    *)
(* sample of it, inspect a saved run and replay one, each a process of its   *)
(* own, over a directory of runs, while the installation of the engine may   *)
(* be replaced at any moment.  A command imports the engine, then compares   *)
(* the installed sources with their pin; a run retains what it was computed  *)
(* from and what by.  Digests stand as what they are digests of.             *)
(***************************************************************************)
EXTENDS Naturals, FiniteSets

CONSTANTS
  Processes,
  Models, Samples,
  Names,         \* files that models are imported to
  Dependencies,  \* versions of what the engine computes with
  Outcome(_, _, _),        \* external: what an engine makes of a model and a sample
  MaxRuns,       \* bound: runs that the directory comes to hold
  MaxResults,    \* bound: evaluations
  None

Engines == [pinned : BOOLEAN, with : Dependencies]

VARIABLES
  installed,     \* the engine on disk
  models,        \* the model in each file
  runs,          \* the saved runs, and runs received from elsewhere
  issued,        \* how many result identities have been drawn
  commands       \* what each process is doing

vars == <<installed, models, runs, issued, commands>>

Idle == [job |-> None, stage |-> "idle"]
Init ==
  /\ installed \in Engines
  /\ models = [n \in Names |-> None]
  /\ runs = {} /\ issued = 0
  /\ commands = [p \in Processes |-> Idle]

-----------------------------------------------------------------------------
(* What a run retains, and what _validate_bundle asks of it. *)

Record(model, sample, engine) ==
  [model |-> model, sample |-> sample, outcome |-> Outcome(engine, model, sample)]
Evidence(model, sample) == <<model, sample>>

ValidRecord(model, sample, record) == record.model = model /\ record.sample = sample

SoundReplay(run) ==
  run.replay # None =>
    /\ run.replay.source.result # run.result
    /\ run.replay.matches = (run.replay.record = run.record)

Valid(run) ==
  /\ run.evidence = Evidence(run.model, run.sample)
  /\ ValidRecord(run.model, run.sample, run.record)
  /\ SoundReplay(run)

Compared(source, record) ==
  [source |-> source, record |-> source.record, matches |-> source.record = record]

Run(result, model, sample, record, with, source) ==
  [result |-> result, model |-> model, sample |-> sample, evidence |-> Evidence(model, sample),
   record |-> record, with |-> with,
   replay |-> IF source = None THEN None ELSE Compared(source, record)]

-----------------------------------------------------------------------------
(* A command. *)

Jobs ==
  [do : {"import"}, model : Models, name : Names]
  \cup [do : {"evaluate"}, name : Names, sample : Samples]
  \cup [do : {"inspect", "replay"}, run : runs]

Computes(c) == c.job.do \in {"evaluate", "replay"}
Reads(c) == c.job.do \in {"inspect", "replay"}

At(p, stage) == commands[p].stage = stage
Become(p, c) == commands' = [commands EXCEPT ![p] = c]
Go(p, stage) == Become(p, [commands[p] EXCEPT !.stage = stage])

Start(p, job) ==
  /\ commands[p].stage \in {"idle", "exited"}
  /\ Become(p, [job |-> job, stage |-> "import", engine |-> None, with |-> None,
                run |-> None, code |-> None])
  /\ UNCHANGED <<installed, models, runs, issued>>

\* _runtime: the engine is imported, then the sources on disk are hashed.
Import(p) ==
  /\ At(p, "import")
  /\ Become(p, [commands[p] EXCEPT !.engine = installed, !.stage = "hash"])
  /\ UNCHANGED <<installed, models, runs, issued>>

Hash(p) ==
  /\ At(p, "hash") /\ installed.pinned
  /\ Go(p, "check")
  /\ UNCHANGED <<installed, models, runs, issued>>

\* The model is loaded, or the saved run validated.
Acceptable(job) ==
  CASE job.do = "import" -> TRUE
    [] job.do = "evaluate" -> models[job.name] # None
    [] OTHER -> Valid(job.run)

Check(p) ==
  /\ At(p, "check") /\ Acceptable(commands[p].job)
  /\ Go(p, IF Computes(commands[p]) THEN "identify" ELSE IF Reads(commands[p]) THEN "print" ELSE "save")
  /\ UNCHANGED <<installed, models, runs, issued>>

\* runtime_identity reads the versions of the dependencies from their metadata.
Identify(p) ==
  /\ At(p, "identify")
  /\ Become(p, [commands[p] EXCEPT !.with = installed.with, !.stage = "evaluate"])
  /\ UNCHANGED <<installed, models, runs, issued>>

Model(job) == IF job.do = "evaluate" THEN models[job.name] ELSE job.run.model
Sample(job) == IF job.do = "evaluate" THEN job.sample ELSE job.run.sample
Source(job) == IF job.do = "replay" THEN job.run ELSE None

\* engine.evaluate, and the bundle around its record, which has to be valid.
Evaluate(p) ==
  LET c == commands[p]
      record == Record(Model(c.job), Sample(c.job), c.engine)
      run == Run(issued + 1, Model(c.job), Sample(c.job), record, c.with,
                 Source(c.job))
  IN /\ At(p, "evaluate") /\ issued < MaxResults /\ Valid(run)
     /\ issued' = issued + 1
     /\ Become(p, [c EXCEPT !.run = run, !.stage = "save"])
     /\ UNCHANGED <<installed, models, runs>>

\* _write_immutable: no file is replaced by another content; a run has a name of its own.
Free(n, model) == models[n] \in {None, model}

Save(p) ==
  LET c == commands[p]
  IN /\ At(p, "save")
     /\ IF c.job.do = "import"
        THEN /\ Free(c.job.name, c.job.model)
             /\ models' = [models EXCEPT ![c.job.name] = c.job.model]
             /\ UNCHANGED runs
        ELSE runs' = runs \cup {c.run} /\ Cardinality(runs') <= MaxRuns /\ UNCHANGED models
     /\ Go(p, "print")
     /\ UNCHANGED <<installed, issued>>

\* The process ends; its engine with it.
Exit(c, code) == [c EXCEPT !.stage = "exited", !.code = code, !.engine = None, !.with = None]

\* What main returns once the result is printed.
Code(c) == IF c.job.do = "replay" /\ ~c.run.replay.matches THEN 3 ELSE 0

PrintResult(p) ==
  /\ At(p, "print")
  /\ Become(p, Exit(commands[p], Code(commands[p])))
  /\ UNCHANGED <<installed, models, runs, issued>>

\* Something is refused or raises: a missing or different engine, an input, a file, a
\* standard output that is closed.
Refuse(p) ==
  /\ commands[p].stage \notin {"idle", "exited"}
  /\ Become(p, Exit(commands[p], 2))
  /\ UNCHANGED <<installed, models, runs, issued>>

\* KeyboardInterrupt, which main answers with 0.
Interrupt(p) ==
  /\ commands[p].stage \notin {"idle", "exited"}
  /\ Become(p, Exit(commands[p], 0))
  /\ UNCHANGED <<installed, models, runs, issued>>

-----------------------------------------------------------------------------
(* The surroundings. *)

Reinstall(engine) ==
  /\ installed' = engine
  /\ UNCHANGED <<models, runs, issued, commands>>

\* A run put together from parts of others, under a digest of its own.
Mixed(a, b, c) == [a EXCEPT !.record = b.record, !.with = b.with, !.replay = c.replay]
Receive(a, b, c) ==
  /\ Cardinality(runs) < MaxRuns
  /\ runs' = runs \cup {Mixed(a, b, c)}
  /\ UNCHANGED <<installed, models, issued, commands>>

Next ==
  \/ \E p \in Processes :
       \/ \E job \in Jobs : Start(p, job)
       \/ Import(p) \/ Hash(p) \/ Check(p) \/ Identify(p) \/ Evaluate(p) \/ Save(p) \/ PrintResult(p)
       \/ Refuse(p) \/ Interrupt(p)
  \/ \E e \in Engines : Reinstall(e)
  \/ \E a, b, c \in runs : Receive(a, b, c)

Spec == Init /\ [][Next]_vars

-----------------------------------------------------------------------------
(* What has to hold. *)

Accepted == {run \in runs : Valid(run)}

\* What _validate_bundle accepts is of one piece, however it was put together: its record
\* is of its model and sample, and so is that of every run it says it agrees with, all
\* along a chain of replays.
RECURSIVE AgreedAlong(_)
AgreedAlong(run) ==
  \/ run.replay = None \/ ~run.replay.matches
  \/ LET source == run.replay.source
     IN /\ source.model = run.model /\ source.sample = run.sample
        /\ source.record = run.record
        /\ AgreedAlong(source)

=============================================================================
