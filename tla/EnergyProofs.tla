---------------------------- MODULE EnergyProofs ----------------------------
(***************************************************************************)
(* What one capture of energy leaves behind, whatever fails in it, for any *)
(* plan, any pace and any number of mishaps: how it ends and what is closed*)
(* then, that what is published is what the journal holds, and that an     *)
(* eligible energy covers what was measured.                               *)
(***************************************************************************)
EXTENDS EnergyCapture, FiniteSetTheorems, TLAPS

IsSeq(s) == s \in Seq(Range(s))

-----------------------------------------------------------------------------
(* How a capture ends. *)

RunFields == {"at", "sensor", "workload", "phases", "held", "counter", "worker", "done",
              "disk", "cut", "stuck"}
FileFields == {"journal", "log", "report", "failure"}

Working == {"open", "counter", "sensor", "begin", "started", "body", "sampling", "encode",
            "end", "ended", "workload", "seal", "log"}
Publishing == {"log-open", "report", "report-open", "complete", "return"}
Stages == {"plan"} \cup Working \cup Publishing \cup Handling \cup Closing \cup Over
Ending == {"returned", "raised"}

\* What is under a name, at each stage of the capture.
FilesInv ==
  /\ run.at \in {"plan"} \cup Working => ~files.log.made
  /\ run.at \in {"plan"} \cup Working \cup Publishing => ~files.failure.made /\ ~run.done
  /\ run.at \in Handling => ~run.done
  /\ run.at \in Publishing \ {"log-open"} => files.log.written
  /\ run.at \in {"complete", "return"} => files.report.written
  /\ run.done => files.log.written /\ files.report.written /\ ~files.failure.made
  /\ run.at \in Closing \cup {"raised"} /\ ~run.done /\ ~run.cut => files.failure.written
  /\ run.at = "raised" => ~run.done \/ run.cut
  /\ run.at = "returned" => run.done

\* What is open, and what the driver refused to close.
DriversInv ==
  /\ nvml \in Int /\ nvml <= 1
  /\ run.at \in {"plan", "open", "counter"} => nvml <= 0
  /\ context = "live" => run.worker = "open" \/ "destroy" \in run.stuck
  /\ nvml > 0 => run.counter = "open" \/ "shutdown" \in run.stuck
  /\ run.at \in (Closing \ {"close-worker"}) \cup Ending /\ ~run.cut /\ run.worker = "open" =>
       "destroy" \in run.stuck
  /\ run.at \in {"cleanup-counter"} \cup Ending /\ ~run.cut => run.counter # "open"
  /\ current => "pop" \in run.stuck

EndInv ==
  /\ DOMAIN run = RunFields /\ DOMAIN files = FileFields
  /\ \A f \in FileFields \ {"journal"} : DOMAIN files[f] = {"made", "written", "value"}
  /\ run.at \in Stages
  /\ run.done \in BOOLEAN /\ run.cut \in BOOLEAN /\ run.disk \in BOOLEAN
  /\ FilesInv /\ DriversInv

-----------------------------------------------------------------------------
(* What is published is what the journal holds. *)

\* A phase that was not begun has no events.
Memory(i) == IF i <= Len(run.phases) THEN run.phases[i] ELSE Phase(PhaseNames[i])
Kept ==
  \A i \in 1..5 :
    /\ Journaled(files.journal, "sample", PhaseNames[i], Memory(i).samples)
    /\ Journaled(files.journal, "batch", PhaseNames[i], Memory(i).batches)

PhaseFields == {"name", "start", "end", "samples", "batches", "error"}
PhasesInv ==
  /\ IsSeq(run.phases) /\ Len(run.phases) <= 5
  /\ \A i \in 1..Len(run.phases) :
       /\ DOMAIN run.phases[i] = PhaseFields /\ run.phases[i].name = PhaseNames[i]
       /\ IsSeq(run.phases[i].samples) /\ IsSeq(run.phases[i].batches)

\* Whether a phase is under way, or one is left.
Early == {"plan", "open", "counter", "sensor", "begin", "workload"}
InPhases == {"started", "body", "sampling", "encode", "end", "ended", "workload"}
StageInv ==
  /\ run.at \in Early => Len(run.phases) < 5
  /\ run.at \in InPhases => run.phases # <<>>

\* What is about to be published is what is in memory.
Sealed == {"log", "log-open", "report", "report-open"}
SealedInv ==
  /\ run.at \in Sealed =>
       Valid(run.held) /\ run.held.phases = run.phases
  /\ run.at = "log-open" => ~files.log.written
  /\ run.at \in {"report", "report-open"} => files.log.value = run.held

WrittenInv ==
  /\ files.log.written =>
       /\ Valid(files.log.value) /\ InJournal(files.log.value.phases)
       /\ run.at # "crashed" => files.log.value.phases = run.phases
  /\ files.report.written => files.log.written /\ files.report.value = Analyze(files.log.value)
  /\ files.failure.written =>
       /\ run.at # "crashed" => files.failure.value = run.phases
       /\ ~run.disk => InJournal(files.failure.value)
       /\ run.at \in Closing \cup Over

JournalInv ==
  /\ IsSeq(files.journal)
  /\ PhasesInv /\ StageInv /\ SealedInv /\ WrittenInv
  /\ \A f \in FileFields \ {"journal"} : files[f].written => files[f].made
  /\ run.at \in {"plan"} \cup Working \cup Publishing => ~run.disk
  /\ ~run.disk /\ run.at # "crashed" => Kept

-----------------------------------------------------------------------------
(* An eligible energy covers what was measured. *)

\* What a reading of device d may say when t was consumed: nothing, no increment at all,
\* or the difference since the counter last started.
Shows(d, reading, t) ==
  reading.energy = None \/ reading.energy \in IF d.coarse THEN {0} ELSE {t, t - d.base}

\* The batches that follow one another from t on.
Follow(batches, t) ==
  \A k \in 1..Len(batches) : batches[k].from = t + k - 1 /\ batches[k].to = t + k

\* A measured phase that began at t and is over.
Measured(d, p, t) ==
  /\ Follow(p.batches, t)
  /\ Len(p.samples) = Len(p.batches) + 2
  /\ Shows(d, p.samples[1], t)
  /\ Shows(d, p.samples[Len(p.batches) + 2], t + Len(p.batches))

\* It is under way: so much has been solved and read.
Measuring(at, held, d, p, t) ==
  LET l == Len(p.batches)
  IN  /\ Follow(p.batches, t)
      /\ Shows(d, p.samples[1], t)
      /\ Len(p.samples) = IF at = "encode" THEN l + 2 ELSE l + 1
      /\ at \in {"sampling", "encode"} =>
           d.consumed = t + l + 1 /\ held.from = t + l /\ held.to = t + l + 1
      /\ at \notin {"sampling", "encode"} => d.consumed = t + l

Stepping == {"started", "body", "sampling", "encode", "end"}
Meter(at, held, d, phases) ==
  at \in {"plan"} \cup Working \cup Publishing /\ Len(phases) >= 4 =>
    \E t \in Nat : IF Len(phases) = 4 /\ at \in Stepping THEN Measuring(at, held, d, phases[4], t)
                  ELSE Measured(d, phases[4], t)

DeviceInv ==
  /\ DOMAIN device = {"consumed", "base", "coarse"} /\ device.coarse \in BOOLEAN
  /\ device.consumed \in Nat /\ device.consumed >= Full
  /\ device.base \in Nat /\ (device.base = 0 \/ device.base >= Full)

LogFields == {"sensor", "workload", "phases"}
MeasuredLog(d, log) ==
  /\ DOMAIN log = LogFields /\ IsSeq(log.phases) /\ DOMAIN log.phases[4] = PhaseFields
  /\ log.phases[4].name = "measurement"
  /\ IsSeq(log.phases[4].samples) /\ IsSeq(log.phases[4].batches)
  /\ \E t \in Nat : Measured(d, log.phases[4], t)
MeterInv ==
  /\ DeviceInv /\ Meter(run.at, run.held, device, run.phases)
  /\ run.at \in {"log", "log-open"} => DOMAIN run.held = LogFields
  /\ files.log.written => MeasuredLog(device, files.log.value)

-----------------------------------------------------------------------------
(* Proofs: how a capture ends. *)

\* Where an exception leads, and what it leaves alone.
LEMMA RaisedRun ==
  ASSUME NEW r, DOMAIN r = RunFields
  PROVE  LET s == Raised(r)
         IN  /\ DOMAIN s = RunFields
             /\ s.sensor = r.sensor /\ s.workload = r.workload /\ s.phases = r.phases
             /\ s.held = r.held /\ s.counter = r.counter /\ s.worker = r.worker
             /\ s.done = r.done /\ s.disk = r.disk /\ s.stuck = r.stuck
             /\ Trying(r.at) => s.at = "except" /\ s.cut = r.cut
             /\ ~Trying(r.at) => s.cut = TRUE
             /\ ~Trying(r.at) => s.at = IF r.at \in Handling THEN "close-worker" ELSE "raised"
BY DEF Raised, Goto, RunFields

\* An event is written and the capture goes on, or an exception is raised.
LEMMA EventRun ==
  ASSUME NEW e, NEW r, NEW next, NEW n, DOMAIN r = RunFields, DOMAIN files = FileFields,
         Event(e, r, next, n)
  PROVE  /\ DOMAIN run' = RunFields /\ DOMAIN files' = FileFields
         /\ run'.sensor = r.sensor /\ run'.workload = r.workload /\ run'.phases = r.phases
         /\ run'.held = r.held /\ run'.counter = r.counter /\ run'.worker = r.worker
         /\ run'.done = r.done /\ run'.stuck = r.stuck
         /\ files'.log = files.log /\ files'.report = files.report /\ files'.failure = files.failure
         /\ \/ /\ run'.at = next /\ run'.cut = r.cut /\ run'.disk = r.disk
               /\ files'.journal = Append(files.journal, e)
            \/ /\ run'.at = Raised(r).at /\ run'.cut = Raised(r).cut /\ run'.disk = TRUE
               /\ files' = files
<1>1. CASE files' = [files EXCEPT !.journal = Append(@, e)] /\ run' = Goto(r, next)
  BY <1>1 DEF Goto, RunFields, FileFields
<1>2. CASE UNCHANGED files /\ run' = [Raised(r) EXCEPT !.disk = TRUE]
  <2> DEFINE s == Raised(r)
  <2>1. DOMAIN s = RunFields
    BY RaisedRun
  <2>2. /\ s.sensor = r.sensor /\ s.workload = r.workload /\ s.phases = r.phases
        /\ s.held = r.held /\ s.counter = r.counter /\ s.worker = r.worker
        /\ s.done = r.done /\ s.stuck = r.stuck
    BY RaisedRun
  <2> HIDE DEF s
  <2> QED BY <1>2, <2>1, <2>2 DEF RunFields, s
<1> QED BY <1>1, <1>2 DEF Event

\* What no step but those of the driver changes, and what is published at its stage.
SameFiles == files'.log = files.log /\ files'.report = files.report /\ files'.failure = files.failure
Typed ==
  /\ DOMAIN run' = RunFields /\ DOMAIN files' = FileFields
  /\ run'.done \in BOOLEAN /\ run'.cut \in BOOLEAN /\ run'.disk \in BOOLEAN

LEMMA WorkingEnd ==
  ASSUME EndInv, Typed, SameFiles,
         run.at \in {"plan"} \cup Working, run'.at \in Working \cup {"except", "refused"},
         run'.done = run.done, DriversInv'
  PROVE  EndInv'
<1>1. run'.at \in Stages
  BY DEF Stages, Handling, Over
<1>2. FilesInv'
  BY DEF EndInv, FilesInv, SameFiles, Working, Publishing, Handling, Closing, Over
<1>3. \A f \in FileFields \ {"journal"} : DOMAIN files'[f] = {"made", "written", "value"}
  BY DEF EndInv, SameFiles, FileFields
<1> QED BY <1>1, <1>2, <1>3 DEF EndInv, Typed

\* A step that leaves the drivers alone, except in the clean-up.
LEMMA DriversKept ==
  ASSUME EndInv, UNCHANGED drivers,
         run'.counter = run.counter, run'.worker = run.worker, run'.stuck = run.stuck,
         run'.at \in {"plan", "open", "counter"} => run.at \in {"plan", "open", "counter"},
         run'.at \in Closing \cup Ending => run'.at = "close-worker" \/ run'.cut
  PROVE  DriversInv'
BY DEF EndInv, DriversInv, drivers, Closing, Ending

LEMMA EventEnd ==
  ASSUME EndInv, NEW e, NEW r, NEW next, NEW n, Event(e, r, next, n), UNCHANGED drivers,
         DOMAIN r = RunFields, r.at = run.at, r.counter = run.counter, r.worker = run.worker,
         r.done = run.done, r.stuck = run.stuck, r.cut = run.cut, r.disk = run.disk,
         run.at \in Working \ {"open", "counter"}, next \in Working \ {"open", "counter"}
  PROVE  EndInv'
<1>1. Trying(run.at)
  BY DEF Trying, Working, Handling, Closing, Over
<1>2. /\ Typed /\ SameFiles /\ run'.done = run.done
      /\ run'.counter = run.counter /\ run'.worker = run.worker /\ run'.stuck = run.stuck
      /\ run'.at = next \/ run'.at = "except"
  <2>1. Raised(r).at = "except" /\ Raised(r).cut = run.cut
    BY <1>1, RaisedRun
  <2>2. DOMAIN files = FileFields
    BY DEF EndInv
  <2>3. /\ DOMAIN run' = RunFields /\ DOMAIN files' = FileFields /\ SameFiles
        /\ run'.counter = r.counter /\ run'.worker = r.worker
        /\ run'.done = r.done /\ run'.stuck = r.stuck
        /\ \/ run'.at = next /\ run'.cut = r.cut /\ run'.disk = r.disk
           \/ run'.at = Raised(r).at /\ run'.cut = Raised(r).cut /\ run'.disk = TRUE
    BY <2>2, EventRun DEF SameFiles
  <2> QED BY <2>1, <2>3 DEF EndInv, Typed
<1>3. run'.at \notin Closing \cup Ending /\ run'.at \notin {"plan", "open", "counter"}
  BY <1>2 DEF Working, Closing, Ending
<1>4. DriversInv'
  BY <1>2, <1>3, DriversKept
<1> QED BY <1>2, <1>4, WorkingEnd

\* The capture itself.
LEMMA PrepareEnd ==
  ASSUME EndInv, Prepare
  PROVE  EndInv'
<1>1. /\ Typed /\ SameFiles /\ run'.done = run.done /\ run'.at \in {"open", "refused"}
      /\ run'.counter = run.counter /\ run'.worker = run.worker /\ run'.stuck = run.stuck
      /\ run.at = "plan" /\ UNCHANGED drivers
  BY DEF Prepare, Goto, At, EndInv, Typed, SameFiles, RunFields
<1>2. DriversInv'
  BY <1>1, DriversKept DEF Closing, Ending
<1> QED BY <1>1, <1>2, WorkingEnd DEF Working

LEMMA OpenCounterEnd ==
  ASSUME EndInv, OpenCounter
  PROVE  EndInv'
<1>1. run.at = "counter" /\ UNCHANGED <<context, current, files>>
  BY DEF OpenCounter, At
<1>2. Trying(run.at)
  BY <1>1 DEF Trying, Handling, Closing, Over
<1>3. /\ Typed /\ SameFiles /\ run'.done = run.done
      /\ run'.worker = run.worker /\ run'.stuck = run.stuck
      /\ \/ run'.at = "sensor" /\ nvml' = nvml + 1 /\ run'.counter = "open"
         \/ run'.at = "except" /\ nvml' = nvml /\ run'.counter = run.counter
  <2>1. CASE nvml' = nvml + 1 /\ run' = [Goto(run, "sensor") EXCEPT !.counter = "open", !.sensor = "gpu"]
    BY <1>1, <2>1 DEF Goto, EndInv, Typed, SameFiles, RunFields
  <2>2. CASE UNCHANGED nvml /\ run' = Raised(run)
    BY <1>1, <1>2, <2>2, RaisedRun DEF EndInv, Typed, SameFiles
  <2> QED BY <2>1, <2>2 DEF OpenCounter
<1>4. DriversInv'
  BY <1>1, <1>3 DEF EndInv, DriversInv, Closing, Ending
<1> QED BY <1>1, <1>3, <1>4, WorkingEnd DEF Working

LEMMA ConstructWorkerEnd ==
  ASSUME EndInv, ConstructWorker
  PROVE  EndInv'
<1>1. run.at = "body" /\ UNCHANGED <<nvml, files>>
  BY DEF ConstructWorker, At
<1>2. Trying(run.at)
  BY <1>1 DEF Trying, Handling, Closing, Over
<1> DEFINE s == Raised(run)
<1>3. /\ DOMAIN s = RunFields /\ s.at = "except" /\ s.done = run.done /\ s.counter = run.counter
      /\ s.worker = run.worker /\ s.stuck = run.stuck /\ s.disk = run.disk /\ s.cut = run.cut
  BY <1>2, RaisedRun DEF EndInv
<1> HIDE DEF s
<1> DEFINE goal == /\ Typed /\ SameFiles /\ run'.done = run.done /\ run'.counter = run.counter
                   /\ run.stuck \subseteq run'.stuck /\ run'.at \in {"end", "except"}
                   /\ context' = "live" => run'.worker = "open" \/ "destroy" \in run'.stuck
                   /\ current' => "pop" \in run'.stuck
<1>4. goal
  <2>1. ASSUME NEW gpu, context' = "live", UNCHANGED current,
               run' = [Goto(run, "end") EXCEPT !.worker = "open", !.workload = gpu]
        PROVE  goal
    BY <1>1, <2>1 DEF Goto, EndInv, DriversInv, Typed, SameFiles, RunFields
  <2>2. CASE run' = s /\ UNCHANGED <<context, current>>
    BY <1>1, <1>3, <2>2 DEF EndInv, DriversInv, Typed, SameFiles
  <2>3. CASE run' = s /\ context' = "destroyed" /\ UNCHANGED current
    BY <1>1, <1>3, <2>3 DEF EndInv, DriversInv, Typed, SameFiles
  <2>4. ASSUME NEW call \in {"setup", "pop"}, context' = "live", current' = (call = "pop"),
               run' = [s EXCEPT !.stuck = @ \cup {call, "destroy"}]
        PROVE  goal
    BY <1>1, <1>3, <2>4 DEF EndInv, Typed, SameFiles, RunFields
  <2> QED BY <2>1, <2>2, <2>3, <2>4 DEF ConstructWorker, s
<1>5. DriversInv'
  BY <1>1, <1>4 DEF EndInv, DriversInv, Closing, Ending
<1> QED BY <1>1, <1>4, <1>5, WorkingEnd DEF Working

LEMMA SolveEnd ==
  ASSUME EndInv, Solve
  PROVE  EndInv'
<1>1. run.at = "body" /\ UNCHANGED <<nvml, context, files>>
  BY DEF Solve, At
<1>2. Trying(run.at)
  BY <1>1 DEF Trying, Handling, Closing, Over
<1> DEFINE s == Raised(run)
<1>3. /\ DOMAIN s = RunFields /\ s.at = "except" /\ s.done = run.done /\ s.counter = run.counter
      /\ s.worker = run.worker /\ s.stuck = run.stuck /\ s.disk = run.disk /\ s.cut = run.cut
  BY <1>2, RaisedRun DEF EndInv
<1> HIDE DEF s
<1> DEFINE goal == /\ Typed /\ SameFiles /\ run'.done = run.done /\ run'.counter = run.counter
                   /\ run'.worker = run.worker
                   /\ run.stuck \subseteq run'.stuck /\ run'.at \in {"sampling", "except"}
                   /\ current' => "pop" \in run'.stuck
<1>4. goal
  <2>1. ASSUME NEW x, Pop("none"), run' = [Goto(run, "sampling") EXCEPT !.held = x]
        PROVE  goal
    BY <1>1, <2>1 DEF Goto, EndInv, Typed, SameFiles, RunFields, Pop
  <2>2. ASSUME NEW call \in {"solve", "pop"}, Pop(call), run' = [s EXCEPT !.stuck = @ \cup {call}]
        PROVE  goal
    BY <1>1, <1>3, <2>2 DEF EndInv, Typed, SameFiles, RunFields, Pop
  <2> QED BY <2>1, <2>2 DEF Solve, s
<1>5. DriversInv'
  BY <1>1, <1>4 DEF EndInv, DriversInv, Closing, Ending
<1> QED BY <1>1, <1>4, <1>5, WorkingEnd DEF Working

LEMMA WorkingSteps ==
  ASSUME EndInv,
         \/ RetainSensor \/ Begin \/ Started \/ Sleep \/ SampleInside \/ RetainBatch
         \/ End \/ Ended \/ RetainWorkload \/ Seal
  PROVE  EndInv'
<1>1. DOMAIN run = RunFields
  BY DEF EndInv
<1> DEFINE Alike(r) == /\ DOMAIN r = RunFields /\ r.at = run.at /\ r.counter = run.counter
                       /\ r.worker = run.worker /\ r.done = run.done /\ r.stuck = run.stuck
                       /\ r.cut = run.cut /\ r.disk = run.disk
<1>2. Alike(run) /\ \A p : Alike(InPhase(p))
  BY <1>1 DEF InPhase, RunFields
<1> DEFINE Later == Working \ {"open", "counter"}
<1>3. ASSUME NEW e, NEW r, NEW next, NEW n, Event(e, r, next, n), Alike(r), next \in Later,
             run.at \in Later, UNCHANGED drivers
      PROVE  EndInv'
  BY <1>3, EventEnd
<1>4. ASSUME NEW p, NEW next \in Later, Sample(p, next), run.at \in Later, UNCHANGED drivers
      PROVE  EndInv'
  <2>1. PICK s, n : Event([event |-> "sample", phase |-> p.name, value |-> s],
                          InPhase([p EXCEPT !.samples = Append(@, s)]), next, n)
    BY <1>4 DEF Sample
  <2>2. Alike(InPhase([p EXCEPT !.samples = Append(@, s)]))
    BY <1>2
  <2> HIDE DEF Alike, Later
  <2> QED BY <1>3, <1>4, <2>1, <2>2
\* It goes on without an event.
<1>5. ASSUME run.at \in Later, run' = Raised(run) \/ Alike([run' EXCEPT !.at = run.at]),
             DOMAIN run' = RunFields, run'.at \in Later \cup {"except"}, UNCHANGED <<drivers, files>>
      PROVE  EndInv'
  <2>1. /\ run'.counter = run.counter /\ run'.worker = run.worker /\ run'.stuck = run.stuck
        /\ run'.done = run.done /\ run'.disk = run.disk /\ run'.cut = run.cut
    <3>1. CASE run' = Raised(run)
      BY <1>1, <1>5, <3>1, RaisedRun DEF Trying, Handling, Closing, Over, Working
    <3>2. CASE Alike([run' EXCEPT !.at = run.at])
      BY <1>5, <3>2 DEF RunFields
    <3> QED BY <1>5, <3>1, <3>2
  <2>2. Typed /\ SameFiles
    BY <1>5, <2>1 DEF EndInv, Typed, SameFiles
  <2>3. DriversInv'
    BY <1>5, <2>1, DriversKept DEF Working, Closing, Ending
  <2> QED BY <1>5, <2>1, <2>2, <2>3, WorkingEnd
<1>6. ASSUME NEW x, Alike(x), NEW next \in Later, run' = [x EXCEPT !.at = next],
             run.at \in Later, UNCHANGED <<drivers, files>>
      PROVE  EndInv'
  <2>1. DOMAIN run' = RunFields /\ run'.at = next /\ Alike([run' EXCEPT !.at = run.at])
    BY <1>6 DEF RunFields
  <2> QED BY <1>5, <1>6, <2>1
<1> HIDE DEF Alike
<1>7. CASE RetainSensor
  BY <1>2, <1>3, <1>7 DEF RetainSensor, Note, At, Working
<1>8. CASE Begin
  <2>1. PICK s, n, p, e : Event(e, [run EXCEPT !.phases = Append(@, [p EXCEPT !.samples = <<s>>])],
                                "started", n)
    BY <1>8 DEF Begin
  <2>2. Alike([run EXCEPT !.phases = Append(@, [p EXCEPT !.samples = <<s>>])])
    BY <1>1 DEF Alike, RunFields
  <2> QED BY <1>3, <1>8, <2>1, <2>2 DEF Begin, At, Working
<1>9. CASE Started
  BY <1>2, <1>3, <1>9 DEF Started, At, Working
<1>10. CASE Sleep
  BY <1>2, <1>6, <1>10 DEF Sleep, At, Working, Goto
<1>11. CASE SampleInside
  BY <1>4, <1>11 DEF SampleInside, At, Working
<1>12. CASE RetainBatch
  <2> DEFINE p == [Phase0 EXCEPT !.batches = Append(@, run.held)]
             x == [InPhase(p) EXCEPT !.held = None]
  <2>1. Alike(x)
    BY <1>2 DEF Alike, RunFields
  <2>2. ASSUME NEW e, NEW n, Event(e, x, IF Enough(p) THEN "end" ELSE "body", n)
        PROVE  EndInv'
    <3> HIDE DEF x, p
    <3> QED BY <1>3, <1>12, <2>1, <2>2 DEF RetainBatch, At, Working
  <2>3. CASE run' = [Raised(run) EXCEPT !.held = None] /\ UNCHANGED files
    <3> DEFINE s == Raised(run)
    <3>1. DOMAIN s = RunFields /\ Alike([s EXCEPT !.at = run.at]) /\ s.at = "except"
      <4>1. Trying(run.at)
        BY <1>12 DEF RetainBatch, At, Trying, Handling, Closing, Over
      <4>2. /\ DOMAIN s = RunFields /\ s.at = "except" /\ s.counter = run.counter
            /\ s.worker = run.worker /\ s.done = run.done /\ s.stuck = run.stuck
            /\ s.cut = run.cut /\ s.disk = run.disk
        BY <1>1, <4>1, RaisedRun
      <4> HIDE DEF s
      <4> QED BY <4>2 DEF Alike, RunFields
    <3> HIDE DEF s
    <3>2. /\ Alike([run' EXCEPT !.at = run.at]) /\ DOMAIN run' = RunFields
          /\ run'.at = "except"
      BY <2>3, <3>1 DEF Alike, RunFields, s
    <3> QED BY <1>5, <1>12, <2>3, <3>2 DEF RetainBatch, At, Working
  <2> QED BY <1>12, <2>2, <2>3 DEF RetainBatch
<1>13. CASE End
  BY <1>4, <1>13 DEF End, At, Working
<1>14. CASE Ended
  BY <1>2, <1>3, <1>14 DEF Ended, Note, At, Working
<1>15. CASE RetainWorkload
  <2>1. CASE Event([event |-> "workload"], run, "begin", 0)
    BY <1>2, <1>3, <1>15, <2>1 DEF RetainWorkload, At, Working
  <2>2. CASE files' = [files EXCEPT !.journal = Append(@, [event |-> "workload"])] /\ run' = Raised(run)
    <3>1. Trying(run.at) /\ run.at = "workload"
      BY <1>15 DEF RetainWorkload, At, Trying, Handling, Closing, Over
    <3>2. Typed /\ SameFiles /\ run'.at = "except" /\ run'.done = run.done
      BY <2>2, <3>1, RaisedRun DEF EndInv, Typed, SameFiles, FileFields
    <3>3. run'.counter = run.counter /\ run'.worker = run.worker /\ run'.stuck = run.stuck
      BY <1>1, <2>2, RaisedRun
    <3>4. DriversInv'
      BY <1>15, <3>2, <3>3, DriversKept DEF RetainWorkload, Closing, Ending
    <3> QED BY <3>1, <3>2, <3>4, WorkingEnd DEF Working
  <2> QED BY <1>15, <2>1, <2>2 DEF RetainWorkload
<1>16. CASE Seal
  <2>1. run.at = "seal" /\ Trying(run.at)
    BY <1>16 DEF Seal, At, Trying, Handling, Closing, Over
  <2>2. CASE run' = Raised(run)
    BY <1>1, <1>5, <1>16, <2>1, <2>2, RaisedRun DEF Seal, Working
  <2>3. ASSUME NEW log, run' = [Goto(run, "log") EXCEPT !.held = log]
        PROVE  EndInv'
    <3>1. Alike([run' EXCEPT !.at = run.at]) /\ DOMAIN run' = RunFields /\ run'.at = "log"
      BY <1>1, <2>3 DEF Alike, Goto, RunFields
    <3> QED BY <1>5, <1>16, <2>1, <3>1 DEF Seal, Working
  <2> QED BY <1>16, <2>2, <2>3 DEF Seal
<1> QED BY <1>7, <1>8, <1>9, <1>10, <1>11, <1>12, <1>13, <1>14, <1>15, <1>16

LEMMA OpenJournalEnd ==
  ASSUME EndInv, OpenJournal
  PROVE  EndInv'
<1>1. /\ run.at = "open" /\ Trying(run.at) /\ UNCHANGED drivers /\ DOMAIN run = RunFields
      /\ Event([event |-> "capture"], run, "counter", 0)
  BY DEF OpenJournal, Note, At, Trying, Handling, Closing, Over, EndInv
<1>2. Raised(run).at = "except" /\ Raised(run).cut = run.cut
  BY <1>1, RaisedRun
<1>3. /\ Typed /\ SameFiles /\ run'.done = run.done
      /\ run'.counter = run.counter /\ run'.worker = run.worker /\ run'.stuck = run.stuck
      /\ run'.at = "counter" \/ run'.at = "except"
  <2>1. DOMAIN files = FileFields /\ run.done \in BOOLEAN /\ run.cut \in BOOLEAN /\ run.disk \in BOOLEAN
    BY DEF EndInv
  <2>2. /\ DOMAIN run' = RunFields /\ DOMAIN files' = FileFields
        /\ run'.counter = run.counter /\ run'.worker = run.worker
        /\ run'.done = run.done /\ run'.stuck = run.stuck
        /\ files'.log = files.log /\ files'.report = files.report /\ files'.failure = files.failure
        /\ \/ run'.at = "counter" /\ run'.cut = run.cut /\ run'.disk = run.disk
           \/ run'.at = Raised(run).at /\ run'.cut = Raised(run).cut /\ run'.disk = TRUE
    <3> DEFINE e == [event |-> "capture"]
    <3>1. Event(e, run, "counter", 0)
      BY <1>1
    <3> HIDE DEF e
    <3> QED BY <1>1, <2>1, <3>1, EventRun
  <2>3. run'.at = "counter" \/ run'.at = "except"
    BY <1>2, <2>2
  <2>4. run'.cut \in BOOLEAN /\ run'.disk \in BOOLEAN
    BY <1>2, <2>1, <2>2
  <2>5. SameFiles
    BY <2>2 DEF SameFiles
  <2>6. Typed
    BY <2>1, <2>2, <2>4 DEF Typed
  <2> QED BY <2>2, <2>3, <2>5, <2>6
<1>4. DriversInv'
  BY <1>1, <1>3, DriversKept DEF Closing, Ending
<1> QED BY <1>1, <1>3, <1>4, WorkingEnd DEF Working

\* What a step of _publish does: it creates the file, writes it, or raises.
LEMMA PublishRun ==
  ASSUME EndInv, NEW file \in FileFields, NEW value, NEW opened, NEW next,
         Publish(file, value, opened, next)
  PROVE  /\ DOMAIN run' = RunFields /\ DOMAIN files' = FileFields
         /\ run'.phases = run.phases /\ run'.held = run.held /\ run'.counter = run.counter
         /\ run'.worker = run.worker /\ run'.done = run.done /\ run'.stuck = run.stuck
         /\ \A f \in FileFields \ {file} : files'[f] = files[f]
         /\ \/ /\ run.at # opened /\ ~files[file].made /\ files'[file] = Created
               /\ run'.at = opened /\ run'.cut = run.cut /\ run'.disk = run.disk
            \/ /\ run.at = opened /\ files'[file] = Holds(value)
               /\ run'.at = next /\ run'.cut = run.cut /\ run'.disk = run.disk
            \/ /\ files' = files /\ run'.disk = TRUE
               /\ run'.at = Raised(run).at /\ run'.cut = Raised(run).cut
<1>1. DOMAIN run = RunFields /\ DOMAIN files = FileFields
  BY DEF EndInv
<1>2. CASE UNCHANGED files /\ run' = [Raised(run) EXCEPT !.disk = TRUE]
  <2> DEFINE s == Raised(run)
  <2>1. /\ DOMAIN s = RunFields /\ s.phases = run.phases
        /\ s.held = run.held /\ s.counter = run.counter /\ s.worker = run.worker
        /\ s.done = run.done /\ s.stuck = run.stuck
    BY <1>1, RaisedRun
  <2> HIDE DEF s
  <2> QED BY <1>1, <1>2, <2>1 DEF RunFields, s
<1>3. ASSUME NEW x, NEW stage, files' = [files EXCEPT ![file] = x], run' = Goto(run, stage)
      PROVE  /\ DOMAIN run' = RunFields /\ DOMAIN files' = FileFields
             /\ run'.phases = run.phases /\ run'.held = run.held /\ run'.counter = run.counter
             /\ run'.worker = run.worker /\ run'.done = run.done /\ run'.stuck = run.stuck
             /\ \A f \in FileFields \ {file} : files'[f] = files[f]
             /\ files'[file] = x /\ run'.at = stage /\ run'.cut = run.cut /\ run'.disk = run.disk
  BY <1>1, <1>3 DEF Goto, RunFields
<1>4. CASE /\ run.at # opened /\ ~files[file].made
           /\ files' = [files EXCEPT ![file] = Created] /\ run' = Goto(run, opened)
  BY <1>3, <1>4
<1>5. CASE At(opened) /\ files' = [files EXCEPT ![file] = Holds(value)] /\ run' = Goto(run, next)
  BY <1>3, <1>5 DEF At
<1> QED BY <1>2, <1>4, <1>5 DEF Publish

LEMMA PublishingSteps ==
  ASSUME EndInv, PublishLog \/ PublishReport \/ Complete \/ Return
  PROVE  EndInv'
<1>1. /\ run.at \in {"log"} \cup Publishing /\ Trying(run.at) /\ UNCHANGED drivers
      /\ DOMAIN run = RunFields /\ DOMAIN files = FileFields
  BY DEF PublishLog, PublishReport, Complete, Return, Note, At, Publishing, Trying, Handling,
         Closing, Over, EndInv
<1>2. Raised(run).at = "except" /\ Raised(run).cut = run.cut
  BY <1>1, RaisedRun
<1> DEFINE Files3 == \A f \in FileFields \ {"journal"} : DOMAIN files'[f] = {"made", "written", "value"}
           Next3(a) == /\ Typed /\ Files3 /\ run'.at = a
                       /\ run'.counter = run.counter /\ run'.worker = run.worker
                       /\ run'.stuck = run.stuck /\ run'.cut = run.cut
<1>3. ASSUME NEW a \in {"log-open", "report", "report-open", "complete", "return", "except", "close-worker"},
             Next3(a), FilesInv'
      PROVE  EndInv'
  <2>1. DriversInv'
    BY <1>1, <1>3, DriversKept DEF Closing, Ending
  <2>2. run'.at \in Stages
    BY <1>3 DEF Stages, Publishing, Handling, Closing
  <2> QED BY <1>3, <2>1, <2>2 DEF EndInv, Typed
<1>4. CASE PublishLog
  <2>1. /\ run.at \in {"log", "log-open"}
        /\ Publish("log", run.held, "log-open", "report")
    BY <1>4 DEF PublishLog
  <2> DEFINE value == run.held
  <2>4. /\ DOMAIN run' = RunFields /\ DOMAIN files' = FileFields
        /\ run'.counter = run.counter /\ run'.worker = run.worker
        /\ run'.done = run.done /\ run'.stuck = run.stuck
        /\ \A f \in FileFields \ {"log"} : files'[f] = files[f]
        /\ \/ /\ run.at # "log-open" /\ files'["log"] = Created
              /\ run'.at = "log-open" /\ run'.cut = run.cut /\ run'.disk = run.disk
           \/ /\ run.at = "log-open" /\ files'["log"] = Holds(value)
              /\ run'.at = "report" /\ run'.cut = run.cut /\ run'.disk = run.disk
           \/ /\ files' = files /\ run'.disk = TRUE
              /\ run'.at = Raised(run).at /\ run'.cut = Raised(run).cut
    <3>1. "log" \in FileFields
      BY DEF FileFields
    <3> QED BY <2>1, <3>1, PublishRun
  <2> HIDE DEF value
  <2>2. /\ Typed /\ Files3 /\ run'.done = run.done
        /\ run'.counter = run.counter /\ run'.worker = run.worker
        /\ run'.stuck = run.stuck /\ run'.cut = run.cut
        /\ files'.report = files.report /\ files'.failure = files.failure
        /\ \/ run.at = "log" /\ run'.at = "log-open"
           \/ run.at = "log-open" /\ run'.at = "report" /\ files'.log.written
           \/ run'.at = "except"
    <3>1. files'.report = files.report /\ files'.failure = files.failure
      BY <2>4 DEF FileFields
    <3>2. /\ \A x : Created.made /\ Holds(x).written
          /\ DOMAIN Created = {"made", "written", "value"}
          /\ \A x : DOMAIN Holds(x) = {"made", "written", "value"}
      BY DEF Created, Holds
    <3>3. Files3
      BY <2>4, <3>1, <3>2 DEF EndInv, FileFields
    <3>4. Typed
      BY <1>2, <2>4 DEF EndInv, Typed
    <3> QED BY <1>2, <2>1, <2>4, <3>1, <3>2, <3>3, <3>4
  <2>3. FilesInv'
    BY <2>1, <2>2 DEF EndInv, FilesInv, Working, Publishing, Handling, Closing, Over
  <2> QED BY <1>3, <2>2, <2>3
<1>5. CASE PublishReport
  <2>1. /\ run.at \in {"report", "report-open"}
        /\ Publish("report", Analyze(run.held), "report-open", "complete")
    BY <1>5 DEF PublishReport
  <2> DEFINE value == Analyze(run.held)
  <2>4. /\ DOMAIN run' = RunFields /\ DOMAIN files' = FileFields
        /\ run'.counter = run.counter /\ run'.worker = run.worker
        /\ run'.done = run.done /\ run'.stuck = run.stuck
        /\ \A f \in FileFields \ {"report"} : files'[f] = files[f]
        /\ \/ /\ run.at # "report-open" /\ files'["report"] = Created
              /\ run'.at = "report-open" /\ run'.cut = run.cut /\ run'.disk = run.disk
           \/ /\ run.at = "report-open" /\ files'["report"] = Holds(value)
              /\ run'.at = "complete" /\ run'.cut = run.cut /\ run'.disk = run.disk
           \/ /\ files' = files /\ run'.disk = TRUE
              /\ run'.at = Raised(run).at /\ run'.cut = Raised(run).cut
    <3>1. "report" \in FileFields
      BY DEF FileFields
    <3> QED BY <2>1, <3>1, PublishRun
  <2> HIDE DEF value
  <2>2. /\ Typed /\ Files3 /\ run'.done = run.done
        /\ run'.counter = run.counter /\ run'.worker = run.worker
        /\ run'.stuck = run.stuck /\ run'.cut = run.cut
        /\ files'.log = files.log /\ files'.failure = files.failure
        /\ \/ run.at = "report" /\ run'.at = "report-open"
           \/ run.at = "report-open" /\ run'.at = "complete" /\ files'.report.written
           \/ run'.at = "except"
    <3>1. files'.log = files.log /\ files'.failure = files.failure
      BY <2>4 DEF FileFields
    <3>2. /\ \A x : Created.made /\ Holds(x).written
          /\ DOMAIN Created = {"made", "written", "value"}
          /\ \A x : DOMAIN Holds(x) = {"made", "written", "value"}
      BY DEF Created, Holds
    <3>3. Files3
      BY <2>4, <3>1, <3>2 DEF EndInv, FileFields
    <3>4. Typed
      BY <1>2, <2>4 DEF EndInv, Typed
    <3> QED BY <1>2, <2>1, <2>4, <3>1, <3>2, <3>3, <3>4
  <2>3. FilesInv'
    BY <2>1, <2>2 DEF EndInv, FilesInv, Working, Publishing, Handling, Closing, Over
  <2> QED BY <1>3, <2>2, <2>3
<1>6. CASE Complete
  <2>1. run.at = "complete" /\ Event([event |-> "complete"], run, "return", 0)
    BY <1>6 DEF Complete, Note, At
  <2>2. /\ DOMAIN run' = RunFields /\ DOMAIN files' = FileFields /\ SameFiles
        /\ run'.done = run.done /\ run'.counter = run.counter /\ run'.worker = run.worker
        /\ run'.stuck = run.stuck /\ run'.cut = run.cut
        /\ run'.disk = run.disk \/ run'.disk = TRUE
        /\ run'.at \in {"return", "except"}
    BY <1>1, <1>2, <2>1, EventRun DEF SameFiles
  <2>3. Typed /\ Files3
    BY <2>2 DEF Typed, SameFiles, EndInv, FileFields
  <2>4. FilesInv'
    BY <2>1, <2>2 DEF SameFiles, EndInv, FilesInv, Working, Publishing, Handling, Closing, Over
  <2> QED BY <1>3, <2>2, <2>3, <2>4
<1>7. CASE Return
  <2>1. /\ run.at = "return" /\ run' = [Goto(run, "close-worker") EXCEPT !.done = TRUE]
        /\ UNCHANGED files
    BY <1>7 DEF Return, At
  <2>2. /\ Typed /\ Files3 /\ run'.done = TRUE /\ run'.at = "close-worker"
        /\ run'.counter = run.counter /\ run'.worker = run.worker
        /\ run'.stuck = run.stuck /\ run'.cut = run.cut
    BY <1>1, <2>1 DEF Goto, RunFields, EndInv, Typed
  <2>3. FilesInv'
    BY <2>1, <2>2 DEF EndInv, FilesInv, Working, Publishing, Handling, Closing, Over
  <2> QED BY <1>3, <2>2, <2>3
<1> QED BY <1>4, <1>5, <1>6, <1>7

LEMMA HandlingSteps ==
  ASSUME EndInv, FinishFailed \/ EndFailed \/ NoteUnavailable \/ NoteFailure \/ PublishFailure
  PROVE  EndInv'
<1>1. /\ run.at \in Handling /\ ~Trying(run.at) /\ UNCHANGED drivers
      /\ DOMAIN run = RunFields /\ DOMAIN files = FileFields /\ ~run.done
  BY DEF FinishFailed, EndFailed, NoteUnavailable, NoteFailure, PublishFailure, Note, At, Trying,
         Handling, EndInv, FilesInv
<1>2. Raised(run).at = "close-worker" /\ Raised(run).cut = TRUE
  BY <1>1, RaisedRun
<1> DEFINE Onward == run'.at = "close-worker" /\ run'.cut = TRUE
\* It is still handled, the exception of the handling leads out, or the failure is written.
<1>3. ASSUME Typed, files'.log = files.log, files'.report = files.report,
             DOMAIN files'.failure = {"made", "written", "value"},
             run'.done = run.done, run'.counter = run.counter, run'.worker = run.worker,
             run'.stuck = run.stuck,
             \/ run'.at \in Handling
             \/ Onward
             \/ run'.at = "close-worker" /\ files'.failure.written
      PROVE  EndInv'
  <2>1. DriversInv'
    BY <1>1, <1>3, DriversKept DEF Handling, Closing, Ending
  <2>2. run'.at \in Stages
    BY <1>3 DEF Stages, Closing
  <2>3. FilesInv'
    BY <1>1, <1>3 DEF FilesInv, Working, Publishing, Handling, Closing, Over
  <2>4. \A f \in FileFields \ {"journal"} : DOMAIN files'[f] = {"made", "written", "value"}
    BY <1>3 DEF EndInv, FileFields
  <2> QED BY <1>3, <2>1, <2>2, <2>3, <2>4 DEF EndInv, Typed
<1>4. ASSUME NEW e, NEW r, NEW next \in Handling, NEW n, Event(e, r, next, n),
             DOMAIN r = RunFields, r.at = run.at, r.counter = run.counter, r.worker = run.worker,
             r.done = run.done, r.stuck = run.stuck, r.cut = run.cut, r.disk = run.disk
      PROVE  EndInv'
  <2>1. Raised(r).at = "close-worker" /\ Raised(r).cut = TRUE
    BY <1>1, <1>4, RaisedRun
  <2>2. /\ DOMAIN run' = RunFields /\ DOMAIN files' = FileFields /\ SameFiles
        /\ run'.counter = r.counter /\ run'.worker = r.worker
        /\ run'.done = r.done /\ run'.stuck = r.stuck
        /\ \/ run'.at = next /\ run'.cut = r.cut /\ run'.disk = r.disk
           \/ run'.at = Raised(r).at /\ run'.cut = Raised(r).cut /\ run'.disk = TRUE
    <3>1. DOMAIN r = RunFields /\ DOMAIN files = FileFields /\ Event(e, r, next, n)
      BY <1>1, <1>4
    <3> QED BY <3>1, EventRun DEF SameFiles
  <2>3. Typed
    BY <1>4, <2>1, <2>2 DEF EndInv, Typed
  <2>4. DOMAIN files'.failure = {"made", "written", "value"}
    BY <2>2 DEF SameFiles, EndInv, FileFields
  <2> QED BY <1>3, <1>4, <2>1, <2>2, <2>3, <2>4 DEF SameFiles
<1>5. CASE FinishFailed
  <2>1. CASE run' = Goto(run, "failure") /\ UNCHANGED files
    <3>1. /\ Typed /\ run'.at = "failure" /\ run'.done = run.done /\ run'.counter = run.counter
          /\ run'.worker = run.worker /\ run'.stuck = run.stuck
      BY <1>1, <2>1 DEF Goto, RunFields, EndInv, Typed
    <3> QED BY <1>3, <2>1, <3>1 DEF EndInv, FileFields, Handling
  <2>2. ASSUME NEW p, Sample(p, "except-ended")
        PROVE  EndInv'
    <3>1. PICK e, x, n : Event(e, InPhase(x), "except-ended", n)
      BY <2>2 DEF Sample
    <3> DEFINE r == InPhase(x)
    <3>2. /\ DOMAIN r = RunFields /\ r.at = run.at /\ r.counter = run.counter
          /\ r.worker = run.worker /\ r.done = run.done /\ r.stuck = run.stuck
          /\ r.cut = run.cut /\ r.disk = run.disk
      BY <1>1 DEF InPhase, RunFields
    <3> HIDE DEF r
    <3> QED BY <1>4, <3>1, <3>2 DEF r, Handling
  <2>3. ASSUME NEW x, run' = [Goto(InPhase(x), "unavailable") EXCEPT !.disk = TRUE], UNCHANGED files
        PROVE  EndInv'
    <3>1. /\ Typed /\ run'.at = "unavailable" /\ run'.done = run.done /\ run'.counter = run.counter
          /\ run'.worker = run.worker /\ run'.stuck = run.stuck
      BY <1>1, <2>3 DEF Goto, InPhase, RunFields, EndInv, Typed
    <3> QED BY <1>3, <2>3, <3>1 DEF EndInv, FileFields, Handling
  <2> QED BY <1>5, <2>1, <2>2, <2>3 DEF FinishFailed
<1>6. CASE EndFailed
  <2>1. /\ Typed /\ SameFiles /\ run'.at \in {"failure", "unavailable"} /\ run'.done = run.done
        /\ run'.counter = run.counter /\ run'.worker = run.worker /\ run'.stuck = run.stuck
    <3>1. CASE /\ files' = [files EXCEPT !.journal = Append(@, [event |-> "phase_end"])]
               /\ run' = Goto(run, "failure")
      BY <1>1, <3>1 DEF Goto, RunFields, FileFields, EndInv, Typed, SameFiles
    <3>2. CASE UNCHANGED files /\ run' = [Goto(run, "unavailable") EXCEPT !.disk = TRUE]
      BY <1>1, <3>2 DEF Goto, RunFields, EndInv, Typed, SameFiles
    <3> QED BY <1>6, <3>1, <3>2 DEF EndFailed
  <2> QED BY <1>3, <2>1 DEF SameFiles, EndInv, FileFields, Handling
<1>7. CASE NoteUnavailable \/ NoteFailure
  BY <1>1, <1>4, <1>7 DEF NoteUnavailable, NoteFailure, Note, At, Handling
<1>8. CASE PublishFailure
  <2>1. /\ run.at \in {"failure-file", "failure-open"}
        /\ Publish("failure", run.phases, "failure-open", "close-worker")
    BY <1>8 DEF PublishFailure
  <2>2. /\ DOMAIN run' = RunFields /\ DOMAIN files' = FileFields
        /\ run'.counter = run.counter /\ run'.worker = run.worker
        /\ run'.done = run.done /\ run'.stuck = run.stuck
        /\ \A f \in FileFields \ {"failure"} : files'[f] = files[f]
        /\ \/ /\ files'["failure"] = Created
              /\ run'.at = "failure-open" /\ run'.cut = run.cut /\ run'.disk = run.disk
           \/ /\ files'["failure"] = Holds(run.phases)
              /\ run'.at = "close-worker" /\ run'.cut = run.cut /\ run'.disk = run.disk
           \/ /\ files' = files /\ run'.disk = TRUE /\ Onward
    <3>1. "failure" \in FileFields
      BY DEF FileFields
    <3>3. /\ DOMAIN run' = RunFields /\ DOMAIN files' = FileFields
          /\ run'.counter = run.counter /\ run'.worker = run.worker
          /\ run'.done = run.done /\ run'.stuck = run.stuck
          /\ \A f \in FileFields \ {"failure"} : files'[f] = files[f]
          /\ \/ /\ run.at # "failure-open" /\ files'["failure"] = Created
                /\ run'.at = "failure-open" /\ run'.cut = run.cut /\ run'.disk = run.disk
             \/ /\ run.at = "failure-open" /\ files'["failure"] = Holds(run.phases)
                /\ run'.at = "close-worker" /\ run'.cut = run.cut /\ run'.disk = run.disk
             \/ /\ files' = files /\ run'.disk = TRUE
                /\ run'.at = Raised(run).at /\ run'.cut = Raised(run).cut
      BY <2>1, <3>1, PublishRun
    <3> QED BY <1>2, <3>3
  <2>3. Typed /\ files'.log = files.log /\ files'.report = files.report
    BY <2>2 DEF EndInv, Typed, FileFields
  <2>4. /\ DOMAIN files'.failure = {"made", "written", "value"}
        /\ run'.at \in Handling \/ Onward \/ (run'.at = "close-worker" /\ files'.failure.written)
    BY <2>2 DEF EndInv, FileFields, Created, Holds, Handling
  <2> QED BY <1>3, <2>2, <2>3, <2>4
<1> QED BY <1>5, <1>6, <1>7, <1>8

LEMMA ClosingSteps ==
  ASSUME EndInv, CloseWorker \/ CloseCounter \/ NoteCleanup
  PROVE  EndInv'
<1>1. /\ run.at \in Closing /\ ~Trying(run.at)
      /\ DOMAIN run = RunFields /\ DOMAIN files = FileFields
  BY DEF CloseWorker, CloseCounter, NoteCleanup, Note, At, Trying, Closing, EndInv
<1>2. Raised(run).at = "raised" /\ Raised(run).cut = TRUE
  BY <1>1, RaisedRun DEF Closing, Handling
\* The files are as they were; the capture is still closing, or over.
<1>3. ASSUME Typed, SameFiles, run'.done = run.done,
             \/ run'.at \in Closing /\ run'.cut = run.cut
             \/ run'.at = "raised" /\ run'.cut = TRUE
             \/ /\ run'.at = IF run.done /\ ~run.cut THEN "returned" ELSE "raised"
                /\ run'.cut = run.cut,
             DriversInv'
      PROVE  EndInv'
  <2>1. run'.at \in Stages
    BY <1>3 DEF Stages, Over
  <2>2. FilesInv'
    <3>1. /\ run.done => files.log.written /\ files.report.written /\ ~files.failure.made
          /\ ~run.done /\ ~run.cut => files.failure.written
      BY <1>1 DEF EndInv, FilesInv
    <3>2. run.done \in BOOLEAN /\ run.cut \in BOOLEAN
      BY DEF EndInv
    <3>3. run'.at \in Closing \cup {"returned", "raised"}
      BY <1>3
    <3> QED BY <1>3, <3>1, <3>2, <3>3 DEF FilesInv, SameFiles, Working, Publishing, Handling, Closing, Over
  <2>3. \A f \in FileFields \ {"journal"} : DOMAIN files'[f] = {"made", "written", "value"}
    BY <1>3 DEF EndInv, SameFiles, FileFields
  <2> QED BY <1>3, <2>1, <2>2, <2>3 DEF EndInv, Typed
<1>4. ASSUME NEW r, DOMAIN r = RunFields, r.done = run.done, r.cut = run.cut, r.disk = run.disk,
             run' = Finish(r), UNCHANGED files
      PROVE  /\ Typed /\ SameFiles /\ run'.done = run.done /\ run'.cut = run.cut
             /\ run'.at = IF run.done /\ ~run.cut THEN "returned" ELSE "raised"
             /\ run'.counter = r.counter /\ run'.worker = r.worker /\ run'.stuck = r.stuck
  BY <1>1, <1>4 DEF Finish, Goto, RunFields, EndInv, Typed, SameFiles
<1>5. CASE CloseWorker
  <2>1. run.at = "close-worker" /\ UNCHANGED <<nvml, files>>
    BY <1>5 DEF CloseWorker, At
  <2>2. \/ /\ run.worker = "none" /\ run' = Goto(run, "close-counter")
           /\ UNCHANGED <<context, current>>
        \/ /\ context' = "destroyed" /\ current' = FALSE
           /\ run' = [Goto(run, "close-counter") EXCEPT !.worker = "closed"]
        \/ /\ run' = NoteUnclosed(run) /\ UNCHANGED <<context, current>>
    BY <1>5 DEF CloseWorker
  <2>3. /\ Typed /\ SameFiles /\ run'.done = run.done /\ run'.cut = run.cut
        /\ run'.at \in {"close-counter", "cleanup-worker"} /\ run'.counter = run.counter
        /\ run.stuck \subseteq run'.stuck
        /\ run'.worker = "open" => "destroy" \in run'.stuck
        /\ context' = "live" => run'.worker = "open" \/ "destroy" \in run'.stuck
        /\ current' => "pop" \in run'.stuck
    <3>1. CASE run.worker = "none" /\ run' = Goto(run, "close-counter") /\ UNCHANGED <<context, current>>
      BY <1>1, <2>1, <3>1 DEF Goto, RunFields, EndInv, DriversInv, Typed, SameFiles
    <3>2. CASE context' = "destroyed" /\ current' = FALSE /\ run' = [Goto(run, "close-counter") EXCEPT !.worker = "closed"]
      BY <1>1, <2>1, <3>2 DEF Goto, RunFields, EndInv, DriversInv, Typed, SameFiles
    <3>3. CASE run' = NoteUnclosed(run) /\ UNCHANGED <<context, current>>
      BY <1>1, <2>1, <3>3 DEF NoteUnclosed, Goto, RunFields, EndInv, DriversInv, Typed, SameFiles
    <3> QED BY <2>2, <3>1, <3>2, <3>3
  <2>4. DriversInv'
    BY <2>1, <2>3 DEF EndInv, DriversInv, Closing, Ending
  <2> QED BY <1>3, <2>3, <2>4 DEF Closing
<1>6. CASE CloseCounter
  <2>1. run.at = "close-counter" /\ UNCHANGED <<context, current, files>>
    BY <1>6 DEF CloseCounter, At
  <2>2. \/ run.counter = "none" /\ run' = Finish(run) /\ UNCHANGED nvml
        \/ nvml' = nvml - 1 /\ run' = Finish([run EXCEPT !.counter = "closed"])
        \/ /\ run' = [Goto(run, "cleanup-counter") EXCEPT !.counter = "closed",
                         !.stuck = @ \cup {"shutdown"}]
           /\ UNCHANGED nvml
    BY <1>6 DEF CloseCounter
  <2>3. /\ Typed /\ SameFiles /\ run'.done = run.done /\ run'.cut = run.cut
        /\ \/ run'.at = "cleanup-counter"
           \/ run'.at = IF run.done /\ ~run.cut THEN "returned" ELSE "raised"
        /\ run.stuck \subseteq run'.stuck /\ run'.worker = run.worker /\ run'.counter # "open"
        /\ nvml' \in Int /\ nvml' <= 1 /\ (nvml' > 0 => "shutdown" \in run'.stuck)
    <3>1. CASE run.counter = "none" /\ run' = Finish(run) /\ UNCHANGED nvml
      BY <1>1, <1>4, <2>1, <3>1 DEF EndInv, DriversInv
    <3>2. CASE nvml' = nvml - 1 /\ run' = Finish([run EXCEPT !.counter = "closed"])
      <4> DEFINE r == [run EXCEPT !.counter = "closed"]
      <4>1. /\ DOMAIN r = RunFields /\ r.done = run.done /\ r.cut = run.cut /\ r.disk = run.disk
            /\ r.counter = "closed" /\ r.worker = run.worker /\ r.stuck = run.stuck
        BY <1>1 DEF RunFields
      <4>2. run' = Finish(r)
        BY <3>2
      <4> HIDE DEF r
      <4>3. nvml' \in Int /\ nvml' <= 0
        BY <3>2 DEF EndInv, DriversInv
      <4> QED BY <1>4, <2>1, <4>1, <4>2, <4>3
    <3>3. CASE /\ run' = [Goto(run, "cleanup-counter") EXCEPT !.counter = "closed",
                             !.stuck = @ \cup {"shutdown"}]
               /\ UNCHANGED nvml
      BY <1>1, <2>1, <3>3 DEF Goto, RunFields, EndInv, DriversInv, Typed, SameFiles
    <3> QED BY <2>2, <3>1, <3>2, <3>3
  <2>4. DriversInv'
    BY <2>1, <2>3 DEF EndInv, DriversInv, Closing, Ending
  <2> QED BY <1>3, <2>3, <2>4 DEF Closing
<1>7. CASE NoteCleanup
  <2>1. /\ run.at \in {"cleanup-worker", "cleanup-counter"} /\ UNCHANGED drivers
        /\ Event([event |-> "cleanup_error"], run,
                 IF run.at = "cleanup-worker" THEN "close-counter" ELSE Finish(run).at, 0)
    BY <1>7 DEF NoteCleanup, Note, At
  <2> DEFINE next == IF run.at = "cleanup-worker" THEN "close-counter" ELSE Finish(run).at
             e == [event |-> "cleanup_error"]
  <2>2. Finish(run).at = IF run.done /\ ~run.cut THEN "returned" ELSE "raised"
    BY <1>1 DEF Finish, Goto, RunFields
  <2>3. /\ DOMAIN run' = RunFields /\ DOMAIN files' = FileFields /\ SameFiles
        /\ run'.done = run.done /\ run'.counter = run.counter /\ run'.worker = run.worker
        /\ run'.stuck = run.stuck
        /\ \/ run'.at = next /\ run'.cut = run.cut /\ run'.disk = run.disk
           \/ run'.at = Raised(run).at /\ run'.cut = Raised(run).cut /\ run'.disk = TRUE
    BY <1>1, <2>1, EventRun DEF SameFiles
  <2>4. Typed
    BY <1>2, <2>3 DEF EndInv, Typed
  <2>5. \/ /\ run.at = "cleanup-worker" /\ run'.at = "close-counter" /\ run'.cut = run.cut
        \/ /\ run.at = "cleanup-counter" /\ run'.cut = run.cut
           /\ run'.at = IF run.done /\ ~run.cut THEN "returned" ELSE "raised"
        \/ run'.at = "raised" /\ run'.cut = TRUE
    BY <1>2, <2>1, <2>2, <2>3
  <2> HIDE DEF next, e
  <2>6. DriversInv'
    BY <2>1, <2>3, <2>5 DEF EndInv, DriversInv, drivers, Closing, Ending
  <2>7. \/ run'.at \in Closing /\ run'.cut = run.cut
        \/ run'.at = "raised" /\ run'.cut = TRUE
        \/ /\ run'.at = IF run.done /\ ~run.cut THEN "returned" ELSE "raised"
           /\ run'.cut = run.cut
    BY <2>5 DEF Closing
  <2> QED BY <1>3, <2>3, <2>4, <2>6, <2>7
<1> QED BY <1>5, <1>6, <1>7

LEMMA EnvironmentEnd ==
  ASSUME EndInv, Interrupt \/ Crash \/ Reset \/ UNCHANGED vars
  PROVE  EndInv'
<1>1. DOMAIN run = RunFields /\ DOMAIN files = FileFields /\ run.at \in Stages
  BY DEF EndInv
<1>2. CASE Interrupt
  <2>1. /\ run' = Raised(run) /\ UNCHANGED <<drivers, files>>
        /\ run.at \notin Over \cup {"plan"}
    BY <1>2 DEF Interrupt, Live
  <2>2. /\ DOMAIN run' = RunFields /\ run'.counter = run.counter /\ run'.worker = run.worker
        /\ run'.done = run.done /\ run'.disk = run.disk /\ run'.stuck = run.stuck
        /\ Trying(run.at) => run'.at = "except" /\ run'.cut = run.cut
        /\ ~Trying(run.at) => run'.cut = TRUE
        /\ ~Trying(run.at) => run'.at = IF run.at \in Handling THEN "close-worker" ELSE "raised"
    BY <1>1, <2>1, RaisedRun
  <2>3. Typed /\ SameFiles
    BY <1>1, <2>1, <2>2 DEF EndInv, Typed, SameFiles
  <2>4. DriversInv'
    BY <2>1, <2>2, DriversKept DEF Closing, Ending
  <2>5. FilesInv'
    <3>1. CASE Trying(run.at)
      <4>1. run.at \in Working \cup Publishing
        BY <1>1, <3>1 DEF Stages, Trying
      <4> QED BY <2>1, <2>2, <3>1, <4>1 DEF EndInv, FilesInv, Working, Publishing, Handling, Closing, Over
    <3>2. CASE run.at \in Handling
      <4>1. ~Trying(run.at) /\ ~run.done
        BY <3>2 DEF Trying, EndInv, FilesInv
      <4> QED BY <2>1, <2>2, <3>2, <4>1 DEF EndInv, FilesInv, Working, Publishing, Handling, Closing, Over
    <3>3. CASE run.at \in Closing
      <4>1. ~Trying(run.at) /\ run.at \notin Handling
        BY <3>3 DEF Trying, Closing, Handling
      <4> QED BY <2>1, <2>2, <3>3, <4>1 DEF EndInv, FilesInv, Working, Publishing, Handling, Closing, Over
    <3> QED BY <2>1, <3>1, <3>2, <3>3 DEF Trying
  <2>6. run'.at \in Stages
    BY <2>2 DEF Stages, Handling, Closing, Over
  <2> QED BY <2>1, <2>3, <2>4, <2>5, <2>6 DEF EndInv, Typed
<1>3. CASE Crash
  <2>1. /\ run' = [Goto(run, "crashed") EXCEPT !.phases = <<>>, !.held = None]
        /\ nvml' = 0 /\ context' = "destroyed" /\ current' = FALSE /\ files' = files
    BY <1>3 DEF Crash
  <2>2. /\ DOMAIN run' = RunFields /\ run'.at = "crashed" /\ run'.done = run.done
        /\ run'.cut = run.cut /\ run'.disk = run.disk
    BY <1>1, <2>1 DEF Goto, RunFields
  <2>3. FilesInv'
    BY <2>1, <2>2 DEF EndInv, FilesInv, Working, Publishing, Handling, Closing
  <2>4. DriversInv'
    BY <2>1, <2>2 DEF DriversInv, Closing, Ending
  <2> QED BY <2>1, <2>2, <2>3, <2>4 DEF EndInv, Stages, Over
<1>4. CASE Reset \/ UNCHANGED vars
  <2>1. UNCHANGED <<drivers, files, run>>
    BY <1>4 DEF Reset, vars
  <2> QED BY <2>1 DEF EndInv, FilesInv, DriversInv, drivers
<1> QED BY <1>2, <1>3, <1>4

LEMMA EndStep == EndInv /\ [Next]_vars => EndInv'
<1> SUFFICES ASSUME EndInv, [Next]_vars
             PROVE  EndInv'
  OBVIOUS
<1>1. CASE UNCHANGED vars \/ Again
  BY <1>1, EnvironmentEnd DEF Again
<1> QED BY <1>1, PrepareEnd, OpenJournalEnd, OpenCounterEnd, ConstructWorkerEnd, SolveEnd, WorkingSteps,
          PublishingSteps, HandlingSteps, ClosingSteps, EnvironmentEnd DEF Next

LEMMA EndInit == Init => EndInv
BY DEF Init, NoFile, EndInv, FilesInv, DriversInv, RunFields, FileFields, Stages, Working, Publishing,
       Handling, Closing, Over, Ending

\* EndsCleanly for every instance: whatever fails in capture, in the handling of its
\* failure or in its clean-up (energy_bench.py:139-200), an end leaves a log and a report
\* or the record of a failure, and what could be closed is closed.
THEOREM EndsCorrect == Spec => []EndsCleanly
<1>1. EndInv => EndsCleanly
  <2> SUFFICES ASSUME EndInv
               PROVE  EndsCleanly
    OBVIOUS
  <2>1. run.at = "returned" => Whole("log") /\ Whole("report") /\ ~files.failure.made
    BY DEF EndInv, FilesInv, Whole
  <2>2. run.at = "raised" /\ ~run.cut => Whole("failure")
    BY DEF EndInv, FilesInv, Whole
  <2>3. run.at \in {"returned", "raised"} /\ ~run.cut =>
          /\ context = "live" => "destroy" \in run.stuck
          /\ nvml > 0 => "shutdown" \in run.stuck
    BY DEF EndInv, DriversInv, Ending
  <2>4. current => "pop" \in run.stuck
    BY DEF EndInv, DriversInv
  <2> QED BY <2>1, <2>2, <2>3, <2>4 DEF EndsCleanly
<1> QED BY <1>1, EndInit, EndStep, PTL DEF Spec

-----------------------------------------------------------------------------
(* Proofs: sequences, and what a journal holds. *)

LEMMA Empty == IsSeq(<<>>) /\ Len(<<>>) = 0
BY DEF IsSeq, Range

LEMMA Sequences ==
  ASSUME NEW s, IsSeq(s)
  PROVE  Len(s) \in Nat /\ DOMAIN s = 1..Len(s) /\ (s # <<>> <=> Len(s) > 0)
BY DEF IsSeq

LEMMA Appended ==
  ASSUME NEW s, IsSeq(s), NEW x
  PROVE  /\ IsSeq(Append(s, x))
         /\ Len(Append(s, x)) = Len(s) + 1
         /\ \A i \in 1..Len(s) : Append(s, x)[i] = s[i]
         /\ Append(s, x)[Len(s) + 1] = x
<1> DEFINE T == Range(s) \cup {x}
           a == Append(s, x)
<1>1. s \in Seq(T) /\ x \in T /\ Len(s) \in Nat
  <2>1. s \in Seq(Range(s))
    BY DEF IsSeq
  <2>2. /\ Len(s) \in Nat /\ DOMAIN s = 1..Len(s) /\ s = [i \in DOMAIN s |-> s[i]]
        /\ \A i \in 1..Len(s) : s[i] \in Range(s)
    BY <2>1
  <2> QED BY <2>2
<1>2. /\ a \in Seq(T) /\ Len(a) = Len(s) + 1
      /\ \A i \in 1..Len(s) : a[i] = s[i]
      /\ a[Len(s) + 1] = x
  BY <1>1
<1>3. Range(a) = T
  <2>1. DOMAIN a = (1..Len(s)) \cup {Len(s) + 1}
    BY <1>1, <1>2
  <2>2. DOMAIN s = 1..Len(s)
    BY <1>1
  <2> QED BY <1>2, <2>1, <2>2 DEF Range
<1> QED BY <1>2, <1>3 DEF IsSeq

\* A function on 1..n is a sequence.
LEMMA Tabulated ==
  ASSUME NEW n \in Nat, NEW f, f = [i \in 1..n |-> f[i]]
  PROVE  IsSeq(f) /\ Len(f) = n
<1>1. \A i \in 1..n : f[i] \in Range(f)
  <2>1. DOMAIN f = 1..n
    OBVIOUS
  <2> QED BY <2>1 DEF Range
<1>2. f \in [1..n -> Range(f)]
  BY <1>1
<1>3. f \in Seq(Range(f)) /\ Len(f) = n
  BY <1>2
<1> QED BY <1>3 DEF IsSeq

\* The places of a kind of event in a phase, when the journal grows by one event.
LEMMA SamePlaces ==
  ASSUME NEW journal, IsSeq(journal), NEW e, NEW kind, NEW name, e.event # kind \/ e.phase # name
  PROVE  Places(Append(journal, e), kind, name) = Places(journal, kind, name)
<1>1. /\ Len(journal) \in Nat /\ Len(Append(journal, e)) = Len(journal) + 1
      /\ \A i \in 1..Len(journal) : Append(journal, e)[i] = journal[i]
      /\ Append(journal, e)[Len(journal) + 1] = e
  BY Appended, Sequences
<1>2. 1..Len(Append(journal, e)) = (1..Len(journal)) \cup {Len(journal) + 1}
  BY <1>1
<1> QED BY <1>1, <1>2 DEF Places

LEMMA NewPlace ==
  ASSUME NEW journal, IsSeq(journal), NEW e
  PROVE  Places(Append(journal, e), e.event, e.phase) =
           Places(journal, e.event, e.phase) \cup {Len(journal) + 1}
<1>1. /\ Len(journal) \in Nat /\ Len(Append(journal, e)) = Len(journal) + 1
      /\ \A i \in 1..Len(journal) : Append(journal, e)[i] = journal[i]
      /\ Append(journal, e)[Len(journal) + 1] = e
  BY Appended, Sequences
<1>2. 1..Len(Append(journal, e)) = (1..Len(journal)) \cup {Len(journal) + 1}
  BY <1>1
<1> QED BY <1>1, <1>2 DEF Places

\* What is journaled of one kind in one phase is not affected by another event ...
LEMMA OtherEvent ==
  ASSUME NEW journal, IsSeq(journal), NEW e, NEW kind, NEW name, NEW values,
         e.event # kind \/ e.phase # name, Journaled(journal, kind, name, values)
  PROVE  Journaled(Append(journal, e), kind, name, values)
<1> DEFINE a == Append(journal, e)
<1>1. Places(a, kind, name) = Places(journal, kind, name)
  BY SamePlaces
<1>2. \A i \in Places(journal, kind, name) : a[i] = journal[i]
  BY Appended DEF Places
<1> HIDE DEF a
<1>3. Journaled(a, kind, name, values)
  BY <1>1, <1>2 DEF Journaled
<1> QED BY <1>3 DEF a

\* ... and grows by its own.
LEMMA NewEvent ==
  ASSUME NEW journal, IsSeq(journal), NEW e, NEW values, IsSeq(values),
         Journaled(journal, e.event, e.phase, values)
  PROVE  Journaled(Append(journal, e), e.event, e.phase, Append(values, e.value))
<1> DEFINE a == Append(journal, e)
           n == Len(journal) + 1
           P == Places(journal, e.event, e.phase)
           grown == Append(values, e.value)
           Rank(i) == {k \in P : k <= i}
<1>1. /\ Len(journal) \in Nat /\ \A i \in 1..Len(journal) : a[i] = journal[i]
      /\ a[n] = e
  BY Appended, Sequences
<1>2. /\ Len(values) \in Nat /\ Len(grown) = Len(values) + 1
      /\ \A i \in 1..Len(values) : grown[i] = values[i]
      /\ grown[Len(values) + 1] = e.value
  BY Appended, Sequences
<1>3. Places(a, e.event, e.phase) = P \cup {n}
  BY NewPlace
<1>4. P \subseteq 1..Len(journal)
  BY DEF Places
<1>5. IsFiniteSet(P) /\ n \notin P /\ n \in Nat
  <2>1. IsFiniteSet(1..Len(journal))
    BY <1>1, FS_Interval
  <2>2. IsFiniteSet(P)
    BY <1>4, <2>1, FS_Subset
  <2> QED BY <1>1, <1>4, <2>2
<1>6. /\ Cardinality(P) = Len(values)
      /\ \A i \in P : journal[i].value = values[Cardinality(Rank(i))]
  BY DEF Journaled
<1> HIDE DEF a, P, grown, n
<1>7. Cardinality(P \cup {n}) = Len(values) + 1
  BY <1>5, <1>6, FS_AddElement
<1>8. ASSUME NEW i \in P \cup {n}
      PROVE  a[i].value = grown[Cardinality({k \in P \cup {n} : k <= i})]
  <2>1. CASE i = n
    <3>1. {k \in P \cup {n} : k <= i} = P \cup {n}
      <4>1. \A k \in 1..Len(journal) : k <= n
        BY <1>1 DEF n
      <4>2. \A k \in P \cup {n} : k <= i
        BY <1>4, <1>5, <2>1, <4>1
      <4> QED BY <4>2
    <3> QED BY <1>1, <1>2, <1>7, <2>1, <3>1
  <2>2. CASE i \in P
    <3>1. i \in 1..Len(journal) /\ i < n /\ i \in Nat
      BY <1>1, <1>4, <2>2 DEF n
    <3>2. {k \in P \cup {n} : k <= i} = Rank(i)
      BY <1>1, <3>1 DEF n
    <3>3. Rank(i) \subseteq P /\ i \in Rank(i)
      BY <2>2, <3>1
    <3> HIDE DEF Rank
    <3>4. IsFiniteSet(Rank(i)) /\ Cardinality(Rank(i)) <= Len(values)
      BY <1>5, <1>6, <3>3, FS_Subset
    <3>5. Cardinality(Rank(i)) \in Nat /\ Cardinality(Rank(i)) # 0
      BY <3>3, <3>4, FS_CardinalityType, FS_EmptySet
    <3>6. Cardinality(Rank(i)) \in 1..Len(values)
      BY <1>2, <3>4, <3>5
    <3> QED BY <1>1, <1>2, <1>6, <2>2, <3>1, <3>2, <3>6
  <2> QED BY <2>1, <2>2
<1>9. Journaled(a, e.event, e.phase, grown)
  BY <1>2, <1>3, <1>7, <1>8 DEF Journaled, P
<1> QED BY <1>9 DEF a, grown

-----------------------------------------------------------------------------
(* Proofs: what is in memory is what the journal holds. *)

SameMemory(i) == Memory(i).samples' = Memory(i).samples /\ Memory(i).batches' = Memory(i).batches

LEMMA Names ==
  /\ Len(PhaseNames) = 5 /\ \A i \in 1..5 : PhaseNames[i] \notin {"sample", "batch"}
  /\ \A i, j \in 1..5 : PhaseNames[i] = PhaseNames[j] => i = j
BY DEF PhaseNames

LEMMA MemoryTyped ==
  ASSUME PhasesInv
  PROVE  \A i \in 1..5 : IsSeq(Memory(i).samples) /\ IsSeq(Memory(i).batches)
<1> SUFFICES ASSUME NEW i \in 1..5
             PROVE  IsSeq(Memory(i).samples) /\ IsSeq(Memory(i).batches)
  OBVIOUS
<1>1. CASE i <= Len(run.phases)
  <2>1. i \in 1..Len(run.phases)
    BY <1>1, Sequences DEF PhasesInv
  <2> QED BY <1>1, <2>1 DEF PhasesInv, Memory
<1>2. CASE ~(i <= Len(run.phases))
  <2>1. Memory(i).samples = <<>> /\ Memory(i).batches = <<>>
    BY <1>2 DEF Memory, Phase
  <2> QED BY <2>1, Empty
<1> QED BY <1>1, <1>2

LEMMA KeptSame ==
  ASSUME IsSeq(files.journal), Kept, NEW e, e.event \notin {"sample", "batch"},
         files'.journal \in {files.journal, Append(files.journal, e)},
         \A i \in 1..5 : SameMemory(i)
  PROVE  Kept'
<1> SUFFICES ASSUME NEW i \in 1..5
             PROVE  /\ Journaled(files.journal, "sample", PhaseNames[i], Memory(i).samples)'
                    /\ Journaled(files.journal, "batch", PhaseNames[i], Memory(i).batches)'
  BY DEF Kept
<1>1. /\ Journaled(files.journal, "sample", PhaseNames[i], Memory(i).samples)
      /\ Journaled(files.journal, "batch", PhaseNames[i], Memory(i).batches)
  BY DEF Kept
<1>2. /\ Journaled(files'.journal, "sample", PhaseNames[i], Memory(i).samples)
      /\ Journaled(files'.journal, "batch", PhaseNames[i], Memory(i).batches)
  BY <1>1, OtherEvent
<1> QED BY <1>2 DEF SameMemory

LEMMA KeptGrows ==
  ASSUME IsSeq(files.journal), PhasesInv, Kept, NEW e, NEW j \in 1..5, e.phase = PhaseNames[j],
         files'.journal = Append(files.journal, e),
         \A i \in (1..5) \ {j} : SameMemory(i),
         \/ /\ e.event = "sample" /\ Memory(j).samples' = Append(Memory(j).samples, e.value)
            /\ Memory(j).batches' = Memory(j).batches
         \/ /\ e.event = "batch" /\ Memory(j).batches' = Append(Memory(j).batches, e.value)
            /\ Memory(j).samples' = Memory(j).samples
  PROVE  Kept'
<1> SUFFICES ASSUME NEW i \in 1..5
             PROVE  /\ Journaled(files.journal, "sample", PhaseNames[i], Memory(i).samples)'
                    /\ Journaled(files.journal, "batch", PhaseNames[i], Memory(i).batches)'
  BY DEF Kept
<1>1. /\ Journaled(files.journal, "sample", PhaseNames[i], Memory(i).samples)
      /\ Journaled(files.journal, "batch", PhaseNames[i], Memory(i).batches)
  BY DEF Kept
<1>2. CASE i # j
  <2>1. e.phase # PhaseNames[i]
    BY <1>2, Names
  <2>2. /\ Journaled(files'.journal, "sample", PhaseNames[i], Memory(i).samples)
        /\ Journaled(files'.journal, "batch", PhaseNames[i], Memory(i).batches)
    BY <1>1, <2>1, OtherEvent
  <2> QED BY <1>2, <2>2 DEF SameMemory
<1>3. CASE i = j
  <2>1. IsSeq(Memory(i).samples) /\ IsSeq(Memory(i).batches)
    BY MemoryTyped
  <2>2. CASE e.event = "sample"
    <3>1. Journaled(files'.journal, "sample", PhaseNames[i], Append(Memory(i).samples, e.value))
      BY <1>1, <1>3, <2>1, <2>2, NewEvent
    <3>2. Journaled(files'.journal, "batch", PhaseNames[i], Memory(i).batches)
      BY <1>1, <2>2, OtherEvent
    <3> QED BY <1>3, <2>2, <3>1, <3>2
  <2>3. CASE e.event = "batch"
    <3>1. Journaled(files'.journal, "batch", PhaseNames[i], Append(Memory(i).batches, e.value))
      BY <1>1, <1>3, <2>1, <2>3, NewEvent
    <3>2. Journaled(files'.journal, "sample", PhaseNames[i], Memory(i).samples)
      BY <1>1, <2>3, OtherEvent
    <3> QED BY <1>3, <2>3, <3>1, <3>2
  <2> QED BY <2>2, <2>3
<1> QED BY <1>2, <1>3

\* While the events of other kinds are added, phases that the journal holds stay so.
LEMMA InJournalStill ==
  ASSUME IsSeq(files.journal), NEW e, e.event \notin {"sample", "batch"},
         files'.journal \in {files.journal, Append(files.journal, e)},
         NEW phases, InJournal(phases)
  PROVE  \A i \in 1..Len(phases) :
           /\ Journaled(files'.journal, "sample", phases[i].name, phases[i].samples)
           /\ Journaled(files'.journal, "batch", phases[i].name, phases[i].batches)
BY OtherEvent DEF InJournal

LEMMA InJournalKept ==
  ASSUME PhasesInv, Kept
  PROVE  InJournal(run.phases)
<1> SUFFICES ASSUME NEW i \in 1..Len(run.phases)
             PROVE  /\ Journaled(files.journal, "sample", run.phases[i].name, run.phases[i].samples)
                    /\ Journaled(files.journal, "batch", run.phases[i].name, run.phases[i].batches)
  BY DEF InJournal
<1>1. Len(run.phases) \in Nat /\ Len(run.phases) <= 5
  BY Sequences DEF PhasesInv
<1>2. i \in 1..5 /\ Memory(i) = run.phases[i] /\ run.phases[i].name = PhaseNames[i]
  BY <1>1 DEF Memory, PhasesInv
<1> QED BY <1>2 DEF Kept

-----------------------------------------------------------------------------
(* Proofs: the steps that leave the phases as they are. *)

\* The step may add an event that is neither a sample nor a batch.
Noted(e) ==
  /\ SameFiles /\ DOMAIN files' = FileFields
  /\ e.event \notin {"sample", "batch"}
  /\ files'.journal \in {files.journal, Append(files.journal, e)}

LEMMA StillJournal ==
  ASSUME JournalInv, NEW e, Noted(e), run'.phases = run.phases,
         run.at # "crashed", run'.at # "crashed", run'.at \notin Sealed,
         run'.at \in Early => Len(run.phases) < 5,
         run'.at \in InPhases => run.phases # <<>>,
         run'.at \in {"plan"} \cup Working \cup Publishing => ~run'.disk,
         ~run'.disk => ~run.disk,
         files.failure.written => run'.at \in Closing \cup Over
  PROVE  JournalInv'
<1>1. IsSeq(files'.journal)
  <2>1. IsSeq(files.journal)
    BY DEF JournalInv
  <2>2. IsSeq(Append(files.journal, e))
    BY <2>1, Appended
  <2> QED BY <2>1, <2>2 DEF Noted
<1>2. PhasesInv'
  BY DEF JournalInv, PhasesInv
<1>3. StageInv'
  BY DEF StageInv
<1>4. SealedInv'
  BY DEF SealedInv, Sealed
<1>5. WrittenInv'
  <2>1. \A phases : InJournal(phases) =>
          \A i \in 1..Len(phases) :
            /\ Journaled(files'.journal, "sample", phases[i].name, phases[i].samples)
            /\ Journaled(files'.journal, "batch", phases[i].name, phases[i].batches)
    BY InJournalStill DEF JournalInv, Noted
  <2>2. files.log.written => InJournal(files.log.value.phases)'
    BY <2>1 DEF JournalInv, WrittenInv, InJournal, Noted, SameFiles
  <2>3. files.failure.written /\ ~run'.disk => InJournal(files.failure.value)'
    BY <2>1 DEF JournalInv, WrittenInv, InJournal, Noted, SameFiles
  <2> QED BY <2>2, <2>3 DEF JournalInv, WrittenInv, Noted, SameFiles
<1>6. \A f \in FileFields \ {"journal"} : files'[f].written => files'[f].made
  BY DEF JournalInv, Noted, SameFiles, FileFields
<1>7. ~run'.disk => Kept'
  <2>1. \A i \in 1..5 : SameMemory(i)
    BY DEF SameMemory, Memory
  <2> QED BY <2>1, KeptSame DEF JournalInv, Noted
<1> QED BY <1>1, <1>2, <1>3, <1>4, <1>5, <1>6, <1>7 DEF JournalInv

\* An event is written, or an exception is raised.
LEMMA NoteJournal ==
  ASSUME EndInv, JournalInv, NEW e, NEW next, NEW n, Event(e, run, next, n),
         e.event \notin {"sample", "batch"},
         run.at \notin Over, next \notin Sealed \cup {"crashed"},
         next \in Early => Len(run.phases) < 5,
         next \in InPhases => run.phases # <<>>,
         next \in {"plan"} \cup Working \cup Publishing => run.at \in {"plan"} \cup Working \cup Publishing,
         files.failure.written => next \in Closing \cup Over
  PROVE  JournalInv'
<1>1. DOMAIN run = RunFields /\ DOMAIN files = FileFields
  BY DEF EndInv
<1>2. Raised(run).at = IF Trying(run.at) THEN "except" ELSE IF run.at \in Handling THEN "close-worker" ELSE "raised"
  BY <1>1, RaisedRun
<1>3. /\ run'.phases = run.phases /\ Noted(e)
      /\ \/ run'.at = next /\ run'.disk = run.disk
         \/ run'.at = Raised(run).at /\ run'.disk = TRUE
  <2>1. /\ DOMAIN files' = FileFields /\ SameFiles /\ run'.phases = run.phases
        /\ \/ run'.at = next /\ run'.disk = run.disk /\ files'.journal = Append(files.journal, e)
           \/ run'.at = Raised(run).at /\ run'.disk = TRUE /\ files' = files
    <3>1. /\ DOMAIN files' = FileFields /\ run'.phases = run.phases
          /\ files'.log = files.log /\ files'.report = files.report /\ files'.failure = files.failure
          /\ \/ run'.at = next /\ run'.disk = run.disk /\ files'.journal = Append(files.journal, e)
             \/ run'.at = Raised(run).at /\ run'.disk = TRUE /\ files' = files
      BY <1>1, EventRun
    <3> QED BY <3>1 DEF SameFiles
  <2> QED BY <2>1 DEF Noted
<1>4. Raised(run).at \in {"except", "close-worker", "raised"}
  BY <1>2
<1>5. files.failure.written => Raised(run).at \in Closing \cup Over
  <2>1. files.failure.written => run.at \in Closing
    BY DEF JournalInv, WrittenInv
  <2>2. run.at \in Closing => ~Trying(run.at) /\ run.at \notin Handling
    BY DEF Trying, Closing, Handling
  <2> QED BY <1>2, <2>1, <2>2 DEF Over
<1>6. run'.at \notin Sealed \cup {"crashed"}
  BY <1>3, <1>4 DEF Sealed
<1>7. run'.at \in Early => Len(run.phases) < 5
  BY <1>3, <1>4 DEF Early
<1>8. run'.at \in InPhases => run.phases # <<>>
  BY <1>3, <1>4 DEF InPhases
<1>9. run'.at \in {"plan"} \cup Working \cup Publishing => ~run'.disk
  BY <1>3, <1>4 DEF JournalInv, Working, Publishing
<1>10. ~run'.disk => ~run.disk
  BY <1>3
<1>11. files.failure.written => run'.at \in Closing \cup Over
  BY <1>3, <1>5
<1>12. run.at # "crashed"
  BY DEF Over
<1> QED BY <1>3, <1>6, <1>7, <1>8, <1>9, <1>10, <1>11, <1>12, StillJournal

\* An exception is raised and nothing is written.
LEMMA RaisedJournal ==
  ASSUME EndInv, JournalInv, UNCHANGED files, run.at \notin Over \cup {"plan"},
         run'.phases = run.phases, run'.at = Raised(run).at, run'.disk \in {run.disk, TRUE}
  PROVE  JournalInv'
<1>1. Raised(run).at = IF Trying(run.at) THEN "except" ELSE IF run.at \in Handling THEN "close-worker" ELSE "raised"
  BY RaisedRun DEF EndInv
<1>2. Raised(run).at \in {"except", "close-worker", "raised"}
  BY <1>1
<1>3. files.failure.written => Raised(run).at \in Closing \cup Over
  <2>1. files.failure.written => run.at \in Closing
    BY DEF JournalInv, WrittenInv
  <2>2. run.at \in Closing => ~Trying(run.at) /\ run.at \notin Handling
    BY DEF Trying, Closing, Handling
  <2> QED BY <1>1, <2>1, <2>2 DEF Over
<1>4. Noted([event |-> "none"])
  BY DEF Noted, SameFiles, EndInv
<1>5. /\ run'.at \notin Early \cup InPhases \cup Sealed
      /\ run'.at \notin {"plan"} \cup Working \cup Publishing
      /\ run.at # "crashed" /\ run'.at # "crashed"
  BY <1>2 DEF Early, InPhases, Sealed, Working, Publishing, Over
<1> QED BY <1>3, <1>4, <1>5, StillJournal

LEMMA QuietJournal ==
  ASSUME EndInv, JournalInv, UNCHANGED files, run'.phases = run.phases, run'.disk = run.disk,
         run.at \notin Over, run'.at \notin Sealed \cup {"crashed"},
         run'.at \in Early => Len(run.phases) < 5,
         run'.at \in InPhases => run.phases # <<>>,
         run'.at \in {"plan"} \cup Working \cup Publishing => run.at \in {"plan"} \cup Working \cup Publishing,
         files.failure.written => run'.at \in Closing \cup Over
  PROVE  JournalInv'
<1>1. Noted([event |-> "none"])
  BY DEF Noted, SameFiles, EndInv
<1>2. run'.at \in {"plan"} \cup Working \cup Publishing => ~run'.disk
  BY DEF JournalInv
<1> QED BY <1>1, <1>2, StillJournal DEF Over

\* No failure was written before the clean-up.
LEMMA NotWritten ==
  ASSUME JournalInv, run.at \notin Closing \cup Over
  PROVE  ~files.failure.written
BY DEF JournalInv, WrittenInv

\* The phase under way is the last that was begun; only that of the last name has no next.
LEMMA LastPhase ==
  ASSUME PhasesInv, run.phases # <<>>
  PROVE  /\ Len(run.phases) \in 1..5 /\ Len(run.phases) \in 1..Len(run.phases)
         /\ Phase0 = run.phases[Len(run.phases)] /\ Phase0.name = PhaseNames[Len(run.phases)]
         /\ DOMAIN Phase0 = PhaseFields /\ IsSeq(Phase0.samples) /\ IsSeq(Phase0.batches)
         /\ Phase0.name # "idle_after" => Len(run.phases) < 5
<1>1. Len(run.phases) \in Nat /\ Len(run.phases) > 0 /\ Len(run.phases) <= 5
  BY Sequences DEF PhasesInv
<1>2. Len(run.phases) \in 1..5 /\ Len(run.phases) \in 1..Len(run.phases)
  <2>1. \A l \in Nat : l > 0 /\ l <= 5 => l \in 1..5 /\ l \in 1..l
    OBVIOUS
  <2> QED BY <1>1, <2>1
<1>3. /\ Phase0 = run.phases[Len(run.phases)] /\ Phase0.name = PhaseNames[Len(run.phases)]
      /\ DOMAIN Phase0 = PhaseFields /\ IsSeq(Phase0.samples) /\ IsSeq(Phase0.batches)
  BY <1>2 DEF PhasesInv, Phase0, Last
<1>4. PhaseNames[5] = "idle_after"
  BY DEF PhaseNames
<1>5. Phase0.name # "idle_after" => Len(run.phases) # 5
  BY <1>3, <1>4
<1> QED BY <1>1, <1>2, <1>3, <1>5

LEMMA NotesKept ==
  ASSUME EndInv, JournalInv,
         OpenJournal \/ RetainSensor \/ Ended \/ Complete \/ NoteUnavailable \/ NoteFailure \/ NoteCleanup
  PROVE  JournalInv'
<1>1. CASE OpenJournal \/ RetainSensor
  <2>1. PICK kind \in {"capture", "sensor"}, next \in {"counter", "begin"} :
          Event([event |-> kind], run, next, 0)
    BY <1>1 DEF OpenJournal, RetainSensor, Note
  <2>2. run.at \in {"open", "sensor"}
    BY <1>1 DEF OpenJournal, RetainSensor, Note, At
  <2>3. Len(run.phases) < 5
    BY <2>2 DEF JournalInv, StageInv, Early
  <2>4. ~files.failure.written /\ run.at \in Working /\ run.at \notin Over
    BY <2>2, NotWritten DEF Working, Closing, Over
  <2>5. next \notin Sealed \cup {"crashed"} /\ next \notin InPhases
    BY DEF Sealed, InPhases
  <2> QED BY <2>1, <2>3, <2>4, <2>5, NoteJournal
<1>2. CASE Ended
  <2> DEFINE next == CASE Phase0.name = "startup" -> "workload"
                       [] Phase0.name = "idle_after" -> "seal"
                       [] OTHER -> "begin"
  <2>1. run.at = "ended" /\ Event([event |-> "phase_end"], run, next, 0)
    BY <1>2 DEF Ended, Note, At
  <2>5. /\ next \in {"workload", "seal", "begin"}
        /\ Phase0.name = "idle_after" => next = "seal"
    OBVIOUS
  <2> HIDE DEF next
  <2>2. run.phases # <<>>
    BY <2>1 DEF JournalInv, StageInv, InPhases
  <2>4. next # "seal" => Len(run.phases) < 5
    BY <2>2, <2>5, LastPhase DEF JournalInv
  <2>6. ~files.failure.written /\ run.at \in Working /\ run.at \notin Over
    BY <2>1, NotWritten DEF Working, Closing, Over
  <2>7. next \in Early => Len(run.phases) < 5
    BY <2>4 DEF Early
  <2>8. next \notin Sealed \cup {"crashed"}
    BY <2>5 DEF Sealed
  <2> QED BY <2>1, <2>2, <2>6, <2>7, <2>8, NoteJournal
<1>3. CASE Complete
  <2>1. run.at = "complete" /\ Event([event |-> "complete"], run, "return", 0)
    BY <1>3 DEF Complete, Note, At
  <2>2. ~files.failure.written /\ run.at \in Publishing /\ run.at \notin Over
    BY <2>1, NotWritten DEF Publishing, Closing, Over
  <2>3. "return" \notin Sealed \cup {"crashed"} \cup InPhases \cup Early
    BY DEF Sealed, InPhases, Early
  <2> QED BY <2>1, <2>2, <2>3, NoteJournal
<1>4. CASE NoteUnavailable \/ NoteFailure
  <2>1. PICK kind \in {"failure_endpoint_unavailable", "failure"}, next \in {"failure", "failure-file"} :
          Event([event |-> kind], run, next, 0)
    BY <1>4 DEF NoteUnavailable, NoteFailure, Note
  <2>2. run.at \in {"unavailable", "failure"}
    BY <1>4 DEF NoteUnavailable, NoteFailure, Note, At
  <2>3. ~files.failure.written /\ run.at \notin Over
    BY <2>2, NotWritten DEF Closing, Over
  <2>4. /\ next \notin Sealed \cup {"crashed"} \cup InPhases \cup Early
        /\ next \notin {"plan"} \cup Working \cup Publishing
    BY DEF Sealed, InPhases, Early, Working, Publishing
  <2> QED BY <2>1, <2>3, <2>4, NoteJournal
<1>5. CASE NoteCleanup
  <2>1. PICK next \in {"close-counter", Finish(run).at} : Event([event |-> "cleanup_error"], run, next, 0)
    BY <1>5 DEF NoteCleanup, Note
  <2>2. run.at \in {"cleanup-worker", "cleanup-counter"}
    BY <1>5 DEF NoteCleanup, Note, At
  <2>3. Finish(run).at \in {"returned", "raised"}
    BY DEF EndInv, Finish, Goto, RunFields
  <2>4. /\ next \notin Sealed \cup {"crashed"} \cup InPhases \cup Early
        /\ next \notin {"plan"} \cup Working \cup Publishing /\ next \in Closing \cup Over
        /\ run.at \notin Over
    BY <2>2, <2>3 DEF Sealed, InPhases, Early, Working, Publishing, Closing, Over
  <2> QED BY <2>1, <2>4, NoteJournal
<1> QED BY <1>1, <1>2, <1>3, <1>4, <1>5

\* A step of the capture that writes nothing: it goes on, or an exception is raised.
LEMMA WorkingQuiet ==
  ASSUME EndInv, JournalInv, UNCHANGED files, run'.phases = run.phases, run'.disk = run.disk,
         run.at \in {"plan"} \cup Working \cup Publishing,
         run'.at \in Early => Len(run.phases) < 5,
         run'.at \in InPhases => run.phases # <<>>,
         run'.at \notin Sealed \cup {"crashed"}
  PROVE  JournalInv'
<1>1. run.at \notin Closing \cup Over
  BY DEF Working, Publishing, Closing, Over
<1> QED BY <1>1, NotWritten, QuietJournal

LEMMA QuietKept ==
  ASSUME EndInv, JournalInv, Prepare \/ OpenCounter \/ ConstructWorker \/ Solve \/ Sleep \/ Return
  PROVE  JournalInv'
<1> DEFINE s == Raised(run)
<1>1. DOMAIN run = RunFields /\ UNCHANGED files
  BY DEF EndInv, Prepare, OpenCounter, ConstructWorker, Solve, Sleep, Return
<1>2. /\ DOMAIN s = RunFields /\ s.phases = run.phases /\ s.disk = run.disk
      /\ Trying(run.at) => s.at = "except"
  BY <1>1, RaisedRun
<1> HIDE DEF s
<1>3. CASE Prepare
  <2>1. /\ run.at = "plan" /\ run'.at \in {"open", "refused"}
        /\ run'.phases = run.phases /\ run'.disk = run.disk
    BY <1>1, <1>3 DEF Prepare, At, Goto, RunFields
  <2>2. Len(run.phases) < 5
    BY <2>1 DEF JournalInv, StageInv, Early
  <2>3. run'.at \notin InPhases \cup Sealed \cup {"crashed"}
    BY <2>1 DEF InPhases, Sealed
  <2> QED BY <1>1, <2>1, <2>2, <2>3, WorkingQuiet
<1>4. CASE OpenCounter
  <2>1. run.at = "counter" /\ Trying(run.at)
    BY <1>4 DEF OpenCounter, At, Trying, Handling, Closing, Over
  <2>2. run'.at \in {"sensor", "except"} /\ run'.phases = run.phases /\ run'.disk = run.disk
    <3>1. CASE run' = [Goto(run, "sensor") EXCEPT !.counter = "open", !.sensor = "gpu"]
      BY <1>1, <3>1 DEF Goto, RunFields
    <3>2. CASE run' = s
      BY <1>2, <2>1, <3>2
    <3> QED BY <1>4, <3>1, <3>2 DEF OpenCounter, s
  <2>3. Len(run.phases) < 5
    BY <2>1 DEF JournalInv, StageInv, Early
  <2>4. run'.at \notin InPhases \cup Sealed \cup {"crashed"} /\ run.at \in Working
    BY <2>1, <2>2 DEF InPhases, Sealed, Working
  <2> QED BY <1>1, <2>2, <2>3, <2>4, WorkingQuiet
<1>5. CASE ConstructWorker \/ Solve \/ Sleep
  <2>1. run.at = "body" /\ Trying(run.at)
    BY <1>5 DEF ConstructWorker, Solve, Sleep, At, Trying, Handling, Closing, Over
  <2>2. run'.at \in {"end", "sampling", "except"} /\ run'.phases = run.phases /\ run'.disk = run.disk
    <3>1. ASSUME NEW gpu, run' = [Goto(run, "end") EXCEPT !.worker = "open", !.workload = gpu]
          PROVE  run'.at = "end" /\ run'.phases = run.phases /\ run'.disk = run.disk
      BY <1>1, <3>1 DEF Goto, RunFields
    <3>2. CASE run' = s
      BY <1>2, <2>1, <3>2
    <3>3. ASSUME NEW calls, run' = [s EXCEPT !.stuck = @ \cup calls]
          PROVE  run'.at = "except" /\ run'.phases = run.phases /\ run'.disk = run.disk
      BY <1>2, <2>1, <3>3 DEF RunFields
    <3>4. ASSUME NEW x, run' = [Goto(run, "sampling") EXCEPT !.held = x]
          PROVE  run'.at = "sampling" /\ run'.phases = run.phases /\ run'.disk = run.disk
      BY <1>1, <3>4 DEF Goto, RunFields
    <3>5. CASE run' = Goto(run, "sampling")
      BY <1>1, <3>5 DEF Goto, RunFields
    <3>6. CASE ConstructWorker
      BY <3>1, <3>2, <3>3, <3>6 DEF ConstructWorker, s
    <3>7. CASE Solve
      BY <3>3, <3>4, <3>7 DEF Solve, s
    <3> QED BY <1>5, <3>5, <3>6, <3>7 DEF Sleep
  <2>3. run.phases # <<>>
    BY <2>1 DEF JournalInv, StageInv, InPhases
  <2>4. run'.at \notin Early \cup Sealed \cup {"crashed"} /\ run.at \in Working
    BY <2>1, <2>2 DEF Early, Sealed, Working
  <2> QED BY <1>1, <2>2, <2>3, <2>4, WorkingQuiet
<1>6. CASE Return
  <2>1. run.at = "return" /\ run'.at = "close-worker" /\ run'.phases = run.phases /\ run'.disk = run.disk
    BY <1>1, <1>6 DEF Return, At, Goto, RunFields
  <2>2. run'.at \notin Early \cup InPhases \cup Sealed \cup {"crashed"} /\ run.at \in Publishing
    BY <2>1 DEF Early, InPhases, Sealed, Publishing
  <2> QED BY <1>1, <2>1, <2>2, WorkingQuiet
<1> QED BY <1>3, <1>4, <1>5, <1>6

LEMMA ClosingKept ==
  ASSUME EndInv, JournalInv, CloseWorker \/ CloseCounter
  PROVE  JournalInv'
<1>1. DOMAIN run = RunFields /\ UNCHANGED files /\ run.at \in {"close-worker", "close-counter"}
  BY DEF EndInv, CloseWorker, CloseCounter, At
<1>2. /\ run'.phases = run.phases /\ run'.disk = run.disk
      /\ run'.at \in {"close-counter", "cleanup-worker", "cleanup-counter", "returned", "raised"}
  <2>1. CASE run' = Goto(run, "close-counter")
    BY <1>1, <2>1 DEF Goto, RunFields
  <2>2. CASE run' = [Goto(run, "close-counter") EXCEPT !.worker = "closed"]
    BY <1>1, <2>2 DEF Goto, RunFields
  <2>3. CASE run' = NoteUnclosed(run)
    BY <1>1, <2>3 DEF NoteUnclosed, Goto, RunFields
  <2>4. CASE run' = Finish(run)
    BY <1>1, <2>4 DEF Finish, Goto, RunFields
  <2>5. CASE run' = Finish([run EXCEPT !.counter = "closed"])
    BY <1>1, <2>5 DEF Finish, Goto, RunFields
  <2>6. CASE run' = [Goto(run, "cleanup-counter") EXCEPT !.counter = "closed", !.stuck = @ \cup {"shutdown"}]
    BY <1>1, <2>6 DEF Goto, RunFields
  <2> QED BY <2>1, <2>2, <2>3, <2>4, <2>5, <2>6 DEF CloseWorker, CloseCounter
<1>3. /\ run.at \notin Over /\ run'.at \in Closing \cup Over
      /\ run'.at \notin Early \cup InPhases \cup Sealed \cup {"crashed"} \cup Working \cup Publishing
  BY <1>1, <1>2 DEF Early, InPhases, Sealed, Closing, Over, Working, Publishing
<1>4. run'.at # "plan"
  BY <1>2
<1> QED BY <1>1, <1>2, <1>3, <1>4, QuietJournal

\* What fails without an event, or with one that was retained.
LEMMA FailingKept ==
  ASSUME EndInv, JournalInv, RetainWorkload \/ EndFailed \/ Interrupt
  PROVE  JournalInv'
<1>1. DOMAIN run = RunFields /\ DOMAIN files = FileFields
  BY DEF EndInv
<1>2. CASE RetainWorkload
  <2>1. run.at = "workload" /\ Trying(run.at)
    BY <1>2 DEF RetainWorkload, At, Trying, Handling, Closing, Over
  <2>2. Len(run.phases) < 5 /\ ~files.failure.written /\ ~run.disk
    BY <2>1, NotWritten DEF JournalInv, StageInv, Early, Closing, Over, Working
  <2>3. CASE Event([event |-> "workload"], run, "begin", 0)
    <3>1. "begin" \notin Sealed \cup {"crashed"} \cup InPhases /\ run.at \in Working /\ run.at \notin Over
      BY <2>1 DEF Sealed, InPhases, Working, Over
    <3> QED BY <2>2, <2>3, <3>1, NoteJournal
  <2>4. CASE /\ files' = [files EXCEPT !.journal = Append(@, [event |-> "workload"])]
             /\ run' = Raised(run)
    <3>1. Noted([event |-> "workload"])
      BY <1>1, <2>4 DEF Noted, SameFiles, FileFields
    <3>2. run'.at = "except" /\ run'.phases = run.phases /\ run'.disk = run.disk
      BY <1>1, <2>1, <2>4, RaisedRun
    <3>3. run'.at \notin Early \cup InPhases \cup Sealed \cup {"crashed"} \cup Working \cup Publishing
      BY <3>2 DEF Early, InPhases, Sealed, Working, Publishing
    <3>4. run'.at # "plan" /\ run.at # "crashed"
      BY <2>1, <3>2
    <3> QED BY <2>2, <3>1, <3>2, <3>3, <3>4, StillJournal
  <2> QED BY <1>2, <2>3, <2>4 DEF RetainWorkload
<1>3. CASE EndFailed
  <2>1. run.at = "except-ended"
    BY <1>3 DEF EndFailed, At
  <2>2. ~files.failure.written
    BY <2>1, NotWritten DEF Closing, Over
  <2>3. /\ Noted([event |-> "phase_end"]) /\ run'.phases = run.phases
        /\ run'.at \in {"failure", "unavailable"} /\ run'.disk \in {run.disk, TRUE}
    <3>1. CASE /\ files' = [files EXCEPT !.journal = Append(@, [event |-> "phase_end"])]
               /\ run' = Goto(run, "failure")
      BY <1>1, <3>1 DEF Noted, SameFiles, FileFields, Goto, RunFields
    <3>2. CASE UNCHANGED files /\ run' = [Goto(run, "unavailable") EXCEPT !.disk = TRUE]
      BY <1>1, <3>2 DEF Noted, SameFiles, FileFields, Goto, RunFields
    <3> QED BY <1>3, <3>1, <3>2 DEF EndFailed
  <2>4. run'.at \notin Early \cup InPhases \cup Sealed \cup {"crashed"} \cup Working \cup Publishing
    BY <2>3 DEF Early, InPhases, Sealed, Working, Publishing
  <2>5. run'.at # "plan" /\ run.at # "crashed" /\ (~run'.disk => ~run.disk)
    BY <2>1, <2>3
  <2> QED BY <2>2, <2>3, <2>4, <2>5, StillJournal
<1>4. CASE Interrupt
  <2>1. UNCHANGED files /\ run.at \notin Over \cup {"plan"} /\ run' = Raised(run)
    BY <1>4 DEF Interrupt, Live
  <2>2. run'.phases = run.phases /\ run'.at = Raised(run).at /\ run'.disk = run.disk
    BY <1>1, <2>1, RaisedRun
  <2> QED BY <2>1, <2>2, RaisedJournal
<1> QED BY <1>2, <1>3, <1>4

-----------------------------------------------------------------------------
(* Proofs: the steps of a phase. *)

LEMMA InPhaseSequence ==
  ASSUME DOMAIN run = RunFields, IsSeq(run.phases), NEW l, l = Len(run.phases), l \in 1..l,
         NEW p, NEW s, s = InPhase(p).phases
  PROVE  /\ IsSeq(s) /\ Len(s) = l /\ s[l] = p
         /\ \A i \in 1..l : i # l => s[i] = run.phases[i]
<1>1. s = [run.phases EXCEPT ![l] = p]
  BY DEF InPhase, RunFields
<1>2. DOMAIN run.phases = 1..l /\ l \in Nat
  BY Sequences
<1>3. /\ s = [i \in 1..l |-> s[i]]
      /\ s[l] = p /\ \A i \in 1..l : i # l => s[i] = run.phases[i]
  BY <1>1, <1>2
<1>4. IsSeq(s) /\ Len(s) = l
  BY <1>2, <1>3, Tabulated
<1> QED BY <1>3, <1>4

LEMMA InPhaseMemory ==
  ASSUME PhasesInv, run.phases # <<>>, DOMAIN run = RunFields, NEW l, l = Len(run.phases),
         NEW p, DOMAIN p = PhaseFields, p.name = Phase0.name, IsSeq(p.samples), IsSeq(p.batches),
         run'.phases = InPhase(p).phases
  PROVE  /\ PhasesInv' /\ run'.phases # <<>> /\ l \in 1..5
         /\ Phase0.name = PhaseNames[l] /\ Memory(l) = Phase0 /\ Memory(l)' = p
         /\ \A i \in (1..5) \ {l} : SameMemory(i)
<1>1. /\ l \in 1..5 /\ l \in 1..l /\ l \in Nat /\ IsSeq(run.phases)
      /\ Phase0 = run.phases[l] /\ Phase0.name = PhaseNames[l]
  BY LastPhase DEF PhasesInv
<1>3. /\ IsSeq(run'.phases) /\ Len(run'.phases) = l /\ run'.phases[l] = p
      /\ \A i \in 1..l : i # l => run'.phases[i] = run.phases[i]
  BY <1>1, InPhaseSequence
<1>4. run'.phases # <<>>
  BY <1>1, <1>3, Sequences
<1>5. PhasesInv'
  <2>1. ASSUME NEW i \in 1..l
        PROVE  /\ DOMAIN run'.phases[i] = PhaseFields /\ run'.phases[i].name = PhaseNames[i]
               /\ IsSeq(run'.phases[i].samples) /\ IsSeq(run'.phases[i].batches)
    <3>1. CASE i = l
      BY <1>1, <1>3, <3>1
    <3>2. CASE i # l
      BY <1>3, <3>2 DEF PhasesInv
    <3> QED BY <3>1, <3>2
  <2>2. l <= 5
    BY <1>1
  <2> QED BY <1>3, <2>1, <2>2 DEF PhasesInv
<1>6. Memory(l) = Phase0 /\ Memory(l)' = p
  BY <1>1, <1>3 DEF Memory
<1>7. ASSUME NEW i \in (1..5) \ {l}
      PROVE  SameMemory(i)
  <2>1. i <= l => i \in 1..l
    BY <1>1
  <2>2. Memory(i)' = Memory(i)
    BY <1>3, <2>1 DEF Memory
  <2> QED BY <2>2 DEF SameMemory
<1> QED BY <1>1, <1>4, <1>5, <1>6, <1>7

\* Nothing is published while the phases change.
LEMMA PhaseJournal ==
  ASSUME EndInv, JournalInv, ~files.log.written, ~files.failure.written,
         SameFiles, DOMAIN files' = FileFields, IsSeq(files'.journal), PhasesInv', StageInv',
         run'.at \notin Sealed,
         run'.at \in {"plan"} \cup Working \cup Publishing => ~run'.disk,
         ~run'.disk => Kept'
  PROVE  JournalInv'
<1>1. SealedInv'
  BY DEF SealedInv, Sealed
<1>2. ~files.report.written
  BY DEF JournalInv, WrittenInv
<1>3. WrittenInv'
  BY <1>2 DEF SameFiles, WrittenInv
<1>4. \A f \in FileFields \ {"journal"} : files'[f].written => files'[f].made
  BY DEF JournalInv, SameFiles, FileFields
<1> QED BY <1>1, <1>3, <1>4 DEF JournalInv

\* An event of the phase under way, or an exception.
LEMMA InPhaseEvent ==
  ASSUME EndInv, JournalInv, ~files.log.written, ~files.failure.written, run.phases # <<>>,
         NEW e, NEW r, NEW next, NEW n, Event(e, r, next, n),
         DOMAIN r = RunFields, r.at = run.at, r.disk = run.disk, r.cut = run.cut,
         NEW p, DOMAIN p = PhaseFields, p.name = Phase0.name, r.phases = InPhase(p).phases,
         \/ /\ e.event = "sample" /\ e.phase = p.name
            /\ p.samples = Append(Phase0.samples, e.value) /\ p.batches = Phase0.batches
         \/ /\ e.event = "batch" /\ e.phase = p.name
            /\ p.batches = Append(Phase0.batches, e.value) /\ p.samples = Phase0.samples
         \/ /\ e.event \notin {"sample", "batch"}
            /\ p.samples = Phase0.samples /\ p.batches = Phase0.batches,
         run.at \in InPhases \cup Handling,
         next \notin Early \cup Sealed,
         next \in Working \cup Publishing => run.at \in Working
  PROVE  JournalInv'
<1>1. DOMAIN run = RunFields /\ DOMAIN files = FileFields /\ IsSeq(files.journal) /\ PhasesInv
  BY DEF EndInv, JournalInv
<1>2. /\ DOMAIN files' = FileFields /\ SameFiles /\ run'.phases = r.phases
      /\ \/ run'.at = next /\ run'.disk = run.disk /\ files'.journal = Append(files.journal, e)
         \/ run'.at = Raised(r).at /\ run'.disk = TRUE /\ files' = files
  <2>1. /\ DOMAIN files' = FileFields /\ run'.phases = r.phases
        /\ files'.log = files.log /\ files'.report = files.report /\ files'.failure = files.failure
        /\ \/ /\ run'.at = next /\ run'.cut = r.cut /\ run'.disk = r.disk
              /\ files'.journal = Append(files.journal, e)
           \/ /\ run'.at = Raised(r).at /\ run'.cut = Raised(r).cut /\ run'.disk = TRUE
              /\ files' = files
    BY <1>1, EventRun
  <2> QED BY <2>1 DEF SameFiles
<1>3. Raised(r).at \in {"except", "close-worker"}
  <2>1. Raised(r).at = IF Trying(r.at) THEN "except" ELSE IF r.at \in Handling THEN "close-worker" ELSE "raised"
    BY RaisedRun
  <2>2. Trying(r.at) \/ r.at \in Handling
    BY DEF Trying, InPhases, Closing, Over, Handling
  <2> QED BY <2>1, <2>2
<1>4. IsSeq(p.samples) /\ IsSeq(p.batches)
  <2>1. IsSeq(Phase0.samples) /\ IsSeq(Phase0.batches)
    BY <1>1, LastPhase
  <2>2. IsSeq(Append(Phase0.samples, e.value)) /\ IsSeq(Append(Phase0.batches, e.value))
    BY <2>1, Appended
  <2> QED BY <2>1, <2>2
<1>5. PICK l : l = Len(run.phases)
  OBVIOUS
<1>6. /\ PhasesInv' /\ run'.phases # <<>> /\ l \in 1..5
      /\ Phase0.name = PhaseNames[l] /\ Memory(l) = Phase0 /\ Memory(l)' = p
      /\ \A i \in (1..5) \ {l} : SameMemory(i)
  BY <1>1, <1>2, <1>4, <1>5, InPhaseMemory
<1>7. StageInv'
  <2>1. run'.at \notin Early
    BY <1>2, <1>3 DEF Early
  <2> QED BY <1>6, <2>1 DEF StageInv
<1>8. run'.at \notin Sealed
  BY <1>2, <1>3 DEF Sealed
<1>9. run'.at \in {"plan"} \cup Working \cup Publishing => ~run'.disk
  <2>1. run.at \in Working => ~run.disk
    BY DEF JournalInv
  <2>2. next # "plan"
    BY DEF Early
  <2> QED BY <1>2, <1>3, <2>1, <2>2 DEF Working, Publishing
<1>10. IsSeq(files'.journal)
  <2>1. IsSeq(Append(files.journal, e))
    BY <1>1, Appended
  <2> QED BY <1>1, <1>2, <2>1
<1>11. ~run'.disk => Kept'
  <2> SUFFICES ASSUME ~run'.disk
               PROVE  Kept'
    OBVIOUS
  <2>1. files'.journal = Append(files.journal, e) /\ ~run.disk /\ Kept
    BY <1>2 DEF JournalInv, InPhases, Handling
  <2>2. CASE e.event \in {"sample", "batch"}
    <3>1. /\ e.phase = PhaseNames[l]
          /\ \/ /\ e.event = "sample" /\ Memory(l).samples' = Append(Memory(l).samples, e.value)
                /\ Memory(l).batches' = Memory(l).batches
             \/ /\ e.event = "batch" /\ Memory(l).batches' = Append(Memory(l).batches, e.value)
                /\ Memory(l).samples' = Memory(l).samples
      BY <1>6, <2>2
    <3> QED BY <1>1, <1>6, <2>1, <3>1, KeptGrows
  <2>3. CASE e.event \notin {"sample", "batch"}
    <3>1. SameMemory(l)
      BY <1>6, <2>3 DEF SameMemory
    <3>2. \A i \in 1..5 : SameMemory(i)
      BY <1>6, <3>1
    <3> QED BY <1>1, <2>1, <2>3, <3>2, KeptSame
  <2> QED BY <2>2, <2>3
<1> QED BY <1>2, <1>6, <1>7, <1>8, <1>9, <1>10, <1>11, PhaseJournal

LEMMA SampleJournal ==
  ASSUME EndInv, JournalInv, ~files.log.written, ~files.failure.written, run.phases # <<>>,
         NEW p, DOMAIN p = PhaseFields, p.name = Phase0.name,
         p.samples = Phase0.samples, p.batches = Phase0.batches,
         NEW next, Sample(p, next), run.at \in InPhases \cup Handling,
         next \notin Early \cup Sealed,
         next \in Working \cup Publishing => run.at \in Working
  PROVE  JournalInv'
<1>1. PICK s, n : Event([event |-> "sample", phase |-> p.name, value |-> s],
                        InPhase([p EXCEPT !.samples = Append(@, s)]), next, n)
  BY DEF Sample
<1> DEFINE q == [p EXCEPT !.samples = Append(@, s)]
           e == [event |-> "sample", phase |-> p.name, value |-> s]
           r == InPhase(q)
<1>2. /\ DOMAIN q = PhaseFields /\ q.name = Phase0.name
      /\ q.samples = Append(Phase0.samples, s) /\ q.batches = Phase0.batches
  BY DEF PhaseFields
<1>3. e.event = "sample" /\ e.phase = q.name /\ e.value = s
  BY <1>2
<1>4. /\ DOMAIN r = RunFields /\ r.at = run.at /\ r.disk = run.disk /\ r.cut = run.cut
      /\ r.phases = InPhase(q).phases
  BY DEF EndInv, InPhase, RunFields
<1>5. Event(e, r, next, n)
  BY <1>1
<1> HIDE DEF q, e, r
<1>6. q.samples = Append(Phase0.samples, e.value)
  BY <1>2, <1>3
<1> QED BY <1>2, <1>3, <1>4, <1>5, <1>6, InPhaseEvent

LEMMA PhaseUnderWay ==
  ASSUME EndInv, JournalInv, run.at \in InPhases \ {"workload"}
  PROVE  /\ ~files.log.written /\ ~files.failure.written /\ run.phases # <<>> /\ PhasesInv
         /\ DOMAIN Phase0 = PhaseFields /\ run.at \in Working /\ DOMAIN run = RunFields
<1>1. run.at \in Working /\ run.at \notin Closing \cup Over
  BY DEF InPhases, Working, Closing, Over
<1>2. ~files.log.written
  BY <1>1 DEF EndInv, FilesInv, JournalInv, FileFields
<1>3. run.phases # <<>> /\ PhasesInv
  BY DEF JournalInv, StageInv
<1> QED BY <1>1, <1>2, <1>3, NotWritten, LastPhase DEF EndInv

LEMMA SamplesKept ==
  ASSUME EndInv, JournalInv, SampleInside \/ End
  PROVE  JournalInv'
<1>1. run.at \in {"sampling", "end"}
  BY DEF SampleInside, End, At
<1>2. run.at \in InPhases \ {"workload"}
  BY <1>1 DEF InPhases
<1>3. /\ ~files.log.written /\ ~files.failure.written /\ run.phases # <<>>
      /\ DOMAIN Phase0 = PhaseFields /\ run.at \in Working
  BY <1>2, PhaseUnderWay
<1>4. CASE SampleInside
  <2>1. PICK next \in {"encode", "end", "body"} : Sample(Phase0, next)
    BY <1>4 DEF SampleInside
  <2>2. next \notin Early \cup Sealed
    BY DEF Early, Sealed
  <2> QED BY <1>2, <1>3, <2>1, <2>2, SampleJournal
<1>5. CASE End
  <2> DEFINE p == [Phase0 EXCEPT !.end = clock]
  <2>1. Sample(p, "ended")
    BY <1>5 DEF End
  <2>2. /\ DOMAIN p = PhaseFields /\ p.name = Phase0.name
        /\ p.samples = Phase0.samples /\ p.batches = Phase0.batches
    BY <1>3 DEF PhaseFields
  <2>3. "ended" \notin Early \cup Sealed
    BY DEF Early, Sealed
  <2> HIDE DEF p
  <2> QED BY <1>2, <1>3, <2>1, <2>2, <2>3, SampleJournal
<1> QED BY <1>4, <1>5

LEMMA StartedKept ==
  ASSUME EndInv, JournalInv, Started
  PROVE  JournalInv'
<1>1. run.at = "started"
  BY DEF Started, At
<1>2. run.at \in InPhases \ {"workload"}
  BY <1>1 DEF InPhases
<1>3. /\ ~files.log.written /\ ~files.failure.written /\ run.phases # <<>>
      /\ DOMAIN Phase0 = PhaseFields /\ run.at \in Working
  BY <1>2, PhaseUnderWay
<1> DEFINE p == [Phase0 EXCEPT !.start = clock]
           e == [event |-> "phase_start"]
           r == InPhase(p)
<1>4. /\ DOMAIN p = PhaseFields /\ p.name = Phase0.name
      /\ p.samples = Phase0.samples /\ p.batches = Phase0.batches
  BY <1>3 DEF PhaseFields
<1>5. /\ DOMAIN r = RunFields /\ r.at = run.at /\ r.disk = run.disk /\ r.cut = run.cut
      /\ r.phases = InPhase(p).phases
  BY DEF EndInv, InPhase, RunFields
<1>6. Event(e, r, "body", 0) /\ e.event \notin {"sample", "batch"}
  BY DEF Started
<1>7. "body" \notin Early \cup Sealed
  BY DEF Early, Sealed
<1> HIDE DEF p, e, r
<1> QED BY <1>2, <1>3, <1>4, <1>5, <1>6, <1>7, InPhaseEvent

LEMMA RetainBatchKept ==
  ASSUME EndInv, JournalInv, RetainBatch
  PROVE  JournalInv'
<1>1. run.at = "encode" /\ Trying(run.at)
  BY DEF RetainBatch, At, Trying, Handling, Closing, Over
<1>2. run.at \in InPhases \ {"workload"}
  BY <1>1 DEF InPhases
<1>3. /\ ~files.log.written /\ ~files.failure.written /\ run.phases # <<>>
      /\ DOMAIN Phase0 = PhaseFields /\ run.at \in Working /\ DOMAIN run = RunFields
  BY <1>2, PhaseUnderWay
<1> DEFINE p == [Phase0 EXCEPT !.batches = Append(@, run.held)]
           e == [event |-> "batch", phase |-> p.name, value |-> run.held]
           r == [InPhase(p) EXCEPT !.held = None]
           s == Raised(run)
<1>4. \/ \E next \in {"end", "body"} : Event(e, r, next, 0)
      \/ run' = [s EXCEPT !.held = None] /\ UNCHANGED files
  BY DEF RetainBatch
<1>5. /\ DOMAIN p = PhaseFields /\ p.name = Phase0.name
      /\ p.batches = Append(Phase0.batches, run.held) /\ p.samples = Phase0.samples
  BY <1>3 DEF PhaseFields
<1>6. e.event = "batch" /\ e.phase = p.name /\ e.value = run.held
  OBVIOUS
<1>7. /\ DOMAIN r = RunFields /\ r.at = run.at /\ r.disk = run.disk /\ r.cut = run.cut
      /\ r.phases = InPhase(p).phases
  BY <1>3 DEF InPhase, RunFields
<1>8. /\ DOMAIN s = RunFields /\ s.phases = run.phases /\ s.disk = run.disk
      /\ s.at = "except"
  BY <1>1, <1>3, RaisedRun
<1> HIDE DEF p, e, r, s
<1>9. CASE \E next \in {"end", "body"} : Event(e, r, next, 0)
  <2>1. PICK next \in {"end", "body"} : Event(e, r, next, 0)
    BY <1>9
  <2>2. next \notin Early \cup Sealed
    BY DEF Early, Sealed
  <2>3. p.batches = Append(Phase0.batches, e.value)
    BY <1>5, <1>6
  <2> QED BY <1>2, <1>3, <1>5, <1>6, <1>7, <2>1, <2>2, <2>3, InPhaseEvent
<1>10. CASE run' = [s EXCEPT !.held = None] /\ UNCHANGED files
  <2>1. run'.phases = run.phases /\ run'.disk = run.disk /\ run'.at = Raised(run).at
    BY <1>8, <1>10 DEF RunFields, s
  <2>2. run.at \notin Over \cup {"plan"}
    BY <1>1 DEF Over
  <2> QED BY <1>10, <2>1, <2>2, RaisedJournal
<1> QED BY <1>4, <1>9, <1>10

LEMMA BeginMemory ==
  ASSUME PhasesInv, Len(run.phases) < 5, NEW l, l = Len(run.phases) + 1, NEW q,
         DOMAIN q = PhaseFields, q.name = PhaseNames[l], IsSeq(q.samples), IsSeq(q.batches),
         run'.phases = Append(run.phases, q)
  PROVE  /\ PhasesInv' /\ run'.phases # <<>> /\ l \in 1..5
         /\ Memory(l) = Phase(PhaseNames[l]) /\ Memory(l)' = q
         /\ \A i \in (1..5) \ {l} : SameMemory(i)
<1>1. IsSeq(run.phases) /\ Len(run.phases) \in Nat
  BY Sequences DEF PhasesInv
<1>2. l \in 1..5 /\ l \in Nat /\ ~(l <= Len(run.phases))
  <2>1. \A k \in Nat : k < 5 => k + 1 \in 1..5 /\ k + 1 \in Nat /\ ~(k + 1 <= k)
    OBVIOUS
  <2> QED BY <1>1, <2>1
<1>3. /\ IsSeq(run'.phases) /\ Len(run'.phases) = l /\ run'.phases[l] = q
      /\ \A i \in 1..Len(run.phases) : run'.phases[i] = run.phases[i]
  <2>1. /\ IsSeq(Append(run.phases, q)) /\ Len(Append(run.phases, q)) = Len(run.phases) + 1
        /\ \A i \in 1..Len(run.phases) : Append(run.phases, q)[i] = run.phases[i]
        /\ Append(run.phases, q)[Len(run.phases) + 1] = q
    BY <1>1, Appended
  <2> QED BY <2>1
<1>4. run'.phases # <<>>
  <2>1. l > 0
    BY <1>2
  <2>2. run'.phases # <<>> <=> Len(run'.phases) > 0
    BY <1>3, Sequences
  <2> QED BY <1>3, <2>1, <2>2
<1>5. \A i \in 1..l : i = l \/ i \in 1..Len(run.phases)
  BY <1>1, <1>2
<1>6. PhasesInv'
  <2>1. ASSUME NEW i \in 1..l
        PROVE  /\ DOMAIN run'.phases[i] = PhaseFields /\ run'.phases[i].name = PhaseNames[i]
               /\ IsSeq(run'.phases[i].samples) /\ IsSeq(run'.phases[i].batches)
    <3>1. CASE i = l
      BY <1>3, <3>1
    <3>2. CASE i \in 1..Len(run.phases)
      BY <1>3, <3>2 DEF PhasesInv
    <3> QED BY <1>5, <3>1, <3>2
  <2>2. l <= 5
    BY <1>2
  <2> QED BY <1>3, <2>1, <2>2 DEF PhasesInv
<1>7. Memory(l) = Phase(PhaseNames[l]) /\ Memory(l)' = q
  BY <1>2, <1>3 DEF Memory
<1>8. ASSUME NEW i \in (1..5) \ {l}
      PROVE  SameMemory(i)
  <2>1. CASE i <= Len(run.phases)
    <3>1. i \in 1..Len(run.phases) /\ i <= l
      BY <1>1, <2>1
    <3>2. Memory(i)' = Memory(i)
      BY <1>3, <2>1, <3>1 DEF Memory
    <3> QED BY <3>2 DEF SameMemory
  <2>2. CASE ~(i <= Len(run.phases))
    <3>1. ~(i <= l)
      BY <1>1, <2>2
    <3>2. Memory(i)' = Memory(i)
      BY <1>3, <2>2, <3>1 DEF Memory
    <3> QED BY <3>2 DEF SameMemory
  <2> QED BY <2>1, <2>2
<1> QED BY <1>2, <1>4, <1>6, <1>7, <1>8

LEMMA BeginKept ==
  ASSUME EndInv, JournalInv, Begin
  PROVE  JournalInv'
<1>1. run.at = "begin"
  BY DEF Begin, At
<1>2. run.at \in Working /\ run.at \notin Closing \cup Over /\ Trying(run.at)
  BY <1>1 DEF Working, Trying, Handling, Closing, Over
<1>3. /\ DOMAIN run = RunFields /\ DOMAIN files = FileFields /\ IsSeq(files.journal) /\ PhasesInv
      /\ Len(run.phases) < 5 /\ ~run.disk /\ ~files.log.written
  BY <1>1, <1>2 DEF EndInv, FilesInv, FileFields, JournalInv, StageInv, Early
<1>4. ~files.failure.written
  BY <1>2, NotWritten
<1>5. PICK l : l = Len(run.phases) + 1
  OBVIOUS
<1> DEFINE p == Phase(PhaseNames[l])
<1>6. PICK s, n : Event([event |-> "sample", phase |-> p.name, value |-> s],
                        [run EXCEPT !.phases = Append(@, [p EXCEPT !.samples = <<s>>])], "started", n)
  BY <1>5 DEF Begin
<1> DEFINE q == [p EXCEPT !.samples = <<s>>]
           e == [event |-> "sample", phase |-> p.name, value |-> s]
           r == [run EXCEPT !.phases = Append(@, q)]
<1>7. /\ DOMAIN q = PhaseFields /\ q.name = PhaseNames[l] /\ q.samples = <<s>> /\ q.batches = <<>>
      /\ p.samples = <<>> /\ p.batches = <<>>
      /\ e.event = "sample" /\ e.phase = PhaseNames[l] /\ e.value = s
  BY DEF Phase, PhaseFields
<1>8. DOMAIN r = RunFields /\ r.at = run.at /\ r.phases = Append(run.phases, q) /\ r.disk = run.disk
  BY <1>3 DEF RunFields
<1>9. Event(e, r, "started", n)
  BY <1>6
<1> HIDE DEF p, q, e, r
<1>10. /\ DOMAIN files' = FileFields /\ SameFiles /\ run'.phases = r.phases
       /\ \/ run'.at = "started" /\ run'.disk = run.disk /\ files'.journal = Append(files.journal, e)
          \/ run'.at = Raised(r).at /\ run'.disk = TRUE /\ files' = files
  BY <1>3, <1>8, <1>9, EventRun DEF SameFiles
<1>11. Raised(r).at = "except"
  BY <1>2, <1>8, RaisedRun
<1>12. IsSeq(q.samples) /\ IsSeq(q.batches) /\ q.samples = Append(<<>>, s)
  <2>1. <<s>> = Append(<<>>, s)
    OBVIOUS
  <2>2. IsSeq(Append(<<>>, s))
    BY Empty, Appended
  <2> QED BY <1>7, <2>1, <2>2, Empty
<1>13. /\ PhasesInv' /\ run'.phases # <<>> /\ l \in 1..5
       /\ Memory(l) = p /\ Memory(l)' = q
       /\ \A i \in (1..5) \ {l} : SameMemory(i)
  BY <1>3, <1>5, <1>7, <1>8, <1>10, <1>12, BeginMemory DEF p
<1>14. StageInv' /\ run'.at \notin Sealed
  BY <1>10, <1>11, <1>13 DEF StageInv, Early, Sealed
<1>15. run'.at \in {"plan"} \cup Working \cup Publishing => ~run'.disk
  BY <1>3, <1>10, <1>11 DEF Working, Publishing
<1>16. IsSeq(files'.journal)
  <2>1. IsSeq(Append(files.journal, e))
    BY <1>3, Appended
  <2> QED BY <1>3, <1>10, <2>1
<1>17. ~run'.disk => Kept'
  <2>1. Kept
    BY <1>1, <1>3 DEF JournalInv
  <2>2. Memory(l).samples' = Append(Memory(l).samples, e.value) /\ Memory(l).batches' = Memory(l).batches
    BY <1>7, <1>12, <1>13
  <2> QED BY <1>3, <1>7, <1>10, <1>13, <2>1, <2>2, KeptGrows
<1> QED BY <1>3, <1>4, <1>10, <1>13, <1>14, <1>15, <1>16, <1>17, PhaseJournal

\* A phase that was not finished was not sealed.
LEMMA FinishFailedKept ==
  ASSUME EndInv, JournalInv, FinishFailed
  PROVE  JournalInv'
<1>1. run.at = "except" /\ DOMAIN run = RunFields /\ DOMAIN files = FileFields
  BY DEF FinishFailed, At, EndInv
<1>2. run.at \in Handling /\ run.at \notin Closing \cup Over /\ ~files.failure.written
  BY <1>1, NotWritten DEF Handling, Closing, Over
<1>3. CASE ~Unfinished
  <2>1. run'.at = "failure" /\ run'.phases = run.phases /\ run'.disk = run.disk /\ UNCHANGED files
    BY <1>1, <1>3 DEF FinishFailed, Goto, RunFields
  <2>2. /\ run'.at \notin Early \cup InPhases \cup Sealed \cup {"crashed"}
        /\ run'.at \notin {"plan"} \cup Working \cup Publishing
    BY <2>1 DEF Early, InPhases, Sealed, Working, Publishing
  <2> QED BY <1>2, <2>1, <2>2, QuietJournal
<1>4. CASE Unfinished
  <2>1. run.phases # <<>> /\ Phase0.end = None /\ PhasesInv
    BY <1>4 DEF Unfinished, JournalInv
  <2>2. /\ Len(run.phases) \in 1..Len(run.phases) /\ Phase0 = run.phases[Len(run.phases)]
        /\ DOMAIN Phase0 = PhaseFields /\ IsSeq(Phase0.samples) /\ IsSeq(Phase0.batches)
    BY <2>1, LastPhase
  <2>3. ~files.log.written
    <3> SUFFICES ASSUME files.log.written
                 PROVE  FALSE
      OBVIOUS
    <3>1. Valid(files.log.value) /\ files.log.value.phases = run.phases
      BY <1>1 DEF JournalInv, WrittenInv
    <3>2. \A i \in 1..Len(run.phases) : run.phases[i].end # None
      BY <3>1 DEF Valid, OrderedPhases
    <3> QED BY <2>1, <2>2, <3>2
  <2> DEFINE p == [Phase0 EXCEPT !.end = clock, !.error = TRUE, !.start = IF @ = None THEN 0 ELSE @]
  <2>4. /\ DOMAIN p = PhaseFields /\ p.name = Phase0.name
        /\ p.samples = Phase0.samples /\ p.batches = Phase0.batches
    BY <2>2 DEF PhaseFields
  <2>5. \/ Sample(p, "except-ended")
        \/ \E works \in BOOLEAN :
             /\ run' = [Goto(InPhase([p EXCEPT !.samples = Append(@, Reading(works))]), "unavailable")
                          EXCEPT !.disk = TRUE]
             /\ UNCHANGED files
    BY <1>4 DEF FinishFailed
  <2> HIDE DEF p
  <2>6. CASE Sample(p, "except-ended")
    <3>1. "except-ended" \notin Early \cup Sealed \cup Working \cup Publishing
      BY DEF Early, Sealed, Working, Publishing
    <3> QED BY <1>2, <2>1, <2>3, <2>4, <2>6, <3>1, SampleJournal
  <2>7. ASSUME NEW x, UNCHANGED files,
               run' = [Goto(InPhase([p EXCEPT !.samples = Append(@, x)]), "unavailable") EXCEPT !.disk = TRUE]
        PROVE  JournalInv'
    <3> DEFINE q == [p EXCEPT !.samples = Append(@, x)]
    <3>1. /\ DOMAIN q = PhaseFields /\ q.name = Phase0.name
          /\ q.samples = Append(Phase0.samples, x) /\ q.batches = Phase0.batches
      BY <2>4 DEF PhaseFields
    <3>2. run' = [Goto(InPhase(q), "unavailable") EXCEPT !.disk = TRUE]
      BY <2>7
    <3> HIDE DEF q
    <3>3. run'.phases = InPhase(q).phases /\ run'.at = "unavailable" /\ run'.disk = TRUE
      BY <1>1, <3>2 DEF Goto, InPhase, RunFields
    <3>4. IsSeq(q.samples) /\ IsSeq(q.batches)
      BY <2>2, <3>1, Appended
    <3>5. PICK l : l = Len(run.phases)
      OBVIOUS
    <3>6. PhasesInv' /\ run'.phases # <<>>
      BY <1>1, <2>1, <3>1, <3>3, <3>4, <3>5, InPhaseMemory
    <3>7. StageInv' /\ run'.at \notin Sealed \cup {"plan"} \cup Working \cup Publishing
      BY <3>3 DEF StageInv, Early, InPhases, Sealed, Working, Publishing
    <3>8. SameFiles /\ DOMAIN files' = FileFields /\ IsSeq(files'.journal)
      BY <1>1, <2>7 DEF SameFiles, JournalInv
    <3> QED BY <1>2, <2>3, <3>3, <3>6, <3>7, <3>8, PhaseJournal
  <2> QED BY <2>5, <2>6, <2>7
<1> QED BY <1>3, <1>4

-----------------------------------------------------------------------------
(* Proofs: what is published. *)

\* A step of the publication: the journal and the phases are as they were.
LEMMA PublishedJournal ==
  ASSUME JournalInv, run'.phases = run.phases, files'.journal = files.journal,
         run.at # "crashed", run'.at \notin Early \cup InPhases,
         run'.at \in {"plan"} \cup Working \cup Publishing => run.at \in {"plan"} \cup Working \cup Publishing,
         SealedInv', WrittenInv',
         \A f \in FileFields \ {"journal"} : files'[f].written => files'[f].made,
         run'.disk = run.disk
  PROVE  JournalInv'
<1>1. IsSeq(files'.journal) /\ PhasesInv'
  BY DEF JournalInv, PhasesInv
<1>2. StageInv'
  BY DEF StageInv
<1>3. ~run.disk => Kept'
  BY DEF JournalInv, Kept, Memory
<1>4. run'.at \in {"plan"} \cup Working \cup Publishing => ~run'.disk
  BY DEF JournalInv
<1> QED BY <1>1, <1>2, <1>3, <1>4 DEF JournalInv

LEMMA SealKept ==
  ASSUME EndInv, JournalInv, Seal
  PROVE  JournalInv'
<1> DEFINE log == [sensor |-> run.sensor, workload |-> run.workload, phases |-> run.phases]
<1>1. /\ run.at = "seal" /\ UNCHANGED files
      /\ run' = IF Valid(log) THEN [Goto(run, "log") EXCEPT !.held = log] ELSE Raised(run)
  BY DEF Seal, At
<1>2. log.phases = run.phases
  OBVIOUS
<1> HIDE DEF log
<1>3. run.at \notin Closing \cup Over \cup {"plan"} /\ run.at \in Working /\ ~files.failure.written
  BY <1>1, NotWritten DEF Closing, Over, Working
<1>4. CASE ~Valid(log)
  <2>1. run'.phases = run.phases /\ run'.disk = run.disk /\ run'.at = Raised(run).at
    BY <1>1, <1>4, RaisedRun DEF EndInv
  <2> QED BY <1>1, <1>3, <2>1, RaisedJournal
<1>5. CASE Valid(log)
  <2>1. /\ run'.at = "log" /\ run'.held = log /\ run'.phases = run.phases /\ run'.disk = run.disk
    BY <1>1, <1>5 DEF Goto, EndInv, RunFields
  <2>2. SealedInv'
    BY <1>2, <1>5, <2>1 DEF SealedInv
  <2>3. WrittenInv'
    BY <1>1, <1>3, <2>1 DEF JournalInv, WrittenInv, InJournal
  <2>4. run'.at \notin Early \cup InPhases /\ run.at # "crashed"
    BY <1>1, <2>1 DEF Early, InPhases
  <2>5. \A f \in FileFields \ {"journal"} : files'[f].written => files'[f].made
    BY <1>1 DEF JournalInv
  <2> QED BY <1>1, <1>3, <2>1, <2>2, <2>3, <2>4, <2>5, PublishedJournal
<1> QED BY <1>4, <1>5

LEMMA PublishLogKept ==
  ASSUME EndInv, JournalInv, PublishLog
  PROVE  JournalInv'
<1>1. run.at \in {"log", "log-open"} /\ Publish("log", run.held, "log-open", "report")
  BY DEF PublishLog
<1>2. /\ run.at \notin Closing \cup Over \cup {"plan"} /\ run.at \in Working \cup Publishing
      /\ ~files.failure.written /\ run.at \in Sealed
  BY <1>1, NotWritten DEF Closing, Over, Working, Publishing, Sealed
<1>3. Valid(run.held) /\ run.held.phases = run.phases /\ PhasesInv /\ Kept /\ ~run.disk
  BY <1>1, <1>2 DEF JournalInv, SealedInv
<1>4. ~files.log.written /\ ~files.report.written
  BY <1>1 DEF JournalInv, SealedInv, WrittenInv, EndInv, FilesInv, FileFields, Working
<1>5. "log" \in FileFields
  BY DEF FileFields
<1>6. /\ run'.phases = run.phases /\ run'.held = run.held /\ DOMAIN files' = FileFields
      /\ \A f \in FileFields \ {"log"} : files'[f] = files[f]
      /\ \/ files'["log"] = Created /\ run'.at = "log-open" /\ run'.disk = run.disk
         \/ files'["log"] = Holds(run.held) /\ run'.at = "report" /\ run'.disk = run.disk
         \/ files' = files /\ run'.disk = TRUE /\ run'.at = Raised(run).at
  <2>1. /\ run'.phases = run.phases /\ run'.held = run.held /\ DOMAIN files' = FileFields
        /\ \A f \in FileFields \ {"log"} : files'[f] = files[f]
    BY <1>1, <1>5, PublishRun
  <2>2. \/ /\ run.at # "log-open" /\ ~files["log"].made /\ files'["log"] = Created
           /\ run'.at = "log-open" /\ run'.cut = run.cut /\ run'.disk = run.disk
        \/ /\ run.at = "log-open" /\ files'["log"] = Holds(run.held)
           /\ run'.at = "report" /\ run'.cut = run.cut /\ run'.disk = run.disk
        \/ /\ files' = files /\ run'.disk = TRUE
           /\ run'.at = Raised(run).at /\ run'.cut = Raised(run).cut
    BY <1>1, <1>5, PublishRun
  <2> QED BY <2>1, <2>2
<1>7. /\ files'.journal = files.journal /\ files'.report = files.report
      /\ files'.failure = files.failure
  BY <1>6 DEF FileFields
<1>8. CASE files' = files /\ run'.disk = TRUE /\ run'.at = Raised(run).at
  <2>1. run.at \notin Over \cup {"plan"} /\ run'.disk \in {run.disk, TRUE}
    BY <1>2, <1>8
  <2> QED BY <1>6, <1>8, <2>1, RaisedJournal
<1>9. CASE files'["log"] = Created /\ run'.at = "log-open" /\ run'.disk = run.disk
  <2>1. files'.log.written = FALSE /\ files'.log.made = TRUE
    BY <1>9 DEF Created
  <2>2. SealedInv'
    BY <1>3, <1>6, <1>9, <2>1 DEF SealedInv
  <2>3. WrittenInv'
    BY <1>2, <1>4, <1>7, <2>1 DEF WrittenInv
  <2>4. \A f \in FileFields \ {"journal"} : files'[f].written => files'[f].made
    BY <1>6, <2>1 DEF JournalInv
  <2>5. run'.at \notin Early \cup InPhases /\ run.at # "crashed"
    BY <1>1, <1>9 DEF Early, InPhases
  <2> QED BY <1>2, <1>6, <1>7, <1>9, <2>2, <2>3, <2>4, <2>5, PublishedJournal
<1>10. CASE files'["log"] = Holds(run.held) /\ run'.at = "report" /\ run'.disk = run.disk
  <2>1. files'.log.written = TRUE /\ files'.log.made = TRUE /\ files'.log.value = run.held
    BY <1>10 DEF Holds
  <2>2. SealedInv'
    BY <1>3, <1>6, <1>10, <2>1 DEF SealedInv
  <2>3. InJournal(run.phases)
    BY <1>3, InJournalKept
  <2>4. InJournal(files.log.value.phases)'
    BY <1>3, <1>7, <2>1, <2>3 DEF InJournal
  <2>5. Valid(files'.log.value) /\ files'.log.value.phases = run'.phases
    BY <1>3, <1>6, <2>1
  <2>6. WrittenInv'
    BY <1>2, <1>4, <1>7, <2>1, <2>4, <2>5 DEF WrittenInv
  <2>7. \A f \in FileFields \ {"journal"} : files'[f].written => files'[f].made
    BY <1>6, <2>1 DEF JournalInv
  <2>8. run'.at \notin Early \cup InPhases /\ run.at # "crashed"
    BY <1>1, <1>10 DEF Early, InPhases
  <2> QED BY <1>2, <1>6, <1>7, <1>10, <2>2, <2>6, <2>7, <2>8, PublishedJournal
<1> QED BY <1>6, <1>8, <1>9, <1>10

LEMMA PublishReportKept ==
  ASSUME EndInv, JournalInv, PublishReport
  PROVE  JournalInv'
<1>1. run.at \in {"report", "report-open"} /\ Publish("report", Analyze(run.held), "report-open", "complete")
  BY DEF PublishReport
<1>2. /\ run.at \notin Closing \cup Over \cup {"plan"} /\ run.at \in Publishing
      /\ ~files.failure.written /\ run.at \in Sealed
  BY <1>1, NotWritten DEF Closing, Over, Publishing, Sealed
<1>3. /\ Valid(run.held) /\ run.held.phases = run.phases /\ files.log.value = run.held
      /\ files.log.written
  BY <1>1, <1>2 DEF JournalInv, SealedInv, EndInv, FilesInv
<1>5. "report" \in FileFields
  BY DEF FileFields
<1> DEFINE report == Analyze(run.held)
<1>6. /\ run'.phases = run.phases /\ run'.held = run.held /\ DOMAIN files' = FileFields
      /\ \A f \in FileFields \ {"report"} : files'[f] = files[f]
      /\ \/ files'["report"] = Created /\ run'.at = "report-open" /\ run'.disk = run.disk
         \/ files'["report"] = Holds(report) /\ run'.at = "complete" /\ run'.disk = run.disk
         \/ files' = files /\ run'.disk = TRUE /\ run'.at = Raised(run).at
  <2>0. Publish("report", report, "report-open", "complete")
    BY <1>1
  <2> HIDE DEF report
  <2>1. /\ run'.phases = run.phases /\ run'.held = run.held /\ DOMAIN files' = FileFields
        /\ \A f \in FileFields \ {"report"} : files'[f] = files[f]
    BY <1>5, <2>0, PublishRun
  <2>2. \/ /\ run.at # "report-open" /\ ~files["report"].made /\ files'["report"] = Created
           /\ run'.at = "report-open" /\ run'.cut = run.cut /\ run'.disk = run.disk
        \/ /\ run.at = "report-open" /\ files'["report"] = Holds(report)
           /\ run'.at = "complete" /\ run'.cut = run.cut /\ run'.disk = run.disk
        \/ /\ files' = files /\ run'.disk = TRUE
           /\ run'.at = Raised(run).at /\ run'.cut = Raised(run).cut
    BY <1>5, <2>0, PublishRun
  <2> QED BY <2>1, <2>2
<1>7. /\ files'.journal = files.journal /\ files'.log = files.log
      /\ files'.failure = files.failure
  BY <1>6 DEF FileFields
<1>8. CASE files' = files /\ run'.disk = TRUE /\ run'.at = Raised(run).at
  <2>1. run.at \notin Over \cup {"plan"} /\ run'.disk \in {run.disk, TRUE}
    BY <1>2, <1>8
  <2> QED BY <1>6, <1>8, <2>1, RaisedJournal
<1>9. CASE run'.at \in {"report-open", "complete"} /\ run'.disk = run.disk
  <2>1. /\ files'.report.written => files'.report.value = Analyze(files'.log.value)
        /\ files'.report.written => files'.report.made
    <3>1. CASE files'["report"] = Created
      BY <3>1 DEF Created
    <3>2. CASE files'["report"] = Holds(report)
      <4>1. files'.report.made = TRUE /\ files'.report.value = Analyze(run.held)
        BY <3>2 DEF Holds
      <4>2. files'.log.value = run.held
        BY <1>3, <1>7
      <4> QED BY <4>1, <4>2
    <3>3. ~(files' = files /\ run'.disk = TRUE /\ run'.at = Raised(run).at)
      <4>1. run.disk = FALSE
        BY <1>2 DEF JournalInv, EndInv
      <4> QED BY <1>9, <4>1
    <3> QED BY <1>6, <3>1, <3>2, <3>3
  <2>2. SealedInv'
    BY <1>3, <1>6, <1>7, <1>9 DEF SealedInv
  <2>3. InJournal(files.log.value.phases)'
    BY <1>3, <1>7 DEF JournalInv, WrittenInv, InJournal
  <2>4. WrittenInv'
    BY <1>2, <1>3, <1>6, <1>7, <2>1, <2>3 DEF WrittenInv
  <2>5. \A f \in FileFields \ {"journal"} : files'[f].written => files'[f].made
    BY <1>6, <2>1 DEF JournalInv
  <2>6. run'.at \notin Early \cup InPhases /\ run.at # "crashed"
    BY <1>1, <1>9 DEF Early, InPhases
  <2> QED BY <1>2, <1>6, <1>7, <1>9, <2>2, <2>4, <2>5, <2>6, PublishedJournal
<1> QED BY <1>6, <1>8, <1>9

LEMMA PublishFailureKept ==
  ASSUME EndInv, JournalInv, PublishFailure
  PROVE  JournalInv'
<1>1. /\ run.at \in {"failure-file", "failure-open"}
      /\ Publish("failure", run.phases, "failure-open", "close-worker")
  BY DEF PublishFailure
<1>2. run.at \notin Closing \cup Over \cup {"plan"} /\ ~files.failure.written
  BY <1>1, NotWritten DEF Closing, Over
<1>3. "failure" \in FileFields
  BY DEF FileFields
<1>4. /\ run'.phases = run.phases /\ DOMAIN files' = FileFields
      /\ \A f \in FileFields \ {"failure"} : files'[f] = files[f]
      /\ \/ files'["failure"] = Created /\ run'.at = "failure-open" /\ run'.disk = run.disk
         \/ files'["failure"] = Holds(run.phases) /\ run'.at = "close-worker" /\ run'.disk = run.disk
         \/ files' = files /\ run'.disk = TRUE /\ run'.at = Raised(run).at
  <2>1. /\ run'.phases = run.phases /\ DOMAIN files' = FileFields
        /\ \A f \in FileFields \ {"failure"} : files'[f] = files[f]
    BY <1>1, <1>3, PublishRun
  <2>2. \/ /\ run.at # "failure-open" /\ ~files["failure"].made /\ files'["failure"] = Created
           /\ run'.at = "failure-open" /\ run'.cut = run.cut /\ run'.disk = run.disk
        \/ /\ run.at = "failure-open" /\ files'["failure"] = Holds(run.phases)
           /\ run'.at = "close-worker" /\ run'.cut = run.cut /\ run'.disk = run.disk
        \/ /\ files' = files /\ run'.disk = TRUE
           /\ run'.at = Raised(run).at /\ run'.cut = Raised(run).cut
    BY <1>1, <1>3, PublishRun
  <2> QED BY <2>1, <2>2
<1>5. /\ files'.journal = files.journal /\ files'.log = files.log /\ files'.report = files.report
  BY <1>4 DEF FileFields
<1>6. CASE files' = files /\ run'.disk = TRUE /\ run'.at = Raised(run).at
  <2>1. run.at \notin Over \cup {"plan"} /\ run'.disk \in {run.disk, TRUE}
    BY <1>2, <1>6
  <2> QED BY <1>4, <1>6, <2>1, RaisedJournal
<1> DEFINE written == /\ files'.failure.made /\ files'.failure.value = run.phases
                      /\ run'.at = "close-worker"
<1>7. CASE /\ run'.at \in {"failure-open", "close-worker"} /\ run'.disk = run.disk
           /\ files'.failure.written => written
  <2>1. SealedInv'
    BY <1>7 DEF SealedInv, Sealed
  <2>2. files'.log.written => InJournal(files.log.value.phases)'
    BY <1>5 DEF JournalInv, WrittenInv, InJournal
  <2>3. files'.failure.written /\ ~run'.disk => InJournal(files.failure.value)'
    <3> SUFFICES ASSUME files'.failure.written, ~run'.disk
                 PROVE  InJournal(files.failure.value)'
      OBVIOUS
    <3>1. Kept /\ PhasesInv
      BY <1>2, <1>7 DEF JournalInv, Over
    <3>2. InJournal(run.phases)
      BY <3>1, InJournalKept
    <3> QED BY <1>5, <1>7, <3>2 DEF InJournal
  <2>4. WrittenInv'
    BY <1>1, <1>4, <1>5, <1>7, <2>2, <2>3 DEF JournalInv, WrittenInv, Closing
  <2>5. \A f \in FileFields \ {"journal"} : files'[f].written => files'[f].made
    BY <1>4, <1>7 DEF JournalInv
  <2>6. run'.at \notin Early \cup InPhases \cup {"plan"} \cup Working \cup Publishing /\ run.at # "crashed"
    BY <1>1, <1>7 DEF Early, InPhases, Working, Publishing
  <2> QED BY <1>4, <1>5, <1>7, <2>1, <2>4, <2>5, <2>6, PublishedJournal
<1>8. CASE files'["failure"] = Created /\ run'.at = "failure-open" /\ run'.disk = run.disk
  <2>1. files'.failure.written = FALSE
    BY <1>8 DEF Created
  <2> QED BY <1>7, <1>8, <2>1
<1>9. CASE files'["failure"] = Holds(run.phases) /\ run'.at = "close-worker" /\ run'.disk = run.disk
  <2>1. files'.failure.made = TRUE /\ files'.failure.value = run.phases
    BY <1>9 DEF Holds
  <2> QED BY <1>7, <1>9, <2>1
<1> QED BY <1>4, <1>6, <1>8, <1>9

LEMMA EnvironmentKept ==
  ASSUME EndInv, JournalInv, Crash \/ Reset \/ UNCHANGED vars
  PROVE  JournalInv'
<1>1. CASE Crash
  <2>1. /\ run' = [Goto(run, "crashed") EXCEPT !.phases = <<>>, !.held = None] /\ UNCHANGED files
        /\ run.at \notin Over
    BY <1>1 DEF Crash, Live
  <2>2. run'.at = "crashed" /\ run'.phases = <<>> /\ run'.disk = run.disk
    BY <2>1 DEF EndInv, Goto, RunFields
  <2>3. PhasesInv'
    BY <2>2, Empty DEF PhasesInv
  <2>4. StageInv' /\ SealedInv'
    BY <2>2 DEF StageInv, SealedInv, Early, InPhases, Sealed
  <2>5. WrittenInv'
    BY <2>1, <2>2 DEF JournalInv, WrittenInv, InJournal, Over
  <2> QED BY <2>1, <2>2, <2>3, <2>4, <2>5 DEF JournalInv, Working, Publishing
<1>2. CASE Reset \/ UNCHANGED vars
  <2>1. UNCHANGED <<run, files>>
    BY <1>2 DEF Reset, vars
  <2> QED BY <2>1 DEF JournalInv, PhasesInv, StageInv, SealedInv, WrittenInv, InJournal, Kept, Memory
<1> QED BY <1>1, <1>2

LEMMA JournalStep == EndInv /\ JournalInv /\ [Next]_vars => JournalInv'
<1> SUFFICES ASSUME EndInv, JournalInv, [Next]_vars
             PROVE  JournalInv'
  OBVIOUS
<1>1. CASE UNCHANGED vars \/ Again
  BY <1>1, EnvironmentKept DEF Again
<1>2. CASE Prepare \/ OpenJournal \/ OpenCounter \/ RetainSensor \/ Begin \/ Started
  BY <1>2, QuietKept, NotesKept, BeginKept, StartedKept
<1>3. CASE ConstructWorker \/ Solve \/ Sleep \/ SampleInside \/ RetainBatch \/ End \/ Ended
  BY <1>3, QuietKept, SamplesKept, RetainBatchKept, NotesKept
<1>4. CASE RetainWorkload \/ Seal \/ PublishLog \/ PublishReport \/ Complete \/ Return
  BY <1>4, FailingKept, SealKept, PublishLogKept, PublishReportKept, NotesKept, QuietKept
<1>5. CASE \/ FinishFailed \/ EndFailed \/ NoteUnavailable \/ NoteFailure \/ PublishFailure
           \/ CloseWorker \/ CloseCounter \/ NoteCleanup
  BY <1>5, FinishFailedKept, FailingKept, NotesKept, PublishFailureKept, ClosingKept
<1>6. CASE Interrupt \/ Crash \/ Reset
  BY <1>6, FailingKept, EnvironmentKept
<1> QED BY <1>1, <1>2, <1>3, <1>4, <1>5, <1>6 DEF Next

LEMMA JournalInit == Init => JournalInv
<1> SUFFICES ASSUME Init
             PROVE  JournalInv
  OBVIOUS
<1>1. /\ run.at = "plan" /\ run.phases = <<>> /\ run.disk = FALSE /\ files.journal = <<>>
      /\ \A f \in FileFields \ {"journal"} : files[f].written = FALSE
  BY DEF Init, NoFile, FileFields
<1>2. PhasesInv
  BY <1>1, Empty DEF PhasesInv
<1>3. StageInv /\ SealedInv /\ WrittenInv
  BY <1>1, Empty DEF StageInv, SealedInv, WrittenInv, Early, InPhases, Sealed, FileFields
<1>4. ASSUME NEW kind, NEW name
      PROVE  Journaled(<<>>, kind, name, <<>>)
  <2>1. Places(<<>>, kind, name) = {}
    BY DEF Places
  <2> QED BY <2>1, FS_EmptySet DEF Journaled
<1>5. ASSUME NEW i \in 1..5
      PROVE  Memory(i).samples = <<>> /\ Memory(i).batches = <<>>
  BY <1>1 DEF Memory, Phase
<1>6. Kept
  BY <1>1, <1>4, <1>5 DEF Kept
<1> QED BY <1>1, <1>2, <1>3, <1>6, Empty DEF JournalInv

\* PublishedWhole for every instance: whatever is interrupted or fails between the
\* samples of capture and its last file (energy_bench.py:_publish, capture), a log that can
\* be read is the journal's, a report that log's, and the record of a failure the journal's
\* unless a write failed.
THEOREM PublishingCorrect == Spec => []PublishedWhole
<1>1. EndInv /\ JournalInv => PublishedWhole
  BY DEF EndInv, JournalInv, WrittenInv, PublishedWhole, Whole
<1> QED BY <1>1, EndInit, EndStep, JournalInit, JournalStep, PTL DEF Spec

-----------------------------------------------------------------------------
(* Proofs: what the counter showed of the measured phase. *)

\* A device that has since consumed more, or was reset, says the same of what was read.
Later(d, e) == e.coarse = d.coarse /\ (e.base = d.base \/ d.base = 0)

LEMMA ShowsLater ==
  ASSUME NEW d, NEW e, Later(d, e), NEW reading, NEW t \in Nat, Shows(d, reading, t)
  PROVE  Shows(e, reading, t)
<1>1. t - 0 = t
  OBVIOUS
<1> QED BY <1>1 DEF Later, Shows

LEMMA MeasuredLater ==
  ASSUME NEW d, NEW e, Later(d, e), NEW p, IsSeq(p.batches), NEW t \in Nat, Measured(d, p, t)
  PROVE  Measured(e, p, t)
<1>1. t + Len(p.batches) \in Nat
  BY Sequences
<1>2. Shows(e, p.samples[1], t) /\ Shows(e, p.samples[Len(p.batches) + 2], t + Len(p.batches))
  BY <1>1, ShowsLater DEF Measured
<1> QED BY <1>2 DEF Measured

LEMMA MeasuringLater ==
  ASSUME NEW d, NEW e, Later(d, e), e.consumed = d.consumed,
         NEW p, NEW t \in Nat, NEW at, NEW held, Measuring(at, held, d, p, t)
  PROVE  Measuring(at, held, e, p, t)
BY ShowsLater DEF Measuring

LEMMA ReadingShows ==
  ASSUME DeviceInv, NEW works
  PROVE  Shows(device, Reading(works), device.consumed)
BY DEF DeviceInv, Shows, Reading, Shown

\* The phase that is measured is not under way, before the step or after it.
LEMMA MeterElsewhere ==
  ASSUME NEW at, NEW held, NEW d, NEW phases, Meter(at, held, d, phases),
         NEW at2, NEW held2, NEW d2, Later(d, d2), NEW phases2,
         at2 \in {"plan"} \cup Working \cup Publishing /\ Len(phases2) >= 4 =>
           /\ at \in {"plan"} \cup Working \cup Publishing /\ Len(phases) >= 4
           /\ phases2[4] = phases[4] /\ IsSeq(phases[4].batches)
           /\ Len(phases) = 4 => at \notin Stepping
           /\ Len(phases2) = 4 => at2 \notin Stepping
  PROVE  Meter(at2, held2, d2, phases2)
<1> SUFFICES ASSUME at2 \in {"plan"} \cup Working \cup Publishing, Len(phases2) >= 4
             PROVE  \E t \in Nat : IF Len(phases2) = 4 /\ at2 \in Stepping
                                   THEN Measuring(at2, held2, d2, phases2[4], t)
                                   ELSE Measured(d2, phases2[4], t)
  BY DEF Meter
<1>1. PICK t \in Nat : Measured(d, phases[4], t)
  BY DEF Meter
<1>2. Measured(d2, phases[4], t)
  BY <1>1, MeasuredLater
<1> QED BY <1>2

LEMMA MeterNowhere ==
  ASSUME NEW at, NEW held, NEW d, NEW phases,
         at \notin {"plan"} \cup Working \cup Publishing \/ ~(Len(phases) >= 4)
  PROVE  Meter(at, held, d, phases)
BY DEF Meter

\* What a reset or a further batch changes is later.
LEMMA MeterFrame ==
  ASSUME MeterInv, DeviceInv', Later(device, device'), files'.log = files.log,
         run'.at \notin {"log", "log-open"} \/ (run.at \in {"log", "log-open"} /\ run'.held = run.held),
         Meter(run'.at, run'.held, device', run'.phases)
  PROVE  MeterInv'
<1>1. files.log.written => MeasuredLog(device', files.log.value)
  BY MeasuredLater DEF MeterInv, MeasuredLog
<1>2. run'.at \in {"log", "log-open"} => DOMAIN run'.held = LogFields
  BY DEF MeterInv
<1> QED BY <1>1, <1>2 DEF MeterInv

\* A step that leaves the try, or leaves all as it was.
LEMMA MeterAway ==
  ASSUME MeterInv, device' = device, files'.log = files.log,
         run'.at \notin {"plan"} \cup Working \cup Publishing
  PROVE  MeterInv'
<1>1. Later(device, device') /\ DeviceInv'
  BY DEF Later, MeterInv, DeviceInv
<1>2. run'.at \notin {"log", "log-open"}
  BY DEF Working, Publishing
<1>3. Meter(run'.at, run'.held, device', run'.phases)
  BY MeterNowhere
<1> QED BY <1>1, <1>2, <1>3, MeterFrame

\* An event is written and the capture goes on as the meter says, or an exception is raised.
LEMMA EventMeter ==
  ASSUME EndInv, MeterInv, device' = device,
         NEW e, NEW r, NEW next, NEW n, Event(e, r, next, n), DOMAIN r = RunFields,
         next \notin {"log", "log-open"}, run.at # "plan", r.at = run.at,
         Meter(next, r.held, device, r.phases)
  PROVE  MeterInv'
<1>1. /\ run'.phases = r.phases /\ run'.held = r.held /\ files'.log = files.log
      /\ run'.at = next \/ run'.at = Raised(r).at
  <2>1. DOMAIN files = FileFields
    BY DEF EndInv
  <2>2. /\ run'.phases = r.phases /\ run'.held = r.held /\ files'.log = files.log
        /\ \/ /\ run'.at = next /\ run'.cut = r.cut /\ run'.disk = r.disk
              /\ files'.journal = Append(files.journal, e)
           \/ /\ run'.at = Raised(r).at /\ run'.cut = Raised(r).cut /\ run'.disk = TRUE
              /\ files' = files
    BY <2>1, EventRun
  <2> QED BY <2>2
<1>2. Raised(r).at \in {"except", "close-worker", "raised"}
  <2>1. Raised(r).at = IF Trying(r.at) THEN "except" ELSE IF r.at \in Handling THEN "close-worker" ELSE "raised"
    BY RaisedRun
  <2> QED BY <2>1
<1>3. CASE run'.at = next
  <2>1. Later(device, device') /\ DeviceInv'
    BY DEF Later, MeterInv, DeviceInv
  <2> QED BY <1>1, <1>3, <2>1, MeterFrame
<1>4. CASE run'.at = Raised(r).at
  <2>1. run'.at \notin {"plan"} \cup Working \cup Publishing
    BY <1>2, <1>4 DEF Working, Publishing
  <2> QED BY <1>1, <2>1, MeterAway
<1> QED BY <1>1, <1>3, <1>4

\* A stage of the same phases at which none is under way.
LEMMA MeterBetween ==
  ASSUME JournalInv, MeterInv, run.at \in ({"plan"} \cup Working \cup Publishing) \ Stepping,
         NEW next, next \notin Stepping, NEW held
  PROVE  Meter(next, held, device, run.phases)
<1>1. Len(run.phases) >= 4 => IsSeq(run.phases[4].batches)
  <2>1. Len(run.phases) \in Nat
    BY Sequences DEF JournalInv, PhasesInv
  <2>2. Len(run.phases) >= 4 => 4 \in 1..Len(run.phases)
    BY <2>1
  <2> QED BY <2>2 DEF JournalInv, PhasesInv
<1>2. Meter(run.at, run.held, device, run.phases) /\ Later(device, device)
  BY DEF MeterInv, Later
<1> QED BY <1>1, <1>2, MeterElsewhere

LEMMA NotesMeter ==
  ASSUME EndInv, JournalInv, MeterInv,
         OpenJournal \/ RetainSensor \/ Ended \/ RetainWorkload \/ Complete
  PROVE  MeterInv'
<1>1. /\ device' = device /\ DOMAIN run = RunFields /\ DOMAIN files = FileFields
      /\ run.at \in {"open", "sensor", "ended", "workload", "complete"}
  BY DEF OpenJournal, RetainSensor, Ended, RetainWorkload, Complete, Note, At, hardware, EndInv
<1>2. run.at \in ({"plan"} \cup Working \cup Publishing) \ Stepping /\ run.at # "plan" /\ Trying(run.at)
  BY <1>1 DEF Working, Publishing, Stepping, Trying, Handling, Closing, Over
<1>3. ASSUME NEW e, NEW next \in {"counter", "begin", "workload", "seal", "return"}, Event(e, run, next, 0)
      PROVE  MeterInv'
  <2>1. next \notin Stepping \cup {"log", "log-open"}
    BY DEF Stepping
  <2>2. Meter(next, run.held, device, run.phases)
    BY <1>2, <2>1, MeterBetween
  <2> QED BY <1>1, <1>2, <1>3, <2>1, <2>2, EventMeter
<1>4. ASSUME RetainWorkload, files' = [files EXCEPT !.journal = Append(@, [event |-> "workload"])],
             run' = Raised(run)
      PROVE  MeterInv'
  <2>1. run'.at = "except" /\ files'.log = files.log
    BY <1>1, <1>2, <1>4, RaisedRun DEF FileFields
  <2>2. run'.at \notin {"plan"} \cup Working \cup Publishing
    BY <2>1 DEF Working, Publishing
  <2> QED BY <1>1, <2>1, <2>2, MeterAway
<1>5. CASE Ended
  <2> DEFINE next == CASE Phase0.name = "startup" -> "workload"
                       [] Phase0.name = "idle_after" -> "seal"
                       [] OTHER -> "begin"
  <2>1. Event([event |-> "phase_end"], run, next, 0)
    BY <1>5 DEF Ended, Note
  <2>2. next \in {"workload", "seal", "begin"}
    OBVIOUS
  <2> HIDE DEF next
  <2> QED BY <1>3, <2>1, <2>2
<1>6. CASE OpenJournal \/ RetainSensor \/ Complete
  BY <1>3, <1>6 DEF OpenJournal, RetainSensor, Complete, Note
<1>7. CASE RetainWorkload
  BY <1>3, <1>4, <1>7 DEF RetainWorkload
<1> QED BY <1>5, <1>6, <1>7

\* What is done without an event, while no measured phase is under way.
LEMMA QuietMeter ==
  ASSUME EndInv, JournalInv, MeterInv, Prepare \/ OpenCounter \/ ConstructWorker \/ Sleep \/ Return
  PROVE  MeterInv'
<1> DEFINE s == Raised(run)
<1>1. /\ DOMAIN run = RunFields /\ device' = device /\ files'.log = files.log
  BY DEF EndInv, Prepare, OpenCounter, ConstructWorker, Sleep, Return, hardware
<1>2. /\ DOMAIN s = RunFields /\ s.phases = run.phases /\ s.held = run.held
      /\ Trying(run.at) => s.at = "except"
  BY <1>1, RaisedRun
<1> HIDE DEF s
<1>3. Later(device, device') /\ DeviceInv'
  BY <1>1 DEF Later, MeterInv, DeviceInv
<1>4. CASE run'.at \in {"except", "refused", "close-worker"}
  <2>1. run'.at \notin {"plan"} \cup Working \cup Publishing
    BY <1>4 DEF Working, Publishing
  <2> QED BY <1>1, <2>1, MeterAway
<1>5. CASE Prepare \/ OpenCounter
  <2>1. run.at \in {"plan", "counter"}
    BY <1>5 DEF Prepare, OpenCounter, At
  <2>2. run.at \in ({"plan"} \cup Working \cup Publishing) \ Stepping
    BY <2>1 DEF Working, Stepping
  <2>3. run'.at \in {"open", "sensor", "except", "refused"} /\ run'.phases = run.phases
    <3>1. CASE run' = [Goto(run, "sensor") EXCEPT !.counter = "open", !.sensor = "gpu"]
      BY <1>1, <3>1 DEF Goto, RunFields
    <3>2. CASE run' = s /\ OpenCounter
      <4>1. Trying(run.at)
        BY <3>2 DEF OpenCounter, At, Trying, Handling, Closing, Over
      <4> QED BY <1>2, <3>2, <4>1
    <3>3. CASE Prepare
      BY <1>1, <3>3 DEF Prepare, Goto, RunFields
    <3> QED BY <1>5, <3>1, <3>2, <3>3 DEF OpenCounter, s
  <2>4. CASE run'.at \in {"open", "sensor"}
    <3>1. run'.at \notin Stepping \cup {"log", "log-open"}
      BY <2>4 DEF Stepping
    <3>2. Meter(run'.at, run'.held, device, run.phases)
      BY <2>2, <3>1, MeterBetween
    <3> QED BY <1>1, <1>3, <2>3, <3>1, <3>2, MeterFrame
  <2> QED BY <1>4, <2>3, <2>4
<1>6. CASE ConstructWorker \/ Sleep
  <2>1. run.at = "body" /\ Trying(run.at) /\ Phase0.name \in {"startup"} \cup Idle
    BY <1>6 DEF ConstructWorker, Sleep, At, Trying, Handling, Closing, Over
  <2>2. run'.at \in {"end", "sampling", "except"} /\ run'.phases = run.phases
    <3>1. ASSUME NEW gpu, run' = [Goto(run, "end") EXCEPT !.worker = "open", !.workload = gpu]
          PROVE  run'.at = "end" /\ run'.phases = run.phases
      BY <1>1, <3>1 DEF Goto, RunFields
    <3>2. CASE run' = s
      BY <1>2, <2>1, <3>2
    <3>3. ASSUME NEW calls, run' = [s EXCEPT !.stuck = @ \cup calls]
          PROVE  run'.at = "except" /\ run'.phases = run.phases
      BY <1>2, <2>1, <3>3 DEF RunFields
    <3>4. CASE run' = Goto(run, "sampling")
      BY <1>1, <3>4 DEF Goto, RunFields
    <3> QED BY <1>6, <3>1, <3>2, <3>3, <3>4 DEF ConstructWorker, Sleep, s
  <2>3. PhasesInv /\ run.phases # <<>>
    BY <2>1 DEF JournalInv, StageInv, InPhases
  <2>4. Len(run.phases) # 4 /\ (Len(run.phases) >= 4 => IsSeq(run.phases[4].batches))
    <3>1. Len(run.phases) \in Nat /\ Phase0.name = PhaseNames[Len(run.phases)]
      BY <2>3, LastPhase
    <3>2. PhaseNames[4] = "measurement"
      BY DEF PhaseNames
    <3>3. Len(run.phases) >= 4 => 4 \in 1..Len(run.phases)
      BY <3>1
    <3> QED BY <2>1, <2>3, <3>1, <3>2, <3>3 DEF PhasesInv, Idle
  <2>5. CASE run'.at \in {"end", "sampling"}
    <3>1. run.at \in {"plan"} \cup Working \cup Publishing /\ run'.at \notin {"log", "log-open"}
      BY <2>1, <2>5 DEF Working
    <3>2. Meter(run.at, run.held, device, run.phases)
      BY DEF MeterInv
    <3>3. Meter(run'.at, run'.held, device', run'.phases)
      BY <1>3, <2>2, <2>4, <3>1, <3>2, MeterElsewhere
    <3> QED BY <1>1, <1>3, <3>1, <3>3, MeterFrame
  <2> QED BY <1>4, <2>2, <2>5
<1>7. CASE Return
  <2>1. run'.at = "close-worker"
    BY <1>1, <1>7 DEF Return, Goto, RunFields
  <2> QED BY <1>4, <2>1
<1> QED BY <1>5, <1>6, <1>7

\* The measured phase while it is under way.
LEMMA UnderWay ==
  ASSUME JournalInv, MeterInv, run.at \in Stepping
  PROVE  /\ run.phases # <<>> /\ Len(run.phases) \in 1..5
         /\ Phase0.name = "measurement" <=> Len(run.phases) = 4
         /\ DOMAIN Phase0 = PhaseFields /\ IsSeq(Phase0.samples) /\ IsSeq(Phase0.batches)
         /\ Len(run.phases) = 4 =>
              \E t \in Nat : Measuring(run.at, run.held, device, Phase0, t)
<1>1. run.phases # <<>> /\ PhasesInv
  BY DEF JournalInv, StageInv, InPhases, Stepping
<1>2. /\ Len(run.phases) \in 1..5 /\ Phase0 = run.phases[Len(run.phases)]
      /\ Phase0.name = PhaseNames[Len(run.phases)]
      /\ DOMAIN Phase0 = PhaseFields /\ IsSeq(Phase0.samples) /\ IsSeq(Phase0.batches)
  BY <1>1, LastPhase
<1>3. \A k \in 1..5 : PhaseNames[k] = "measurement" <=> k = 4
  BY DEF PhaseNames
<1>4. Phase0.name = "measurement" <=> Len(run.phases) = 4
  BY <1>2, <1>3
<1>5. run.at \in Working
  BY DEF Stepping, Working
<1>6. Len(run.phases) = 4 => \E t \in Nat : Measuring(run.at, run.held, device, run.phases[4], t)
  BY <1>5 DEF MeterInv, Meter
<1> QED BY <1>1, <1>2, <1>4, <1>6

\* The phase under way becomes p.
LEMMA InPhaseMeter ==
  ASSUME EndInv, JournalInv, MeterInv, run.at \in Stepping,
         NEW p, NEW next, NEW held, NEW phases, phases = InPhase(p).phases,
         Len(run.phases) = 4 =>
           \E t \in Nat : IF next \in Stepping THEN Measuring(next, held, device, p, t)
                          ELSE Measured(device, p, t)
  PROVE  Meter(next, held, device, phases)
<1>1. /\ run.phases # <<>> /\ PhasesInv /\ DOMAIN run = RunFields
      /\ run.at \in {"plan"} \cup Working \cup Publishing
  BY DEF EndInv, JournalInv, StageInv, InPhases, Stepping, Working
<1>2. PICK l : l = Len(run.phases)
  OBVIOUS
<1>3. l \in 1..5 /\ l \in 1..l /\ IsSeq(run.phases)
  BY <1>1, <1>2, LastPhase DEF PhasesInv
<1>4. /\ Len(phases) = l /\ phases[l] = p
      /\ \A i \in 1..l : i # l => phases[i] = run.phases[i]
  BY <1>1, <1>2, <1>3, InPhaseSequence
<1>5. CASE l = 4
  BY <1>2, <1>4, <1>5 DEF Meter
<1>6. CASE l = 5
  <2>1. phases[4] = run.phases[4] /\ IsSeq(run.phases[4].batches)
    BY <1>1, <1>2, <1>3, <1>4, <1>6 DEF PhasesInv
  <2>2. Meter(run.at, run.held, device, run.phases) /\ Later(device, device)
    BY DEF MeterInv, Later
  <2>3. Len(run.phases) >= 4 /\ Len(run.phases) # 4 /\ Len(phases) # 4
    BY <1>2, <1>4, <1>6
  <2> QED BY <1>1, <2>1, <2>2, <2>3, MeterElsewhere
<1>7. CASE l < 4
  <2>1. ~(Len(phases) >= 4)
    BY <1>3, <1>4, <1>7
  <2> QED BY <2>1, MeterNowhere
<1>8. l = 4 \/ l = 5 \/ l < 4
  BY <1>3
<1> QED BY <1>5, <1>6, <1>7, <1>8

LEMMA BeginMeter ==
  ASSUME EndInv, JournalInv, MeterInv, Begin
  PROVE  MeterInv'
<1>1. run.at = "begin" /\ device' = device
  BY DEF Begin, At, hardware
<1>2. /\ DOMAIN run = RunFields /\ PhasesInv /\ IsSeq(run.phases) /\ Len(run.phases) \in Nat
      /\ Len(run.phases) < 5
  BY <1>1, Sequences DEF EndInv, JournalInv, StageInv, Early, PhasesInv
<1> DEFINE p == Phase(PhaseNames[Len(run.phases) + 1])
<1>3. PICK works, n :
        Event([event |-> "sample", phase |-> p.name, value |-> Reading(works)],
              [run EXCEPT !.phases = Append(@, [p EXCEPT !.samples = <<Reading(works)>>])], "started", n)
  BY DEF Begin
<1> DEFINE q == [p EXCEPT !.samples = <<Reading(works)>>]
           e == [event |-> "sample", phase |-> p.name, value |-> Reading(works)]
           r == [run EXCEPT !.phases = Append(@, q)]
<1>4. q.samples = <<Reading(works)>> /\ q.batches = <<>>
  BY DEF Phase
<1>5. DOMAIN r = RunFields /\ r.at = run.at /\ r.phases = Append(run.phases, q)
  BY <1>2 DEF RunFields
<1>6. Event(e, r, "started", n)
  BY <1>3
<1> HIDE DEF p, q, e, r
<1>7. /\ Len(r.phases) = Len(run.phases) + 1 /\ r.phases[Len(run.phases) + 1] = q
      /\ \A i \in 1..Len(run.phases) : r.phases[i] = run.phases[i]
  BY <1>2, <1>5, Appended
<1>8. Meter("started", r.held, device, r.phases)
  <2>1. CASE Len(run.phases) = 3
    <3>1. Len(r.phases) = 4 /\ r.phases[4] = q
      BY <1>7, <2>1
    <3>2. Shows(device, Reading(works), device.consumed) /\ device.consumed \in Nat
      BY ReadingShows DEF MeterInv, DeviceInv
    <3>3. q.samples[1] = Reading(works) /\ Len(q.samples) = 1 /\ Len(q.batches) = 0
      BY <1>4
    <3>4. Measuring("started", r.held, device, q, device.consumed)
      BY <3>2, <3>3 DEF Measuring, Follow
    <3> QED BY <3>1, <3>2, <3>4 DEF Meter, Stepping
  <2>2. CASE Len(run.phases) = 4
    <3>1. 4 \in 1..Len(run.phases)
      BY <2>2
    <3>2. r.phases[4] = run.phases[4] /\ IsSeq(run.phases[4].batches) /\ Len(r.phases) = 5
      BY <1>2, <1>7, <2>2, <3>1 DEF PhasesInv
    <3>3. run.at \in {"plan"} \cup Working \cup Publishing /\ run.at \notin Stepping
      BY <1>1 DEF Working, Stepping
    <3>4. Meter(run.at, run.held, device, run.phases) /\ Later(device, device)
      BY DEF MeterInv, Later
    <3>5. Len(run.phases) >= 4 /\ Len(r.phases) # 4
      BY <2>2, <3>2
    <3> QED BY <3>2, <3>3, <3>4, <3>5, MeterElsewhere
  <2>3. CASE Len(run.phases) < 3
    <3>1. ~(Len(r.phases) >= 4)
      BY <1>2, <1>7, <2>3
    <3> QED BY <3>1, MeterNowhere
  <2>4. Len(run.phases) = 3 \/ Len(run.phases) = 4 \/ Len(run.phases) < 3
    <3>1. \A k \in Nat : k < 5 => k = 3 \/ k = 4 \/ k < 3
      OBVIOUS
    <3> QED BY <1>2, <3>1
  <2> QED BY <2>1, <2>2, <2>3, <2>4
<1> QED BY <1>1, <1>5, <1>6, <1>8, EventMeter

LEMMA StartedMeter ==
  ASSUME EndInv, JournalInv, MeterInv, Started
  PROVE  MeterInv'
<1>1. run.at = "started" /\ run.at \in Stepping /\ device' = device
  BY DEF Started, At, hardware, Stepping
<1> DEFINE p == [Phase0 EXCEPT !.start = clock]
           e == [event |-> "phase_start"]
           r == InPhase(p)
<1>2. p.samples = Phase0.samples /\ p.batches = Phase0.batches
  <2>1. DOMAIN Phase0 = PhaseFields
    BY <1>1, UnderWay
  <2> QED BY <2>1 DEF PhaseFields
<1>3. DOMAIN r = RunFields /\ r.at = run.at /\ r.phases = InPhase(p).phases
  BY DEF EndInv, InPhase, RunFields
<1>4. Event(e, r, "body", 0)
  BY DEF Started
<1> HIDE DEF p, e, r
<1>5. Len(run.phases) = 4 => \E t \in Nat : Measuring("body", r.held, device, p, t)
  <2> SUFFICES ASSUME Len(run.phases) = 4
               PROVE  \E t \in Nat : Measuring("body", r.held, device, p, t)
    OBVIOUS
  <2>1. PICK t \in Nat : Measuring(run.at, run.held, device, Phase0, t)
    BY <1>1, UnderWay
  <2>2. Measuring("body", r.held, device, p, t)
    BY <1>1, <1>2, <2>1 DEF Measuring
  <2> QED BY <2>2
<1>6. "body" \in Stepping /\ run.at # "plan" /\ "body" \notin {"log", "log-open"}
  BY <1>1 DEF Stepping
<1>7. Meter("body", r.held, device, r.phases)
  BY <1>1, <1>3, <1>5, <1>6, InPhaseMeter
<1> QED BY <1>1, <1>3, <1>4, <1>6, <1>7, EventMeter

LEMMA SamplesMeter ==
  ASSUME EndInv, JournalInv, MeterInv, SampleInside \/ End
  PROVE  MeterInv'
<1>1. run.at \in {"sampling", "end"} /\ run.at \in Stepping /\ device' = device
  BY DEF SampleInside, End, At, hardware, Stepping
<1>2. /\ DOMAIN Phase0 = PhaseFields /\ IsSeq(Phase0.samples) /\ IsSeq(Phase0.batches)
      /\ Phase0.name = "measurement" <=> Len(run.phases) = 4
  BY <1>1, UnderWay
<1>3. ASSUME NEW p, DOMAIN p = PhaseFields, p.samples = Phase0.samples, p.batches = Phase0.batches,
             NEW next, Sample(p, next), next \notin {"log", "log-open"},
             Len(run.phases) = 4 => next = IF run.at = "sampling" THEN "encode" ELSE "ended"
      PROVE  MeterInv'
  <2>1. PICK works, n :
          Event([event |-> "sample", phase |-> p.name, value |-> Reading(works)],
                InPhase([p EXCEPT !.samples = Append(@, Reading(works))]), next, n)
    BY <1>3 DEF Sample
  <2> DEFINE x == Reading(works)
             q == [p EXCEPT !.samples = Append(@, x)]
             e == [event |-> "sample", phase |-> p.name, value |-> x]
             r == InPhase(q)
  <2>2. q.samples = Append(Phase0.samples, x) /\ q.batches = Phase0.batches
    BY <1>3 DEF PhaseFields
  <2>3. DOMAIN r = RunFields /\ r.at = run.at /\ r.phases = InPhase(q).phases /\ r.held = run.held
    BY DEF EndInv, InPhase, RunFields
  <2>4. Event(e, r, next, n)
    BY <2>1
  <2>5. Shows(device, x, device.consumed)
    BY ReadingShows DEF MeterInv
  <2> HIDE DEF q, e, r, x
  <2>6. Len(run.phases) = 4 =>
          \E t \in Nat : IF next \in Stepping THEN Measuring(next, r.held, device, q, t)
                         ELSE Measured(device, q, t)
    <3> SUFFICES ASSUME Len(run.phases) = 4
                 PROVE  \E t \in Nat : IF next \in Stepping THEN Measuring(next, r.held, device, q, t)
                                       ELSE Measured(device, q, t)
      OBVIOUS
    <3>1. PICK t \in Nat : Measuring(run.at, run.held, device, Phase0, t)
      BY <1>1, UnderWay
    <3> DEFINE l == Len(Phase0.batches)
    <3>2. l \in Nat /\ Len(Phase0.samples) = l + 1
      BY <1>1, <1>2, <3>1, Sequences DEF Measuring
    <3>3. /\ Len(q.samples) = l + 2 /\ q.samples[1] = Phase0.samples[1] /\ q.samples[l + 2] = x
      <4>1. /\ Len(Append(Phase0.samples, x)) = Len(Phase0.samples) + 1
            /\ \A i \in 1..Len(Phase0.samples) : Append(Phase0.samples, x)[i] = Phase0.samples[i]
            /\ Append(Phase0.samples, x)[Len(Phase0.samples) + 1] = x
        BY <1>2, Appended
      <4>2. (l + 1) + 1 = l + 2 /\ 1 \in 1..(l + 1)
        BY <3>2
      <4> QED BY <2>2, <3>2, <4>1, <4>2
    <3>4. Len(q.batches) = l /\ Follow(q.batches, t) /\ Shows(device, q.samples[1], t)
      BY <2>2, <3>1, <3>3 DEF Measuring
    <3>5. CASE run.at = "sampling"
      <4>1. device.consumed = t + l + 1 /\ run.held.from = t + l /\ run.held.to = t + l + 1
        BY <3>1, <3>5 DEF Measuring
      <4>2. Measuring("encode", r.held, device, q, t)
        BY <2>3, <3>3, <3>4, <4>1 DEF Measuring
      <4>3. next = "encode" /\ next \in Stepping
        BY <1>3, <3>5 DEF Stepping
      <4> QED BY <4>2, <4>3
    <3>6. CASE run.at = "end"
      <4>1. device.consumed = t + l
        BY <3>1, <3>6 DEF Measuring
      <4>2. Measured(device, q, t)
        BY <2>5, <3>3, <3>4, <4>1 DEF Measured
      <4>3. next \notin Stepping
        BY <1>3, <3>6 DEF Stepping
      <4> QED BY <4>2, <4>3
    <3> QED BY <1>1, <3>5, <3>6
  <2>7. Meter(next, r.held, device, r.phases)
    BY <1>1, <2>3, <2>6, InPhaseMeter
  <2>8. run.at # "plan"
    BY <1>1
  <2> QED BY <1>1, <1>3, <2>3, <2>4, <2>7, <2>8, EventMeter
<1>4. CASE SampleInside
  <2> DEFINE next == IF Phase0.name \notin Idle THEN "encode"
                     ELSE IF Rested(Phase0) THEN "end" ELSE "body"
  <2>1. Sample(Phase0, next) /\ run.at = "sampling"
    BY <1>4 DEF SampleInside, At
  <2>2. Phase0.name = "measurement" => next = "encode"
    BY DEF Idle
  <2>3. next \in {"encode", "end", "body"}
    OBVIOUS
  <2> HIDE DEF next
  <2> QED BY <1>2, <1>3, <2>1, <2>2, <2>3
<1>5. CASE End
  <2> DEFINE p == [Phase0 EXCEPT !.end = clock]
  <2>1. Sample(p, "ended") /\ run.at = "end"
    BY <1>5 DEF End, At
  <2>2. DOMAIN p = PhaseFields /\ p.samples = Phase0.samples /\ p.batches = Phase0.batches
    BY <1>2 DEF PhaseFields
  <2> HIDE DEF p
  <2> QED BY <1>3, <2>1, <2>2
<1> QED BY <1>4, <1>5

LEMMA RetainBatchMeter ==
  ASSUME EndInv, JournalInv, MeterInv, RetainBatch
  PROVE  MeterInv'
<1>1. run.at = "encode" /\ run.at \in Stepping /\ device' = device /\ Trying(run.at)
  BY DEF RetainBatch, At, hardware, Stepping, Trying, Handling, Closing, Over
<1>2. DOMAIN Phase0 = PhaseFields /\ IsSeq(Phase0.batches) /\ DOMAIN run = RunFields
  BY <1>1, UnderWay DEF EndInv
<1> DEFINE p == [Phase0 EXCEPT !.batches = Append(@, run.held)]
           e == [event |-> "batch", phase |-> p.name, value |-> run.held]
           r == [InPhase(p) EXCEPT !.held = None]
           s == Raised(run)
<1>3. \/ \E next \in {"end", "body"} : Event(e, r, next, 0)
      \/ run' = [s EXCEPT !.held = None] /\ UNCHANGED files
  BY DEF RetainBatch
<1>4. p.batches = Append(Phase0.batches, run.held) /\ p.samples = Phase0.samples
  BY <1>2 DEF PhaseFields
<1>5. DOMAIN r = RunFields /\ r.at = run.at /\ r.phases = InPhase(p).phases
  BY <1>2 DEF InPhase, RunFields
<1>6. DOMAIN s = RunFields /\ s.at = "except"
  BY <1>1, <1>2, RaisedRun
<1> HIDE DEF p, e, r, s
<1>7. CASE run' = [s EXCEPT !.held = None] /\ UNCHANGED files
  <2>1. run'.at = "except"
    BY <1>6, <1>7 DEF RunFields
  <2>2. run'.at \notin {"plan"} \cup Working \cup Publishing
    BY <2>1 DEF Working, Publishing
  <2> QED BY <1>1, <1>7, <2>2, MeterAway
<1>8. ASSUME NEW next \in {"end", "body"}, Event(e, r, next, 0)
      PROVE  MeterInv'
  <2>1. Len(run.phases) = 4 => \E t \in Nat : Measuring(next, r.held, device, p, t)
    <3> SUFFICES ASSUME Len(run.phases) = 4
                 PROVE  \E t \in Nat : Measuring(next, r.held, device, p, t)
      OBVIOUS
    <3>1. PICK t \in Nat : Measuring(run.at, run.held, device, Phase0, t)
      BY <1>1, UnderWay
    <3> DEFINE l == Len(Phase0.batches)
    <3>2. /\ l \in Nat /\ Len(Phase0.samples) = l + 2 /\ device.consumed = t + l + 1
          /\ run.held.from = t + l /\ run.held.to = t + l + 1
          /\ Follow(Phase0.batches, t) /\ Shows(device, Phase0.samples[1], t)
      BY <1>1, <1>2, <3>1, Sequences DEF Measuring
    <3>3. /\ Len(p.batches) = l + 1 /\ p.batches[l + 1] = run.held
          /\ \A k \in 1..l : p.batches[k] = Phase0.batches[k]
      BY <1>2, <1>4, Appended
    <3>4. Follow(p.batches, t)
      <4> SUFFICES ASSUME NEW k \in 1..(l + 1)
                   PROVE  p.batches[k].from = t + k - 1 /\ p.batches[k].to = t + k
        BY <3>3 DEF Follow
      <4>1. CASE k = l + 1
        <5>1. t + k - 1 = t + l /\ t + k = t + l + 1
          BY <3>2, <4>1
        <5> QED BY <3>2, <3>3, <4>1, <5>1
      <4>2. CASE k \in 1..l
        BY <3>2, <3>3, <4>2 DEF Follow
      <4>3. k = l + 1 \/ k \in 1..l
        BY <3>2
      <4> QED BY <4>1, <4>2, <4>3
    <3>5. Len(p.samples) = Len(p.batches) + 1 /\ device.consumed = t + Len(p.batches)
      BY <1>4, <3>2, <3>3
    <3>6. Measuring(next, r.held, device, p, t)
      BY <1>4, <3>2, <3>4, <3>5 DEF Measuring
    <3> QED BY <3>6
  <2>2. next \in Stepping /\ next \notin {"log", "log-open"} /\ run.at # "plan"
    BY <1>1 DEF Stepping
  <2>3. Meter(next, r.held, device, r.phases)
    BY <1>1, <1>5, <2>1, <2>2, InPhaseMeter
  <2> QED BY <1>1, <1>5, <1>8, <2>2, <2>3, EventMeter
<1> QED BY <1>3, <1>7, <1>8

LEMMA SolveMeter ==
  ASSUME EndInv, JournalInv, MeterInv, Solve
  PROVE  MeterInv'
<1>1. /\ run.at = "body" /\ run.at \in Stepping /\ Trying(run.at) /\ DOMAIN run = RunFields
      /\ device' = [device EXCEPT !.consumed = @ + 1] /\ files'.log = files.log
  BY DEF Solve, At, Stepping, Trying, Handling, Closing, Over, EndInv
<1>2. /\ device'.consumed = device.consumed + 1 /\ device'.base = device.base
      /\ device'.coarse = device.coarse /\ DOMAIN device' = DOMAIN device
  BY <1>1 DEF MeterInv, DeviceInv
<1>3. DeviceInv' /\ Later(device, device')
  BY <1>2, CaptureTypes DEF MeterInv, DeviceInv, Later
<1> DEFINE s == Raised(run)
<1>4. DOMAIN s = RunFields /\ s.at = "except"
  BY <1>1, RaisedRun
<1> HIDE DEF s
<1>5. ASSUME NEW call, run' = [s EXCEPT !.stuck = @ \cup {call}]
      PROVE  MeterInv'
  <2>1. run'.at = "except"
    BY <1>4, <1>5 DEF RunFields
  <2>2. run'.at \notin {"plan"} \cup Working \cup Publishing
    BY <2>1 DEF Working, Publishing
  <2>3. Meter(run'.at, run'.held, device', run'.phases) /\ run'.at \notin {"log", "log-open"}
    BY <2>1, <2>2, MeterNowhere
  <2> QED BY <1>1, <1>3, <2>3, MeterFrame
<1>6. ASSUME NEW met,
             run' = [Goto(run, "sampling") EXCEPT !.held =
                       [start |-> clock, end |-> clock', met |-> met,
                        from |-> device.consumed, to |-> device'.consumed]]
      PROVE  MeterInv'
  <2>1. /\ run'.at = "sampling" /\ run'.phases = run.phases
        /\ run'.held.from = device.consumed /\ run'.held.to = device.consumed + 1
    BY <1>1, <1>2, <1>6 DEF Goto, RunFields
  <2>2. Meter(run'.at, run'.held, device', run.phases)
    <3>1. CASE Len(run.phases) = 4
      <4>1. PICK t \in Nat : Measuring(run.at, run.held, device, Phase0, t)
        BY <1>1, <3>1, UnderWay
      <4>2. Phase0 = run.phases[4] /\ IsSeq(Phase0.batches)
        BY <1>1, <3>1, UnderWay, LastPhase DEF JournalInv
      <4> DEFINE l == Len(Phase0.batches)
      <4>3. /\ l \in Nat /\ Len(Phase0.samples) = l + 1 /\ device.consumed = t + l
            /\ Follow(Phase0.batches, t) /\ Shows(device, Phase0.samples[1], t)
        BY <1>1, <4>1, <4>2, Sequences DEF Measuring
      <4>4. Shows(device', Phase0.samples[1], t)
        BY <1>3, <4>3, ShowsLater
      <4>5. device'.consumed = t + l + 1 /\ run'.held.from = t + l /\ run'.held.to = t + l + 1
        BY <1>2, <2>1, <4>3
      <4>6. Measuring("sampling", run'.held, device', Phase0, t)
        BY <4>3, <4>4, <4>5 DEF Measuring
      <4> QED BY <2>1, <3>1, <4>2, <4>6 DEF Meter, Stepping
    <3>2. CASE Len(run.phases) # 4
      <4>1. Len(run.phases) >= 4 => IsSeq(run.phases[4].batches)
        <5>1. Len(run.phases) \in Nat
          BY Sequences DEF JournalInv, PhasesInv
        <5>2. Len(run.phases) >= 4 => 4 \in 1..Len(run.phases)
          BY <5>1
        <5> QED BY <5>2 DEF JournalInv, PhasesInv
      <4>2. Meter(run.at, run.held, device, run.phases) /\ run.at \in {"plan"} \cup Working \cup Publishing
        BY <1>1 DEF MeterInv, Working
      <4> QED BY <1>3, <3>2, <4>1, <4>2, MeterElsewhere
    <3> QED BY <3>1, <3>2
  <2>3. run'.at \notin {"log", "log-open"}
    BY <2>1
  <2> QED BY <1>1, <1>3, <2>1, <2>2, <2>3, MeterFrame
<1> QED BY <1>5, <1>6 DEF Solve, s

LEMMA SealMeter ==
  ASSUME EndInv, JournalInv, MeterInv, Seal
  PROVE  MeterInv'
<1> DEFINE log == [sensor |-> run.sensor, workload |-> run.workload, phases |-> run.phases]
<1>1. /\ run.at = "seal" /\ files'.log = files.log /\ device' = device /\ DOMAIN run = RunFields
      /\ run' = IF Valid(log) THEN [Goto(run, "log") EXCEPT !.held = log] ELSE Raised(run)
  BY DEF Seal, At, hardware, EndInv
<1>2. DOMAIN log = LogFields
  BY DEF LogFields
<1> HIDE DEF log
<1>3. run.at \in ({"plan"} \cup Working \cup Publishing) \ Stepping /\ Trying(run.at)
  BY <1>1 DEF Working, Stepping, Trying, Handling, Closing, Over
<1>4. CASE ~Valid(log)
  <2>1. run'.at = "except"
    BY <1>1, <1>3, <1>4, RaisedRun
  <2>2. run'.at \notin {"plan"} \cup Working \cup Publishing
    BY <2>1 DEF Working, Publishing
  <2> QED BY <1>1, <2>2, MeterAway
<1>5. CASE Valid(log)
  <2>1. run'.at = "log" /\ run'.held = log /\ run'.phases = run.phases
    BY <1>1, <1>5 DEF Goto, RunFields
  <2>2. run'.at \notin Stepping
    BY <2>1 DEF Stepping
  <2>3. Meter(run'.at, run'.held, device, run.phases)
    BY <1>3, <2>2, MeterBetween
  <2> QED BY <1>1, <1>2, <2>1, <2>3 DEF MeterInv, DeviceInv
<1> QED BY <1>4, <1>5

\* The phases that are published were measured.
LEMMA HeldMeasured ==
  ASSUME JournalInv, MeterInv, run.at = "log-open"
  PROVE  MeasuredLog(device, run.held)
<1>1. /\ Valid(run.held) /\ run.held.phases = run.phases /\ DOMAIN run.held = LogFields
      /\ PhasesInv /\ IsSeq(run.phases)
  BY DEF JournalInv, SealedInv, Sealed, MeterInv, PhasesInv
<1>2. Len(run.phases) = 5
  BY <1>1, Names DEF Valid, OrderedPhases
<1>3. 4 \in 1..Len(run.phases) /\ Len(run.phases) >= 4 /\ Len(run.phases) # 4
  BY <1>2
<1>4. /\ DOMAIN run.phases[4] = PhaseFields /\ run.phases[4].name = PhaseNames[4]
      /\ IsSeq(run.phases[4].samples) /\ IsSeq(run.phases[4].batches)
  BY <1>1, <1>3 DEF PhasesInv
<1>5. PhaseNames[4] = "measurement"
  BY DEF PhaseNames
<1>6. run.at \in {"plan"} \cup Working \cup Publishing
  BY DEF Publishing
<1>7. \E t \in Nat : Measured(device, run.phases[4], t)
  BY <1>3, <1>6 DEF MeterInv, Meter
<1> QED BY <1>1, <1>4, <1>5, <1>7 DEF MeasuredLog

LEMMA PublishLogMeter ==
  ASSUME EndInv, JournalInv, MeterInv, PublishLog
  PROVE  MeterInv'
<1>1. /\ run.at \in {"log", "log-open"} /\ Publish("log", run.held, "log-open", "report")
      /\ device' = device
  BY DEF PublishLog, hardware
<1>2. "log" \in FileFields /\ Trying(run.at)
  BY <1>1 DEF FileFields, Trying, Handling, Closing, Over
<1>3. run'.phases = run.phases /\ run'.held = run.held
  BY <1>1, <1>2, PublishRun
<1>4. \/ /\ run.at # "log-open" /\ ~files["log"].made /\ files'["log"] = Created
         /\ run'.at = "log-open" /\ run'.cut = run.cut /\ run'.disk = run.disk
      \/ /\ run.at = "log-open" /\ files'["log"] = Holds(run.held)
         /\ run'.at = "report" /\ run'.cut = run.cut /\ run'.disk = run.disk
      \/ /\ files' = files /\ run'.disk = TRUE
         /\ run'.at = Raised(run).at /\ run'.cut = Raised(run).cut
  BY <1>1, <1>2, PublishRun
<1>5. run.at \in ({"plan"} \cup Working \cup Publishing) \ Stepping
  BY <1>1 DEF Working, Publishing, Stepping
<1>6. DOMAIN run.held = LogFields
  BY <1>1 DEF MeterInv
<1>7. DeviceInv'
  BY <1>1 DEF MeterInv, DeviceInv
<1>8. CASE files' = files /\ run'.at = Raised(run).at
  <2>1. run'.at = "except"
    BY <1>2, <1>8, RaisedRun DEF EndInv
  <2>2. run'.at \notin {"plan"} \cup Working \cup Publishing
    BY <2>1 DEF Working, Publishing
  <2> QED BY <1>1, <1>8, <2>2, MeterAway
<1>9. CASE files'["log"] = Created /\ run'.at = "log-open"
  <2>1. files'.log.written = FALSE
    BY <1>9 DEF Created
  <2>2. "log-open" \notin Stepping
    BY DEF Stepping
  <2>3. Meter(run'.at, run'.held, device, run.phases)
    BY <1>5, <1>9, <2>2, MeterBetween
  <2> QED BY <1>1, <1>3, <1>6, <1>7, <2>1, <2>3 DEF MeterInv
<1>10. CASE run.at = "log-open" /\ files'["log"] = Holds(run.held) /\ run'.at = "report"
  <2>1. files'.log.value = run.held
    BY <1>10 DEF Holds
  <2>2. MeasuredLog(device, run.held)
    BY <1>10, HeldMeasured
  <2>3. run'.at \notin Stepping \cup {"log", "log-open"}
    BY <1>10 DEF Stepping
  <2>4. Meter(run'.at, run'.held, device, run.phases)
    BY <1>5, <2>3, MeterBetween
  <2> QED BY <1>1, <1>3, <1>7, <2>1, <2>2, <2>3, <2>4 DEF MeterInv
<1> QED BY <1>4, <1>8, <1>9, <1>10

LEMMA PublishReportMeter ==
  ASSUME EndInv, JournalInv, MeterInv, PublishReport
  PROVE  MeterInv'
<1> DEFINE report == Analyze(run.held)
<1>1. /\ run.at \in {"report", "report-open"} /\ Publish("report", report, "report-open", "complete")
      /\ device' = device
  BY DEF PublishReport, hardware
<1> HIDE DEF report
<1>2. "report" \in FileFields /\ Trying(run.at) /\ "log" \in FileFields
  BY <1>1 DEF FileFields, Trying, Handling, Closing, Over
<1>3. run'.phases = run.phases /\ \A f \in FileFields \ {"report"} : files'[f] = files[f]
  BY <1>1, <1>2, PublishRun
<1>4. \/ /\ run.at # "report-open" /\ ~files["report"].made /\ files'["report"] = Created
         /\ run'.at = "report-open" /\ run'.cut = run.cut /\ run'.disk = run.disk
      \/ /\ run.at = "report-open" /\ files'["report"] = Holds(report)
         /\ run'.at = "complete" /\ run'.cut = run.cut /\ run'.disk = run.disk
      \/ /\ files' = files /\ run'.disk = TRUE
         /\ run'.at = Raised(run).at /\ run'.cut = Raised(run).cut
  BY <1>1, <1>2, PublishRun
<1>5. run.at \in ({"plan"} \cup Working \cup Publishing) \ Stepping
  BY <1>1 DEF Publishing, Stepping
<1>6. files'.log = files.log
  BY <1>2, <1>3
<1>7. Raised(run).at = "except"
  BY <1>2, RaisedRun DEF EndInv
<1>8. run'.at \in {"report-open", "complete", "except"}
  BY <1>4, <1>7
<1>9. run'.at \notin Stepping \cup {"log", "log-open"}
  BY <1>8 DEF Stepping
<1>10. Meter(run'.at, run'.held, device, run.phases)
  BY <1>5, <1>9, MeterBetween
<1>11. DeviceInv' /\ Later(device, device')
  BY <1>1 DEF MeterInv, DeviceInv, Later
<1> QED BY <1>1, <1>3, <1>6, <1>9, <1>10, <1>11, MeterFrame

\* The handling of a failure and the clean-up.
LEMMA LeavingMeter ==
  ASSUME EndInv, JournalInv, MeterInv,
         \/ FinishFailed \/ EndFailed \/ NoteUnavailable \/ NoteFailure \/ PublishFailure
         \/ CloseWorker \/ CloseCounter \/ NoteCleanup
  PROVE  MeterInv'
<1>1. /\ device' = device /\ run.at \in Handling \cup Closing
      /\ DOMAIN run = RunFields /\ DOMAIN files = FileFields
  BY DEF FinishFailed, EndFailed, NoteUnavailable, NoteFailure, PublishFailure, CloseWorker,
         CloseCounter, NoteCleanup, Note, At, hardware, Handling, Closing, EndInv
<1>2. ASSUME NEW r, DOMAIN r = RunFields, r.at = run.at
      PROVE  Raised(r).at \in {"close-worker", "raised"}
  <2>1. Raised(r).at = IF Trying(r.at) THEN "except" ELSE IF r.at \in Handling THEN "close-worker" ELSE "raised"
    BY <1>2, RaisedRun
  <2>2. ~Trying(r.at)
    BY <1>1, <1>2 DEF Trying
  <2> QED BY <2>1, <2>2
<1> DEFINE Left == Handling \cup Closing \cup {"returned", "raised"}
<1>3. SUFFICES files'.log = files.log /\ run'.at \in Left
  <2>1. run'.at \notin {"plan"} \cup Working \cup Publishing
    BY <1>3 DEF Handling, Closing, Working, Publishing
  <2> QED BY <1>1, <1>3, <2>1, MeterAway
<1>4. ASSUME NEW e, NEW r, NEW next \in Left, NEW n, Event(e, r, next, n), DOMAIN r = RunFields, r.at = run.at
      PROVE  files'.log = files.log /\ run'.at \in Left
  <2>1. /\ files'.log = files.log
        /\ \/ /\ run'.at = next /\ run'.cut = r.cut /\ run'.disk = r.disk
              /\ files'.journal = Append(files.journal, e)
           \/ /\ run'.at = Raised(r).at /\ run'.cut = Raised(r).cut /\ run'.disk = TRUE
              /\ files' = files
    BY <1>1, <1>4, EventRun
  <2>2. {"close-worker", "raised"} \subseteq Left
    BY DEF Closing
  <2> QED BY <1>2, <1>4, <2>1, <2>2
<1>5. CASE FinishFailed
  <2>1. CASE run' = Goto(run, "failure") /\ UNCHANGED files
    BY <1>1, <2>1 DEF Goto, RunFields, Handling
  <2>2. ASSUME NEW p, Sample(p, "except-ended")
        PROVE  files'.log = files.log /\ run'.at \in Left
    <3>1. PICK e, x, n : Event(e, InPhase(x), "except-ended", n)
      BY <2>2 DEF Sample
    <3>2. DOMAIN InPhase(x) = RunFields /\ InPhase(x).at = run.at
      BY <1>1 DEF InPhase, RunFields
    <3>3. "except-ended" \in Left
      BY DEF Handling
    <3> QED BY <1>4, <3>1, <3>2, <3>3
  <2>3. ASSUME NEW x, run' = [Goto(InPhase(x), "unavailable") EXCEPT !.disk = TRUE], UNCHANGED files
        PROVE  files'.log = files.log /\ run'.at \in Left
    BY <1>1, <2>3 DEF Goto, InPhase, RunFields, Handling
  <2> QED BY <1>5, <2>1, <2>2, <2>3 DEF FinishFailed
<1>6. CASE EndFailed
  <2>1. CASE /\ files' = [files EXCEPT !.journal = Append(@, [event |-> "phase_end"])]
             /\ run' = Goto(run, "failure")
    BY <1>1, <2>1 DEF Goto, RunFields, FileFields, Handling
  <2>2. CASE UNCHANGED files /\ run' = [Goto(run, "unavailable") EXCEPT !.disk = TRUE]
    BY <1>1, <2>2 DEF Goto, RunFields, Handling
  <2> QED BY <1>6, <2>1, <2>2 DEF EndFailed
<1>7. CASE NoteUnavailable \/ NoteFailure \/ NoteCleanup
  <2>1. Finish(run).at \in Left
    BY <1>1 DEF Finish, Goto, RunFields
  <2>2. ASSUME NEW kind, NEW next \in Left, Event([event |-> kind], run, next, 0)
        PROVE  files'.log = files.log /\ run'.at \in Left
    BY <1>1, <1>4, <2>2
  <2>3. CASE NoteUnavailable
    <3>1. Event([event |-> "failure_endpoint_unavailable"], run, "failure", 0)
      BY <2>3 DEF NoteUnavailable, Note
    <3>2. "failure" \in Left
      BY DEF Handling
    <3> QED BY <2>2, <3>1, <3>2
  <2>4. CASE NoteFailure
    <3>1. PICK kind : Event([event |-> kind], run, "failure-file", 0)
      BY <2>4 DEF NoteFailure, Note
    <3>2. "failure-file" \in Left
      BY DEF Handling
    <3> QED BY <2>2, <3>1, <3>2
  <2>5. CASE NoteCleanup
    <3>1. PICK kind, next : next \in {"close-counter", Finish(run).at} /\ Event([event |-> kind], run, next, 0)
      BY <2>5 DEF NoteCleanup, Note
    <3>2. next \in Left
      BY <2>1, <3>1 DEF Closing
    <3> QED BY <2>2, <3>1, <3>2
  <2> QED BY <1>7, <2>3, <2>4, <2>5
<1>8. CASE PublishFailure
  <2>1. /\ Publish("failure", run.phases, "failure-open", "close-worker")
        /\ "failure" \in FileFields /\ "log" \in FileFields
    BY <1>8 DEF PublishFailure, FileFields
  <2>2. \A f \in FileFields \ {"failure"} : files'[f] = files[f]
    BY <2>1, PublishRun
  <2>3. \/ /\ run.at # "failure-open" /\ ~files["failure"].made /\ files'["failure"] = Created
           /\ run'.at = "failure-open" /\ run'.cut = run.cut /\ run'.disk = run.disk
        \/ /\ run.at = "failure-open" /\ files'["failure"] = Holds(run.phases)
           /\ run'.at = "close-worker" /\ run'.cut = run.cut /\ run'.disk = run.disk
        \/ /\ files' = files /\ run'.disk = TRUE
           /\ run'.at = Raised(run).at /\ run'.cut = Raised(run).cut
    BY <2>1, PublishRun
  <2>4. run'.at \in {"failure-open", "close-worker", "raised"}
    BY <1>1, <1>2, <2>3
  <2> QED BY <2>1, <2>2, <2>4 DEF Handling, Closing
<1>9. CASE CloseWorker \/ CloseCounter
  <2>1. run'.at \in {"close-counter", "cleanup-worker", "cleanup-counter", "returned", "raised"}
    <3>1. CASE run' = Goto(run, "close-counter")
      BY <1>1, <3>1 DEF Goto, RunFields
    <3>2. CASE run' = [Goto(run, "close-counter") EXCEPT !.worker = "closed"]
      BY <1>1, <3>2 DEF Goto, RunFields
    <3>3. CASE run' = NoteUnclosed(run)
      BY <1>1, <3>3 DEF NoteUnclosed, Goto, RunFields
    <3>4. CASE run' = Finish(run)
      BY <1>1, <3>4 DEF Finish, Goto, RunFields
    <3>5. CASE run' = Finish([run EXCEPT !.counter = "closed"])
      BY <1>1, <3>5 DEF Finish, Goto, RunFields
    <3>6. CASE run' = [Goto(run, "cleanup-counter") EXCEPT !.counter = "closed", !.stuck = @ \cup {"shutdown"}]
      BY <1>1, <3>6 DEF Goto, RunFields
    <3> QED BY <1>9, <3>1, <3>2, <3>3, <3>4, <3>5, <3>6 DEF CloseWorker, CloseCounter
  <2>2. UNCHANGED files
    BY <1>9 DEF CloseWorker, CloseCounter
  <2> QED BY <2>1, <2>2 DEF Closing
<1> QED BY <1>5, <1>6, <1>7, <1>8, <1>9

LEMMA EnvironmentMeter ==
  ASSUME EndInv, JournalInv, MeterInv, Interrupt \/ Crash \/ Reset \/ UNCHANGED vars
  PROVE  MeterInv'
<1>1. CASE Interrupt
  <2>1. /\ run' = Raised(run) /\ files'.log = files.log /\ device' = device
    BY <1>1 DEF Interrupt, hardware
  <2>2. Raised(run).at = IF Trying(run.at) THEN "except" ELSE IF run.at \in Handling THEN "close-worker" ELSE "raised"
    BY RaisedRun DEF EndInv
  <2>3. run'.at \notin {"plan"} \cup Working \cup Publishing
    BY <2>1, <2>2 DEF Working, Publishing
  <2> QED BY <2>1, <2>3, MeterAway
<1>2. CASE Crash
  <2>1. run'.at = "crashed" /\ files'.log = files.log /\ device' = device
    BY <1>2 DEF Crash, hardware, EndInv, Goto, RunFields
  <2>2. run'.at \notin {"plan"} \cup Working \cup Publishing
    BY <2>1 DEF Working, Publishing
  <2> QED BY <2>1, <2>2, MeterAway
<1>3. CASE Reset
  <2>1. /\ device' = [device EXCEPT !.base = device.consumed] /\ device.base = 0
        /\ UNCHANGED <<files, run>>
    BY <1>3 DEF Reset
  <2>2. /\ device'.consumed = device.consumed /\ device'.base = device.consumed
        /\ device'.coarse = device.coarse /\ DOMAIN device' = DOMAIN device
    BY <2>1 DEF MeterInv, DeviceInv
  <2>3. DeviceInv' /\ Later(device, device')
    BY <2>1, <2>2 DEF MeterInv, DeviceInv, Later
  <2>4. Meter(run.at, run.held, device', run.phases)
    <3> SUFFICES ASSUME run.at \in {"plan"} \cup Working \cup Publishing, Len(run.phases) >= 4
                 PROVE  \E t \in Nat : IF Len(run.phases) = 4 /\ run.at \in Stepping
                                       THEN Measuring(run.at, run.held, device', run.phases[4], t)
                                       ELSE Measured(device', run.phases[4], t)
      BY DEF Meter
    <3>1. PICK t \in Nat : IF Len(run.phases) = 4 /\ run.at \in Stepping
                           THEN Measuring(run.at, run.held, device, run.phases[4], t)
                           ELSE Measured(device, run.phases[4], t)
      BY DEF MeterInv, Meter
    <3>2. IsSeq(run.phases[4].batches)
      <4>1. Len(run.phases) \in Nat
        BY Sequences DEF JournalInv, PhasesInv
      <4>2. 4 \in 1..Len(run.phases)
        BY <4>1
      <4> QED BY <4>2 DEF JournalInv, PhasesInv
    <3>3. CASE Len(run.phases) = 4 /\ run.at \in Stepping
      <4>1. Measuring(run.at, run.held, device', run.phases[4], t)
        BY <2>2, <2>3, <3>1, <3>3, MeasuringLater
      <4> QED BY <3>3, <4>1
    <3>4. CASE ~(Len(run.phases) = 4 /\ run.at \in Stepping)
      <4>1. Measured(device', run.phases[4], t)
        BY <2>3, <3>1, <3>2, <3>4, MeasuredLater
      <4> QED BY <3>4, <4>1
    <3> QED BY <3>3, <3>4
  <2> QED BY <2>1, <2>3, <2>4, MeterFrame
<1>4. CASE UNCHANGED vars
  BY <1>4 DEF vars, hardware, MeterInv, DeviceInv
<1> QED BY <1>1, <1>2, <1>3, <1>4

LEMMA MeterStep == EndInv /\ JournalInv /\ MeterInv /\ [Next]_vars => MeterInv'
<1> SUFFICES ASSUME EndInv, JournalInv, MeterInv, [Next]_vars
             PROVE  MeterInv'
  OBVIOUS
<1>1. CASE UNCHANGED vars \/ Again
  BY <1>1, EnvironmentMeter DEF Again
<1>2. CASE Prepare \/ OpenJournal \/ OpenCounter \/ RetainSensor \/ Begin \/ Started
  BY <1>2, QuietMeter, NotesMeter, BeginMeter, StartedMeter
<1>3. CASE ConstructWorker \/ Solve \/ Sleep \/ SampleInside \/ RetainBatch \/ End \/ Ended
  BY <1>3, QuietMeter, SolveMeter, SamplesMeter, RetainBatchMeter, NotesMeter
<1>4. CASE RetainWorkload \/ Seal \/ PublishLog \/ PublishReport \/ Complete \/ Return
  BY <1>4, SealMeter, PublishLogMeter, PublishReportMeter, NotesMeter, QuietMeter
<1>5. CASE \/ FinishFailed \/ EndFailed \/ NoteUnavailable \/ NoteFailure \/ PublishFailure
           \/ CloseWorker \/ CloseCounter \/ NoteCleanup
  BY <1>5, LeavingMeter
<1>6. CASE Interrupt \/ Crash \/ Reset
  BY <1>6, EnvironmentMeter
<1> QED BY <1>1, <1>2, <1>3, <1>4, <1>5, <1>6 DEF Next

LEMMA MeterInit == Init => MeterInv
<1> SUFFICES ASSUME Init
             PROVE  MeterInv
  OBVIOUS
<1>1. /\ run.phases = <<>> /\ run.at = "plan" /\ files.log.written = FALSE
      /\ device.consumed = Full /\ device.base = 0 /\ device.coarse \in BOOLEAN
      /\ DOMAIN device = {"consumed", "base", "coarse"}
  BY DEF Init, NoFile
<1>2. DeviceInv
  BY <1>1, CaptureTypes DEF DeviceInv
<1>3. ~(Len(run.phases) >= 4)
  BY <1>1, Empty
<1> QED BY <1>1, <1>2, <1>3, MeterNowhere DEF MeterInv

-----------------------------------------------------------------------------
(* Proofs: what an eligible log says. *)

LEMMA NotFound ==
  ASSUME NEW reasons, Found(reasons) = {}, NEW r \in DOMAIN reasons
  PROVE  ~reasons[r]
BY DEF Found

\* What none of the reasons against it being found means.
LEMMA EligiblePhase ==
  ASSUME NEW log, Reasons(log) = {}
  PROVE  LET p == log.phases[4]
         IN  /\ TargetMet(p) /\ Unusable(p) = {}
             /\ Gross(p) = Last(p.samples).energy - First(p.samples).energy /\ Gross(p) # 0
<1> DEFINE p == log.phases[4]
           others == {log.phases[i] : i \in {1, 2, 3, 5}}
           rest == [observed_counter_continuity_loss |-> Decreases(AllSamples(log.phases)),
                    accuracy_target_not_met |-> ~TargetMet(p),
                    minimum_duration_not_met |-> p.end - p.start < MinimumDuration,
                    device_mismatch |-> log.sensor # log.workload,
                    declared_warmup_not_completed |->
                      Len(log.phases[2].batches) # WarmupBatches \/ log.phases[2].error,
                    phase_error |-> \E q \in others : q.error,
                    other_measurement_invalid |-> \E q \in others : Unusable(q) # {},
                    idle_duration_not_met |->
                      \E q \in others : q.name \in Idle /\ q.end - q.start < IdleDuration]
<1>1. Reasons(log) = PhaseReasons(p) \cup Found(rest)
  BY DEF Reasons
<1>2. PhaseReasons(p) = {} /\ Found(rest) = {}
  BY <1>1
<1>3. "accuracy_target_not_met" \in DOMAIN rest /\ (rest["accuracy_target_not_met"] <=> ~TargetMet(p))
  OBVIOUS
<1>4. TargetMet(p)
  <2> HIDE DEF rest
  <2> QED BY <1>2, <1>3, NotFound
<1>5. Unusable(p) = {} /\ Gross(p) # 0
  BY <1>2 DEF PhaseReasons
<1>6. Gross(p) = Last(p.samples).energy - First(p.samples).energy
  BY <1>5 DEF Gross
<1> QED BY <1>4, <1>5, <1>6

LEMMA UsablePhase ==
  ASSUME NEW p, Unusable(p) = {}
  PROVE  ~ReadErrors(p.samples) /\ ~Decreases(p.samples) /\ ReadPerBatch(p)
<1> DEFINE found == [phase_error |-> p.error,
                     missing_endpoint_brackets |-> ~Bracketed(p),
                     counter_read_error |-> ReadErrors(p.samples),
                     reset_or_wrap_ambiguous |-> Decreases(p.samples),
                     missing_or_misaligned_batch_counter_read |-> ~ReadPerBatch(p)]
<1>1. Found(found) = {}
  BY DEF Unusable
<1>2. /\ {"counter_read_error", "reset_or_wrap_ambiguous", "missing_or_misaligned_batch_counter_read"}
           \subseteq DOMAIN found
      /\ found["counter_read_error"] <=> ReadErrors(p.samples)
      /\ found["reset_or_wrap_ambiguous"] <=> Decreases(p.samples)
      /\ found["missing_or_misaligned_batch_counter_read"] <=> ~ReadPerBatch(p)
  OBVIOUS
<1> HIDE DEF found
<1> QED BY <1>1, <1>2, NotFound

\* A counter that shows no decrease and some increase from the first reading to the last
\* was not reset between them, or shows more than was consumed.
LEMMA IncreaseCovers ==
  ASSUME NEW d, d.base \in Nat, d.base = 0 \/ d.base >= Full, d.coarse \in BOOLEAN,
         NEW l \in Nat, l <= MaxBatches, NEW t \in Nat,
         NEW first, NEW last, Shows(d, first, t), Shows(d, last, t + l),
         first.energy # None, last.energy # None,
         last.energy - first.energy # 0, ~(last.energy < first.energy)
  PROVE  last.energy - first.energy >= l
<1>1. Full \in Nat /\ MaxBatches \in Nat /\ Full > MaxBatches
  BY CaptureTypes, PlanTypes
<1>2. CASE d.coarse
  BY <1>2 DEF Shows
<1>3. CASE ~d.coarse
  <2>1. first.energy \in {t, t - d.base} /\ last.energy \in {t + l, t + l - d.base}
    BY <1>3 DEF Shows
  <2> QED BY <1>1, <2>1
<1> QED BY <1>2, <1>3

\* What is consumed from the first measured batch to the last, and what the counter showed.
LEMMA EligibleCovers ==
  ASSUME DeviceInv, NEW log, DOMAIN log.phases[4] = PhaseFields,
         IsSeq(log.phases[4].samples), IsSeq(log.phases[4].batches),
         Len(log.phases[4].batches) <= MaxBatches,
         \E t \in Nat : Measured(device, log.phases[4], t)
  PROVE  Covers(log)
<1> SUFFICES ASSUME Reasons(log) = {}
             PROVE  Analyze(log).gross >= Last(log.phases[4].batches).to - First(log.phases[4].batches).from
  BY DEF Covers, Analyze
<1> DEFINE p == log.phases[4]
           l == Len(p.batches)
<1>1. /\ TargetMet(p) /\ Unusable(p) = {}
      /\ Gross(p) = Last(p.samples).energy - First(p.samples).energy /\ Gross(p) # 0
  BY EligiblePhase
<1>2. ~ReadErrors(p.samples) /\ ~Decreases(p.samples)
  BY <1>1, UsablePhase
<1>3. l \in Nat /\ l >= 1
  <2>1. p.batches # <<>>
    BY <1>1 DEF TargetMet
  <2> QED BY <2>1, Sequences
<1>4. PICK t \in Nat : Measured(device, p, t)
  OBVIOUS
<1>5. /\ Len(p.samples) = l + 2
      /\ First(p.samples) = p.samples[1] /\ Last(p.samples) = p.samples[l + 2]
      /\ First(p.batches) = p.batches[1] /\ Last(p.batches) = p.batches[l]
  BY <1>4 DEF Measured, First, Last
<1>6. Last(p.batches).to = t + l /\ First(p.batches).from = t
  <2>1. 1 \in 1..l /\ l \in 1..l
    BY <1>3
  <2>2. p.batches[1].from = t + 1 - 1 /\ p.batches[l].to = t + l
    BY <1>4, <2>1 DEF Measured, Follow
  <2> QED BY <1>5, <2>2
<1>7. /\ 1 \in 1..Len(p.samples) /\ l + 2 \in 1..Len(p.samples) /\ 1 < l + 2
  BY <1>3, <1>5
<1>8. /\ p.samples[1].energy # None /\ p.samples[l + 2].energy # None
      /\ ~(p.samples[l + 2].energy < p.samples[1].energy)
  BY <1>2, <1>7 DEF ReadErrors, Decreases
<1>9. /\ Shows(device, p.samples[1], t) /\ Shows(device, p.samples[l + 2], t + l)
  BY <1>4 DEF Measured
<1>10. p.samples[l + 2].energy - p.samples[1].energy >= l
  <2>1. device.base \in Nat /\ (device.base = 0 \/ device.base >= Full) /\ device.coarse \in BOOLEAN
    BY DEF DeviceInv
  <2> QED BY <1>1, <1>3, <1>5, <1>8, <1>9, <2>1, IncreaseCovers
<1>11. Analyze(log).gross = Gross(p)
  BY DEF Analyze
<1>12. Analyze(log).gross >= l
  BY <1>1, <1>5, <1>10, <1>11
<1>13. Last(p.batches).to - First(p.batches).from = l
  BY <1>3, <1>6
<1> QED BY <1>12, <1>13

\* A log with one reading for each batch besides the endpoints, or no batch.
LEMMA EligibleAligned ==
  ASSUME NEW log, Reasons(log) = {}
  PROVE  Len(log.phases[4].samples) = Len(log.phases[4].batches) + 2
<1>1. TargetMet(log.phases[4]) /\ ReadPerBatch(log.phases[4])
  BY EligiblePhase, UsablePhase
<1> QED BY <1>1 DEF TargetMet, ReadPerBatch

LEMMA Removed ==
  ASSUME NEW s, IsSeq(s), NEW k \in 1..Len(s)
  PROVE  Len(RemoveAt(s, k)) = Len(s) - 1
<1> DEFINE before == SubSeq(s, 1, k - 1)
           after == SubSeq(s, k + 1, Len(s))
<1>1. s \in Seq(Range(s)) /\ Len(s) \in Nat
  BY DEF IsSeq
<1>2. before \in Seq(Range(s)) /\ Len(before) = k - 1
  BY <1>1
<1>3. after \in Seq(Range(s)) /\ Len(after) = Len(s) - k
  BY <1>1
<1>4. RemoveAt(s, k) = before \o after
  BY DEF RemoveAt
<1> HIDE DEF before, after
<1>5. Len(before \o after) = Len(before) + Len(after)
  BY <1>2, <1>3
<1>6. k \in Int /\ k - 1 + (Len(s) - k) = Len(s) - 1
  BY <1>1
<1> QED BY <1>2, <1>3, <1>4, <1>5, <1>6

\* One sample or batch less: it is another phase's, or its absence is seen.
LEMMA DamagedCovers ==
  ASSUME DeviceInv, NEW log, MeasuredLog(device, log), Len(log.phases) = 5,
         Len(log.phases[4].batches) <= MaxBatches,
         NEW i \in 1..Len(log.phases), NEW field \in {"samples", "batches"},
         NEW k \in 1..Len(log.phases[i][field]),
         NEW damaged, damaged = [log EXCEPT !.phases[i][field] = RemoveAt(@, k)]
  PROVE  Covers(damaged)
<1>1. /\ "phases" \in DOMAIN log /\ DOMAIN log.phases = 1..5 /\ DOMAIN log.phases[4] = PhaseFields
      /\ IsSeq(log.phases[4].samples) /\ IsSeq(log.phases[4].batches)
  <2>1. IsSeq(log.phases)
    BY DEF MeasuredLog
  <2> QED BY <2>1, Sequences DEF MeasuredLog, LogFields
<1> DEFINE phases == [log.phases EXCEPT ![i] = [log.phases[i] EXCEPT ![field] = RemoveAt(@, k)]]
<1>2. damaged.phases = phases
  BY <1>1
<1>3. CASE i # 4
  <2>1. damaged.phases[4] = log.phases[4]
    BY <1>1, <1>2, <1>3
  <2>2. \E t \in Nat : Measured(device, log.phases[4], t)
    BY DEF MeasuredLog
  <2> QED BY <1>1, <2>1, <2>2, EligibleCovers
<1>4. CASE i = 4
  <2> DEFINE p == log.phases[4]
             q == damaged.phases[4]
  <2>1. q = [p EXCEPT ![field] = RemoveAt(p[field], k)]
    BY <1>1, <1>2, <1>4
  <2>2. Len(p.samples) = Len(p.batches) + 2
    BY DEF MeasuredLog, Measured
  <2>3. Len(RemoveAt(p[field], k)) = Len(p[field]) - 1
    BY <1>1, <1>4, Removed
  <2>4. Len(p.samples) \in Nat /\ Len(p.batches) \in Nat
    BY <1>1, Sequences
  <2>5. Len(q.samples) # Len(q.batches) + 2
    <3>1. CASE field = "samples"
      <4>1. q.samples = RemoveAt(p[field], k) /\ q.batches = p.batches
        BY <1>1, <2>1, <3>1 DEF PhaseFields
      <4> QED BY <2>2, <2>3, <2>4, <3>1, <4>1
    <3>2. CASE field = "batches"
      <4>1. q.batches = RemoveAt(p[field], k) /\ q.samples = p.samples
        BY <1>1, <2>1, <3>2 DEF PhaseFields
      <4> QED BY <2>2, <2>3, <2>4, <3>2, <4>1
    <3> QED BY <3>1, <3>2
  <2>6. Reasons(damaged) # {}
    BY <2>5, EligibleAligned
  <2> QED BY <2>6 DEF Covers, Analyze
<1> QED BY <1>3, <1>4

\* A log that seal accepted has five phases, and no more batches than were planned.
LEMMA ValidMeasured ==
  ASSUME NEW d, NEW log, MeasuredLog(d, log), Valid(log)
  PROVE  Len(log.phases) = 5 /\ Len(log.phases[4].batches) <= MaxBatches
<1>1. Len(log.phases) = 5
  BY DEF Valid, OrderedPhases, PhaseNames
<1>2. Budgeted(log.phases[4])
  BY <1>1 DEF Valid
<1>3. Budget["measurement"] = MaxBatches
  BY DEF Budget
<1> QED BY <1>1, <1>2, <1>3 DEF Budgeted, MeasuredLog

\* EligibleMeasured for every instance: whatever the plan, wherever the counter is reset,
\* whichever readings fail, and also with a sample or a batch missing from the log,
\* energy_records.py (_phase_analysis, analyze) calls no energy eligible that falls short of
\* what the device consumed over the measured batches.
THEOREM EligibleCorrect == Spec => []EligibleMeasured
<1>1. JournalInv /\ MeterInv => EligibleMeasured
  <2> SUFFICES ASSUME JournalInv, MeterInv, files.log.written
               PROVE  \A log \in {files.log.value} \cup Damaged(files.log.value) : Covers(log)
    BY DEF EligibleMeasured, Whole
  <2> DEFINE whole == files.log.value
  <2>1. DeviceInv /\ MeasuredLog(device, whole) /\ Valid(whole)
    BY DEF JournalInv, WrittenInv, MeterInv
  <2> HIDE DEF whole
  <2>2. Len(whole.phases) = 5 /\ Len(whole.phases[4].batches) <= MaxBatches
    BY <2>1, ValidMeasured
  <2>3. Covers(whole)
    BY <2>1, <2>2, EligibleCovers DEF MeasuredLog
  <2>4. ASSUME NEW log \in Damaged(whole)
        PROVE  Covers(log)
    <3>1. PICK i \in 1..Len(whole.phases), field \in {"samples", "batches"} : log \in Without(whole, i, field)
      BY <2>4 DEF Damaged
    <3>2. PICK k \in 1..Len(whole.phases[i][field]) :
            log = [whole EXCEPT !.phases[i][field] = RemoveAt(@, k)]
      BY <3>1 DEF Without
    <3> QED BY <2>1, <2>2, <3>2, DamagedCovers
  <2> QED BY <2>3, <2>4 DEF whole
<1> QED BY <1>1, EndInit, EndStep, JournalInit, JournalStep, MeterInit, MeterStep, PTL DEF Spec
=============================================================================
