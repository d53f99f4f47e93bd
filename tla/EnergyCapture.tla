---------------------------- MODULE EnergyCapture ----------------------------
(***************************************************************************)
(* One capture of GPU energy: energy_bench.capture with its counter (NVML),  *)
(* its worker (CUDA) and its files.  The program is sequential, and almost   *)
(* every line of it can fail: a driver call, a durable write, an interrupt   *)
(* from the terminal, the end of the process.                                *)
(***************************************************************************)
EXTENDS EnergyLog

CONSTANTS
  Full,          \* what the counter shows first: more than what is measured consumes
  Paces,         \* how long a batch may take
  MaxMishaps     \* bound: what goes wrong in one capture

ASSUME CaptureTypes ==
  /\ Full \in Nat /\ Full > MaxBatches
  /\ Paces \subseteq Nat \ {0} /\ MaxMishaps \in Nat

VARIABLES
  clock,         \* perf_counter_ns
  device,        \* what the GPU has consumed, and where its counter was reset; a coarse
                 \* counter shows no increment of this size
  nvml,          \* initializations of NVML that are not shut down
  context,       \* the CUDA context: "none", "live" or "destroyed"
  current,       \* it is current on the thread, on top of the caller's
  files,         \* the journal's events; of each other file, whether it is there and written
  run,           \* what capture holds in memory, and where it is
  mishaps

hardware == <<clock, device>>
drivers == <<nvml, context, current>>
vars == <<hardware, drivers, files, run, mishaps>>

NoFile == [made |-> FALSE, written |-> FALSE, value |-> None]
Init ==
  /\ clock = 0
  /\ nvml = 0 /\ context = "none" /\ current = FALSE
  /\ files = [journal |-> <<>>, log |-> NoFile, report |-> NoFile, failure |-> NoFile]
  \* held: the batch, then the log that is under way.  For the properties, disk: a
  \* write failed; cut: the clean-up was cut short; stuck: driver calls that failed.
  /\ run = [at |-> "plan", sensor |-> None, workload |-> None, phases |-> <<>>, held |-> None,
            counter |-> "none", worker |-> "none", done |-> FALSE,
            disk |-> FALSE, cut |-> FALSE, stuck |-> {}]
  /\ \E coarse \in BOOLEAN :
       /\ device = [consumed |-> Full, base |-> 0, coarse |-> coarse]
       /\ mishaps = IF coarse THEN 1 ELSE 0

At(stage) == run.at = stage
Handling == {"except", "except-ended", "unavailable", "failure", "failure-file", "failure-open"}
Closing == {"close-worker", "cleanup-worker", "close-counter", "cleanup-counter"}
Over == {"refused", "returned", "raised", "crashed"}
Trying(stage) == stage \notin Handling \cup Closing \cup Over \cup {"plan"}

Costs(n) == mishaps + n <= MaxMishaps /\ mishaps' = mishaps + n
Goto(r, stage) == [r EXCEPT !.at = stage]

\* Where an exception leads: from try to except, from except to finally.
Raised(r) ==
  IF Trying(r.at) THEN Goto(r, "except")
  ELSE [r EXCEPT !.at = IF r.at \in Handling THEN "close-worker" ELSE "raised", !.cut = TRUE]

-----------------------------------------------------------------------------
(* Files. *)

\* An event is on the disk, or the write raises.  n: what went wrong besides.
EventSwallowed(e, r, next, n) ==                \* bug: a failed write is ignored
  \/ files' = [files EXCEPT !.journal = Append(@, e)] /\ run' = Goto(r, next) /\ Costs(n)
  \/ UNCHANGED files /\ run' = Goto(r, next) /\ Costs(n + 1)
Event(e, r, next, n) ==
  \/ files' = [files EXCEPT !.journal = Append(@, e)] /\ run' = Goto(r, next) /\ Costs(n)
  \/ UNCHANGED files /\ run' = [Raised(r) EXCEPT !.disk = TRUE] /\ Costs(n + 1)

Created == [made |-> TRUE, written |-> FALSE, value |-> None]
Holds(value) == [made |-> TRUE, written |-> TRUE, value |-> value]
Whole(file) == files[file].written

\* _publish creates a file, never replacing one, and then writes it.
Publish(file, value, opened, next) ==
  \/ /\ run.at # opened /\ ~files[file].made
     /\ \/ files' = [files EXCEPT ![file] = Created] /\ run' = Goto(run, opened) /\ Costs(0)
        \/ UNCHANGED files /\ run' = [Raised(run) EXCEPT !.disk = TRUE] /\ Costs(1)
  \/ /\ At(opened)
     /\ \/ files' = [files EXCEPT ![file] = Holds(value)] /\ run' = Goto(run, next) /\ Costs(0)
        \/ UNCHANGED files /\ run' = [Raised(run) EXCEPT !.disk = TRUE] /\ Costs(1)

\* The plan is prepared, by CPU planning unless the iterations are declared, and the
\* directory and its journal are created. Whatever fails before the journal is open,
\* or interrupts the program there, is a refusal: nothing is said of the empty
\* directory that a failure after mkdir leaves.
Prepare ==
  /\ At("plan")
  /\ run' \in {Goto(run, "open"), Goto(run, "refused")}
  /\ UNCHANGED <<hardware, drivers, files, mishaps>>

-----------------------------------------------------------------------------
(* NVMLEnergyCounter *)

\* Initialized and a device selected; what fails after the initialization shuts it
\* down again.
OpenCounter ==
  /\ At("counter")
  /\ \/ /\ nvml' = nvml + 1 /\ Costs(0)
        /\ run' = [Goto(run, "sensor") EXCEPT !.counter = "open", !.sensor = "gpu"]
     \/ UNCHANGED nvml /\ Costs(1) /\ run' = Raised(run)
  /\ UNCHANGED <<hardware, context, current, files>>

\* A reading is a value, or the error that the driver returned: never an exception.
Shown == IF device.coarse THEN 0 ELSE device.consumed - device.base
Reading(works) == [at |-> clock, energy |-> IF works THEN Shown ELSE None]

\* The phase under way.
Phase0 == Last(run.phases)
InPhase(p) == [run EXCEPT !.phases[Len(run.phases)] = p]
\* A sample is kept in the phase, then in the journal.
Sample(p, next) ==
  \E works \in BOOLEAN :
    LET s == Reading(works)
    IN  Event([event |-> "sample", phase |-> p.name, value |-> s],
              InPhase([p EXCEPT !.samples = Append(@, s)]), next, IF works THEN 0 ELSE 1)

-----------------------------------------------------------------------------
(* CudaGaussianWorker *)

\* The context is created, set up while it is current, and popped.  What fails after
\* its creation destroys it, or that fails too.
ConstructWorker ==
  /\ At("body") /\ Phase0.name = "startup"
  /\ clock' = clock + 1
  /\ \/ /\ context' = "live" /\ UNCHANGED current
        /\ \E gpu \in {run.sensor, "other"} :
             /\ run' = [Goto(run, "end") EXCEPT !.worker = "open", !.workload = gpu]
             /\ Costs(IF gpu = run.sensor THEN 0 ELSE 1)
     \/ Costs(1) /\ run' = Raised(run) /\ UNCHANGED <<context, current>>
     \/ Costs(1) /\ run' = Raised(run) /\ context' = "destroyed" /\ UNCHANGED current
     \/ \E call \in {"setup", "pop"} :
          /\ Costs(2) /\ context' = "live" /\ current' = (call = "pop")
          /\ run' = [Raised(run) EXCEPT !.stuck = @ \cup {call, "destroy"}]
  /\ UNCHANGED <<device, nvml, files>>

\* solve: the context is popped also when something fails, unless that is what fails.
Pop(failed) == current' = (failed = "pop")
Solve ==
  /\ At("body") /\ Phase0.name \in {"warmup", "measurement"}
  /\ \E pace \in Paces : clock' = clock + pace
  /\ device' = [device EXCEPT !.consumed = @ + 1]
  /\ \/ /\ Pop("none")
        /\ \E met \in BOOLEAN :
             /\ run' = [Goto(run, "sampling") EXCEPT !.held =
                  [start |-> clock, end |-> clock', met |-> met,
                   from |-> device.consumed, to |-> device'.consumed]]
             /\ Costs(IF met THEN 0 ELSE 1)
     \/ \E call \in {"solve", "pop"} :
          /\ Pop(call) /\ Costs(1)
          /\ run' = [Raised(run) EXCEPT !.stuck = @ \cup {call}]
  /\ UNCHANGED <<nvml, context, files>>

-----------------------------------------------------------------------------
(* Phases. *)

Note(stage, kind, next) ==
  /\ At(stage) /\ Event([event |-> kind], run, next, 0)
  /\ UNCHANGED <<hardware, drivers>>
OpenJournal == Note("open", "capture", "counter")
RetainSensor == Note("sensor", "sensor", "begin")

\* begin: the first reading precedes the start.
Begin ==
  LET p == Phase(PhaseNames[Len(run.phases) + 1])
  IN  /\ At("begin")
      /\ \E works \in BOOLEAN :
           LET s == Reading(works)
           IN  Event([event |-> "sample", phase |-> p.name, value |-> s],
                     [run EXCEPT !.phases = Append(@, [p EXCEPT !.samples = <<s>>])],
                     "started", IF works THEN 0 ELSE 1)
      /\ UNCHANGED <<hardware, drivers>>
Started ==
  /\ At("started")
  /\ Event([event |-> "phase_start"], InPhase([Phase0 EXCEPT !.start = clock]), "body", 0)
  /\ UNCHANGED <<hardware, drivers>>

\* idle: it sleeps, and takes a reading, until its duration has passed.
Sleep ==
  /\ At("body") /\ Phase0.name \in Idle
  /\ clock' = clock + 1
  /\ run' = Goto(run, "sampling")
  /\ UNCHANGED <<device, drivers, files, mishaps>>

Rested(p) == clock - p.start >= IdleDuration
SampleInside ==
  /\ At("sampling")
  /\ Sample(Phase0, IF Phase0.name \notin Idle THEN "encode" ELSE IF Rested(Phase0) THEN "end" ELSE "body")
  /\ UNCHANGED <<hardware, drivers>>

\* batch: what was solved is encoded, if its replicas agree, and retained.
Enough(p) ==
  IF p.name = "warmup" THEN Len(p.batches) = WarmupBatches
  ELSE Len(p.batches) = MaxBatches \/ clock - p.start >= MinimumDuration
RetainBatch ==
  /\ At("encode")
  /\ LET p == [Phase0 EXCEPT !.batches = Append(@, run.held)]
     IN  \/ Event([event |-> "batch", phase |-> p.name, value |-> run.held],
                  [InPhase(p) EXCEPT !.held = None], IF Enough(p) THEN "end" ELSE "body", 0)
         \/ Costs(1) /\ run' = [Raised(run) EXCEPT !.held = None] /\ UNCHANGED files
  /\ UNCHANGED <<hardware, drivers>>

\* finish: the last reading follows the end.
End ==
  /\ At("end") /\ Sample([Phase0 EXCEPT !.end = clock], "ended")
  /\ UNCHANGED <<hardware, drivers>>
Ended ==
  LET next == CASE Phase0.name = "startup" -> "workload"
                [] Phase0.name = "idle_after" -> "seal"
                [] OTHER -> "begin"
  IN  Note("ended", "phase_end", next)

\* The worker must be on the device that the counter reads.
RetainWorkload ==
  /\ At("workload")
  /\ \/ /\ run.workload = run.sensor
        /\ Event([event |-> "workload"], run, "begin", 0)
     \/ /\ run.workload # run.sensor /\ Costs(0)
        /\ files' = [files EXCEPT !.journal = Append(@, [event |-> "workload"])]
        /\ run' = Raised(run)
  /\ UNCHANGED <<hardware, drivers>>

\* The log is sealed and analysed; then the log, the report and the last event.
Seal ==
  LET log == [sensor |-> run.sensor, workload |-> run.workload, phases |-> run.phases]
  IN  /\ At("seal")
      /\ run' = IF Valid(log) THEN [Goto(run, "log") EXCEPT !.held = log] ELSE Raised(run)
      /\ UNCHANGED <<hardware, drivers, files, mishaps>>
PublishLog ==
  /\ run.at \in {"log", "log-open"} /\ Publish("log", run.held, "log-open", "report")
  /\ UNCHANGED <<hardware, drivers>>
PublishReport ==
  /\ run.at \in {"report", "report-open"}
  /\ Publish("report", Analyze(run.held), "report-open", "complete")
  /\ UNCHANGED <<hardware, drivers>>
Complete == Note("complete", "complete", "return")
Return ==
  /\ At("return") /\ run' = [Goto(run, "close-worker") EXCEPT !.done = TRUE]
  /\ UNCHANGED <<hardware, drivers, files, mishaps>>

-----------------------------------------------------------------------------
(* except and finally *)

\* A phase that was begun and not finished is finished, with its error; a failure of
\* that is only noted.
Unfinished == run.counter = "open" /\ run.phases # <<>> /\ Phase0.end = None
FinishFailed ==
  /\ At("except")
  /\ IF ~Unfinished THEN run' = Goto(run, "failure") /\ UNCHANGED <<files, mishaps>>
     ELSE LET p == [Phase0 EXCEPT !.end = clock, !.error = TRUE,
                      !.start = IF @ = None THEN 0 ELSE @]
          IN  \/ Sample(p, "except-ended") /\ ~run'.cut     \* and written
              \/ \E works \in BOOLEAN :
                   /\ run' = [Goto(InPhase([p EXCEPT !.samples = Append(@, Reading(works))]), "unavailable")
                                EXCEPT !.disk = TRUE]
                   /\ Costs(IF works THEN 1 ELSE 2) /\ UNCHANGED files
  /\ UNCHANGED <<hardware, drivers>>
EndFailed ==
  /\ At("except-ended")
  /\ \/ files' = [files EXCEPT !.journal = Append(@, [event |-> "phase_end"])]
        /\ run' = Goto(run, "failure") /\ Costs(0)
     \/ UNCHANGED files /\ run' = [Goto(run, "unavailable") EXCEPT !.disk = TRUE] /\ Costs(1)
  /\ UNCHANGED <<hardware, drivers>>
NoteUnavailable == Note("unavailable", "failure_endpoint_unavailable", "failure")
NoteFailure == Note("failure", "failure", "failure-file")
PublishFailure ==
  /\ run.at \in {"failure-file", "failure-open"}
  /\ Publish("failure", run.phases, "failure-open", "close-worker")
  /\ UNCHANGED <<hardware, drivers>>

\* Both resources are closed, also when closing the first fails; that is noted.
Finish(r) == Goto(r, IF r.done /\ ~r.cut THEN "returned" ELSE "raised")
CloseWorkerOnly(r) == Finish([r EXCEPT !.stuck = @ \cup {"destroy"}])  \* bug: ends the clean-up
NoteUnclosed(r) == [Goto(r, "cleanup-worker") EXCEPT !.stuck = @ \cup {"destroy"}]
CloseWorker ==
  /\ At("close-worker")
  /\ \/ /\ run.worker = "none" /\ Costs(0)
        /\ run' = Goto(run, "close-counter") /\ UNCHANGED <<context, current>>
     \/ /\ run.worker = "open" /\ Costs(0)
        /\ context' = "destroyed" /\ current' = FALSE
        /\ run' = [Goto(run, "close-counter") EXCEPT !.worker = "closed"]
     \/ /\ run.worker = "open" /\ Costs(1)
        /\ run' = NoteUnclosed(run) /\ UNCHANGED <<context, current>>
  /\ UNCHANGED <<hardware, nvml, files>>
CloseCounter ==
  /\ At("close-counter")
  /\ \/ /\ run.counter = "none" /\ Costs(0) /\ run' = Finish(run) /\ UNCHANGED nvml
     \/ /\ run.counter = "open" /\ Costs(0)
        /\ nvml' = nvml - 1
        /\ run' = Finish([run EXCEPT !.counter = "closed"])
     \/ /\ run.counter = "open" /\ Costs(1) /\ UNCHANGED nvml
        /\ run' = [Goto(run, "cleanup-counter") EXCEPT !.counter = "closed",
                     !.stuck = @ \cup {"shutdown"}]
  /\ UNCHANGED <<hardware, context, current, files>>
NoteCleanup ==
  \/ Note("cleanup-worker", "cleanup_error", "close-counter")
  \/ Note("cleanup-counter", "cleanup_error", Finish(run).at)

-----------------------------------------------------------------------------
(* The environment. *)

Live == run.at \notin Over
Interrupt ==
  /\ Live /\ run.at # "plan" /\ Costs(1)
  /\ run' = Raised(run)
  /\ UNCHANGED <<hardware, drivers, files>>

\* The process ends; the drivers free what it held.
Crash ==
  /\ Live
  /\ run' = [Goto(run, "crashed") EXCEPT !.phases = <<>>, !.held = None]
  /\ nvml' = 0 /\ context' = "destroyed" /\ current' = FALSE
  /\ UNCHANGED <<hardware, files, mishaps>>

\* The counter starts again, as after a reload of the driver.
Reset ==
  /\ Live /\ device.base = 0 /\ Costs(1)
  /\ device' = [device EXCEPT !.base = device.consumed]
  /\ UNCHANGED <<clock, drivers, files, run>>

\* A further capture into the directory is refused: it exists.
Again == ~Live /\ UNCHANGED vars

Next ==
  \/ Prepare \/ OpenJournal \/ OpenCounter \/ RetainSensor
  \/ Begin \/ Started \/ ConstructWorker \/ Solve \/ Sleep \/ SampleInside \/ RetainBatch
  \/ End \/ Ended \/ RetainWorkload \/ Seal \/ PublishLog \/ PublishReport \/ Complete \/ Return
  \/ FinishFailed \/ EndFailed \/ NoteUnavailable \/ NoteFailure \/ PublishFailure
  \/ CloseWorker \/ CloseCounter \/ NoteCleanup
  \/ Interrupt \/ Crash \/ Reset \/ Again
Spec == Init /\ [][Next]_vars

-----------------------------------------------------------------------------
(* Correctness. *)

\* The energy of an eligible report covers what the device consumed from the start of
\* the first measured batch to the end of the last, whatever failed or was reset on
\* the way: also where a sample or a batch is missing from the log that is analysed
\* ("Repeated/zero counters, decreases, failed reads, absent brackets, missing batch
\* reads ... remain visible", docs/ENERGY_ACCURACY.md).
Without(log, i, field) ==
  {[log EXCEPT !.phases[i][field] = RemoveAt(@, k)] : k \in 1..Len(log.phases[i][field])}
Damaged(log) ==
  UNION {Without(log, i, field) : i \in 1..Len(log.phases), field \in {"samples", "batches"}}
Covers(log) ==
  Valid(log) /\ Analyze(log).eligible =>
    LET batches == log.phases[4].batches
    IN  Analyze(log).gross >= Last(batches).to - First(batches).from
EligibleMeasured ==
  Whole("log") => \A log \in {files.log.value} \cup Damaged(files.log.value) : Covers(log)

\* The values are those of the journal's events of a kind in a phase, in their order.
Places(journal, kind, name) ==
  {i \in 1..Len(journal) : journal[i].event = kind /\ journal[i].phase = name}
Journaled(journal, kind, name, values) ==
  LET places == Places(journal, kind, name)
  IN  /\ Cardinality(places) = Len(values)
      /\ \A i \in places :
           journal[i].value = values[Cardinality({k \in places : k <= i})]

\* A log that can be read holds what the journal holds, sample for sample and batch for
\* batch, and a report is that log's; so does a record of a failure, unless a
\* write failed.
InJournal(phases) ==
  \A i \in 1..Len(phases) :
    /\ Journaled(files.journal, "sample", phases[i].name, phases[i].samples)
    /\ Journaled(files.journal, "batch", phases[i].name, phases[i].batches)
PublishedWhole ==
  /\ Whole("log") => Valid(files.log.value) /\ InJournal(files.log.value.phases)
  /\ Whole("report") => Whole("log") /\ files.report.value = Analyze(files.log.value)
  /\ Whole("failure") /\ ~run.disk => InJournal(files.failure.value)

\* A capture that ends leaves either a log and a report or the record of its failure,
\* and has closed its worker and its counter, unless the driver refused to or its
\* clean-up was itself cut short by an exception; the caller's CUDA context is
\* always the current one again, unless the driver refused to pop the worker's.
EndsCleanly ==
  /\ run.at = "returned" => Whole("log") /\ Whole("report") /\ ~files.failure.made
  /\ run.at = "raised" /\ ~run.cut => Whole("failure")
  /\ run.at \in {"returned", "raised"} /\ ~run.cut =>
       /\ context = "live" => "destroy" \in run.stuck
       /\ nvml > 0 => "shutdown" \in run.stuck
  /\ current => "pop" \in run.stuck
=============================================================================
