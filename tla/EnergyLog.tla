------------------------------ MODULE EnergyLog ------------------------------
(***************************************************************************)
(* The retained log of an energy capture, and what energy_records derives    *)
(* from it: whether seal accepts it, and whether its analysis calls it an    *)
(* eligible physical measurement.  A counter call is an instant; a batch is  *)
(* an interval, with what the device had really consumed at its two ends,    *)
(* which the code cannot see.                                                *)
(***************************************************************************)
EXTENDS Integers, Sequences, SequencesExt

CONSTANTS
  None,
  WarmupBatches, MaxBatches,       \* the plan: batches to warm up with, and to measure
  MinimumDuration, IdleDuration    \* at most; how long to measure, and to idle

ASSUME PlanTypes ==
  /\ WarmupBatches \in Nat \ {0} /\ MaxBatches \in Nat \ {0}
  /\ MinimumDuration \in Nat /\ IdleDuration \in Nat \ {0}

PhaseNames == <<"startup", "warmup", "idle_before", "measurement", "idle_after">>
Idle == {"idle_before", "idle_after"}

Phase(name) ==
  [name |-> name, start |-> None, end |-> None, samples |-> <<>>, batches |-> <<>>, error |-> FALSE]

AllSamples(phases) == FlattenSeq([i \in 1..Len(phases) |-> phases[i].samples])
InOrder(s) == \A i \in 1..Len(s) - 1 : s[i].at <= s[i + 1].at
First(s) == s[1]

-----------------------------------------------------------------------------
(* _validate, which seal and validate_log share. *)

\* All five phases, in order and apart.
OrderedPhases(phases) ==
  /\ Len(phases) = Len(PhaseNames)
  /\ \A i \in 1..Len(phases) :
       /\ phases[i].name = PhaseNames[i]
       /\ phases[i].start # None /\ phases[i].end # None
       /\ phases[i].start <= phases[i].end
       /\ i > 1 => phases[i - 1].end <= phases[i].start

\* Batches take time, follow one another and lie within their phase.
Contained(p) ==
  /\ p.batches # <<>> => p.start <= First(p.batches).start /\ Last(p.batches).end <= p.end
  /\ \A i \in 1..Len(p.batches) :
       /\ p.batches[i].start < p.batches[i].end
       /\ i > 1 => p.batches[i - 1].end <= p.batches[i].start
Budget ==
  [startup |-> 0, warmup |-> WarmupBatches, idle_before |-> 0,
   measurement |-> MaxBatches, idle_after |-> 0]
Budgeted(p) == Len(p.batches) <= Budget[p.name]

\* The counter, the worker and their device are named as the profile demands.
Identified(log) == log.sensor # None /\ log.workload # None

Valid(log) ==
  /\ Identified(log)
  /\ OrderedPhases(log.phases)
  /\ InOrder(AllSamples(log.phases))
  /\ \A i \in 1..Len(log.phases) : Contained(log.phases[i]) /\ Budgeted(log.phases[i])

-----------------------------------------------------------------------------
(* _phase_analysis and analyze *)

\* The reasons that hold, of those looked for.
Found(reasons) == {r \in DOMAIN reasons : reasons[r]}

Bracketed(p) ==
  /\ Len(p.samples) >= 2
  /\ First(p.samples).at <= p.start /\ p.end <= Last(p.samples).at

\* Some reading is an error; or, among those that are none, one is less than the one
\* before it, so than some before it.
ReadErrors(samples) == \E i \in 1..Len(samples) : samples[i].energy = None
NeverDecreases(samples) == FALSE                \* bug: a reset goes unnoticed
Decreases(samples) ==
  \E i, k \in 1..Len(samples) :
    /\ i < k /\ samples[i].energy # None /\ samples[k].energy # None
    /\ samples[k].energy < samples[i].energy

\* One reading after each batch and before the next, besides the endpoints.
ReadPerBatch(p) ==
  p.batches # <<>> =>
    /\ Len(p.samples) = Len(p.batches) + 2
    /\ \A i \in 1..Len(p.batches) :
         /\ p.batches[i].end <= p.samples[i + 1].at
         /\ p.samples[i + 1].at <= IF i = Len(p.batches) THEN p.end ELSE p.batches[i + 1].start

Unusable(p) ==
  Found([phase_error |-> p.error,
         missing_endpoint_brackets |-> ~Bracketed(p),
         counter_read_error |-> ReadErrors(p.samples),
         reset_or_wrap_ambiguous |-> Decreases(p.samples),
         missing_or_misaligned_batch_counter_read |-> ~ReadPerBatch(p)])
Gross(p) == IF Unusable(p) # {} THEN None ELSE Last(p.samples).energy - First(p.samples).energy
PhaseReasons(p) ==
  Unusable(p) \cup IF Gross(p) = 0 THEN {"below_resolution_or_no_reported_increment"} ELSE {}

TargetMet(p) == p.batches # <<>> /\ \A i \in 1..Len(p.batches) : p.batches[i].met

Reasons(log) ==
  LET measured == log.phases[4]
      others == {log.phases[i] : i \in {1, 2, 3, 5}}
  IN  PhaseReasons(measured) \cup
      Found([observed_counter_continuity_loss |-> Decreases(AllSamples(log.phases)),
             accuracy_target_not_met |-> ~TargetMet(measured),
             minimum_duration_not_met |-> measured.end - measured.start < MinimumDuration,
             device_mismatch |-> log.sensor # log.workload,
             declared_warmup_not_completed |->
               Len(log.phases[2].batches) # WarmupBatches \/ log.phases[2].error,
             phase_error |-> \E p \in others : p.error,
             other_measurement_invalid |-> \E p \in others : Unusable(p) # {},
             idle_duration_not_met |->
               \E p \in others : p.name \in Idle /\ p.end - p.start < IdleDuration])

Analyze(log) ==
  [log |-> log, eligible |-> Reasons(log) = {}, gross |-> Gross(log.phases[4]),
   qualified |-> Len(SelectSeq(log.phases[4].batches, LAMBDA b : b.met))]

=============================================================================
