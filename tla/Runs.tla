---------------------------------- MODULE Runs ----------------------------------
(***************************************************************************)
(* One workflow kind at work: its sessions are created, retained, read back      *)
(* and replayed.  create_session and replay_session are the sequences of stages   *)
(* their bodies call; a stage that raises ends the call and publishes nothing.    *)
(* A mishap is a result that would not come out again, a program replaced by       *)
(* another version, or a part of a retained bundle that is read back as the part    *)
(* of another session or with another result.                                     *)
(***************************************************************************)
EXTENDS Lineage, SequencesExt

CONSTANTS
  Catalog,      \* function: kind of workflow -> its record
  Sources,      \* variants of a source, and of the upstream session each is about
  MaxMishaps,   \* bound
  MaxCreated,   \* bound: sessions there are when another is created
  MaxCalls      \* bound: calls started

\* What every kind has in common.  A step asks about steps before it, and a call takes its
\* stages in this order, each once but for the validation.
Precedes ==
  ({"bind"} \X {"execute", "rerun", "reproduce"})
    \cup ({"upstream"} \X {"execute", "validate"}) \cup ({"inspect", "select", "attest"} \X {"validate"})
    \cup ({"execute"} \X {"reproduce", "attest", "verify", "validate", "match", "receipt"})
    \cup {<<"rerun", "compare">>, <<"compare", "verify">>, <<"reproduce", "attest">>, <<"match", "receipt">>}
Ordered(stages) ==
  /\ \A i, j \in 1..Len(stages) :
       /\ <<stages[i], stages[j]>> \in Precedes => i < j
       /\ stages[i] = stages[j] => i = j \/ stages[i] = "validate"
       \* A rerun of the retained chain, before the fresh one, is matched with it.
       /\ stages[i] = "compare" /\ stages[j] = "execute" /\ i < j =>
            \E k, l \in j + 1..Len(stages) : stages[k] = "match" /\ stages[l] = "verify" /\ k < l
  /\ \A i \in 1..Len(stages) : stages[i] = "rerun" => i < Len(stages) /\ stages[i + 1] = "compare"
  /\ {"rerun", "compare", "verify"} \cap Range(stages) = {} \/ {"reproduce", "attest"} \cap Range(stages) = {}
Complete(stages) ==
  /\ stages \in Seq(Range(stages)) /\ {"bind", "execute"} \subseteq Range(stages)
  /\ {"rerun", "compare", "verify"} \subseteq Range(stages) \/ {"reproduce", "attest"} \subseteq Range(stages)
\* What the comparisons of a kind demand of its stages and steps.
BundleChecks ==
  {"executions", "subject", "reproduced", "fresh", "native", "selected", "paired",
   "receipt", "receipt_subject", "receipt_run", "receipt_proof"}
Reproduces(flow) == {"reproduced", "fresh", "native"} \cap flow.checks # {}
Provides(flow, stages) ==
  /\ "recomputed" \in flow.checks => "validate" \in Range(stages)
  /\ "paired" \in flow.checks => "upstream" \in Range(stages)
  /\ Reproduces(flow) => "attest" \in Range(stages)
  /\ "receipt" \in Range(stages) => "match" \in Range(stages)
  /\ "rerun" \in Range(stages) => ~flow.native
Comparable(flow) ==
  /\ flow.checks \subseteq StepChecks \cup BundleChecks
  /\ "native" \in flow.checks => flow.native
  /\ "selected" \in flow.checks => "select" \in Range(flow.create) /\ "inspect" \in Range(flow.replay)
  /\ \A i \in Index(flow) :
       /\ "ran" \in flow.checks => flow.steps[i].roles \subseteq flow.verified \cup flow.inprocess
       /\ "fresh" \in flow.checks => "result" \in flow.steps[i].carries
\* What the contents of a step are bound to: a request or a result with the execution
\* identity is of that execution, and so are the references which such a result repeats.
Owned(flow) == {i \in Index(flow) : {"request", "result"} \cap flow.steps[i].carries # {}}
Echoes(flow, i) == {"result", "refs"} \subseteq flow.steps[i].carries
Names(flow, i, j) ==
  \/ j \in flow.steps[i].cites /\ "request" \in flow.steps[i].carries
  \/ j \in flow.steps[i].refs /\ Echoes(flow, i)
\* A kind whose steps name each other, the source and the upstream session, so that all of
\* them are of one session.
Linked(flow) ==
  /\ {"requests", "refs", "envelopes"} \subseteq flow.checks
  /\ \A part \in SUBSET Owned(flow) : part \notin {{}, Owned(flow)} =>
       \E i \in part, j \in Owned(flow) \ part :
          \/ Names(flow, i, j) /\ "result" \in flow.steps[j].carries
          \/ Names(flow, j, i) /\ "result" \in flow.steps[i].carries
  /\ \A i \in Index(flow) :
       /\ flow.steps[i].carries \cap {"result", "unbound"} = {} => \E j \in Owned(flow) : Names(flow, j, i)
       /\ \A j \in Index(flow) :
            "unbound" \in flow.steps[j].carries =>
              j \notin flow.steps[i].data \cup flow.steps[i].cites \cup flow.steps[i].refs
  /\ \E i \in Owned(flow) :
       \/ "request" \in flow.steps[i].carries
       \/ 0 \in flow.steps[i].refs /\ Echoes(flow, i)
       \/ "about" \in flow.checks /\ flow.steps[i].data \subseteq {Up} /\ "result" \in flow.steps[i].carries
  /\ flow.upstream # "none" =>
       \E i \in Owned(flow) :
          \/ Up \in flow.steps[i].data /\ "request" \in flow.steps[i].carries
          \/ Up \in flow.steps[i].refs /\ Echoes(flow, i)
WellFormed(flow) ==
  /\ flow.steps \in Seq(Range(flow.steps)) /\ flow.steps # <<>>
  /\ \A i \in Index(flow) :
       /\ flow.steps[i].data \ {Up} \subseteq 1..i - 1
       /\ flow.steps[i].refs \ {0, Up} \subseteq 1..i - 1 /\ flow.steps[i].cites \subseteq 1..i - 1
       /\ flow.upstream = "none" => Up \notin flow.steps[i].data
  /\ \A stages \in {flow.create, flow.replay} : Ordered(stages) /\ Complete(stages) /\ Provides(flow, stages)
  /\ Comparable(flow) /\ Linked(flow)
  /\ {"inspect", "match", "receipt"} \cap Range(flow.create) = {}

ASSUME CatalogAssumption == \A k \in DOMAIN Catalog : WellFormed(Catalog[k])
ASSUME RunsAssumption ==
  /\ 0 \notin Sources
  /\ MaxMishaps \in Nat /\ MaxCreated \in Nat /\ MaxCalls \in Nat

VARIABLES
  kind,       \* the workflow
  todo,       \* the stages left of the call being served
  work,       \* the bundle being built
  again,      \* the steps of a rerun or a reproduction
  bound,      \* the version each program had when its adapter was made
  replayed,   \* the bundle a replay is of
  outcome,    \* how the last call ended
  sessions,   \* what the calls returned, in order
  version,    \* environment: each program's version now
  occurrence, \* occurrence identities taken by the call being served
  flaws, changes, \* the mishaps so far: irreproducible results; all others
  calls       \* calls started

callVars == <<todo, work, again, bound, replayed, outcome, occurrence>>
envVars == <<version, flaws, changes, calls>>
vars == <<kind, callVars, sessions, envVars>>

w == Catalog[kind]
n == Len(w.steps)
Blank == [session |-> None, source |-> 0, up |-> 0, pair |-> 0, runtime |-> <<>>,
          steps |-> <<>>, verification |-> None, receipt |-> None]
\* uuid4: an identity nothing retained has.  Those of a call that failed name nothing.
Identity(k) == <<Len(sessions) + 1, k>>
Mishap(cost) == flaws + changes + cost <= MaxMishaps

Init ==
  /\ kind \in DOMAIN Catalog
  /\ todo = <<>> /\ work = Blank /\ again = <<>> /\ bound = <<>> /\ replayed = Blank
  /\ outcome = "idle" /\ sessions = <<>>
  /\ version = [r \in Roles(w) |-> 0]
  /\ occurrence = 0 /\ flaws = 0 /\ changes = 0 /\ calls = 0

Stage(name) == todo # <<>> /\ Head(todo) = name
Done == todo' = Tail(todo)
Refuse(why) ==
  /\ todo' = <<>> /\ outcome' = why
  /\ work' = Blank /\ again' = <<>> /\ bound' = <<>> /\ replayed' = Blank /\ occurrence' = 0

\* A stage that only decides whether the call goes on.
Decide(name, holds, why) ==
  /\ Stage(name)
  /\ \/ holds /\ Done /\ UNCHANGED <<work, again, bound, replayed, outcome, occurrence>>
     \/ ~holds /\ Refuse(why)
  /\ UNCHANGED <<kind, sessions, envVars>>

(***************************************************************************)
(* The calls.                                                                  *)
(***************************************************************************)
Idle == outcome # "running"

Call(stages, source, up, of) ==
  /\ todo' = stages /\ outcome' = "running" /\ replayed' = of
  /\ work' = [Blank EXCEPT !.source = source, !.up = up]
  /\ again' = <<>> /\ bound' = <<>> /\ occurrence' = 0

Create(source, up) ==
  /\ Idle /\ calls < MaxCalls /\ Len(sessions) < MaxCreated
  /\ Call(w.create, source, up, Blank)
  /\ calls' = calls + 1 /\ UNCHANGED <<kind, sessions, version, flaws, changes>>

Replay(b, cost) ==
  /\ Idle /\ calls < MaxCalls /\ Mishap(cost)
  /\ Call(w.replay, b.source, b.up, b)
  /\ changes' = changes + cost /\ calls' = calls + 1
  /\ UNCHANGED <<kind, sessions, version, flaws>>

\* The file is still what was written.
ReplayRetained == \E k \in DOMAIN sessions : Replay(sessions[k], 0)

\* The parts of a bundle (0) and of its steps that may be another session's.
Parts == {0} \X {"session", "source", "up", "pair", "runtime", "verification", "again", "receipt"}
StepParts == Index(w) \X {"exec", "request", "refs", "runtime", "result", "step"}

Mixed(b, c, units) ==
  [part \in DOMAIN b |->
     CASE part = "steps" ->
            [i \in DOMAIN b.steps |->
               IF <<i, "step">> \in units THEN c.steps[i]
               ELSE [f \in DOMAIN b.steps[i] |->
                       IF <<i, f>> \in units THEN c.steps[i][f] ELSE b.steps[i][f]]]
       [] <<0, part>> \in units -> c[part]
       [] part = "verification" /\ <<0, "again">> \in units ->
            [b.verification EXCEPT !.again = c.verification.again]
       [] OTHER -> b[part]]

\* ... with the identities over the changed parts computed again, or not.
Sealed(b) == [b EXCEPT !.verification.subject = Digest(b)]

ReplayMixed ==
  /\ Idle /\ calls < MaxCalls /\ Mishap(1)
  /\ \E k, l \in DOMAIN sessions, u, v \in Parts \cup StepParts, sealed \in BOOLEAN :
       LET mixed == Mixed(sessions[k], sessions[l], {u, v})
           b == IF sealed THEN Sealed(mixed) ELSE mixed
       IN  /\ k # l /\ b # sessions[k] /\ b # sessions[l]
           /\ Replay(b, Cardinality({u, v}))

\* ... or a result is another one, which its own step does not show.
ReplayEdited ==
  /\ Idle /\ calls < MaxCalls /\ Mishap(1)
  /\ \E k \in DOMAIN sessions, i \in Index(w), sealed \in BOOLEAN :
       LET edited == [sessions[k] EXCEPT !.steps[i].result.data = @ \cup {Flaw}]
       IN  Replay(IF sealed THEN Sealed(edited) ELSE edited, 1)

(***************************************************************************)
(* The stages.                                                                 *)
(***************************************************************************)
\* _validate on the bundle given, and on the one that was built.
Inspect == Decide("inspect", Accepts(w, replayed), "rejected")
Validate == Decide("validate", Accepts(w, work), "invalid")

\* The source is checked against the upstream session it names.
Select == Decide("select", Selected(work), "unselected")

\* The upstream session is replayed before it is used: a run of its own workflow.
ReplayUpstream ==
  /\ Stage("upstream")
  /\ \/ work' = [work EXCEPT !.pair = work.up] /\ Done /\ UNCHANGED <<again, bound, replayed, outcome, occurrence>>
     \/ flaws + changes > 0 /\ Refuse("upstream")
  /\ UNCHANGED <<kind, sessions, envVars>>

BindAny ==   \* bug: a replay does not compare the identities retained
  /\ Stage("bind") /\ bound' = version /\ Done
  /\ UNCHANGED <<kind, work, again, replayed, outcome, occurrence, sessions, envVars>>

\* _adapters: a replay binds its programs to the identities retained.
Bind ==
  /\ Stage("bind")
  /\ \/ replayed # Blank /\ version # replayed.runtime /\ Refuse("runtime")
     \/ /\ replayed = Blank \/ version = replayed.runtime
        /\ bound' = version /\ Done /\ UNCHANGED <<work, again, replayed, outcome, occurrence>>
  /\ UNCHANGED <<kind, sessions, envVars>>

\* The adapters are asked who they are around each call, and all of them before the
\* first or after the last one.
Asked(done) ==
  LET i == Len(done) + 1
  IN  IF <<w.reads, i>> \in {<<"first", 1>>, <<"last", n + 1>>} THEN Roles(w)
      ELSE IF i = n + 1 THEN {} ELSE w.steps[i].roles
Unchanged(roles) == \A r \in roles : version[r] = bound[r]
Verified(done) == Unchanged(Asked(done) \cap w.verified)

\* One provider call after the steps in done.
Called(done, exec, flawed) ==
  LET i == Len(done) + 1
      request == Request(w, i, work.source, work.up, done, exec)
      refs == InputRefs(w, i, work.source, work.up, done)
  IN  [exec |-> exec, request |-> request, refs |-> refs,
       runtime |-> IF "declared" \in w.checks THEN bound ELSE <<>>,
       result |-> [exec |-> Carried(w, i, {"result", "unbound"}, exec),
                   refs |-> IF "refs" \in w.steps[i].carries THEN refs ELSE <<>>,
                   data |-> Computed(request) \cup (IF flawed THEN {Flaw} ELSE {}),
                   native |-> IF w.native THEN Identity(occurrence + 2) ELSE None,
                   ran |-> [r \in w.steps[i].roles |-> version[r]]]]

Occurs(flawed) ==
  /\ flawed => Mishap(1)
  /\ flaws' = flaws + (IF flawed THEN 1 ELSE 0)
  /\ occurrence' = occurrence + 2
  /\ UNCHANGED <<kind, todo, bound, replayed, outcome, sessions, version, changes, calls>>

\* _execute: every step in order, each an occurrence of its own.
ExecuteStep ==
  /\ Stage("execute") /\ Len(work.steps) < n /\ Verified(work.steps)
  /\ \E flawed \in BOOLEAN :
       /\ Occurs(flawed)
       /\ work' = [work EXCEPT !.steps = Append(@, Called(@, Identity(occurrence + 1), flawed))]
  /\ UNCHANGED again

ExecuteEnd ==
  /\ Stage("execute") /\ Len(work.steps) = n /\ Verified(work.steps)
  /\ occurrence' = occurrence + 1
  /\ work' = [work EXCEPT !.session = Identity(occurrence'), !.runtime = bound]
  /\ Done /\ UNCHANGED <<kind, again, bound, replayed, outcome, sessions, envVars>>

\* The whole chain once more: "rerun" under the execution identities it had, so that
\* whole contents can be compared, "reproduce" under new ones.
Rerun == IF work.steps = <<>> THEN replayed ELSE work

AgainStep ==
  /\ Stage("rerun") \/ Stage("reproduce")
  /\ Len(again) < n /\ Verified(again)
  /\ \E flawed \in BOOLEAN :
       /\ Occurs(flawed)
       /\ again' = Append(again, Called(again, IF Stage("reproduce") THEN Identity(occurrence + 1)
                                               ELSE Rerun.steps[Len(again) + 1].exec, flawed))
  /\ UNCHANGED work

AgainEnd ==
  /\ Stage("rerun") \/ Stage("reproduce")
  /\ Len(again) = n /\ Verified(again)
  /\ Done /\ UNCHANGED <<kind, work, again, bound, replayed, outcome, occurrence, sessions, envVars>>

ProviderChanged ==
  /\ \/ Stage("execute") /\ ~Verified(work.steps)
     \/ (Stage("rerun") \/ Stage("reproduce")) /\ ~Verified(again)
     \/ Stage("verify") /\ ~Unchanged(w.verifier)
  /\ Refuse("runtime") /\ UNCHANGED <<kind, sessions, envVars>>

\* _compare: the rerun has the requests, results and numerical results retained.
Compare == Decide("compare", SameContents(Rerun.steps, again), "unreproduced")

\* The fresh session has the numerical results of the one replayed.
Match == Decide("match", SameNumbers(replayed.steps, work.steps), "unmatched")

Verify(steps) ==
  /\ work' = [work EXCEPT !.verification = [subject |-> Digest(work), again |-> steps]]
  /\ again' = <<>> /\ Done /\ UNCHANGED <<kind, bound, replayed, outcome, occurrence, sessions, envVars>>

\* The verification of a session whose rerun has been compared.
VerifyRerun == Stage("verify") /\ Unchanged(w.verifier) /\ Verify(<<>>)

\* The verification that retains a reproduction, refused when its numbers differ.
VerifyReproduction == Stage("attest") /\ SameNumbers(work.steps, again) /\ Verify(again)
Unreproduced ==
  /\ Stage("attest") /\ ~SameNumbers(work.steps, again)
  /\ Refuse("unreproduced") /\ UNCHANGED <<kind, sessions, envVars>>

AddReceiptOwnProof ==   \* bug: the proof of the new session stands for the one replayed
  /\ Stage("receipt")
  /\ work' = [work EXCEPT !.receipt =
                [original |-> Digest(replayed), replayed |-> Digest(work),
                 subject |-> Digest(work), again |-> work.steps]]
  /\ Done /\ UNCHANGED <<kind, again, bound, replayed, outcome, occurrence, sessions, envVars>>

AddReceipt ==
  /\ Stage("receipt")
  /\ work' = [work EXCEPT !.receipt =
                [original |-> Digest(replayed), replayed |-> Digest(work),
                 subject |-> Digest(replayed), again |-> work.steps]]
  /\ Done /\ UNCHANGED <<kind, again, bound, replayed, outcome, occurrence, sessions, envVars>>

Return ==
  /\ outcome = "running" /\ todo = <<>>
  /\ sessions' = Append(sessions, work) /\ outcome' = "returned"
  /\ work' = Blank /\ again' = <<>> /\ bound' = <<>> /\ replayed' = Blank
  /\ occurrence' = 0 /\ UNCHANGED <<kind, todo, envVars>>

\* An interpreter, a dependency or an executable is replaced, at any moment; the code
\* of this process between its calls.
Upgrade ==
  /\ Mishap(1) /\ changes' = changes + 1
  /\ \E r \in Roles(w) :
       /\ r \in w.inprocess => Idle
       /\ version[r] = 0 /\ version' = [version EXCEPT ![r] = 1]
  /\ UNCHANGED <<kind, callVars, sessions, flaws, calls>>

Stages ==
  \/ Inspect \/ Select \/ ReplayUpstream \/ Bind
  \/ ExecuteStep \/ ExecuteEnd \/ AgainStep \/ AgainEnd \/ ProviderChanged
  \/ Compare \/ Match \/ VerifyRerun \/ VerifyReproduction \/ Unreproduced
  \/ Validate \/ AddReceipt \/ Return

Next ==
  \/ \E source \in Sources, up \in IF w.upstream = "none" THEN {0} ELSE Sources : Create(source, up)
  \/ ReplayRetained \/ ReplayMixed \/ ReplayEdited
  \/ Stages \/ Upgrade

Spec == Init /\ [][Next]_vars

(***************************************************************************)
(* What must hold.                                                             *)
(***************************************************************************)
\* Sessions change only when a call returns: that is when they are looked at.
Returned == IF outcome = "returned" THEN DOMAIN sessions ELSE {}

\* No single result that would not come out again reaches a returned session: every
\* result was computed twice, and each time from this very source and upstream.
ReturnedReproduced ==
  flaws < 2 => \A k \in Returned : \A i \in Index(w) :
                 sessions[k].steps[i].result.data = Genuine(w, i, sessions[k])

\* What inspection lets a replay start from is one session: with the same source and
\* upstream as a session that was returned, and every request, reference and result
\* that session's, with its execution wherever a check binds it.  Only the last result
\* of telemetry, which nothing consumes or compares, may still be another session's.
Bound(i) == {"request", "result"} \cap w.steps[i].carries # {}
OneSession(b, c) ==
  /\ b.source = c.source /\ b.up = c.up
  /\ \A i \in Index(w) : LET s == b.steps[i]
                             t == c.steps[i]
                         IN  /\ s.request = t.request /\ s.refs = t.refs
                             /\ "unbound" \notin w.steps[i].carries => s.result.data = t.result.data
                             /\ Bound(i) => s.exec = t.exec
InspectedIsWhole ==
  Stage("inspect") /\ Accepts(w, replayed) /\ (\A i \in Index(w) : Flaw \notin replayed.steps[i].result.data)
    => \E k \in DOMAIN sessions : OneSession(replayed, sessions[k])

\* What a call returns is accepted when it is read back, also where a replay validates
\* nothing after it adds the receipt; and the receipt is about another session, with the
\* source, upstream, numerical results and runtimes of the session that holds it.
ReceiptsMatch ==
  \A k \in Returned : Accepts(w, sessions[k]) /\ (sessions[k].receipt # None =>
    LET b == sessions[k]
        original == b.receipt.original
    IN  /\ original.session # b.session
        /\ original.source = b.source /\ original.up = b.up
        /\ SameNumbers(original.steps, b.steps) /\ original.runtime = b.runtime)

\* Every occurrence happened once: no session shares an execution or a native occurrence
\* with another one, or with the reproduction it retains.
Occurrences(steps) ==
  (UNION {{steps[i].exec, steps[i].result.native} : i \in DOMAIN steps}) \ {None}
Retained(b) == IF b.verification.again = <<>> THEN {} ELSE Occurrences(b.verification.again)
OccurrencesFresh ==
  \A k \in Returned :
    /\ Occurrences(sessions[k].steps) \cap Retained(sessions[k]) = {}
    /\ \A l \in Returned : k # l =>
         (Occurrences(sessions[k].steps) \cup Retained(sessions[k]))
            \cap (Occurrences(sessions[l].steps) \cup Retained(sessions[l])) = {}

\* While every result comes out again and nothing is replaced or mixed, no call is
\* refused, but for a source that names another upstream session: a session retained is
\* one that replays, and so is its replay.
SteadyReplays == flaws + changes = 0 => outcome \in {"idle", "running", "returned", "unselected"}

\* The runtime a session names is the one its results, and those of its reproduction,
\* were computed by: for the programs asked around each call and those of this process.
RuntimeNamed ==
  \A k \in Returned : \A i \in Index(w), r \in w.verified \cup w.inprocess :
    LET b == sessions[k]
    IN  r \in w.steps[i].roles =>
          /\ b.steps[i].result.ran[r] = b.runtime[r]
          /\ b.verification.again # <<>> => b.verification.again[i].result.ran[r] = b.runtime[r]
=============================================================================
