-------------------------------- MODULE Lineage --------------------------------
(***************************************************************************)
(* What a retained workflow session is made of, and what its checks compare.   *)
(* A workflow is a chain of provider steps over one source and, for some, one   *)
(* retained upstream session.  A step keeps the request it was given, the       *)
(* references it consumed and the result.  Digests identify contents: here they  *)
(* are the contents.  The data of a result is the set of what it was computed     *)
(* from.  A workflow w is a record:                                             *)
(*   steps      the sequence of its steps, see Step                              *)
(*   upstream   "none", "given", "selected" (the source names it) or "replayed"   *)
(*   verified   the programs whose identity every provider call verifies          *)
(*   verifier   the programs that verify a whole session, {} or {"set"}           *)
(*   inprocess  the programs that are code of this process                        *)
(*   reads      when _execute reads all runtimes again: "first", "last", "never"   *)
(*   native     the results hold occurrences of the provider's own                *)
(*   checks     what its _validate compares, see Compared                         *)
(*   create, replay   the stages of create_session and replay_session            *)
(***************************************************************************)
EXTENDS Integers, Sequences, FiniteSets

None == <<>>
Up == -1         \* the upstream session among the inputs of a step; 0 is the source

\* One step: the programs it runs, the results (0 source, Up upstream) whose data enter
\* its request, those it lists as references, those whose identity the request cites,
\* and where its execution identity is repeated: in the "request", in the "result"
\* ("unbound" when no check compares it there); "refs" when the result repeats the
\* references.
Step(roles, data, refs, cites, carries) ==
  [roles |-> roles, data |-> data, refs |-> refs, cites |-> cites, carries |-> carries]

Index(w) == DOMAIN w.steps
Roles(w) == w.verifier \cup UNION {w.steps[i].roles : i \in Index(w)}

(***************************************************************************)
(* Requests, references and results.                                          *)
(***************************************************************************)
Carried(w, i, parts, exec) == IF parts \cap w.steps[i].carries = {} THEN None ELSE exec

\* result_id covers the result; the references in it are compared on their own.
ResultId(s) == <<s.result.exec, s.result.data, s.result.native>>

Request(w, i, source, up, done, exec) ==
  [source |-> source,
   up |-> IF Up \in w.steps[i].data THEN up ELSE 0,
   data |-> [j \in w.steps[i].data \ {Up} |-> done[j].result.data],
   cites |-> [j \in w.steps[i].cites |-> ResultId(done[j])],
   exec |-> Carried(w, i, {"request"}, exec)]

InputRefs(w, i, source, up, done) ==
  [j \in w.steps[i].refs |->
     CASE j = 0 -> source [] j = Up -> up [] OTHER -> ResultId(done[j])]

\* A reproducible provider computes from its request and nothing else.
Computed(request) ==
  {<<"source", request.source>>}
    \cup (IF request.up = 0 THEN {} ELSE {<<"up", request.up>>})
    \cup UNION {request.data[j] : j \in DOMAIN request.data}

Flaw == <<"flaw", 0>>   \* in the data of a result that would not come out again

\* What step i of a session of w yields when nothing went wrong: its source, its upstream
\* and what the steps it asks about yielded.
Genuine(w, i, b) ==
  {<<"source", b.source>>}
    \cup (IF Up \in w.steps[i].data THEN {<<"up", b.up>>} ELSE {})
    \cup UNION {b.steps[j].result.data : j \in w.steps[i].data \ {Up}}

(***************************************************************************)
(* Bundles.  The digest leaves out the verification and the receipt.            *)
(***************************************************************************)
DigestOfAll(b) == b   \* bug: what is added after it is verified changes it
Digest(b) == [part \in {"session", "source", "up", "pair", "runtime", "steps"} |-> b[part]]

Numbers(steps) == [i \in DOMAIN steps |-> steps[i].result.data]
SameLengths(s, t) == Len(Numbers(s)) = Len(Numbers(t))   \* bug: only the lengths are compared
SameNumbers(s, t) == Numbers(s) = Numbers(t)

\* The comparison of a rerun: requests, results and numerical results.
SameContents(s, t) ==
  \A i \in DOMAIN s : s[i].request = t[i].request /\ ResultId(s[i]) = ResultId(t[i])

(***************************************************************************)
(* The comparisons a _validate is made of: first on the steps of a run ...        *)
(***************************************************************************)
Requests(w, b, steps) ==
  \A i \in Index(w) :
     steps[i].request = Request(w, i, b.source, b.up, steps, steps[i].exec)
RefsOnlyNamed(w, b, steps) ==   \* bug: which references, not what they refer to
  \A i \in Index(w) : DOMAIN steps[i].refs = w.steps[i].refs
Refs(w, b, steps) ==
  \A i \in Index(w) : steps[i].refs = InputRefs(w, i, b.source, b.up, steps)

\* A result repeats the execution identity and the references of its step.
Envelopes(w, b, steps) ==
  \A i \in Index(w) :
     /\ "result" \in w.steps[i].carries => steps[i].result.exec = steps[i].exec
     /\ "refs" \in w.steps[i].carries => steps[i].result.refs = steps[i].refs

\* Results that hold the identities of the programs that ran, and steps that repeat
\* the runtime declared.
RanAsBound(w, b, steps) ==
  \A i \in Index(w) : \A r \in w.steps[i].roles : steps[i].result.ran[r] = b.runtime[r]
Declared(w, b, steps) == \A i \in Index(w) : steps[i].runtime = b.runtime

\* An inspection that computes the result once more.
Recomputed(w, b, steps) ==
  \A i \in Index(w) : steps[i].result.data = Computed(steps[i].request)

\* An inspection that finds the data to be of this request as far as can be told without
\* computing: what was declared comes back, and the native identities are over it.
About(w, b, steps) ==
  \A i \in Index(w) : Computed(steps[i].request) \subseteq steps[i].result.data

OnSteps(w, b, steps, name) ==
  CASE name = "requests" -> Requests(w, b, steps)
    [] name = "refs" -> Refs(w, b, steps)
    [] name = "envelopes" -> Envelopes(w, b, steps)
    [] name = "ran" -> RanAsBound(w, b, steps)
    [] name = "declared" -> Declared(w, b, steps)
    [] name = "about" -> About(w, b, steps)
    [] name = "recomputed" -> Recomputed(w, b, steps)
StepChecks == {"requests", "refs", "envelopes", "ran", "declared", "about", "recomputed"}

RunHolds(w, b, steps) == \A name \in w.checks \cap StepChecks : OnSteps(w, b, steps, name)

(***************************************************************************)
(* ... then on the bundle.                                                     *)
(***************************************************************************)
ExecutionsDiffer(b) == \A i, j \in DOMAIN b.steps : b.steps[i].exec = b.steps[j].exec => i = j

Subject(b) == b.verification # None => b.verification.subject = Digest(b)

\* The retained reproduction is a valid run of its own with the same numerical results,
\* and for most workflows an occurrence of its own, down to the native ones.
Reproduced(w, b) ==
  /\ b.verification # None
  /\ RunHolds(w, b, b.verification.again)
  /\ SameNumbers(b.steps, b.verification.again)
Fresh(b) ==
  \A i \in DOMAIN b.steps : /\ b.steps[i].exec # b.verification.again[i].exec
                            /\ ResultId(b.steps[i]) # ResultId(b.verification.again[i])
NativeFresh(b) ==
  \A i \in DOMAIN b.steps : b.steps[i].result.native # b.verification.again[i].result.native

Selected(b) == b.up = b.source
Paired(b) == b.pair = b.up

\* A receipt names this bundle as the replay and another as the original; its proof is
\* about that original, and is a valid run, or the very run retained here.
ReceiptNames(b) == b.receipt.replayed = Digest(b) /\ b.receipt.original # Digest(b)
ReceiptSubject(b) == b.receipt.subject = b.receipt.original
ReceiptRun(w, b) == RunHolds(w, b, b.receipt.again)
ReceiptProves(b) == b.receipt.again = b.steps

Compared(w, b, name) ==
  CASE name \in StepChecks -> OnSteps(w, b, b.steps, name)
    [] name = "executions" -> ExecutionsDiffer(b)
    [] name = "subject" -> Subject(b)
    [] name = "reproduced" -> Reproduced(w, b)
    [] name = "fresh" -> Fresh(b)
    [] name = "native" -> NativeFresh(b)
    [] name = "selected" -> Selected(b)
    [] name = "paired" -> Paired(b)
    [] name = "receipt" -> b.receipt # None => ReceiptNames(b)
    [] name = "receipt_subject" -> b.receipt # None => ReceiptSubject(b)
    [] name = "receipt_run" -> b.receipt # None => ReceiptRun(w, b)
    [] name = "receipt_proof" -> b.receipt # None => ReceiptProves(b)

Accepts(w, b) == \A name \in w.checks : Compared(w, b, name)
=============================================================================
