------------------------------- MODULE Provider -------------------------------
(***************************************************************************)
(* A call of a pinned provider: PinnedSubprocessAdapter.invoke of             *)
(* src/ciw/adapters/subprocess.py and CandidateAdapter.execute of             *)
(* src/ciw/candidate_evidence.py.  Both verify the pinned parts one after the *)
(* other, run the program, and verify the parts again; the parts can change    *)
(* at any moment.  A capture stores evidence in a place the service does not    *)
(* own.                                                                        *)
(***************************************************************************)
EXTENDS BoundedProcess, Sequences

CONSTANTS
  Parts,        \* sequence of what is pinned: source tree, executable, dependencies
  MaxChanges,   \* bound: changes of the parts
  MaxCalls      \* bound: calls, retries included

PartSet == {Parts[i] : i \in DOMAIN Parts}

ASSUME PartsAssumption == Parts \in Seq(PartSet) /\ MaxChanges \in Nat /\ MaxCalls \in Nat

VARIABLES
  call,         \* where the adapter is
  verified,     \* parts found unchanged in this round
  changed,      \* parts that differ from their pins now
  restored,     \* history: a changed part was put back
  ran,          \* history: changed parts the program of this call has loaded
  captures,     \* whether this call stores evidence
  stored,       \* evidence objects in the foreign store
  storedNow,    \* ... by this call
  receipts,     \* captures reported as retained
  calls, changes

adapterVars == <<call, verified, ran, captures, storedNow, receipts, calls>>
partVars == <<changed, restored, changes>>
vars == <<processVars, adapterVars, partVars, stored>>

Init ==
  /\ Asleep
  /\ call = "idle" /\ verified = 0 /\ ran = {} /\ captures = FALSE
  /\ changed = {} /\ restored = FALSE /\ changes = 0
  /\ stored = 0 /\ storedNow = FALSE /\ receipts = 0 /\ calls = 0

\* An operator or an update changes a part, or puts it back.
Change(x) ==
  /\ changes < MaxChanges /\ x \notin changed
  /\ changed' = changed \cup {x} /\ changes' = changes + 1
  /\ UNCHANGED <<processVars, adapterVars, restored, stored>>

PutBack(x) ==
  /\ x \in changed
  /\ changed' = changed \ {x} /\ restored' = TRUE
  /\ UNCHANGED <<processVars, adapterVars, changes, stored>>

Invoke(capture) ==
  /\ call \in {"idle", "returned", "refused"} /\ calls < MaxCalls
  /\ call' = "before" /\ calls' = calls + 1 /\ verified' = 0
  /\ captures' = capture /\ ran' = {} /\ storedNow' = FALSE
  /\ UNCHANGED <<processVars, partVars, stored, receipts>>

\* runtime_identity, _check: read the next part and compare it with its pin.
Verify ==
  /\ call \in {"before", "after"} /\ verified < Len(Parts)
  /\ IF Parts[verified + 1] \in changed
       THEN call' = "refused" /\ UNCHANGED verified
       ELSE verified' = verified + 1 /\ UNCHANGED call
  /\ UNCHANGED <<processVars, partVars, stored, ran, captures, storedNow, receipts, calls>>

\* Popen may fail: RUNTIME_UNAVAILABLE.
Run ==
  /\ call = "before" /\ verified = Len(Parts)
  /\ \/ call' = "running" /\ Start
     \/ call' = "refused" /\ UNCHANGED processVars
  /\ UNCHANGED <<partVars, stored, verified, ran, captures, storedNow, receipts, calls>>

\* The program loads a part whenever it needs it.
Load(x) ==
  /\ call = "running" /\ child = "running" /\ x \in changed
  /\ ran' = ran \cup {x}
  /\ UNCHANGED <<processVars, partVars, stored, call, verified, captures, storedNow, receipts, calls>>

Store ==
  /\ captures /\ call = "running" /\ child = "running" /\ ~storedNow
  /\ stored' = stored + 1 /\ storedNow' = TRUE
  /\ UNCHANGED <<processVars, partVars, call, verified, ran, captures, receipts, calls>>

\* ESM exits with status 0 only after it has stored what it was asked to capture.
Ends ==
  /\ call = "running"
  /\ \/ Exit("failed")
     \/ (captures => storedNow) /\ Exit("ok")
  /\ UNCHANGED <<adapterVars, partVars, stored>>

\* The call returns: an exit status, or a refusal of _bounded_process.
SuccessfulExit == outcome = "ok"

Collect ==
  /\ call = "running" /\ main = "done"
  /\ IF SuccessfulExit
       THEN call' = "after" /\ verified' = 0
       ELSE call' = "refused" /\ UNCHANGED verified
  /\ Forget
  /\ UNCHANGED <<partVars, stored, ran, captures, storedNow, receipts, calls>>

\* The answer is parsed and validated, which may fail, and then returned.
UncheckedAfter == call = "after"                    \* bug: no second verification
VerifiedAfter == call = "after" /\ verified = Len(Parts)

Return ==
  /\ VerifiedAfter
  /\ \/ call' = "refused" /\ UNCHANGED receipts
     \/ call' = "returned" /\ receipts' = receipts + (IF captures THEN 1 ELSE 0)
  /\ UNCHANGED <<processVars, partVars, stored, verified, ran, captures, storedNow, calls>>

Adapter == Verify \/ Run \/ Collect \/ Return
Thread(step) == step /\ UNCHANGED <<adapterVars, partVars, stored>>

Next ==
  \/ \E x \in PartSet : Change(x) \/ PutBack(x) \/ Load(x)
  \/ \E capture \in BOOLEAN : Invoke(capture)
  \/ Adapter \/ Store \/ Ends
  \/ Thread(Detach) \/ Thread(OrphanEnds) \/ Thread(Dies) \/ Thread(Clock)
  \/ \E p \in Pipes : Thread(Write(p)) \/ Thread(Drain(p))
  \/ Thread(Decide)

Spec == Init /\ [][Next]_vars

\* The adapter's thread runs, and its clock; the drain threads, the program and what
\* it leaves behind need not.
FairSpec ==
  /\ Spec
  /\ WF_vars(Adapter)
  /\ WF_vars(Thread(Decide))
  /\ WF_vars(Thread(Clock))

-----------------------------------------------------------------------------
\* A call that ends with an exit status, and under its limit, returns everything the
\* program and its descendants wrote (subprocess.py:119-133).
OutputComplete ==
  main = "done" /\ outcome \notin Refusals /\ ~exceeded
    => kept = made["stdout"] /\ \A p \in Pipes : pipe[p] = 0

\* An answer that is accepted was computed by the pinned parts alone, although each
\* part is read at a different moment, unless a part was changed and put back
\* (subprocess.py:350-355, candidate_evidence.py:165-189).
AcceptedWasPinned == call = "returned" /\ ~restored => ran = {}

\* Every receipt stands for evidence of its own; the reverse fails after a timeout,
\* as the comment at candidate_evidence.py:185 says.
ReceiptsAreStored == receipts <= stored

\* A call comes to an end although the program never ends, is not gone after it was
\* killed, or left a descendant that keeps the pipes open for ever
\* (subprocess.py:111-126).
CallsEnd == call = "before" ~> call \in {"returned", "refused"}
=============================================================================
