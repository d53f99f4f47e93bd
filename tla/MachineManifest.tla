---------------------------- MODULE MachineManifest ----------------------------
(***************************************************************************)
(* machine_manifest: the manifest of a machine is compiled from a bundle of  *)
(* evidence, with the bytes of its sources, from a candidate that cites the  *)
(* evidence claim by claim, and from a challenge of the one by the other.    *)
(* Each of the three is edited and sealed on its own, so those at hand need  *)
(* not belong together.  Digests stand as what they are digests of.          *)
(***************************************************************************)
EXTENDS Naturals, FiniteSets, Functions

CONSTANTS
  Machines,
  Contents,      \* the bytes of sources, each of which says a value of one claim
  Claims,        \* what a candidate claims, "firmware" and "homing" among it; they name
                 \* the sources and the items of evidence too
  MaxEdits,      \* bound
  None

\* About which claim the bytes are, and what they say of it.
About(content) == content.about
Says(content) == content.says
Values == {Says(b) : b \in Contents}

VARIABLES
  bundle, candidate, report,         \* the documents at hand
  manifest,      \* the one compiled last
  edits

vars == <<bundle, candidate, report, manifest, edits>>

-----------------------------------------------------------------------------
(* What validate asks of a bundle and of a candidate. *)

ValidBundle(b) ==
  /\ b.sources # <<>> /\ b.items # <<>>
  /\ \A s, t \in DOMAIN b.sources : b.sources[s].content = b.sources[t].content => s = t
ValidCandidate(c) ==
  \A k \in Claims : c.claims[k].status = "unresolved" \/ c.claims[k].refs # {}

-----------------------------------------------------------------------------
(* challenge: what is wrong with a claim, and with an item that it cites. *)

Gap(condition, code) == IF condition THEN {code} ELSE {}

AnyRevision(item, source) == {}                  \* bug: the bytes may be others by now
Revised(item, source) == Gap(item.bytes # source.content, "source_revision_changed")
AnyValue(k, claim, item) == {}                   \* bug: the value is not compared
Unbound(k, claim, item) ==
  Gap(k \notin DOMAIN item.claims \/ item.claims[k] # claim.value, "claim_not_bound_to_evidence")
AnyMachine(c, item, source) == {}                \* bug: evidence of another machine will do
Reused(c, item, source) ==
  Gap(item.machine # c.machine \/ source.machine # c.machine, "reused_provenance_other_machine")
Mismatched(claim, item) ==
  Gap(item.status = "unresolved" \/ item.status # claim.status, "evidence_status_mismatch")
OtherFirmware(k, claim, source) ==
  Gap(k = "firmware" /\ (About(source.content) # k \/ claim.value # Says(source.content)),
      "firmware_configuration_unbound")

OfItem(c, k, item, source) ==
  Reused(c, item, source) \cup Revised(item, source) \cup Mismatched(c.claims[k], item)
  \cup Unbound(k, c.claims[k], item) \cup OtherFirmware(k, c.claims[k], source)
OfReference(c, b, k, ref) ==
  IF ref \notin DOMAIN b.items THEN {"missing_evidence_reference"}
  ELSE IF b.items[ref].source \notin DOMAIN b.sources THEN {"missing_retained_source"}
  ELSE OfItem(c, k, b.items[ref], b.sources[b.items[ref].source])
OfClaim(c, b, k) ==
  Gap(c.claims[k].status = "unresolved", "claim_unresolved")
  \cup UNION {OfReference(c, b, k, ref) : ref \in c.claims[k].refs}

Findings(c, b) ==
  Gap(c.machine # b.machine, "machine_identity_mismatch")
  \cup Gap(c.bundle # b, "evidence_revision_changed")
  \cup UNION {OfClaim(c, b, k) : k \in Claims}
  \cup Gap("homing" \in Claims /\ c.claims["homing"].value # "established", "homing_reference_not_established")

Report(c, b) == [candidate |-> c, bundle |-> b, findings |-> Findings(c, b)]

\* compile: None where it raises.
Blessed(r, c, b) == r.findings = {}              \* bug: a validated report is not run again
Current(r, c, b) == r = Report(c, b)
Sound(c, b, r) ==
  /\ ValidCandidate(c) /\ ValidBundle(b)
  /\ IF r = None THEN Findings(c, b) = {} ELSE Current(r, c, b) /\ r.findings = {}
Compiled(c, b, r) ==
  [candidate |-> c, bundle |-> b, report |-> IF r = None THEN Report(c, b) ELSE r]

\* validate compiles once more what a manifest retains.
Valid(m) == Sound(m.candidate, m.bundle, m.report)

-----------------------------------------------------------------------------
(* Editing, challenging, compiling. *)

\* An item says what its source said when it was drawn.
Drawn(s, source, status) ==
  [machine |-> source.machine, source |-> s, bytes |-> source.content, status |-> status,
   claims |-> [k \in {About(source.content)} |-> Says(source.content)]]

\* All at hand belongs together at first: what is edited from then on need not.
Prepared(machine, read) ==
  LET sources == [k \in Claims |-> [machine |-> machine, content |-> read[k]]]
  IN [machine |-> machine, sources |-> sources, items |-> [k \in Claims |-> Drawn(k, sources[k], "documented")]]
Init ==
  \E machine \in Machines, read \in {r \in [Claims -> Contents] : \A k \in Claims : About(r[k]) = k} :
    /\ bundle = Prepared(machine, read)
    /\ candidate = [machine |-> machine, bundle |-> bundle,
         claims |-> [k \in Claims |-> [value |-> Says(read[k]), status |-> "documented", refs |-> {k}]]]
    /\ report = None /\ manifest = None
    /\ edits = 0

Edit == edits < MaxEdits /\ edits' = edits + 1
With(f, key, value) == [k \in DOMAIN f \cup {key} |-> IF k = key THEN value ELSE f[k]]
Without(f, key) == [k \in DOMAIN f \ {key} |-> f[k]]
EditBundle(b) ==
  /\ bundle' = b /\ ValidBundle(b)
  /\ Edit
  /\ UNCHANGED <<candidate, report, manifest>>

\* A source is added, or read anew, which leaves the items that were drawn from it; or it goes.
Retain(s, machine, content) ==
  EditBundle([bundle EXCEPT !.sources = With(@, s, [machine |-> machine, content |-> content])])
Drop(s) ==
  s \in DOMAIN bundle.sources /\ EditBundle([bundle EXCEPT !.sources = Without(@, s)])

\* An item is drawn from a source as it is now, or struck out.
Draw(i, s, status) ==
  /\ s \in DOMAIN bundle.sources
  /\ EditBundle([bundle EXCEPT !.items = With(@, i, Drawn(s, bundle.sources[s], status))])
Strike(i) ==
  i \in DOMAIN bundle.items /\ EditBundle([bundle EXCEPT !.items = Without(@, i)])

\* A claim is made; the candidate cites the bundle at hand, or goes on citing its own.
Claim(k, claim, b) ==
  /\ candidate' = [candidate EXCEPT !.bundle = b, !.claims[k] = claim]
  /\ Edit
  /\ UNCHANGED <<bundle, report, manifest>>
Claimed ==
  [value : Values, status : {"documented"}, refs : {{k} : k \in Claims}]
  \cup {[value |-> None, status |-> "unresolved", refs |-> {}]}

ChallengeNow ==
  /\ ValidCandidate(candidate) /\ ValidBundle(bundle)
  /\ report' = Report(candidate, bundle)
  /\ UNCHANGED <<bundle, candidate, manifest, edits>>

\* With the report at hand, or without one.
Compile(r) ==
  /\ Sound(candidate, bundle, r)
  /\ manifest' = Compiled(candidate, bundle, r)
  /\ UNCHANGED <<bundle, candidate, report, edits>>

Next ==
  \/ \E k \in Claims, machine \in Machines, content \in Contents : Retain(k, machine, content)
  \/ \E k \in Claims : Drop(k) \/ Strike(k)
  \/ \E k, s \in Claims, status \in {"documented", "unresolved"} : Draw(k, s, status)
  \/ \E k \in Claims, claim \in Claimed, b \in {candidate.bundle, bundle} : Claim(k, claim, b)
  \/ ChallengeNow
  \/ \E r \in {report, None} : Compile(r)

Spec == Init /\ [][Next]_vars

-----------------------------------------------------------------------------
(* What has to hold. *)

\* Put together from a manifest and from the documents at hand, under a new seal.
Assembled ==
  IF manifest = None THEN {}
  ELSE [candidate : {manifest.candidate, candidate}, bundle : {manifest.bundle, bundle},
        report : {manifest.report, report} \ {None}]

\* Whatever was revised between the citing, the challenge and the compilation, and whatever
\* validate is shown, a manifest that was compiled or is accepted claims what retained bytes
\* of its own machine say (machine_manifest's challenge and compile): a previous challenge
\* cannot bless changed source bytes.
Supported(m) ==
  \A k \in Claims : \E s \in DOMAIN m.bundle.sources :
    /\ m.bundle.sources[s].machine = m.candidate.machine
    /\ About(m.bundle.sources[s].content) = k
    /\ m.candidate.claims[k].value = Says(m.bundle.sources[s].content)
Accepted == {m \in Assembled : Valid(m)} \cup ({manifest} \ {None})
AcceptedSupported == \A m \in Accepted : Supported(m) /\ m.candidate.machine = m.bundle.machine

=============================================================================
