------------------------------ MODULE Workbench ------------------------------
(***************************************************************************)
(* The retained catalog of src/ciw/workbench.py as worker threads drive it.  *)
(* Each protocol request runs in a thread (asyncio.to_thread); an operation  *)
(* that computes takes the catalog lock three times: to look its inputs up   *)
(* and reserve room, to retain what it computed, and, in its finally clause, *)
(* to give the reservation back.  Other threads run between these steps.     *)
(* The process may crash at any point; the workspace file then holds the     *)
(* last catalog that was saved, and Workbench.restore decides whether a new  *)
(* process can serve it.                                                     *)
(***************************************************************************)
EXTENDS Integers, FiniteSets

CONSTANTS
  Sources,              \* source declarations that clients may submit
  Kinds,                \* workflow kinds
  Threads,              \* worker threads of the service
  Ids,                  \* fresh identities (bundle digests, candidate digests)
  None,                 \* Python's None
  Kind,                 \* Kind[s]: the workflow kind that source s declares
  UpstreamKind,         \* UPSTREAM_KINDS, None for the kinds it has no key for
  Assessable,           \* the kinds execute_candidate accepts
  Builtin,              \* the kinds __init__ binds to no provider
  Run,                  \* Run[s]: the capture occurrence an energy log names, or None
  Log,                  \* Log[s]: the digest of that energy log
  SourceSize,           \* bytes of the retained source record
  Limit,                \* MAX_BYTES of the workflow of a kind
  Sizes,                \* bytes a record of that kind may have once validated
  CandidateReservation, \* bytes execute_candidate reserves
  CandidateSizes,       \* bytes a candidate receipt may have
  MaxSources,           \* MAX_SOURCES
  MaxBundles,           \* MAX_BUNDLES
  MaxBytes,             \* MAX_BYTES
  Overhead              \* _OVERHEAD

ASSUME ConstantTypes ==
  /\ IsFiniteSet(Threads)
  /\ None \notin Ids /\ None \notin Kinds
  /\ Kind \in [Sources -> Kinds]
  /\ UpstreamKind \in [Kinds -> Kinds \cup {None}]
  /\ Assessable \subseteq Kinds /\ Builtin \subseteq Kinds
  /\ SourceSize \in [Sources -> Nat]
  /\ Limit \in [Kinds -> Nat]
  /\ Sizes \in [Kinds -> SUBSET Nat]
  /\ CandidateReservation \in Nat \ {0} /\ CandidateSizes \subseteq Nat
  /\ MaxSources \in Nat /\ MaxBundles \in Nat
  /\ Overhead \in Nat \ {0}
  /\ MaxBytes \in Nat /\ Overhead <= MaxBytes

VARIABLES
  sources,      \* _sources
  bundles,      \* _bundles
  candidates,   \* _candidates
  identities,   \* _identities: the capture claims of the retained bundles
  bound,        \* _bindings: the kinds that have a trusted binding
  adapters,     \* _candidate_adapters: the kinds that have a candidate adapter
  used,         \* _used_bytes
  pending,      \* _pending
  reserved,     \* _reserved_bytes
  revision,     \* _revision
  stage,        \* where each thread is in the operation it runs
  job,          \* what that operation read under its first lock
  hold,         \* its local variable "reserved"
  saved,        \* the "workbench" member of the workspace file
  up            \* a process is serving the catalog

catalog == <<sources, bundles, candidates, identities, used, revision>>
bindings == <<bound, adapters>>
threads == <<stage, job, hold>>
vars == <<catalog, bindings, pending, reserved, threads, saved, up>>

\* "computing" holds no lock; the next three await the finally clause.
SettledWhenDone == {"retained", "failed"}                  \* bug: no clean-up after a refusal
Settled == {"retained", "collision", "overrun", "oversize", "failed"}
Stages == {"idle", "computing"} \cup Settled

\* A retained bundle; "origin" is the bundle its replay receipt names, if any.
Bundle == [id : Ids, source : Sources, upstream : Ids \cup {None},
           origin : Ids \cup {None}, size : Nat]
\* A retained candidate receipt and the bundle it is about.
Candidate == [id : Ids, subject : Ids, size : Nat]

NoJob == [role |-> "none"]
BundleJobs == [role : {"bundle"}, source : Sources, upstream : Ids \cup {None},
               origin : Ids \cup {None}]
CandidateJobs == [role : {"candidate"}, subject : Ids]

-----------------------------------------------------------------------------
(* Bytes.  A byte of a record is a pair <<record, index>>, so that a number *)
(* of bytes is the cardinality of a set.                                    *)

SourceBytes(S) == UNION {{s} \X (1..SourceSize[s]) : s \in S}
RecordBytes(R) == UNION {{r} \X (1..r.size) : r \in R}
Footprint(S, B, C) ==
  Cardinality(SourceBytes(S)) + Cardinality(RecordBytes(B)) + Cardinality(RecordBytes(C))

\* Room for n more bytes beside what is retained and what is reserved.
HasRoomUnreserved(n) == used + n + Overhead <= MaxBytes  \* bug: ignores reservations
HasRoomUnwrapped(n) == used + reserved + n <= MaxBytes   \* bug: no room for the wrapper
HasRoom(n) == used + reserved + n + Overhead <= MaxBytes

\* The room _retain asks for: what is reserved, its own reservation included, is
\* not counted.
Fits(n) == used + n + Overhead <= MaxBytes

\* A slot for one more operation beside n retained records.
HasSlotUnreserved(n) == n < MaxBundles                   \* bug: ignores operations in flight
HasSlot(n) == n + pending < MaxBundles

\* The bytes _reserve grants an operation of kind k.
Reservation(k) == Limit[k] + Overhead

\* Every record that the workflows validate is within what _reserve grants.
RecordsFit == \A k \in Kinds : \A n \in Sizes[k] : n <= Reservation(k)

-----------------------------------------------------------------------------
(* Identity claims.  Executions, results and sessions carry uuid4 or digest *)
(* identities, which do not collide.  The identities that a client chooses  *)
(* are the capture occurrence of an energy log and that log's digest: each  *)
(* claims the other.                                                        *)

Claims(s) == IF Run[s] = None THEN {} ELSE {<<Run[s], Log[s]>>, <<Log[s], Run[s]>>}
Agrees(claims, known) == \A c \in claims, k \in known : c[1] = k[1] => c[2] = k[2]

-----------------------------------------------------------------------------
(* Links.                                                                   *)

UpstreamHolds(b, B) ==
  LET wanted == UpstreamKind[Kind[b.source]]
  IN  IF wanted = None THEN b.upstream = None
      ELSE \E u \in B : u.id = b.upstream /\ Kind[u.source] = wanted

ReceiptHolds(b, B) ==
  \/ b.origin = None
  \/ \E o \in B : /\ o.id = b.origin /\ o.id # b.id
                  /\ o.source = b.source /\ o.upstream = b.upstream

LinksHold(b, B) == UpstreamHolds(b, B) /\ ReceiptHolds(b, B)

SubjectHolds(c, B) == \E b \in B : b.id = c.subject /\ Kind[b.source] \in Assessable

-----------------------------------------------------------------------------
Document == [sources |-> sources, bundles |-> bundles, candidates |-> candidates,
             revision |-> revision]

EmptyDocument == [sources |-> {}, bundles |-> {}, candidates |-> {}, revision |-> 0]

\* What restore demands of a saved catalog.
Accepts(d) ==
  /\ d.revision = Cardinality(d.sources) + Cardinality(d.bundles) + Cardinality(d.candidates)
  /\ Cardinality(d.sources) <= MaxSources
  /\ Cardinality(d.bundles) <= MaxBundles
  /\ Cardinality(d.candidates) <= MaxBundles
  /\ \A b \in d.bundles : b.source \in d.sources /\ LinksHold(b, d.bundles)
  /\ \A b1, b2 \in d.bundles : /\ b1.id = b2.id => b1 = b2
                               /\ Agrees(Claims(b1.source), Claims(b2.source))
  /\ \A c \in d.candidates : SubjectHolds(c, d.bundles)
  /\ \A c1, c2 \in d.candidates : c1.id = c2.id => c1 = c2
  /\ Footprint(d.sources, d.bundles, d.candidates) + Overhead <= MaxBytes

-----------------------------------------------------------------------------
\* The claims and the bytes that restore derives from a document.
NoIdentities(d) == {}                                    \* bug: claims not rebuilt
RestoredIdentities(d) == UNION {Claims(b.source) : b \in d.bundles}

BytesButReceipts(d) == Footprint(d.sources, d.bundles, {})  \* bug: receipts not counted
RestoredBytes(d) == Footprint(d.sources, d.bundles, d.candidates)

\* A catalog with no operation in flight, and no binding but the built-in ones.
Load(d) ==
  /\ sources' = d.sources /\ bundles' = d.bundles /\ candidates' = d.candidates
  /\ identities' = RestoredIdentities(d)
  /\ used' = RestoredBytes(d)
  /\ revision' = d.revision
  /\ bound' = Builtin /\ adapters' = {}
  /\ pending' = 0 /\ reserved' = 0
  /\ stage' = [t \in Threads |-> "idle"]
  /\ job' = [t \in Threads |-> NoJob]
  /\ hold' = [t \in Threads |-> 0]

Init ==
  /\ sources = {} /\ bundles = {} /\ candidates = {}
  /\ identities = {}
  /\ bound = Builtin /\ adapters = {}
  /\ used = 0 /\ pending = 0 /\ reserved = 0 /\ revision = 0
  /\ stage = [t \in Threads |-> "idle"]
  /\ job = [t \in Threads |-> NoJob]
  /\ hold = [t \in Threads |-> 0]
  /\ saved = EmptyDocument
  /\ up = TRUE

\* bind_workflow and bind_candidate_adapter: the host's choice, at any time.
BindWorkflow(k) ==
  /\ up
  /\ bound' = bound \cup {k}
  /\ UNCHANGED <<catalog, adapters, pending, reserved, threads, saved, up>>

BindCandidateAdapter(k) ==
  /\ up /\ k \in Assessable
  /\ adapters' = adapters \cup {k}
  /\ UNCHANGED <<catalog, bound, pending, reserved, threads, saved, up>>

\* add_source: one critical section; a source that is retained stays as it is.
AddSource(s) ==
  /\ up /\ s \notin sources
  /\ Cardinality(sources) < MaxSources
  /\ HasRoom(SourceSize[s])
  /\ sources' = sources \cup {s}
  /\ used' = used + SourceSize[s]
  /\ revision' = revision + 1
  /\ UNCHANGED <<bundles, candidates, identities, bindings, pending, reserved, threads, saved, up>>

\* The end of an operation's first critical section: take a slot and n bytes.
Reserve(t, j, n, slots) ==
  /\ stage[t] = "idle"
  /\ HasSlot(slots)
  /\ HasRoom(n)
  /\ pending' = pending + 1
  /\ reserved' = reserved + n
  /\ stage' = [stage EXCEPT ![t] = "computing"]
  /\ job' = [job EXCEPT ![t] = j]
  /\ hold' = [hold EXCEPT ![t] = n]

ReserveBundle(t, s, u, o) ==
  /\ up
  /\ Kind[s] \in bound
  /\ Reserve(t, [role |-> "bundle", source |-> s, upstream |-> u, origin |-> o],
             Reservation(Kind[s]), Cardinality(bundles))
  /\ UNCHANGED <<catalog, bindings, saved, up>>

\* execute: the source and the selected upstream bundle must be retained.
Execute(t, s, u) ==
  /\ s \in sources
  /\ IF UpstreamKind[Kind[s]] = None THEN u = None
     ELSE \E b \in bundles : b.id = u /\ Kind[b.source] = UpstreamKind[Kind[s]]
  /\ ReserveBundle(t, s, u, None)

\* replay: everything but the bundle's identity comes from the retained record.
Replay(t, b) ==
  /\ b \in bundles
  /\ ReserveBundle(t, b.source, b.upstream, b.id)

ExecuteCandidate(t, b) ==
  /\ up
  /\ b \in bundles /\ Kind[b.source] \in adapters
  /\ Reserve(t, [role |-> "candidate", subject |-> b.id], CandidateReservation,
             Cardinality(candidates))
  /\ UNCHANGED <<catalog, bindings, saved, up>>

SettleForGood(t, result) == stage' = [stage EXCEPT ![t] = "idle"]  \* bug: no finally clause
Settle(t, result) == stage' = [stage EXCEPT ![t] = result]

\* What the provider computes for a job has one of these sizes.
SizesOf(j) ==
  CASE j.role = "bundle"    -> Sizes[Kind[j.source]]
    [] j.role = "candidate" -> CandidateSizes
    [] OTHER                -> {}

Computing(t, role) == up /\ stage[t] = "computing" /\ job[t].role = role

\* The second critical section ends without a record.
Refuse(t, result) ==
  /\ Settle(t, result)
  /\ UNCHANGED <<catalog, bindings, pending, reserved, job, hold, saved, up>>

FreshUnchecked(id) == TRUE                               \* bug: a bundle may be replaced
Fresh(id) == \A b \in bundles : b.id # id

\* _retain of a native bundle: fresh identity, links, claims, bytes, in this order.
Retain(t, id, size) ==
  LET j == job[t]
      b == [id |-> id, source |-> j.source, upstream |-> j.upstream,
            origin |-> j.origin, size |-> size]
  IN  /\ Computing(t, "bundle")
      /\ Fresh(id)
      /\ LinksHold(b, bundles)
      /\ Agrees(Claims(j.source), identities)
      /\ Fits(size)
      /\ bundles' = bundles \cup {b}
      /\ identities' = identities \cup Claims(j.source)
      /\ used' = used + size
      /\ revision' = revision + 1
      /\ Settle(t, "retained")
      /\ UNCHANGED <<sources, candidates, bindings, pending, reserved, job, hold, saved, up>>

\* _retain refuses a bundle whose capture claims an identity with other content.
RefuseCollision(t) ==
  /\ Computing(t, "bundle")
  /\ ~Agrees(Claims(job[t].source), identities)
  /\ Refuse(t, "collision")

\* _retain refuses, for want of bytes, a bundle that has been computed.
RefuseOverrun(t, size) ==
  /\ Computing(t, "bundle")
  /\ Agrees(Claims(job[t].source), identities)
  /\ ~Fits(size)
  /\ Refuse(t, "overrun")

\* execute_candidate retains a receipt that is within its reservation, without
\* looking at the bytes used.
Publish(t, id, size) ==
  /\ Computing(t, "candidate")
  /\ size <= hold[t]
  /\ \A other \in candidates : other.id # id
  /\ candidates' = candidates \cup {[id |-> id, subject |-> job[t].subject, size |-> size]}
  /\ used' = used + size
  /\ revision' = revision + 1
  /\ Settle(t, "retained")
  /\ UNCHANGED <<sources, bundles, identities, bindings, pending, reserved, job, hold, saved, up>>

RefuseReceipt(t, size) ==
  /\ Computing(t, "candidate")
  /\ size > hold[t]
  /\ Refuse(t, "oversize")

\* The provider refuses, times out or returns what its validator rejects.
Fail(t) ==
  /\ up /\ stage[t] = "computing"
  /\ Refuse(t, "failed")

\* The finally clause: the third critical section.
Release(t) ==
  /\ up /\ stage[t] \in Settled
  /\ pending' = pending - 1
  /\ reserved' = reserved - hold[t]
  /\ stage' = [stage EXCEPT ![t] = "idle"]
  /\ job' = [job EXCEPT ![t] = NoJob]
  /\ hold' = [hold EXCEPT ![t] = 0]
  /\ UNCHANGED <<catalog, bindings, saved, up>>

\* serialize, into the workspace file that write_json replaces atomically.
Save ==
  /\ up
  /\ saved' = Document
  /\ UNCHANGED <<catalog, bindings, pending, reserved, threads, up>>

Crash ==
  /\ up
  /\ up' = FALSE
  /\ Load(EmptyDocument)
  /\ UNCHANGED saved

\* restore, in a new process; a document it does not accept is never served.
Restore ==
  /\ ~up /\ Accepts(saved)
  /\ up' = TRUE
  /\ Load(saved)
  /\ UNCHANGED saved

Work(t) ==
  \/ \E s \in sources, u \in Ids \cup {None} : Execute(t, s, u)
  \/ \E b \in bundles : Replay(t, b)
  \/ \E b \in bundles : ExecuteCandidate(t, b)

Finish(t) ==
  \/ \E id \in Ids, size \in SizesOf(job[t]) : Retain(t, id, size) \/ Publish(t, id, size)
  \/ \E size \in SizesOf(job[t]) : RefuseOverrun(t, size) \/ RefuseReceipt(t, size)
  \/ RefuseCollision(t)
  \/ Fail(t)
  \/ Release(t)

Host ==
  \/ \E k \in Kinds : BindWorkflow(k) \/ BindCandidateAdapter(k)
  \/ Save
  \/ Crash
  \/ Restore

Next ==
  \/ Host
  \/ \E s \in Sources : AddSource(s)
  \/ \E t \in Threads : Work(t) \/ Finish(t)

Spec == Init /\ [][Next]_vars

\* A provider runs under a deadline and the finally clause always follows.
FairSpec == Spec /\ \A t \in Threads : WF_vars(Finish(t))

-----------------------------------------------------------------------------
\* Every variable has the shape of the Python attribute it stands for, and a
\* thread's job and hold exist exactly while its operation is in flight.
TypeOK ==
  /\ sources \subseteq Sources /\ IsFiniteSet(sources)
  /\ bundles \subseteq Bundle /\ IsFiniteSet(bundles)
  /\ candidates \subseteq Candidate /\ IsFiniteSet(candidates)
  /\ bound \subseteq Kinds /\ adapters \subseteq Assessable
  /\ used \in Nat /\ pending \in Nat /\ reserved \in Nat /\ revision \in Nat
  /\ stage \in [Threads -> Stages]
  /\ job \in [Threads -> {NoJob} \cup BundleJobs \cup CandidateJobs]
  /\ hold \in [Threads -> Nat]
  /\ \A t \in Threads : (stage[t] = "idle") <=> (job[t] = NoJob)
  /\ \A t \in Threads : (stage[t] = "idle") <=> (hold[t] = 0)
  /\ saved \in [sources : SUBSET Sources, bundles : SUBSET Bundle,
               candidates : SUBSET Candidate, revision : Nat]
  /\ IsFiniteSet(saved.sources) /\ IsFiniteSet(saved.bundles) /\ IsFiniteSet(saved.candidates)
  /\ up \in BOOLEAN

InFlight == {t \in Threads : stage[t] # "idle"}
HeldBytes(h, T) == UNION {{t} \X (1..h[t]) : t \in T}

\* The four counters that the critical sections update separately never drift
\* from what they count: _pending and _reserved_bytes from the operations in
\* flight (workbench.py:673-693, 809-810, 878-880), _used_bytes and _revision
\* from the retained records (823-828, 686-688, 773-776), also across a restore.
Accounting ==
  /\ pending = Cardinality(InFlight)
  /\ reserved = Cardinality(HeldBytes(hold, Threads))
  /\ used = Footprint(sources, bundles, candidates)
  /\ revision = Cardinality(sources) + Cardinality(bundles) + Cardinality(candidates)

Running == {t \in Threads : stage[t] = "computing"}
Computes(role) == {t \in Running : job[t].role = role}

\* An admitted operation keeps its slot: however the others finish, the bundles
\* and the receipts that are still being computed fit the catalog's two limits,
\* although _retain and execute_candidate check no count (workbench.py:805, 670).
SlotsKept ==
  /\ Cardinality(bundles) + Cardinality(Computes("bundle")) <= MaxBundles
  /\ Cardinality(candidates) + Cardinality(Computes("candidate")) <= MaxBundles

\* What is retained and what is promised to running operations fit the byte
\* budget (workbench.py:671, 770, 806, 823).
Budget ==
  used + Cardinality(HeldBytes(hold, Running)) + Overhead <= MaxBytes

\* An operation that was granted its reservation is not refused for bytes after
\* it has computed, whatever other threads retained meanwhile.
ReservationHonoured == \A t \in Threads : stage[t] # "overrun"

\* Whatever moment the catalog was saved at, restore accepts the saved document
\* (workbench.py:1041-1094): README.md:106 "It saves a workspace, reopens it
\* without recomputation".
SavedReopens == Accepts(saved)

\* One capture occurrence is never bound to two logs, nor one log to two
\* occurrences, among all bundles of a catalog: not by two executions that were
\* in flight together, and not after a restart (workbench.py:286-289, 753-756).
OneLogPerRun ==
  \A b1, b2 \in bundles :
    Run[b1.source] # None /\ Run[b2.source] # None =>
      (Run[b1.source] = Run[b2.source] <=> Log[b1.source] = Log[b2.source])

\* Clients drop a snapshot by comparing revisions: within one process the
\* revision grows whenever the catalog does, by one, and otherwise stays
\* (workbench.py:688, 776, 828).
RevisionTracksCatalog ==
  [][up /\ up' =>
       IF <<sources, bundles, candidates>>' = <<sources, bundles, candidates>>
         THEN revision' = revision
         ELSE revision' = revision + 1]_vars

\* Every operation that starts to compute ends and gives its reservation back
\* (the finally clauses, workbench.py:690-693, 878-880, 904-907).
OperationsEnd == \A t \in Threads : stage[t] = "computing" ~> hold[t] = 0

\* The workbench implements the append-only catalog of Catalog.tla.
Abstract == INSTANCE Catalog WITH
  saved <- [sources |-> saved.sources, bundles |-> saved.bundles,
            candidates |-> saved.candidates]
ImplementsCatalog == Abstract!Spec
=============================================================================
