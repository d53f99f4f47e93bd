------------------------------- MODULE Catalog -------------------------------
(***************************************************************************)
(* What the shared workbench of src/ciw/workbench.py promises to everything *)
(* that reads it: an append-only catalog of retained sources, native        *)
(* bundles and candidate receipts, in which every record names only records *)
(* that are already retained, together with the last saved copy of it.      *)
(* Nothing here knows of threads, reservations, bytes or identity claims:   *)
(* Workbench.tla has those, and implements this module.                     *)
(***************************************************************************)
EXTENDS FiniteSets

CONSTANTS
  Sources,       \* the source declarations that clients may submit
  Kinds,         \* workflow kinds (the keys of OPERATIONS)
  Ids,           \* identities of bundles and candidate receipts
  None,          \* Python's None
  Kind,          \* the kind a source declares
  UpstreamKind,  \* UPSTREAM_KINDS: the kind of bundle a kind consumes, or None
  Assessable     \* the kinds whose bundles a candidate action may inspect

VARIABLES
  sources,       \* retained sources
  bundles,       \* retained native bundles
  candidates,    \* retained candidate receipts
  saved,         \* the sources, bundles and candidates of the workspace file
  up             \* a process is serving the catalog

vars == <<sources, bundles, candidates, saved, up>>

Empty == [sources |-> {}, bundles |-> {}, candidates |-> {}]

\* The upstream bundle a record names is retained, and of the declared kind.
UpstreamRetained(b, B) ==
  IF UpstreamKind[Kind[b.source]] = None
    THEN b.upstream = None
    ELSE \E u \in B : u.id = b.upstream /\ Kind[u.source] = UpstreamKind[Kind[b.source]]

\* A replay names a retained bundle of the same source and the same upstream.
OriginRetained(b, B) ==
  b.origin # None =>
    \E o \in B : o.id = b.origin /\ o.source = b.source /\ o.upstream = b.upstream

SubjectRetained(c, B) == \E b \in B : b.id = c.subject /\ Kind[b.source] \in Assessable

Init ==
  /\ sources = {} /\ bundles = {} /\ candidates = {}
  /\ saved = Empty
  /\ up = TRUE

RetainSource(s) ==
  /\ up /\ s \notin sources
  /\ sources' = sources \cup {s}
  /\ UNCHANGED <<bundles, candidates, saved, up>>

RetainBundle(b) ==
  /\ up
  /\ b.source \in sources
  /\ \A other \in bundles : other.id # b.id
  /\ UpstreamRetained(b, bundles)
  /\ OriginRetained(b, bundles)
  /\ bundles' = bundles \cup {b}
  /\ UNCHANGED <<sources, candidates, saved, up>>

RetainCandidate(c) ==
  /\ up
  /\ \A other \in candidates : other.id # c.id
  /\ SubjectRetained(c, bundles)
  /\ candidates' = candidates \cup {c}
  /\ UNCHANGED <<sources, bundles, saved, up>>

Save ==
  /\ up
  /\ saved' = [sources |-> sources, bundles |-> bundles, candidates |-> candidates]
  /\ UNCHANGED <<sources, bundles, candidates, up>>

\* The process ends: only what was saved survives.
Stop ==
  /\ up
  /\ up' = FALSE
  /\ sources' = {} /\ bundles' = {} /\ candidates' = {}
  /\ UNCHANGED saved

\* A new process serves exactly the saved catalog.
Reopen ==
  /\ ~up
  /\ up' = TRUE
  /\ sources' = saved.sources
  /\ bundles' = saved.bundles
  /\ candidates' = saved.candidates
  /\ UNCHANGED saved

Next ==
  \/ \E s \in Sources : RetainSource(s)
  \/ \E b \in bundles' \ bundles : RetainBundle(b)
  \/ \E c \in candidates' \ candidates : RetainCandidate(c)
  \/ Save
  \/ Stop
  \/ Reopen

Spec == Init /\ [][Next]_vars

=============================================================================
