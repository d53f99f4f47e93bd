----------------------------- MODULE ProjectModel -----------------------------
(***************************************************************************)
(* project_model: the declared graph of a project.  A project is an append-  *)
(* only history of events, replayed in full by every operation; here is what *)
(* the replay derives, event by event.  A result pins the revisions of what  *)
(* it was computed from, and inspect says of each result whether it is still *)
(* current.  A revision is a digest of an object's declaration, and stands   *)
(* here as that declaration.                                                 *)
(***************************************************************************)
EXTENDS Naturals, FiniteSets, Functions

CONSTANTS
  Declarations,  \* what is put besides results: an identifier, a kind and a content
  Results,       \* identifiers of results
  EdgeIds, Edges,          \* identifiers of edges, and the edges that are connected
  Contexts,                \* for some fields, whether they are known and by what evidence
  MaxPins,       \* bound: inputs that a result pins (64 in the code)
  MaxHistory, MaxObjects,  \* limits of the code: 256 events, 64 objects and
  MaxEdges,                \* 128 edges
  None

EvidenceKinds == {"evidence", "evidence_bundle", "challenge_report"}
Identifiers == {d.id : d \in Declarations} \cup Results

VARIABLES
  objects,       \* the latest declaration of each object
  edges,
  seen,          \* every declaration that an object has had
  context,
  events         \* how long the history is

vars == <<objects, edges, seen, context, events>>

Revision(o) == objects[o]
IsResult(o) == o \in DOMAIN objects /\ objects[o].kind = "result"

-----------------------------------------------------------------------------
(* The graph. *)

Computations(es) == {e \in Range(es) : e.relation = "computation"}
Children(es, o) == {e.to : e \in {c \in Computations(es) : c.from = o}}

\* The visit of _dag, along one path.
RECURSIVE Acyclic(_, _, _)
Acyclic(es, o, visiting) ==
  o \notin visiting /\ \A c \in Children(es, o) : Acyclic(es, c, visiting \cup {o})
Dag(es) == \A e \in Computations(es) : Acyclic(es, e.from, {})

Parents(o) == {e.from : e \in {c \in Computations(edges) : c.to = o}}
RECURSIVE Closed(_)
Closed(found) ==
  LET more == found \cup UNION {Parents(o) : o \in found}
  IN IF more = found THEN found ELSE Closed(more)
Ancestors(o) == Closed(Parents(o))

\* What _edge accepts.
Missing(e) == {e.from, e.to} \ DOMAIN objects
Sound(e) ==
  /\ e.relation # "physical" => e.resolution = "resolved"
  /\ e.resolution = "resolved" => Missing(e) = {}
  /\ e.relation = "evidence" => objects[e.from].kind \in EvidenceKinds

-----------------------------------------------------------------------------
(* The operations.  What a replay would refuse of the longer history, they   *)
(* refuse.                                                                   *)

Init ==
  /\ objects = <<>> /\ edges = <<>> /\ seen = <<>>
  /\ context \in Contexts
  /\ events = 1

Append == events < MaxHistory /\ events' = events + 1

\* Its kind is the one the identifier has had.
SameKind(d) == d.id \in DOMAIN objects => objects[d.id].kind = d.kind

\* A result pins revisions of its inputs, the latest ones or earlier ones.
Known(d) == d.kind = "result" => \A o \in DOMAIN d.pins : o \in DOMAIN seen /\ d.pins[o] \in seen[o]

Pins == UNION {[inputs -> UNION Range(seen)] :
               inputs \in {S \in SUBSET DOMAIN seen : S # {} /\ Cardinality(S) <= MaxPins}}
Offered == Declarations \cup {[id |-> r, kind |-> "result", pins |-> p] : r \in Results, p \in Pins}

With(f, key, value) == [k \in DOMAIN f \cup {key} |-> IF k = key THEN value ELSE f[k]]

\* The caller may say which revision it expects to replace.
Put(d, expected) ==
  /\ SameKind(d) /\ Known(d)
  /\ expected # None => d.id \in DOMAIN objects /\ Revision(d.id) = expected
  /\ objects' = With(objects, d.id, d)
  /\ Cardinality(DOMAIN objects') <= MaxObjects
  /\ seen' = With(seen, d.id, {d} \cup IF d.id \in DOMAIN seen THEN seen[d.id] ELSE {})
  /\ Append
  /\ UNCHANGED <<edges, context>>

Connect(i, e) ==
  /\ Sound(e) /\ i \notin DOMAIN edges
  /\ edges' = With(edges, i, e)
  /\ Cardinality(DOMAIN edges') <= MaxEdges
  /\ Dag(edges')
  /\ Append
  /\ UNCHANGED <<objects, seen, context>>

SetContext(c) ==
  /\ context' = c
  /\ Append
  /\ UNCHANGED <<objects, edges, seen>>

Next ==
  \/ \E d \in Offered, expected \in {None} \cup Range(objects) : Put(d, expected)
  \/ \E i \in EdgeIds, e \in Edges : Connect(i, e)
  \/ \E c \in Contexts : SetContext(c)

Spec == Init /\ [][Next]_vars

-----------------------------------------------------------------------------
(* What inspect says. *)

\* result_status, which memoizes it.  A path of revisions that are all the latest comes
\* to no object twice, since none contains itself.
RECURSIVE Stale(_)
DriftedItself(o, pinned) == Revision(o) # pinned     \* bug: a stale input result will do
Drifted(o, pinned) == Revision(o) # pinned \/ (IsResult(o) /\ Stale(o))
Stale(r) ==
  LET bindings == objects[r].pins
  IN (\E o \in DOMAIN bindings : Drifted(o, bindings[o])) \/ ~(Ancestors(r) \subseteq DOMAIN bindings)

Gaps == {i \in DOMAIN edges : edges[i].resolution = "unresolved"}

\* Of a field of the context.
Backed(refs) == \A o \in refs : o \in DOMAIN objects /\ objects[o].kind \in EvidenceKinds
FieldStatus(f) ==
  IF ~f.known THEN "unknown" ELSE IF Backed(f.refs) THEN "evidence_bound" ELSE "unresolved_evidence"
ContextStatus == [k \in DOMAIN context |-> FieldStatus(context[k])]
Draft == Gaps # {} \/ "unresolved_evidence" \in Range(ContextStatus)

-----------------------------------------------------------------------------
(* What has to hold. *)

\* Everything an object was computed from: the revisions it pins, those that they pin.
RECURSIVE Derivation(_)
Derivation(d) ==
  IF d.kind # "result" THEN {}
  ELSE UNION {{<<o, d.pins[o]>>} \cup Derivation(d.pins[o]) : o \in DOMAIN d.pins}
Sources(r) == {input[1] : input \in Derivation(objects[r])}
ResultsAt(r) == {r} \cup {o \in Sources(r) : IsResult(o)}

\* A result is shown as current (inspect) exactly when every revision in its derivation,
\* however deep, is the latest one of its object, and every result of the derivation pins
\* all the ancestors that the computation graph has for it by now.
StaleExactly ==
  \A r \in {o \in DOMAIN objects : IsResult(o)} :
    Stale(r) <=> \/ \E input \in Derivation(objects[r]) : objects[input[1]] # input[2]
                 \/ \E o \in ResultsAt(r) : ~(Ancestors(o) \subseteq DOMAIN objects[o].pins)

=============================================================================
