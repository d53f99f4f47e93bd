------------------------- MODULE InvestigationsProofs -------------------------
(***************************************************************************)
(* What the commands around a saved workspace leave in it, whoever else works *)
(* on its directory: for any number of commands, services, directories and    *)
(* executions, and whatever is installed and released meanwhile.              *)
(***************************************************************************)
EXTENDS Investigations, WellFoundedInduction, TLAPS

-----------------------------------------------------------------------------
(* Sequences, and the last of some places. *)

IsSeq(s) == s \in Seq(Elements(s))

LEMMA Empty == IsSeq(<<>>) /\ Len(<<>>) = 0 /\ Elements(<<>>) = {}
BY DEF IsSeq, Elements

LEMMA Sequences ==
  ASSUME NEW s, IsSeq(s)
  PROVE  Len(s) \in Nat
BY DEF IsSeq

LEMMA Appended ==
  ASSUME NEW s, IsSeq(s), NEW x
  PROVE  /\ IsSeq(Append(s, x))
         /\ Len(Append(s, x)) = Len(s) + 1
         /\ \A i \in 1..Len(s) : Append(s, x)[i] = s[i]
         /\ Append(s, x)[Len(s) + 1] = x
         /\ Elements(Append(s, x)) = Elements(s) \cup {x}
<1> DEFINE T == Elements(s) \cup {x}
           a == Append(s, x)
<1>1. s \in Seq(T) /\ x \in T /\ Len(s) \in Nat
  <2>1. s \in Seq(Elements(s))
    BY DEF IsSeq
  <2>2. /\ Len(s) \in Nat /\ DOMAIN s = 1..Len(s) /\ s = [i \in DOMAIN s |-> s[i]]
        /\ \A i \in 1..Len(s) : s[i] \in Elements(s)
    BY <2>1
  <2> QED BY <2>2
<1>2. /\ a \in Seq(T) /\ Len(a) = Len(s) + 1
      /\ \A i \in 1..Len(s) : a[i] = s[i]
      /\ a[Len(s) + 1] = x
  BY <1>1
<1>3. Elements(a) = T
  <2>1. 1..Len(a) = (1..Len(s)) \cup {Len(s) + 1}
    BY <1>1, <1>2
  <2> QED BY <1>2, <2>1 DEF Elements
<1> HIDE DEF T
<1>4. a \in Seq(Elements(a))
  BY <1>2, <1>3
<1> QED BY <1>2, <1>3, <1>4 DEF IsSeq, T

LEMMA LastPlace ==
  ASSUME NEW s, IsSeq(s), NEW places \in SUBSET (1..Len(s)), places # {}
  PROVE  \E i \in places : LastAt(s, places) = s[i]
<1>1. Len(s) \in Nat
  BY Sequences
<1>2. PICK p \in places : TRUE
  OBVIOUS
<1> DEFINE n == Len(s)
           D == {n - i : i \in places}
<1>3. D \in SUBSET Nat /\ n - p \in D
  BY <1>1, <1>2
<1> HIDE DEF n
<1>4. PICK m \in D : \A k \in D : m <= k
  <2>1. D \subseteq Nat /\ D # {}
    BY <1>3
  <2> HIDE DEF D
  <2>2. \E x \in D : \A y \in D : ~(<<y, x>> \in OpToRel(<, Nat))
    BY <2>1, NatLessThanWellFounded, WFMin
  <2>3. \A x, y \in D : y < x => <<y, x>> \in OpToRel(<, Nat)
    BY <2>1 DEF OpToRel
  <2>4. \E x \in D : \A y \in D : ~(y < x)
    BY <2>2, <2>3, Zenon
  <2> QED BY <2>1, <2>4
<1>5. PICK i \in places : m = n - i
  BY <1>4
<1>6. \A k \in places : k <= i
  <2> TAKE k \in places
  <2>1. n - i <= n - k
    BY <1>4, <1>5
  <2>2. n \in Nat /\ i \in Nat /\ k \in Nat
    BY <1>1 DEF n
  <2> QED BY <2>1, <2>2
<1> QED BY <1>6 DEF LastAt

-----------------------------------------------------------------------------
(* A workspace that from_workspace accepts, that names who computed its data,  *)
(* and whose executions were numbered up to n.                                *)

WorkFields == {"source", "selection", "executions", "results"}

Named(w) ==
  /\ \A m \in Elements(w.source.measured) : m.by = w.source.runtime
  /\ \A r \in Elements(w.results) : r.data.by = r.runtime

Numbered(w, n) ==
  /\ \A e \in Elements(w.executions) : e.id \in 1..n
  /\ \A r1, r2 \in Elements(w.results) : r1.id = r2.id => r1 = r2

Whole(w, n) ==
  /\ DOMAIN w = WorkFields
  /\ IsSeq(w.executions) /\ IsSeq(w.results)
  /\ w.source.lane \in {"tank", "circle"}
  /\ Reopens(w) /\ Named(w) /\ Numbered(w, n)

LEMMA WholeLasts ==
  ASSUME NEW w, NEW m \in Nat, NEW n \in Nat, m <= n, Whole(w, m)
  PROVE  Whole(w, n)
<1>1. \A k \in 1..m : k \in 1..n
  OBVIOUS
<1> QED BY <1>1 DEF Whole, Numbered

\* A new investigation.
LEMMA WholeAtFirst ==
  ASSUME NEW source, ValidSource(source), source.lane \in {"tank", "circle"}, NEW n \in Nat,
         \A m \in Elements(source.measured) : m.by = source.runtime
  PROVE  Whole(NewSession(source), n)
<1> DEFINE w == NewSession(source)
<1>1. /\ DOMAIN w = WorkFields /\ w.source = source
      /\ w.executions = <<>> /\ w.results = <<>>
  BY DEF NewSession, WorkFields
<1> HIDE DEF w
<1>2. IsSeq(w.executions) /\ IsSeq(w.results) /\ Elements(w.executions) = {} /\ Elements(w.results) = {}
  BY <1>1, Empty
<1>3. Reopens(w)
  <2>1. /\ 1..Len(w.executions) = {} /\ 1..Len(w.results) = {}
        /\ Len(w.executions) <= MaxRecords /\ Len(w.results) <= MaxRecords
    BY <1>1, Empty, InvestigationTypes
  <2>2. SourcesRetained(w.results) /\ Acyclic(w.results)
    BY <2>1 DEF SourcesRetained, Acyclic, Of
  <2> QED BY <1>1, <1>2, <2>1, <2>2 DEF Reopens
<1>4. Named(w) /\ Numbered(w, n)
  BY <1>1, <1>2 DEF Named, Numbered
<1> QED BY <1>1, <1>2, <1>3, <1>4 DEF Whole, w

\* Neither does a selection change what is retained.
LEMMA WholeSelected ==
  ASSUME NEW w, NEW v, NEW n, Whole(w, n), DOMAIN v = WorkFields,
         v.source = w.source, v.executions = w.executions, v.results = w.results
  PROVE  Whole(v, n)
BY DEF Whole, Reopens, Named, Numbered

\* There is room for one more execution and one more result.
LEMMA Room ==
  ASSUME NEW w, NEW n, Whole(w, n), ~Full(w)
  PROVE  /\ Len(w.executions) + 1 <= MaxRecords
         /\ Len(w.results) <= MaxRecords /\ Len(w.results) + 1 <= MaxRecords
<1>1. Len(w.executions) \in Nat /\ Len(w.results) \in Nat
  BY Sequences DEF Whole
<1> QED BY <1>1, InvestigationTypes DEF Full

\* What every new execution keeps: identities are unique.
LEMMA Unique ==
  ASSUME NEW s, IsSeq(s), NEW e,
         \A i, j \in 1..Len(s) : s[i].id = s[j].id => i = j,
         \A x \in Elements(s) : x.id # e.id
  PROVE  \A i, j \in 1..Len(Append(s, e)) :
           Append(s, e)[i].id = Append(s, e)[j].id => i = j
<1> DEFINE a == Append(s, e)
<1>1. /\ Len(s) \in Nat /\ Len(a) = Len(s) + 1
      /\ \A i \in 1..Len(s) : a[i] = s[i]
      /\ a[Len(s) + 1] = e
  BY Sequences, Appended
<1>2. \A i \in 1..Len(s) : s[i] \in Elements(s)
  BY DEF Elements
<1>3. 1..Len(a) = (1..Len(s)) \cup {Len(s) + 1}
  BY <1>1
<1> HIDE DEF a
<1> SUFFICES ASSUME NEW i \in 1..Len(a), NEW j \in 1..Len(a), a[i].id = a[j].id
             PROVE  i = j
  BY DEF a
<1> QED BY <1>1, <1>2, <1>3

LEMMA RefusalKept ==
  ASSUME NEW w, NEW v, NEW e, NEW m \in Nat, NEW n \in Nat, m <= n, Whole(w, m),
         ~Full(w), DOMAIN v = WorkFields, v.source = w.source, v.results = w.results,
         v.executions = Append(w.executions, e),
         e.id \in 1..n, \A x \in Elements(w.executions) : x.id # e.id,
         e.outcome # "completed"
  PROVE  Whole(v, n)
<1>1. Whole(w, n)
  BY WholeLasts
<1>2. IsSeq(v.executions) /\ Elements(v.executions) = Elements(w.executions) \cup {e}
  BY <1>1, Appended DEF Whole
<1>3. \A i, j \in 1..Len(v.executions) : v.executions[i].id = v.executions[j].id => i = j
  <2>1. /\ IsSeq(w.executions)
        /\ \A i, j \in 1..Len(w.executions) : w.executions[i].id = w.executions[j].id => i = j
    BY <1>1 DEF Whole, Reopens
  <2> DEFINE s == w.executions
  <2> HIDE DEF s
  <2>2. \A i, j \in 1..Len(Append(s, e)) : Append(s, e)[i].id = Append(s, e)[j].id => i = j
    BY <2>1, Unique DEF s
  <2> QED BY <2>2 DEF s
<1>4. Reopens(v)
  <2>1. Len(v.executions) <= MaxRecords /\ Len(v.results) <= MaxRecords
    BY <1>1, Room, Appended DEF Whole
  <2> QED BY <1>1, <1>2, <1>3, <2>1 DEF Whole, Reopens
<1>5. Named(v) /\ Numbered(v, n)
  BY <1>1, <1>2 DEF Whole, Named, Numbered
<1> QED BY <1>1, <1>2, <1>4, <1>5 DEF Whole

\* A completed execution adds its result, which nothing retained was taken from.
LEMMA Dependencies ==
  ASSUME NEW rs, IsSeq(rs), NEW r, SourcesRetained(rs), Acyclic(rs),
         r.op = "jspt" => Linked(r.parameters, rs),
         \A x \in Elements(rs) : x.id # r.id
  PROVE  SourcesRetained(Append(rs, r)) /\ Acyclic(Append(rs, r))
<1> DEFINE a == Append(rs, r)
           n == Len(rs)
<1>1. /\ n \in Nat /\ Len(a) = n + 1
      /\ \A i \in 1..n : a[i] = rs[i]
      /\ a[n + 1] = r
      /\ Elements(a) = Elements(rs) \cup {r}
  BY Sequences, Appended
<1>2. \A i \in 1..n : rs[i] \in Elements(rs)
  BY DEF Elements
<1>3. 1..Len(a) = (1..n) \cup {n + 1} /\ n + 1 \notin 1..n
  BY <1>1
<1> HIDE DEF a, n
\* The source of a covariance is older than r, and is not r.
<1>4. ASSUME NEW i \in 1..Len(a), a[i].op = "jspt"
      PROVE  Linked(a[i].parameters, rs) /\ r.id # a[i].parameters.source
  <2>1. Linked(a[i].parameters, rs)
    BY <1>1, <1>3, <1>4 DEF SourcesRetained, n
  <2> QED BY <2>1 DEF Linked
<1>5. SourcesRetained(a)
  <2> SUFFICES ASSUME NEW i \in 1..Len(a), a[i].op = "jspt"
               PROVE  Linked(a[i].parameters, a) /\ a[i].parameters.source # a[i].id
    BY DEF SourcesRetained
  <2>1. Linked(a[i].parameters, a)
    BY <1>1, <1>4 DEF Linked
  <2>2. a[i].parameters.source # a[i].id
    <3>1. CASE i \in 1..n
      BY <1>1, <3>1 DEF SourcesRetained, n
    <3>2. CASE i = n + 1
      BY <1>1, <1>4, <3>2
    <3> QED BY <1>3, <3>1, <3>2
  <2> QED BY <2>1, <2>2
<1>6. Acyclic(a)
  <2> SUFFICES ASSUME NEW S \in SUBSET Of(a, "jspt"), S # {}
               PROVE  \E i \in S : \A j \in S : a[j].id # a[i].parameters.source
    BY DEF Acyclic
  <2>1. \A i \in S : i \in 1..Len(a) /\ a[i].op = "jspt"
    BY DEF Of
  <2> DEFINE old == S \ {n + 1}
  <2>2. old \in SUBSET Of(rs, "jspt")
    BY <1>1, <1>3, <2>1 DEF Of, n
  <2>3. CASE old = {}
    BY <1>1, <1>4, <2>1, <2>3
  <2>4. CASE old # {}
    <3>1. PICK i \in old : \A j \in old : rs[j].id # rs[i].parameters.source
      BY <2>2, <2>4 DEF Acyclic
    <3>2. i \in 1..n /\ \A j \in old : j \in 1..n
      BY <1>3, <2>1
    <3>3. \A j \in old : a[j].id # a[i].parameters.source
      BY <1>1, <3>1, <3>2
    <3>4. a[n + 1].id # a[i].parameters.source
      BY <1>1, <1>4, <2>1
    <3> QED BY <3>3, <3>4
  <2> QED BY <2>3, <2>4
<1> QED BY <1>5, <1>6 DEF a

LEMMA PayloadOf ==
  ASSUME NEW d, NEW e, NEW r, NEW source, ValidPayload(d, e, source),
         e.op \in Operations, r.op = e.op, r.parameters = e.parameters, r.selection = e.selection
  PROVE  ValidPayload(d, r, source)
<1>1. CASE e.op = "fsrt"
  BY <1>1 DEF ValidPayload, FsrtPayload
<1>2. CASE e.op = "jspt"
  BY <1>2 DEF ValidPayload, JsptPayload
<1>3. CASE e.op = "gte"
  BY <1>3 DEF ValidPayload, GtePayload
<1> QED BY <1>1, <1>2, <1>3 DEF Operations

LEMMA CompletionKept ==
  ASSUME NEW w, NEW v, NEW e, NEW r, NEW m \in Nat, NEW n \in Nat, m <= n, Whole(w, m),
         ~Full(w), DOMAIN v = WorkFields, v.source = w.source,
         v.executions = Append(w.executions, e), v.results = Append(w.results, r),
         e.id \in 1..n, \A x \in Elements(w.executions) : x.id # e.id,
         e.outcome = "completed", e.runtime # None, Bound(e, r),
         ValidPayload(r.data, r, w.source), r.data.by = r.runtime,
         r.op = "jspt" => Linked(r.parameters, w.results)
  PROVE  Whole(v, n)
<1>1. Whole(w, n)
  BY WholeLasts
<1>2. /\ IsSeq(v.executions) /\ Elements(v.executions) = Elements(w.executions) \cup {e}
      /\ IsSeq(v.results) /\ Elements(v.results) = Elements(w.results) \cup {r}
  BY <1>1, Appended DEF Whole
<1>3. \A i, j \in 1..Len(v.executions) : v.executions[i].id = v.executions[j].id => i = j
  <2>1. /\ IsSeq(w.executions)
        /\ \A i, j \in 1..Len(w.executions) : w.executions[i].id = w.executions[j].id => i = j
    BY <1>1 DEF Whole, Reopens
  <2> DEFINE s == w.executions
  <2> HIDE DEF s
  <2>2. \A i, j \in 1..Len(Append(s, e)) : Append(s, e)[i].id = Append(s, e)[j].id => i = j
    BY <2>1, Unique DEF s
  <2> QED BY <2>2 DEF s
<1>4. \A x \in Elements(w.results) : x.id # r.id
  BY <1>1 DEF Whole, Reopens, Bound
<1>5. SourcesRetained(v.results) /\ Acyclic(v.results)
  BY <1>1, <1>4, Dependencies DEF Whole, Reopens
<1>6. ASSUME NEW x \in Elements(v.results)
      PROVE  /\ ValidPayload(x.data, x, v.source)
             /\ \E y \in Elements(v.executions) : y.outcome = "completed" /\ Bound(y, x)
  BY <1>1, <1>2, <1>6 DEF Whole, Reopens
<1>7. ASSUME NEW y \in Elements(v.executions), y.outcome = "completed"
      PROVE  y.runtime # None /\ \E x \in Elements(v.results) : Bound(y, x)
  BY <1>1, <1>2, <1>7 DEF Whole, Reopens
<1>8. Reopens(v)
  <2>1. Len(v.executions) <= MaxRecords /\ Len(v.results) <= MaxRecords
    BY <1>1, Room, Appended DEF Whole
  <2> QED BY <1>1, <1>3, <1>5, <1>6, <1>7, <2>1 DEF Whole, Reopens
<1>9. Named(v) /\ Numbered(v, n)
  BY <1>1, <1>2, <1>4 DEF Whole, Named, Numbered, Bound
<1> QED BY <1>1, <1>2, <1>8, <1>9 DEF Whole

-----------------------------------------------------------------------------
(* The invariant: what a command has in memory, at each of its stages. *)

Fields == {"kind", "stage", "op", "from", "to", "lane", "sensors", "measured", "base",
           "expected", "adapter", "parameters", "entry", "work", "old", "oldData", "matches",
           "wrote", "steady", "stale"}
Before == {"calibrating", "measured", "pinned"}       \* has yet to open what it works on
Executing == {"bound", "invoking", "executed"}
Working == Executing \cup {"serving"}

Shape(j) ==
  /\ DOMAIN j = Fields
  /\ j.stage \in Ended \cup Before \cup Working
  /\ DOMAIN j.adapter = Operations
  /\ j.stage \in Before \cup Executing => j.op \in Operations
  /\ j.stage \in Before => j.kind \in {"create", "replay", "covariance"} /\ j.wrote = FALSE
  /\ j.stage = "pinned" => j.kind # "create"
  /\ j.stage \in Before /\ j.kind = "create" => j.lane \in {"tank", "circle"}
  /\ j.stage \in Before \cup Working => j.to \in Directories
  /\ j.stage \in Working /\ j.kind = "serve" => j.lane \in Lanes
  /\ j.stage = "serving" => j.kind = "serve"

\* What is measured was computed by the runtime that the source will name.
Measuring(j) ==
  /\ j.stage \in {"calibrating", "measured"} =>
       IsSeq(j.measured) /\ \A m \in Elements(j.measured) : m.by = j.expected
  /\ j.stage \in Before /\ j.kind = "create" /\ j.lane # "tank" =>
       j.stage = "measured" /\ j.expected = None

\* Where a command will read again there is a whole workspace, if not the same.
Reading(j) ==
  j.stage \in Before /\ j.kind # "create" =>
    /\ j.from \in Directories /\ Whole(files[j.from], issued)
    /\ j.kind = "replay" =>
         Whole(j.base, issued) /\ (j.op = "gte" => j.base.source.lane = "circle")

\* What a replay repeats.
Retained(j, w, last) ==
  /\ \E i \in 1..last : w.executions[i] = j.old
  /\ j.oldData # None => \E r \in Elements(w.results) : r.data = j.oldData
Repeats(j) ==
  j.old # None /\ j.old.runtime # None /\ j.old.op = j.op /\ j.parameters = j.old.parameters
Pinned(j) ==
  j.stage = "pinned" =>
    IF j.kind # "replay" THEN j.old = None
    ELSE Repeats(j) /\ j.expected = j.old.runtime /\ Retained(j, j.base, Len(j.base.executions))

InMemory(j) == j.stage \in Working => Whole(j.work, issued)

\* The envelope names the adapter that is about to be invoked, under an identity of
\* its own.
EntryFields == {"id", "op", "selection", "parameters", "runtime", "outcome"}
Identified(j) ==
  j.stage = "invoking" =>
    /\ DOMAIN j.entry = EntryFields
    /\ j.entry.id \in 1..issued /\ \A x \in Elements(j.work.executions) : x.id # j.entry.id
    /\ j.entry.op = j.op /\ j.entry.parameters = j.parameters
    /\ j.entry.selection = j.work.selection
    /\ j.entry.runtime = j.adapter[j.op] /\ j.entry.runtime # None

\* The newest execution is the one just made, and the newest result is its own.
Executed(j) ==
  j.stage = "executed" =>
    LET new == LastOf(j.work.executions)
    IN  /\ Len(j.work.executions) > 0
        /\ new.parameters = j.parameters /\ new.selection = j.work.selection
        /\ new.outcome = "completed" =>
             /\ new.runtime = j.adapter[j.op]
             /\ Len(j.work.results) > 0 /\ LastOf(j.work.results).id = new.id

\* A replay has bound what the old execution named, and still has that execution
\* unless somebody saved over it.
Replaying(j) ==
  j.stage \in Executing /\ j.kind = "replay" =>
    /\ Repeats(j) /\ j.adapter[j.op] = j.old.runtime
    /\ j.op = "gte" => j.work.selection = j.old.selection
    /\ ~j.stale =>
         Retained(j, j.work, IF j.stage = "executed" THEN Len(j.work.executions) - 1
                             ELSE Len(j.work.executions))

\* What was found installed when the command began is still there.
Undisturbed(j) ==
  j.steady =>
    /\ j.stage = "pinned" => Bindable(j.expected)
    /\ j.stage = "measured" /\ j.kind = "create" /\ j.lane = "circle" => Bindable(None)

JobInv(j) ==
  /\ Shape(j) /\ Measuring(j) /\ Reading(j) /\ Pinned(j) /\ InMemory(j) /\ Identified(j)
  /\ Executed(j) /\ Replaying(j) /\ Undisturbed(j)

FileInv == \A d \in Directories : files[d] # None => Whole(files[d], issued)

CommandInv ==
  /\ DOMAIN files = Directories /\ DOMAIN job = Commands /\ issued \in Nat
  /\ FileInv
  /\ \A c \in Commands : JobInv(job[c])

-----------------------------------------------------------------------------
(* Steps of one command. *)

LEMMA BlankFields ==
  /\ DOMAIN NoJob = Fields /\ NoJob.stage = "idle" /\ NoJob.wrote = FALSE /\ NoJob.steady = TRUE
  /\ NoJob.measured = <<>> /\ DOMAIN NoJob.adapter = Operations
  /\ NoJob.stale = FALSE /\ NoJob.expected = None /\ NoJob.old = None
BY DEF NoJob, Fields

\* Somebody's step, and what it may do to the files, leave the other commands alone.
LEMMA StepKept ==
  ASSUME CommandInv, NEW c \in Commands,
         DOMAIN job' = Commands, \A b \in Commands \ {c} : job'[b] = job[b],
         UNCHANGED <<installed, release>>, issued' \in Nat, issued <= issued',
         DOMAIN files' = Directories,
         \A d \in Directories : files'[d] = files[d] \/ Whole(files'[d], issued),
         JobInv(job[c])'
  PROVE  CommandInv'
<1>1. \A w : Whole(w, issued) => Whole(w, issued')
  BY WholeLasts DEF CommandInv
<1>2. FileInv'
  BY <1>1 DEF CommandInv, FileInv
<1>3. ASSUME NEW b \in Commands
      PROVE  JobInv(job[b])'
  <2>1. CASE b = c
    BY <2>1
  <2>2. CASE b # c
    <3> DEFINE j == job[b]
    <3>1. job'[b] = j /\ JobInv(j)
      BY <2>2 DEF CommandInv
    <3>2. Bindable(None)' = Bindable(None) /\ Bindable(j.expected)' = Bindable(j.expected)
      BY <3>1 DEF Bindable, Accepts
    <3>3. Shape(job[b])' /\ Measuring(job[b])' /\ Pinned(job[b])' /\ Executed(job[b])' /\ Replaying(job[b])'
      BY <3>1 DEF JobInv, Shape, Measuring, Pinned, Executed, Replaying, Repeats, Retained
    <3>4. Reading(job[b])'
      <4>1. ASSUME NEW d \in Directories, Whole(files[d], issued)
            PROVE  Whole(files'[d], issued')
        BY <1>1, <4>1
      <4> QED BY <1>1, <3>1, <4>1 DEF JobInv, Reading
    <3>5. InMemory(job[b])'
      BY <1>1, <3>1 DEF JobInv, InMemory
    <3>6. Identified(job[b])'
      <4>1. \A k \in 1..issued : k \in 1..issued'
        BY DEF CommandInv
      <4> QED BY <3>1, <4>1 DEF JobInv, Identified
    <3>7. Undisturbed(job[b])'
      BY <3>1, <3>2 DEF JobInv, Undisturbed
    <3> QED BY <3>3, <3>4, <3>5, <3>6, <3>7 DEF JobInv
  <2> QED BY <2>1, <2>2
<1> QED BY <1>2, <1>3 DEF CommandInv

LEMMA EndedInv ==
  ASSUME NEW c, DOMAIN job'[c] = Fields, job'[c].stage \in Ended,
         DOMAIN job'[c].adapter = Operations
  PROVE  JobInv(job[c])'
<1>1. job'[c].stage \notin Before /\ job'[c].stage \notin Working
  BY DEF Ended, Errors, Before, Working, Executing
<1>2. Shape(job[c])'
  BY <1>1 DEF Shape, Before, Working
<1>3. Measuring(job[c])' /\ Reading(job[c])' /\ Pinned(job[c])' /\ Undisturbed(job[c])'
  BY <1>1 DEF Measuring, Reading, Pinned, Undisturbed, Before
<1>4. InMemory(job[c])' /\ Identified(job[c])' /\ Executed(job[c])' /\ Replaying(job[c])'
  BY <1>1 DEF InMemory, Identified, Executed, Replaying, Working, Executing
<1> QED BY <1>2, <1>3, <1>4 DEF JobInv

LEMMA EndingInv ==
  ASSUME NEW c, NEW j, NEW error \in Errors, job'[c] = Ending(j, error)
  PROVE  JobInv(job[c])' /\ job'[c].stage = error /\ job'[c].wrote = j.wrote
<1>1. /\ DOMAIN job'[c] = Fields /\ job'[c].stage = error /\ job'[c].wrote = j.wrote
      /\ DOMAIN job'[c].adapter = Operations
  BY BlankFields DEF Ending, Fields
<1> QED BY <1>1, EndedInv DEF Ended

\* What PinsPrecedeWrites says of one command.
PinsKept(c) ==
  LET j == job[c]
      error == job'[c].stage
  IN  /\ j.steady /\ (j.kind = "create" => j.lane = "circle")
      /\ j.stage \notin Ended /\ error \in Errors /\ job'[c].wrote
      => \/ error = "failed"
         \/ error = "full" /\ Full(j.work)
         \/ error = "mismatch" /\ files'[j.to] = j.work
         \/ j.stage = "pinned" /\ files[j.from] # j.base

\* A check refuses before anything was written.
LEMMA RefusedInv ==
  ASSUME NEW c, NEW j, job'[c] = Refused(j), j.wrote = FALSE
  PROVE  JobInv(job[c])' /\ PinsKept(c)
<1>1. JobInv(job[c])' /\ job'[c].wrote = FALSE
  BY EndingInv DEF Refused, Errors
<1> QED BY <1>1 DEF PinsKept

\* A disk error, whatever had been written.
LEMMA FailedInv ==
  ASSUME NEW c, NEW j, job'[c] = Ending(j, "failed")
  PROVE  JobInv(job[c])' /\ PinsKept(c)
<1>1. JobInv(job[c])' /\ job'[c].stage = "failed"
  BY EndingInv DEF Errors
<1> QED BY <1>1 DEF PinsKept

LEMMA WroteFields ==
  ASSUME NEW j, DOMAIN j = Fields
  PROVE  Wrote(j).wrote = TRUE
BY DEF Wrote, Fields

\* The commands that begin.
LEMMA BeginInv ==
  ASSUME CommandInv, NEW c \in Commands, Begin(c)
  PROVE  JobInv(job[c])' /\ job[c].stage \in Ended /\ UNCHANGED <<files, world, drawn>>
<1>1. ASSUME NEW passed, NEW j, Begun(c, passed, j), passed => JobInv(job[c])' \/ job'[c] # j
      PROVE  JobInv(job[c])'
  <2>1. job'[c] = j \/ job'[c] = Refused(j)
    BY <1>1 DEF Begun, To, CommandInv
  <2>2. passed \/ job'[c] = Refused(j)
    BY <1>1 DEF Begun, To, CommandInv
  <2>3. job'[c] = Refused(j) => JobInv(job[c])'
    BY EndingInv DEF Refused, Errors
  <2> QED BY <1>1, <2>1, <2>2, <2>3
<1>2. ASSUME NEW d \in Directories, NEW input \in Inputs, CreateTank(c, d, input)
      PROVE  JobInv(job[c])'
  <2> DEFINE j == [NoJob EXCEPT !.kind = "create", !.stage = "calibrating", !.to = d, !.lane = "tank",
                     !.op = "fsrt", !.sensors = input, !.parameters = "own", !.expected = installed]
  <2>1. Begun(c, Bindable(None), j)
    BY <1>2 DEF CreateTank
  <2>2. ASSUME job'[c] = j
        PROVE  JobInv(job[c])'
    <3>1. /\ DOMAIN job'[c] = Fields /\ job'[c].stage = "calibrating" /\ job'[c].kind = "create"
          /\ job'[c].lane = "tank" /\ job'[c].op = "fsrt" /\ job'[c].measured = <<>>
          /\ job'[c].to = d
          /\ job'[c].wrote = FALSE /\ DOMAIN job'[c].adapter = Operations
      BY <2>2, BlankFields DEF Fields
    <3> QED BY <3>1, Empty DEF JobInv, Shape, Measuring, Reading, Pinned, InMemory, Identified,
              Executed, Replaying, Undisturbed, Before, Working, Executing, Operations
  <2> QED BY <1>1, <2>1, <2>2
<1>3. ASSUME NEW d \in Directories, CreateCircle(c, d)
      PROVE  JobInv(job[c])'
  <2> DEFINE j == [NoJob EXCEPT !.kind = "create", !.stage = "measured", !.to = d, !.lane = "circle",
                     !.op = "gte", !.parameters = "own"]
  <2>1. Begun(c, Bindable(None), j)
    BY <1>3 DEF CreateCircle
  <2>2. ASSUME job'[c] = j, Bindable(None)
        PROVE  JobInv(job[c])'
    <3>1. /\ DOMAIN job'[c] = Fields /\ job'[c].stage = "measured" /\ job'[c].kind = "create"
          /\ job'[c].lane = "circle" /\ job'[c].op = "gte" /\ job'[c].measured = <<>>
          /\ job'[c].expected = None /\ job'[c].to = d
          /\ job'[c].wrote = FALSE /\ DOMAIN job'[c].adapter = Operations
      BY <2>2, BlankFields DEF Fields
    <3>2. Bindable(None)'
      BY <1>3, <2>2 DEF CreateCircle, world, Bindable, Accepts
    <3> QED BY <3>1, <3>2, Empty DEF JobInv, Shape, Measuring, Reading, Pinned, InMemory, Identified,
              Executed, Replaying, Undisturbed, Before, Working, Executing, Operations
  <2>3. Bindable(None) => JobInv(job[c])' \/ job'[c] # j
    BY <2>2
  <2> QED BY <1>1, <2>1, <2>3
<1>4. ASSUME NEW d \in Directories, NEW to \in Directories, NEW op \in Operations, Replay(c, d, to, op)
      PROVE  JobInv(job[c])'
  <2> DEFINE w == files[d]
             tank == op = "fsrt"
             j == [NoJob EXCEPT !.kind = "replay", !.from = d, !.to = to, !.op = op, !.base = w,
                     !.lane = w.source.lane,
                     !.sensors = IF tank THEN Requests(w.source) ELSE <<>>,
                     !.expected = IF tank THEN w.source.runtime ELSE None]
             k == [j EXCEPT !.stage = IF tank THEN "calibrating" ELSE "measured"]
             readable == Reopens(w) /\ op \in OperationsOf[w.source.lane]
  <2>1. /\ Begun(c, readable /\ (tank => Bindable(w.source.runtime)), k)
        /\ w # None /\ UNCHANGED <<files, world, drawn>>
    BY <1>4 DEF Replay
  <2>2. ASSUME job'[c] = k, readable
        PROVE  JobInv(job[c])'
    <3>1. /\ DOMAIN job'[c] = Fields /\ job'[c].stage \in {"calibrating", "measured"}
          /\ job'[c].kind = "replay" /\ job'[c].from = d /\ job'[c].base = w /\ job'[c].to = to
          /\ job'[c].op = op /\ job'[c].measured = <<>>
          /\ job'[c].wrote = FALSE /\ DOMAIN job'[c].adapter = Operations
      BY <2>2, BlankFields DEF Fields
    <3>2. Whole(files'[d], issued') /\ Whole(job'[c].base, issued')
      BY <2>1, <3>1 DEF CommandInv, FileInv, drawn
    <3>3. op = "gte" => job'[c].base.source.lane = "circle"
      <4>1. w.source.lane \in {"tank", "circle"} /\ op \in OperationsOf[w.source.lane]
        BY <2>1, <2>2 DEF CommandInv, FileInv, Whole
      <4>2. job'[c].base.source.lane = w.source.lane
        BY <3>1
      <4> QED BY <4>1, <4>2 DEF OperationsOf
    <3> HIDE DEF k
    <3> QED BY <3>1, <3>2, <3>3, Empty DEF JobInv, Shape, Measuring, Reading, Pinned, InMemory,
              Identified, Executed, Replaying, Undisturbed, Before, Working, Executing
  <2>3. readable => JobInv(job[c])' \/ job'[c] # k
    BY <2>2
  <2> HIDE DEF k, readable
  <2> QED BY <1>1, <2>1, <2>3
<1>5. ASSUME NEW d \in Directories, NEW to \in Directories, NEW i \in 1..MaxExecutions,
             Covariance(c, d, to, i)
      PROVE  JobInv(job[c])'
  <2> DEFINE w == files[d]
             r == w.results[i]
             j == [NoJob EXCEPT !.kind = "covariance", !.stage = "pinned", !.from = d, !.to = to,
                     !.op = "jspt", !.base = w, !.lane = w.source.lane,
                     !.parameters = [source |-> r.id, artifact |-> Content(r.data)]]
             passed == Reopens(w) /\ Bearing(r) /\ Bindable(None)
  <2>1. Begun(c, passed, j) /\ w # None /\ UNCHANGED <<files, world, drawn>>
    BY <1>5 DEF Covariance
  <2>2. ASSUME job'[c] = j, passed
        PROVE  JobInv(job[c])'
    <3>1. /\ DOMAIN job'[c] = Fields /\ job'[c].stage = "pinned"
          /\ job'[c].kind = "covariance" /\ job'[c].from = d
          /\ job'[c].op = "jspt" /\ job'[c].expected = None
          /\ job'[c].old = None /\ job'[c].to = to
          /\ job'[c].wrote = FALSE /\ DOMAIN job'[c].adapter = Operations
      BY <2>2, BlankFields DEF Fields
    <3>2. Whole(files'[d], issued')
      BY <2>1 DEF CommandInv, FileInv, drawn
    <3>3. Bindable(job[c].expected)'
      <4>1. Bindable(None) /\ UNCHANGED <<installed, release>>
        BY <2>1, <2>2 DEF world
      <4> QED BY <3>1, <4>1 DEF Bindable, Accepts
    <3> QED BY <3>1, <3>2, <3>3 DEF JobInv, Shape, Measuring, Reading, Pinned, InMemory, Identified,
              Executed, Replaying, Undisturbed, Before, Working, Executing, Operations
  <2>3. passed => JobInv(job[c])' \/ job'[c] # j
    BY <2>2
  <2> HIDE DEF j, passed
  <2> QED BY <1>1, <2>1, <2>3
<1>6. ASSUME NEW d \in Directories, NEW ops \in SUBSET Operations, Serve(c, d, ops)
      PROVE  JobInv(job[c])'
  <2> DEFINE w == files[d]
             j == [NoJob EXCEPT !.kind = "serve", !.stage = "serving", !.to = d,
                     !.wrote = TRUE, !.work = w, !.lane = w.source.lane,
                     !.adapter = [op \in Operations |-> IF op \in ops THEN installed ELSE None]]
  <2>1. /\ job'[c] = j /\ w # None /\ w.source.lane \in Served /\ UNCHANGED <<files, world, drawn>>
    BY <1>6 DEF Serve, To, CommandInv
  <2>2. /\ DOMAIN job'[c] = Fields /\ job'[c].stage = "serving" /\ job'[c].work = w
        /\ job'[c].kind = "serve" /\ job'[c].to = d
        /\ job'[c].lane = w.source.lane /\ DOMAIN job'[c].adapter = Operations
    BY <2>1, BlankFields DEF Fields
  <2> HIDE DEF j
  <2>3. Whole(job'[c].work, issued') /\ job'[c].lane \in Lanes
    BY <2>1, <2>2, InvestigationTypes DEF CommandInv, FileInv, drawn
  <2> QED BY <2>2, <2>3 DEF JobInv, Shape, Measuring, Reading, Pinned, InMemory, Identified,
            Executed, Replaying, Undisturbed, Before, Working, Executing
<1>7. job[c].stage \in Ended /\ UNCHANGED <<files, world, drawn>>
  BY DEF Begin, CreateTank, CreateCircle, Replay, Covariance, Serve, Begun
<1> QED BY <1>2, <1>3, <1>4, <1>5, <1>6, <1>7 DEF Begin

LEMMA CalibrateInv ==
  ASSUME CommandInv, NEW c \in Commands, NEW value, NEW right \in BOOLEAN, Calibrate(c, value, right)
  PROVE  JobInv(job[c])' /\ PinsKept(c)
<1> DEFINE j == job[c]
           i == Len(j.measured) + 1
           m == [request |-> IF right THEN j.sensors[i] ELSE None, value |-> value,
                 by |-> installed]
           next == [j EXCEPT !.measured = Append(@, m),
                             !.stage = IF i = 2 THEN "measured" ELSE "calibrating"]
<1>1. /\ j.stage = "calibrating" /\ UNCHANGED <<files, world, drawn>>
      /\ \/ job'[c] = next /\ StillBound(j.expected)
         \/ job'[c] = Refused(j)
  BY DEF Calibrate, Checked, To, At, CommandInv
<1>2. JobInv(j) /\ DOMAIN j = Fields
  BY DEF CommandInv, JobInv, Shape
<1>3. CASE job'[c] = next /\ StillBound(j.expected)
  <2>1. /\ DOMAIN job'[c] = Fields /\ job'[c].stage \in {"calibrating", "measured"}
        /\ job'[c].kind = j.kind /\ job'[c].lane = j.lane /\ job'[c].op = j.op
        /\ job'[c].from = j.from /\ job'[c].base = j.base /\ job'[c].expected = j.expected
        /\ job'[c].wrote = j.wrote /\ job'[c].adapter = j.adapter /\ job'[c].to = j.to
        /\ job'[c].measured = Append(j.measured, m)
    BY <1>2, <1>3 DEF Fields
  <2>2. m.by = j.expected
    BY <1>3 DEF StillBound
  <2> HIDE DEF m, next, i
  <2>3. j.kind = "create" => j.lane = "tank"
    BY <1>1, <1>2 DEF JobInv, Measuring, Before
  <2>4. IsSeq(job'[c].measured) /\ \A x \in Elements(job'[c].measured) : x.by = j.expected
    <3>1. IsSeq(j.measured) /\ \A x \in Elements(j.measured) : x.by = j.expected
      BY <1>1, <1>2 DEF JobInv, Measuring
    <3> QED BY <2>1, <2>2, <3>1, Appended
  <2>5. Shape(job[c])'
    BY <1>1, <1>2, <2>1 DEF JobInv, Shape, Before, Working, Executing
  <2>6. Reading(job[c])'
    BY <1>1, <1>2, <2>1 DEF JobInv, Reading, Before, drawn
  <2> QED BY <2>1, <2>3, <2>4, <2>5, <2>6 DEF JobInv, Measuring, Pinned, InMemory, Identified,
            Executed, Replaying, Undisturbed, Before, Working, Executing, PinsKept, Errors
<1>4. j.wrote = FALSE
  BY <1>1, <1>2 DEF JobInv, Shape, Before
<1> QED BY <1>1, <1>3, <1>4, RefusedInv

LEMMA PinInv ==
  ASSUME CommandInv, NEW c \in Commands, Pin(c)
  PROVE  JobInv(job[c])' /\ PinsKept(c)
<1> DEFINE j == job[c]
           w == j.base
           last == Latest(w, j.op)
           next == [j EXCEPT !.stage = "pinned", !.measured = <<>>, !.sensors = <<>>, !.old = last,
                             !.oldData = Compared(w, last),
                             !.expected = last.runtime, !.parameters = last.parameters]
<1>1. /\ j.stage = "measured" /\ j.kind = "replay" /\ UNCHANGED <<files, world, drawn>>
      /\ \/ job'[c] = next /\ Replayable(last)
         \/ job'[c] = Refused(j)
  BY DEF Pin, Checked, To, At, CommandInv
<1>2. JobInv(j) /\ DOMAIN j = Fields
  BY DEF CommandInv, JobInv, Shape
<1>3. /\ Whole(w, issued) /\ IsSeq(w.executions) /\ IsSeq(w.results)
      /\ j.from \in Directories /\ Whole(files[j.from], issued)
  BY <1>1, <1>2 DEF JobInv, Reading, Before, Whole
<1>4. CASE job'[c] = next /\ Replayable(last)
  <2>1. /\ DOMAIN job'[c] = Fields /\ job'[c].stage = "pinned"
        /\ job'[c].kind = "replay" /\ job'[c].op = j.op
        /\ job'[c].from = j.from /\ job'[c].base = w /\ job'[c].expected = last.runtime
        /\ job'[c].wrote = j.wrote /\ job'[c].adapter = j.adapter /\ job'[c].to = j.to
        /\ job'[c].old = last /\ job'[c].oldData = Compared(w, last)
        /\ job'[c].parameters = last.parameters
    BY <1>1, <1>2, <1>4 DEF Fields
  <2> HIDE DEF next
  <2>2. last # None /\ last.runtime # None /\ Bindable(last.runtime)
    BY <1>4 DEF Replayable
  <2>3. \E i \in 1..Len(w.executions) : w.executions[i] = last /\ last.op = j.op
    <3> DEFINE places == Of(w.executions, j.op)
    <3>1. places # {} /\ last = LastAt(w.executions, places)
      BY <2>2 DEF Latest
    <3>2. places \in SUBSET (1..Len(w.executions)) /\ \A i \in places : w.executions[i].op = j.op
      BY DEF Of
    <3> HIDE DEF places
    <3>3. \E i \in places : LastAt(w.executions, places) = w.executions[i]
      BY <1>3, <3>1, <3>2, LastPlace
    <3> QED BY <3>1, <3>2, <3>3
  <2>4. ASSUME Compared(w, last) # None
        PROVE  \E r \in Elements(w.results) : r.data = Compared(w, last)
    <3> DEFINE places == IF last.op = "fsrt" THEN Of(w.results, "fsrt")
                         ELSE {i \in 1..Len(w.results) : w.results[i].id = last.id}
    <3>1. places # {} /\ Compared(w, last) = LastAt(w.results, places).data
      BY <2>4 DEF Compared
    <3>2. places \in SUBSET (1..Len(w.results))
      BY DEF Of
    <3> HIDE DEF places
    <3>3. PICK i \in places : LastAt(w.results, places) = w.results[i]
      BY <1>3, <3>1, <3>2, LastPlace
    <3> QED BY <3>1, <3>2, <3>3 DEF Elements
  <2> HIDE DEF last
  <2>5. Pinned(job[c])'
    BY <2>1, <2>2, <2>3, <2>4 DEF Pinned, Repeats, Retained
  <2>6. Shape(job[c])'
    BY <1>1, <1>2, <2>1 DEF JobInv, Shape, Before, Working, Executing
  <2>7. Reading(job[c])'
    BY <1>1, <1>2, <1>3, <2>1 DEF JobInv, Reading, Before, drawn
  <2>8. Undisturbed(job[c])'
    BY <1>1, <2>1, <2>2 DEF Undisturbed, Bindable, Accepts, world
  <2> QED BY <2>1, <2>5, <2>6, <2>7, <2>8 DEF JobInv, Measuring, InMemory, Identified,
            Executed, Replaying, Before, Working, Executing, PinsKept, Errors
<1>5. j.wrote = FALSE
  BY <1>1, <1>2 DEF JobInv, Shape, Before
<1> QED BY <1>1, <1>4, <1>5, RefusedInv

LEMMA MakeRunInv ==
  ASSUME CommandInv, NEW c \in Commands, NEW stored \in BOOLEAN, MakeRun(c, stored)
  PROVE  JobInv(job[c])' /\ PinsKept(c)
<1> DEFINE j == job[c]
           runtime == IF j.lane = "tank" THEN j.expected ELSE None
           source == NewSource(j.lane, j.measured, runtime)
           made == (j.lane = "tank" => StillBound(j.expected)) /\ ValidSource(source)
           bound == Bindable(None)
           next == [j EXCEPT !.stage = "bound", !.wrote = TRUE, !.measured = <<>>,
                             !.sensors = <<>>, !.expected = None,
                             !.work = NewSession(source), !.adapter[j.op] = installed]
<1>1. /\ j.stage = "measured" /\ j.kind = "create" /\ UNCHANGED <<files, world, issued>>
      /\ job' = [job EXCEPT ![c] = IF ~made THEN Refused(j)
                                   ELSE IF ~stored THEN Ending(Wrote(j), "failed")
                                   ELSE IF ~bound THEN Refused(Wrote(j)) ELSE next]
  BY DEF MakeRun, To, At
<1>2. /\ JobInv(j) /\ DOMAIN j = Fields /\ DOMAIN job = Commands /\ j.wrote = FALSE
      /\ j.lane \in {"tank", "circle"} /\ j.to \in Directories
  BY <1>1 DEF CommandInv, JobInv, Shape, Before
<1>3. j.lane = "circle" /\ j.steady => bound
  BY <1>1, <1>2 DEF JobInv, Undisturbed
<1>4. CASE made /\ stored /\ bound
  <2>1. /\ DOMAIN job'[c] = Fields /\ job'[c].stage = "bound"
        /\ job'[c].kind = "create" /\ job'[c].op = j.op /\ job'[c].to = j.to
        /\ job'[c].work = NewSession(source)
        /\ job'[c].adapter = [j.adapter EXCEPT ![j.op] = installed]
    BY <1>1, <1>2, <1>4 DEF Fields
  <2>2. /\ ValidSource(source) /\ source.measured = j.measured /\ source.runtime = runtime
        /\ source.lane = j.lane
    BY <1>4 DEF NewSource
  <2> HIDE DEF next, source, made
  <2>3. \A m \in Elements(source.measured) : m.by = source.runtime
    <3>1. \A m \in Elements(j.measured) : m.by = j.expected
      BY <1>1, <1>2 DEF JobInv, Measuring
    <3>2. runtime = j.expected
      BY <1>1, <1>2 DEF JobInv, Measuring, Before
    <3> QED BY <2>2, <3>1, <3>2
  <2>4. Whole(job'[c].work, issued')
    BY <1>1, <1>2, <2>1, <2>2, <2>3, WholeAtFirst DEF CommandInv
  <2>5. Shape(job[c])'
    BY <1>1, <1>2, <2>1 DEF JobInv, Shape, Before, Working, Executing
  <2> QED BY <2>1, <2>4, <2>5 DEF JobInv, Measuring, Reading, Pinned, InMemory, Identified,
            Executed, Replaying, Undisturbed, Before, Working, Executing, PinsKept, Errors
<1> HIDE DEF next, made, bound
<1>5. CASE ~made
  <2>1. job'[c] = Refused(j)
    BY <1>1, <1>2, <1>5
  <2> QED BY <1>2, <2>1, RefusedInv
<1>6. CASE made /\ ~stored
  <2>1. job'[c] = Ending(Wrote(j), "failed")
    BY <1>1, <1>2, <1>6
  <2> QED BY <2>1, FailedInv
<1>7. CASE made /\ stored /\ ~bound
  <2>1. job'[c] = Refused(Wrote(j))
    BY <1>1, <1>2, <1>7
  <2>2. JobInv(job[c])'
    BY <2>1, EndingInv DEF Refused, Errors
  <2>3. ~(j.lane = "circle" /\ j.steady)
    BY <1>3, <1>7
  <2> QED BY <1>1, <2>2, <2>3 DEF PinsKept
<1> QED BY <1>4, <1>5, <1>6, <1>7

LEMMA OpenInv ==
  ASSUME CommandInv, NEW c \in Commands, NEW stored \in BOOLEAN, Open(c, stored)
  PROVE  JobInv(job[c])' /\ PinsKept(c)
<1> DEFINE j == job[c]
           w == files[j.from]
           bound == Bindable(j.expected) /\ Restorable(w, j.old)
           next == [j EXCEPT !.stage = "bound", !.wrote = TRUE, !.stale = w # j.base,
                             !.base = None, !.work = Restored(w, j.old),
                             !.lane = w.source.lane, !.adapter[j.op] = installed]
<1>1. /\ j.stage = "pinned" /\ UNCHANGED <<files, world, drawn>>
      /\ job' = [job EXCEPT ![c] = IF ~Reopens(w) THEN Refused(j)
                                   ELSE IF ~stored THEN Ending(Wrote(j), "failed")
                                   ELSE IF ~bound THEN Refused(Wrote(j)) ELSE next]
  BY DEF Open, To, At
<1>2. /\ JobInv(j) /\ DOMAIN j = Fields /\ DOMAIN job = Commands /\ j.kind \in {"replay", "covariance"}
      /\ j.to \in Directories
  BY <1>1 DEF CommandInv, JobInv, Shape, Before
<1>3. Whole(w, issued) /\ Reopens(w)
  BY <1>1, <1>2 DEF JobInv, Reading, Before, Whole
<1>4. CASE stored /\ bound
  <2> DEFINE v == Restored(w, j.old)
  <2>1. /\ DOMAIN job'[c] = Fields /\ job'[c].stage = "bound"
        /\ job'[c].kind = j.kind /\ job'[c].op = j.op /\ job'[c].work = v /\ job'[c].to = j.to
        /\ job'[c].stale = (w # j.base) /\ job'[c].old = j.old /\ job'[c].oldData = j.oldData
        /\ job'[c].parameters = j.parameters
        /\ job'[c].adapter = [j.adapter EXCEPT ![j.op] = installed]
    BY <1>1, <1>2, <1>3, <1>4 DEF Fields
  <2> HIDE DEF next
  <2>2. /\ DOMAIN v = WorkFields /\ v.source = w.source
        /\ v.executions = w.executions /\ v.results = w.results
        /\ j.old # None /\ j.old.op = "gte" => v.selection = j.old.selection
    BY <1>3 DEF Whole, WorkFields, Restored
  <2> HIDE DEF v
  <2>3. Whole(v, issued')
    BY <1>1, <1>3, <2>2, WholeSelected DEF drawn
  <2>4. Shape(job[c])'
    BY <1>1, <1>2, <2>1 DEF JobInv, Shape, Before, Working, Executing
  <2>5. Replaying(job[c])'
    <3> SUFFICES ASSUME j.kind = "replay"
                 PROVE  Replaying(job[c])'
      BY <2>1 DEF Replaying
    <3>1. /\ Repeats(j) /\ j.expected = j.old.runtime
          /\ Retained(j, j.base, Len(j.base.executions))
      BY <1>1, <1>2 DEF JobInv, Pinned
    <3>2. installed = j.old.runtime
      BY <1>4, <3>1 DEF Bindable, Accepts, Repeats
    <3>3. job'[c].adapter[j.op] = j.old.runtime
      BY <1>1, <1>2, <2>1, <3>2 DEF JobInv, Shape, Before
    <3>4. j.op = "gte" => v.selection = j.old.selection
      BY <2>2, <3>1 DEF Repeats
    <3>5. w = j.base => Retained(j, v, Len(v.executions))
      BY <2>2, <3>1 DEF Retained
    <3> QED BY <2>1, <3>1, <3>3, <3>4, <3>5 DEF Replaying, Repeats, Retained
  <2> QED BY <2>1, <2>3, <2>4, <2>5 DEF JobInv, Measuring, Reading, Pinned, InMemory, Identified,
            Executed, Undisturbed, Before, Working, Executing, PinsKept, Errors
<1> HIDE DEF next
<1>5. CASE ~stored
  <2>1. job'[c] = Ending(Wrote(j), "failed")
    BY <1>1, <1>2, <1>3, <1>5
  <2> QED BY <2>1, FailedInv
<1>6. CASE stored /\ ~bound
  <2>1. job'[c] = Refused(Wrote(j))
    BY <1>1, <1>2, <1>3, <1>6
  <2>2. JobInv(job[c])'
    BY <2>1, EndingInv DEF Refused, Errors
  <2>3. j.steady => w # j.base
    <3> SUFFICES ASSUME j.steady, w = j.base
                 PROVE  FALSE
      OBVIOUS
    <3>1. Bindable(j.expected)
      BY <1>1, <1>2 DEF JobInv, Undisturbed
    <3>2. j.old # None /\ j.old.op = "gte" /\ w.source.lane # "circle"
      BY <1>6, <3>1 DEF Restorable
    <3>3. j.kind = "replay" /\ j.op = "gte"
      BY <1>1, <1>2, <3>2 DEF JobInv, Pinned, Repeats
    <3> QED BY <1>1, <1>2, <3>2, <3>3 DEF JobInv, Reading, Before
  <2> QED BY <1>1, <2>2, <2>3 DEF PinsKept
<1> QED BY <1>4, <1>5, <1>6

\* A served session that goes on.
LEMMA ServedInv ==
  ASSUME CommandInv, NEW c \in Commands, job[c].stage \in Working, job[c].kind = "serve",
         job'[c] = Serving(job[c]), issued' \in Nat, issued <= issued'
  PROVE  JobInv(job[c])' /\ PinsKept(c)
<1> DEFINE j == job[c]
<1>1. JobInv(j) /\ DOMAIN j = Fields /\ issued \in Nat
  BY DEF CommandInv, JobInv, Shape
<1>2. /\ DOMAIN job'[c] = Fields /\ job'[c].stage = "serving" /\ job'[c].kind = "serve"
      /\ job'[c].work = j.work /\ job'[c].lane = j.lane /\ job'[c].adapter = j.adapter
      /\ job'[c].to = j.to
  BY <1>1 DEF Serving, Fields
<1>3. Whole(j.work, issued')
  BY <1>1, WholeLasts DEF JobInv, InMemory
<1>4. Shape(job[c])'
  BY <1>1, <1>2 DEF JobInv, Shape, Before, Working, Executing
<1> QED BY <1>2, <1>3, <1>4 DEF JobInv, Measuring, Reading, Pinned, InMemory, Identified,
          Executed, Replaying, Undisturbed, Before, Working, Executing, PinsKept, Errors

\* The answer is an error: there is no room, or no disk.
LEMMA ErredInv ==
  ASSUME CommandInv, NEW c \in Commands, job[c].stage \in Working,
         NEW error \in {"full", "failed"}, error = "full" => Full(job[c].work),
         job'[c] = Erred(job[c], error), issued' \in Nat, issued <= issued'
  PROVE  JobInv(job[c])' /\ PinsKept(c)
<1>1. CASE job[c].kind = "serve"
  BY <1>1, ServedInv DEF Erred
<1>2. CASE job[c].kind # "serve"
  <2>1. job'[c] = Ending(job[c], error)
    BY <1>2 DEF Erred
  <2>2. JobInv(job[c])' /\ job'[c].stage = error
    BY <2>1, EndingInv DEF Errors
  <2> QED BY <2>2 DEF PinsKept
<1> QED BY <1>1, <1>2

LEMMA TurnedAwayInv ==
  ASSUME CommandInv, NEW c \in Commands, TurnedAway(c)
  PROVE  JobInv(job[c])' /\ PinsKept(c)
<1>1. /\ job[c].stage = "bound" /\ Full(job[c].work) /\ issued' = issued
      /\ job'[c] = Erred(job[c], "full")
  BY DEF TurnedAway, To, At, CommandInv, drawn
<1> QED BY <1>1, ErredInv DEF Working, Executing, CommandInv

\* An execution that is recorded, with its result if it completed.
LEMMA RecordedInv ==
  ASSUME CommandInv, NEW c \in Commands, job[c].stage \in {"bound", "invoking"},
         issued' \in Nat, issued <= issued',
         NEW w, NEW e, NEW stored \in BOOLEAN,
         job'[c] = Recorded(job[c], w, stored),
         ~Full(job[c].work) => Whole(w, issued'),
         w.selection = job[c].work.selection,
         w.executions = Append(job[c].work.executions, e),
         Elements(job[c].work.results) \subseteq Elements(w.results),
         e.parameters = job[c].parameters, e.selection = job[c].work.selection,
         e.outcome = "completed" =>
           /\ e.runtime = job[c].adapter[job[c].op]
           /\ Len(w.results) > 0 /\ LastOf(w.results).id = e.id
  PROVE  JobInv(job[c])' /\ PinsKept(c)
<1> DEFINE j == job[c]
           next == [j EXCEPT !.stage = "executed", !.entry = None, !.work = w]
<1>1. JobInv(j) /\ DOMAIN j = Fields /\ Whole(j.work, issued)
  BY DEF CommandInv, JobInv, Shape, InMemory, Working, Executing
<1>2. CASE Full(j.work)
  <2>1. job'[c] = Erred(j, "full")
    BY <1>2 DEF Recorded
  <2> QED BY <1>2, <2>1, ErredInv DEF Working, Executing
<1>3. CASE ~Full(j.work) /\ ~stored
  <2>1. job'[c] = Erred(j, "failed")
    BY <1>3 DEF Recorded
  <2> QED BY <2>1, ErredInv DEF Working, Executing
<1>4. CASE ~Full(j.work) /\ stored
  <2>1. /\ DOMAIN job'[c] = Fields /\ job'[c].stage = "executed"
        /\ job'[c].kind = j.kind /\ job'[c].op = j.op /\ job'[c].to = j.to
        /\ job'[c].stale = j.stale /\ job'[c].old = j.old /\ job'[c].oldData = j.oldData
        /\ job'[c].parameters = j.parameters /\ job'[c].adapter = j.adapter
        /\ job'[c].lane = j.lane /\ job'[c].work = w
    BY <1>1, <1>4 DEF Recorded, Fields
  <2>2. /\ Len(j.work.executions) \in Nat
        /\ Len(w.executions) = Len(j.work.executions) + 1
        /\ \A i \in 1..Len(j.work.executions) : w.executions[i] = j.work.executions[i]
        /\ LastOf(w.executions) = e
    BY <1>1, Sequences, Appended DEF Whole, LastOf
  <2>3. Whole(w, issued')
    BY <1>4
  <2>4. Shape(job[c])'
    BY <1>1, <2>1 DEF JobInv, Shape, Before, Working, Executing
  <2>5. Executed(job[c])'
    <3>1. Len(w.executions) > 0
      BY <2>2
    <3>2. e.selection = w.selection
      OBVIOUS
    <3> QED BY <2>1, <2>2, <3>1, <3>2 DEF Executed
  <2>6. Replaying(job[c])'
    <3> SUFFICES ASSUME j.kind = "replay"
                 PROVE  Replaying(job[c])'
      BY <2>1 DEF Replaying
    <3>1. /\ Repeats(j) /\ j.adapter[j.op] = j.old.runtime
          /\ j.op = "gte" => j.work.selection = j.old.selection
          /\ ~j.stale => Retained(j, j.work, Len(j.work.executions))
      BY <1>1 DEF JobInv, Replaying, Executing
    <3>2. ~j.stale => Retained(j, w, Len(w.executions) - 1)
      BY <2>2, <3>1 DEF Retained
    <3> QED BY <2>1, <3>1, <3>2 DEF Replaying, Repeats, Retained
  <2> QED BY <2>1, <2>3, <2>4, <2>5, <2>6 DEF JobInv, Measuring, Reading, Pinned, InMemory,
            Identified, Undisturbed, Before, Working, Executing, PinsKept, Errors
<1> QED BY <1>2, <1>3, <1>4

LEMMA IdentifyInv ==
  ASSUME CommandInv, NEW c \in Commands, NEW stored \in BOOLEAN, Identify(c, stored)
  PROVE  JobInv(job[c])' /\ PinsKept(c)
<1> DEFINE j == job[c]
           bound == j.adapter[j.op]
           e == [id |-> issued + 1, op |-> j.op, selection |-> j.work.selection,
                 parameters |-> j.parameters, runtime |-> None, outcome |-> "refused"]
           refused(code) == [j.work EXCEPT !.executions = Append(@, [e EXCEPT !.outcome = code])]
<1>1. /\ j.stage = "bound" /\ issued' = issued + 1 /\ UNCHANGED <<files, world, evidence>>
      /\ \/ job'[c] = Recorded(j, refused("unbound"), stored)
         \/ job'[c] = Recorded(j, refused("changed"), stored)
         \/ job'[c] = [j EXCEPT !.stage = "invoking", !.entry = [e EXCEPT !.runtime = bound]] /\ bound # None
  BY DEF Identify, To, At, CommandInv
<1>2. JobInv(j) /\ DOMAIN j = Fields /\ issued \in Nat
  BY DEF CommandInv, JobInv, Shape
<1>3. Whole(j.work, issued) /\ DOMAIN j.work = WorkFields
  BY <1>1, <1>2 DEF JobInv, InMemory, Working, Executing, Whole
<1>4. \A x \in Elements(j.work.executions) : x.id # issued + 1
  BY <1>2, <1>3 DEF Whole, Numbered
<1>5. ASSUME NEW code, code # "completed", job'[c] = Recorded(j, refused(code), stored)
      PROVE  JobInv(job[c])' /\ PinsKept(c)
  <2> DEFINE x == [e EXCEPT !.outcome = code]
             v == refused(code)
  <2>1. /\ x.id = issued + 1 /\ x.parameters = j.parameters /\ x.selection = j.work.selection
        /\ x.outcome = code
    OBVIOUS
  <2>2. /\ DOMAIN v = WorkFields /\ v.source = j.work.source /\ v.results = j.work.results
        /\ v.selection = j.work.selection /\ v.executions = Append(j.work.executions, x)
    BY <1>3 DEF WorkFields
  <2>3. job'[c] = Recorded(j, v, stored)
    BY <1>5
  <2> HIDE DEF x, v, refused
  <2>4. /\ issued' \in Nat /\ issued <= issued' /\ x.id \in 1..issued'
        /\ \A y \in Elements(j.work.executions) : y.id # x.id
        /\ x.outcome # "completed"
    BY <1>1, <1>2, <1>4, <1>5, <2>1
  <2>5. ~Full(j.work) => Whole(v, issued')
    BY <1>2, <1>3, <2>2, <2>4, RefusalKept
  <2>6. /\ Elements(j.work.results) \subseteq Elements(v.results)
        /\ ~(x.outcome = "completed") /\ j.stage \in {"bound", "invoking"}
    BY <1>1, <2>2, <2>4
  <2> HIDE DEF bound, e
  <2> QED BY <2>1, <2>2, <2>3, <2>4, <2>5, <2>6, RecordedInv
<1>6. CASE job'[c] = [j EXCEPT !.stage = "invoking", !.entry = [e EXCEPT !.runtime = bound]] /\ bound # None
  <2> DEFINE x == [e EXCEPT !.runtime = bound]
  <2>1. /\ DOMAIN job'[c] = Fields /\ job'[c].stage = "invoking"
        /\ job'[c].kind = j.kind /\ job'[c].op = j.op /\ job'[c].to = j.to
        /\ job'[c].stale = j.stale /\ job'[c].old = j.old /\ job'[c].oldData = j.oldData
        /\ job'[c].parameters = j.parameters /\ job'[c].adapter = j.adapter
        /\ job'[c].lane = j.lane /\ job'[c].work = j.work /\ job'[c].entry = x
    BY <1>2, <1>6 DEF Fields
  <2>2. /\ DOMAIN x = EntryFields
        /\ x.id = issued + 1 /\ x.op = j.op /\ x.parameters = j.parameters
        /\ x.selection = j.work.selection /\ x.runtime = bound
    BY DEF EntryFields
  <2> HIDE DEF x
  <2>3. Whole(j.work, issued')
    BY <1>1, <1>2, <1>3, WholeLasts
  <2>4. Shape(job[c])'
    BY <1>1, <1>2, <2>1 DEF JobInv, Shape, Before, Working, Executing
  <2>5. Identified(job[c])'
    BY <1>1, <1>2, <1>4, <1>6, <2>1, <2>2 DEF Identified
  <2>6. Replaying(job[c])'
    BY <1>1, <1>2, <2>1 DEF JobInv, Replaying, Repeats, Retained, Executing
  <2> QED BY <2>1, <2>3, <2>4, <2>5, <2>6 DEF JobInv, Measuring, Reading, Pinned, InMemory,
            Executed, Undisturbed, Before, Working, Executing, PinsKept, Errors
<1> QED BY <1>1, <1>5, <1>6

LEMMA InvokeInv ==
  ASSUME CommandInv, NEW c \in Commands, NEW d, NEW stored \in BOOLEAN, Invoke(c, d, stored),
         d # None => d.by = installed
  PROVE  JobInv(job[c])' /\ PinsKept(c)
<1> DEFINE j == job[c]
           code == Outcome(c, j.entry, j.work, d)
           e == [j.entry EXCEPT !.outcome = code]
           v == Publish(j.work, e, d)
           r == [id |-> e.id, op |-> e.op, selection |-> e.selection, parameters |-> e.parameters,
                 runtime |-> e.runtime, data |-> d]
<1>1. j.stage = "invoking" /\ UNCHANGED <<files, world, drawn>> /\ job'[c] = Recorded(j, v, stored)
  BY DEF Invoke, To, At, CommandInv
<1>2. JobInv(j) /\ DOMAIN j = Fields /\ issued \in Nat
  BY DEF CommandInv, JobInv, Shape
<1>3. Whole(j.work, issued) /\ DOMAIN j.work = WorkFields
  BY <1>1, <1>2 DEF JobInv, InMemory, Working, Executing, Whole
<1>4. /\ DOMAIN e = EntryFields /\ e.id \in 1..issued
      /\ \A x \in Elements(j.work.executions) : x.id # e.id
      /\ e.op = j.op /\ e.parameters = j.parameters /\ e.selection = j.work.selection
      /\ e.runtime = j.adapter[j.op] /\ e.runtime # None /\ e.outcome = code
  BY <1>1, <1>2 DEF JobInv, Identified, EntryFields
<1>5. j.op \in Operations
  BY <1>1, <1>2 DEF JobInv, Shape, Executing
<1>6. ASSUME code = "completed"
      PROVE  /\ d # None /\ installed = j.adapter[j.op]
             /\ ValidPayload(d, j.entry, j.work.source)
             /\ j.op = "jspt" => Linked(j.parameters, j.work.results)
  <2>1. j.entry.op = j.op /\ j.entry.parameters = j.parameters
    BY <1>1, <1>2 DEF JobInv, Identified
  <2> QED BY <1>6, <2>1 DEF Outcome, StillBound
<1>7. ValidPayload(d, j.entry, j.work.source) => ValidPayload(d, r, j.work.source)
  <2>1. /\ j.entry.op = j.op /\ j.entry.parameters = j.parameters
        /\ j.entry.selection = j.work.selection
    BY <1>1, <1>2 DEF JobInv, Identified
  <2>2. r.op = j.op /\ r.parameters = j.parameters /\ r.selection = j.work.selection
    BY <1>4
  <2> HIDE DEF r
  <2> QED BY <1>5, <2>1, <2>2, PayloadOf
<1>8. /\ DOMAIN v = WorkFields /\ v.source = j.work.source /\ v.selection = j.work.selection
      /\ v.executions = Append(j.work.executions, e)
      /\ v.results = IF code = "completed" THEN Append(j.work.results, r) ELSE j.work.results
  BY <1>3, <1>4 DEF Publish, WorkFields
<1>9. Bound(e, r) /\ r.data = d /\ r.op = e.op /\ r.parameters = e.parameters /\ r.runtime = e.runtime /\ r.id = e.id
  BY DEF Bound
<1> HIDE DEF v, e, r, code
<1>10. issued' = issued /\ issued <= issued
  BY <1>1, <1>2 DEF drawn
<1>11. ~Full(j.work) => Whole(v, issued')
  <2> SUFFICES ASSUME ~Full(j.work)
               PROVE  Whole(v, issued')
    OBVIOUS
  <2>1. CASE code = "completed"
    <3>1. /\ d.by = e.runtime /\ ValidPayload(r.data, r, j.work.source)
          /\ r.op = "jspt" => Linked(r.parameters, j.work.results)
          /\ v.results = Append(j.work.results, r) /\ e.outcome = "completed"
          /\ r.data.by = r.runtime
      BY <1>4, <1>6, <1>7, <1>8, <1>9, <2>1
    <3> QED BY <1>2, <1>3, <1>4, <1>8, <1>9, <1>10, <3>1, CompletionKept
  <2>2. CASE code # "completed"
    <3>1. e.outcome # "completed" /\ v.results = j.work.results
      BY <1>4, <1>8, <2>2
    <3> QED BY <1>2, <1>3, <1>4, <1>8, <1>10, <3>1, RefusalKept
  <2> QED BY <2>1, <2>2
<1>12. code = "completed" => Len(v.results) > 0 /\ LastOf(v.results) = r
  BY <1>3, <1>8, Sequences, Appended DEF Whole, LastOf
<1>13. Elements(j.work.results) \subseteq Elements(v.results)
  BY <1>3, <1>8, Appended DEF Whole
<1>14. e.outcome = "completed" =>
         e.runtime = j.adapter[j.op] /\ Len(v.results) > 0 /\ LastOf(v.results).id = e.id
  BY <1>4, <1>9, <1>12
<1>15. e.parameters = j.parameters
  BY <1>1, <1>2, <1>4 DEF JobInv, Identified
<1> QED BY <1>1, <1>2, <1>4, <1>8, <1>10, <1>11, <1>13, <1>14, <1>15, RecordedInv

\* What a client asks of a served session.
LEMMA ServingInv ==
  ASSUME CommandInv, NEW c \in Commands,
         \/ \E op \in OperationsOf[job[c].lane] :
              \E parameters \in Askable(op, job[c].work) : Execute(c, op, parameters)
         \/ Answered(c)
         \/ \E s \in Selections : Select(c, s)
         \/ SaveServed(c)
  PROVE  JobInv(job[c])' /\ PinsKept(c)
<1> DEFINE j == job[c]
<1>1. /\ JobInv(j) /\ DOMAIN j = Fields /\ UNCHANGED <<world, drawn>>
      /\ j.kind = "serve" /\ j.stage \in {"serving", "executed"}
  BY DEF CommandInv, JobInv, Shape, Execute, Answered, Select, SaveServed, At
<1> USE DEF PinsKept, Errors
<1>2. /\ Whole(j.work, issued') /\ DOMAIN j.work = WorkFields
      /\ j.lane \in {"tank", "circle"} /\ j.lane \in Lanes /\ j.to \in Directories
  BY <1>1, InvestigationTypes DEF JobInv, InMemory, Shape, Working, Executing, Whole, drawn
<1>3. ASSUME NEW op \in OperationsOf[j.lane], NEW parameters, Execute(c, op, parameters)
      PROVE  JobInv(job[c])' /\ PinsKept(c)
  <2>1. job'[c] = [j EXCEPT !.stage = "bound", !.op = op, !.parameters = parameters]
    BY <1>3 DEF Execute, To, CommandInv
  <2>2. op \in Operations
    BY <1>2, <1>3 DEF OperationsOf, Operations
  <2>3. /\ DOMAIN job'[c] = Fields /\ job'[c].stage = "bound" /\ job'[c].kind = "serve"
        /\ job'[c].op \in Operations /\ job'[c].work = j.work /\ job'[c].lane = j.lane
        /\ job'[c].adapter = j.adapter /\ job'[c].to = j.to
    BY <1>1, <2>1, <2>2 DEF Fields
  <2>4. Shape(job[c])'
    BY <1>1, <1>2, <2>3 DEF JobInv, Shape, Before, Working, Executing
  <2> QED BY <1>2, <2>3, <2>4 DEF JobInv, Measuring, Reading, Pinned, InMemory, Identified,
            Executed, Replaying, Undisturbed, Before, Working, Executing
<1>4. ASSUME Answered(c)
      PROVE  JobInv(job[c])' /\ PinsKept(c)
  <2>1. job'[c] = Serving(j) /\ issued' = issued /\ issued \in Nat
    BY <1>4 DEF Answered, To, CommandInv, drawn
  <2> QED BY <1>1, <2>1, ServedInv DEF Working, Executing
<1>5. ASSUME NEW s \in Selections, Select(c, s)
      PROVE  JobInv(job[c])' /\ PinsKept(c)
  <2> DEFINE v == [j.work EXCEPT !.selection = s]
  <2>1. job'[c] = [j EXCEPT !.work = v] /\ j.stage = "serving"
    BY <1>5 DEF Select, To, At, CommandInv
  <2>2. /\ DOMAIN v = WorkFields /\ v.source = j.work.source
        /\ v.executions = j.work.executions /\ v.results = j.work.results
    BY <1>2 DEF WorkFields
  <2> HIDE DEF v
  <2>3. /\ DOMAIN job'[c] = Fields /\ job'[c].stage = "serving" /\ job'[c].kind = "serve"
        /\ job'[c].work = v /\ job'[c].lane = j.lane /\ job'[c].adapter = j.adapter /\ job'[c].to = j.to
    BY <1>1, <2>1 DEF Fields
  <2>4. Whole(v, issued')
    BY <1>2, <2>2, WholeSelected
  <2>5. Shape(job[c])'
    BY <1>1, <1>2, <2>3 DEF JobInv, Shape, Before, Working, Executing
  <2> QED BY <2>3, <2>4, <2>5 DEF JobInv, Measuring, Reading, Pinned, InMemory, Identified,
            Executed, Replaying, Undisturbed, Before, Working, Executing
<1>6. ASSUME SaveServed(c)
      PROVE  JobInv(job[c])' /\ PinsKept(c)
  <2>1. job'[c] = j /\ j.stage = "serving"
    BY <1>6 DEF SaveServed, At
  <2>2. Shape(job[c])'
    BY <1>1, <2>1 DEF JobInv, Shape
  <2> QED BY <1>2, <2>1, <2>2 DEF JobInv, Measuring, Reading, Pinned, InMemory, Identified,
            Executed, Replaying, Undisturbed, Before, Working, Executing
<1> QED BY <1>3, <1>4, <1>5, <1>6

\* A command that ends: with what it saved, or with nothing.
LEMMA EndInv ==
  ASSUME CommandInv, NEW c \in Commands,
         (\E stored \in BOOLEAN : Save(c, stored)) \/ Stop(c) \/ Killed(c)
  PROVE  JobInv(job[c])' /\ PinsKept(c)
<1> DEFINE j == job[c]
           matches == IF j.kind = "replay" THEN Matches(j.old, j.oldData, j.work) ELSE None
           error == IF matches = FALSE THEN "mismatch" ELSE "returned"
<1>1. CASE Stop(c) \/ Killed(c)
  <2>1. job'[c] = NoJob
    BY <1>1 DEF Stop, Killed, To, CommandInv
  <2>2. JobInv(job[c])' /\ job'[c].stage = "idle"
    BY <2>1, BlankFields, EndedInv DEF Ended
  <2> QED BY <2>2 DEF PinsKept, Errors
<1>2. ASSUME NEW stored \in BOOLEAN, Save(c, stored)
      PROVE  JobInv(job[c])' /\ PinsKept(c)
  <2>1. /\ j.stage = "executed" /\ files' = IF stored THEN [files EXCEPT ![j.to] = j.work] ELSE files
        /\ job'[c] = IF ~stored THEN Ending(j, "failed")
                     ELSE [Ending(j, error) EXCEPT !.matches = matches]
    BY <1>2 DEF Save, At, To, CommandInv
  <2>2. j.to \in Directories
    BY <2>1 DEF CommandInv, JobInv, Shape, Working, Executing
  <2>3. CASE ~stored
    <3>1. job'[c] = Ending(j, "failed")
      BY <2>1, <2>3
    <3> QED BY <3>1, FailedInv
  <2>4. CASE stored
    <3>1. job'[c] = [Ending(j, error) EXCEPT !.matches = matches]
      BY <2>1, <2>4
    <3>2. error \in {"mismatch", "returned"}
      OBVIOUS
    <3> HIDE DEF matches, error
    <3>3. /\ DOMAIN job'[c] = Fields /\ job'[c].stage = error
          /\ DOMAIN job'[c].adapter = Operations
      BY <3>1, BlankFields DEF Ending, Fields
    <3>4. JobInv(job[c])'
      BY <3>2, <3>3, EndedInv DEF Ended, Errors
    <3>5. files'[j.to] = j.work
      BY <2>1, <2>2, <2>4 DEF CommandInv
    <3> QED BY <3>2, <3>3, <3>4, <3>5 DEF PinsKept, Errors
  <2> QED BY <2>3, <2>4
<1> QED BY <1>1, <1>2

\* What is installed changes, or a release moves the pins: nothing is steady any more.
LEMMA ChangedInv ==
  ASSUME CommandInv, Release \/ \E id \in Installs : Change(id)
  PROVE  CommandInv'
<1>1. /\ job' = [c \in Commands |-> [job[c] EXCEPT !.steady = @ /\ job[c].stage \in Ended]]
      /\ UNCHANGED <<files, drawn>>
  BY DEF Change, Release
<1>2. UNCHANGED <<files, issued>> /\ DOMAIN job' = Commands
  BY <1>1 DEF drawn
<1>3. FileInv'
  BY <1>2 DEF CommandInv, FileInv
<1>4. ASSUME NEW c \in Commands
      PROVE  JobInv(job[c])'
  <2> DEFINE j == job[c]
  <2>1. JobInv(j) /\ DOMAIN j = Fields
    BY DEF CommandInv, JobInv, Shape
  <2>2. job'[c] = [j EXCEPT !.steady = @ /\ j.stage \in Ended]
    BY <1>1
  <2>3. /\ DOMAIN job'[c] = Fields
        /\ job'[c].steady => j.stage \in Ended
        /\ \A f \in Fields \ {"steady"} : job'[c][f] = j[f]
    BY <2>1, <2>2 DEF Fields
  <2>4. /\ job'[c].kind = j.kind /\ job'[c].stage = j.stage /\ job'[c].op = j.op
        /\ job'[c].from = j.from /\ job'[c].lane = j.lane /\ job'[c].measured = j.measured
        /\ job'[c].base = j.base /\ job'[c].expected = j.expected
        /\ job'[c].adapter = j.adapter /\ job'[c].parameters = j.parameters
        /\ job'[c].entry = j.entry /\ job'[c].work = j.work /\ job'[c].old = j.old
        /\ job'[c].oldData = j.oldData /\ job'[c].wrote = j.wrote /\ job'[c].stale = j.stale
        /\ job'[c].to = j.to
    BY <2>3 DEF Fields
  <2>5. Shape(job[c])' /\ Measuring(job[c])' /\ Reading(job[c])'
    <3>1. Shape(job[c])'
      BY <2>1, <2>3, <2>4 DEF JobInv, Shape
    <3>2. Measuring(job[c])'
      BY <2>1, <2>4 DEF JobInv, Measuring
    <3>3. Reading(job[c])'
      BY <1>2, <2>1, <2>4 DEF JobInv, Reading
    <3> QED BY <3>1, <3>2, <3>3
  <2>6. Pinned(job[c])' /\ InMemory(job[c])' /\ Identified(job[c])'
    BY <1>2, <2>1, <2>4 DEF JobInv, Pinned, InMemory, Identified, Repeats, Retained
  <2>7. Executed(job[c])' /\ Replaying(job[c])'
    BY <2>1, <2>4 DEF JobInv, Executed, Replaying, Repeats, Retained
  <2>8. Undisturbed(job[c])'
    <3>1. job'[c].steady => job'[c].stage # "pinned" /\ job'[c].stage # "measured"
      BY <2>3, <2>4 DEF Ended, Errors
    <3> QED BY <3>1 DEF Undisturbed
  <2> QED BY <2>5, <2>6, <2>7, <2>8 DEF JobInv
<1> QED BY <1>2, <1>3, <1>4 DEF CommandInv

\* An answer says what computed it.
LEMMA ProceedInv ==
  ASSUME CommandInv, NEW c \in Commands, Proceed(c)
  PROVE  JobInv(job[c])' /\ PinsKept(c)
<1>1. ASSUME NEW value \in Numbers(job[c].kind = "replay"), NEW right \in BOOLEAN,
             Calibrate(c, value, right)
      PROVE  JobInv(job[c])' /\ PinsKept(c)
  BY <1>1, CalibrateInv
<1>2. ASSUME NEW stored \in BOOLEAN, MakeRun(c, stored) \/ Open(c, stored) \/ Identify(c, stored)
      PROVE  JobInv(job[c])' /\ PinsKept(c)
  BY <1>2, MakeRunInv, OpenInv, IdentifyInv
<1>3. ASSUME NEW stored \in BOOLEAN, Invoke(c, None, stored)
      PROVE  JobInv(job[c])' /\ PinsKept(c)
  BY <1>3, InvokeInv
<1>4. ASSUME NEW value, NEW right \in BOOLEAN, NEW stored \in BOOLEAN,
             Invoke(c, Answer(job[c].entry, job[c].work.source, value, right), stored)
      PROVE  JobInv(job[c])' /\ PinsKept(c)
  <2> DEFINE d == Answer(job[c].entry, job[c].work.source, value, right)
  <2>1. d.by = installed
    BY DEF Answer
  <2> HIDE DEF d
  <2>2. Invoke(c, d, stored)
    BY <1>4 DEF d
  <2> QED BY <2>1, <2>2, InvokeInv
<1>5. ASSUME Pin(c) \/ TurnedAway(c)
      PROVE  JobInv(job[c])' /\ PinsKept(c)
  BY <1>5, PinInv, TurnedAwayInv
<1>6. ASSUME \/ /\ At(c, "serving")
                /\ \E op \in OperationsOf[job[c].lane] :
                     \E parameters \in Askable(op, job[c].work) : Execute(c, op, parameters)
             \/ \E s \in Selections : Select(c, s)
             \/ Answered(c) \/ SaveServed(c)
      PROVE  JobInv(job[c])' /\ PinsKept(c)
  BY <1>6, ServingInv
<1>7. ASSUME (\E stored \in BOOLEAN : Save(c, stored)) \/ Stop(c) \/ Killed(c)
      PROVE  JobInv(job[c])' /\ PinsKept(c)
  BY <1>7, EndInv
<1> QED BY <1>1, <1>2, <1>3, <1>4, <1>5, <1>6, <1>7 DEF Proceed

\* What a step of a command does to the files: nothing, or it saves what it holds.
LEMMA StepFiles ==
  ASSUME CommandInv, NEW c \in Commands, Begin(c) \/ Proceed(c)
  PROVE  /\ DOMAIN job' = Commands /\ \A b \in Commands \ {c} : job'[b] = job[b]
         /\ UNCHANGED <<installed, release>> /\ issued' \in Nat /\ issued <= issued'
         /\ DOMAIN files' = Directories
         /\ \A d \in Directories : files'[d] = files[d] \/ Whole(files'[d], issued)
<1>1. DOMAIN job' = Commands /\ \A b \in Commands \ {c} : job'[b] = job[b]
  <2>1. ASSUME NEW j, To(c, j)
        PROVE  DOMAIN job' = Commands /\ \A b \in Commands \ {c} : job'[b] = job[b]
    BY <2>1 DEF To, CommandInv
  <2>2. ASSUME NEW p, NEW j, Begun(c, p, j)
        PROVE  DOMAIN job' = Commands /\ \A b \in Commands \ {c} : job'[b] = job[b]
    BY <2>1, <2>2 DEF Begun
  <2>3. ASSUME NEW p, NEW j, Checked(c, p, j)
        PROVE  DOMAIN job' = Commands /\ \A b \in Commands \ {c} : job'[b] = job[b]
    BY <2>1, <2>3 DEF Checked
  <2>4. CASE Begin(c)
    BY <2>1, <2>2, <2>4 DEF Begin, CreateTank, CreateCircle, Replay, Covariance, Serve
  <2>5. CASE Proceed(c)
    <3>1. ASSUME NEW value, NEW right, Calibrate(c, value, right)
          PROVE  DOMAIN job' = Commands /\ \A b \in Commands \ {c} : job'[b] = job[b]
      BY <2>3, <3>1 DEF Calibrate
    <3>2. ASSUME \/ Pin(c) \/ TurnedAway(c)
                 \/ \E stored \in BOOLEAN :
                      MakeRun(c, stored) \/ Open(c, stored) \/ Identify(c, stored) \/ Save(c, stored)
          PROVE  DOMAIN job' = Commands /\ \A b \in Commands \ {c} : job'[b] = job[b]
      BY <2>1, <2>3, <3>2 DEF MakeRun, Pin, TurnedAway, Open, Identify, Save
    <3>3. ASSUME NEW d, NEW stored, Invoke(c, d, stored)
          PROVE  DOMAIN job' = Commands /\ \A b \in Commands \ {c} : job'[b] = job[b]
      BY <2>1, <3>3 DEF Invoke
    <3>4. ASSUME \/ \E op, parameters : Execute(c, op, parameters)
                 \/ Answered(c) \/ (\E s \in Selections : Select(c, s))
                 \/ Stop(c) \/ Killed(c)
          PROVE  DOMAIN job' = Commands /\ \A b \in Commands \ {c} : job'[b] = job[b]
      BY <2>1, <3>4 DEF Execute, Answered, Select, Stop, Killed
    <3>5. ASSUME SaveServed(c)
          PROVE  DOMAIN job' = Commands /\ \A b \in Commands \ {c} : job'[b] = job[b]
      BY <3>5 DEF SaveServed, CommandInv
    <3> QED BY <2>5, <3>1, <3>2, <3>3, <3>4, <3>5 DEF Proceed
  <2> QED BY <2>4, <2>5
<1>2. UNCHANGED <<installed, release>>
  BY DEF Begin, CreateTank, CreateCircle, Replay, Covariance, Serve, Proceed, Calibrate, MakeRun,
         Pin, Open, Identify, Invoke, Execute, Answered, Select, Save, SaveServed, Stop,
         Killed, TurnedAway, world
<1>3. issued' \in Nat /\ issued <= issued'
  <2>1. issued' = issued \/ issued' = issued + 1
    BY DEF Begin, CreateTank, CreateCircle, Replay, Covariance, Serve, Proceed, Calibrate, MakeRun,
           Pin, Open, Identify, Invoke, Execute, Answered, Select, Save, SaveServed, Stop,
           Killed, TurnedAway, drawn
  <2> QED BY <2>1 DEF CommandInv
<1>4. CASE UNCHANGED files
  BY <1>1, <1>2, <1>3, <1>4 DEF CommandInv
<1>5. CASE ~UNCHANGED files
  <2>1. /\ job[c].stage \in {"executed", "serving"}
        /\ files' = [files EXCEPT ![job[c].to] = job[c].work]
    BY <1>5 DEF Begin, CreateTank, CreateCircle, Replay, Covariance, Serve, Proceed, Calibrate,
         MakeRun, Pin, Open, Identify, Invoke, Execute, Answered, Select, Save, SaveServed, Stop,
         Killed, TurnedAway, At
  <2>2. Whole(job[c].work, issued)
    BY <2>1 DEF CommandInv, JobInv, InMemory, Working, Executing
  <2> QED BY <1>1, <1>2, <1>3, <2>1, <2>2 DEF CommandInv
<1> QED BY <1>4, <1>5

LEMMA CommandStep == CommandInv /\ [Next]_vars => CommandInv'
<1> SUFFICES ASSUME CommandInv, [Next]_vars
             PROVE  CommandInv'
  OBVIOUS
<1>1. ASSUME NEW c \in Commands, Begin(c) \/ Proceed(c)
      PROVE  CommandInv'
  BY <1>1, StepFiles, BeginInv, ProceedInv, StepKept
<1>2. CASE Release \/ \E id \in Installs : Change(id)
  BY <1>2, ChangedInv
<1>3. CASE UNCHANGED vars
  BY <1>3 DEF vars, world, drawn, CommandInv, FileInv, JobInv, Shape, Measuring, Reading, Pinned,
              InMemory, Identified, Executed, Replaying, Undisturbed, Repeats, Retained,
              Bindable, Accepts
<1> QED BY <1>1, <1>2, <1>3 DEF Next

LEMMA CommandInit == Init => CommandInv
<1> SUFFICES ASSUME Init
             PROVE  CommandInv
  OBVIOUS
<1>1. /\ DOMAIN files = Directories /\ DOMAIN job = Commands /\ issued \in Nat
      /\ FileInv
  BY DEF Init, FileInv
<1>2. ASSUME NEW c \in Commands
      PROVE  JobInv(job[c])
  <2>1. /\ DOMAIN job[c] = Fields /\ job[c].stage = "idle" /\ DOMAIN job[c].adapter = Operations
    BY BlankFields DEF Init
  <2> QED BY <2>1 DEF JobInv, Shape, Measuring, Reading, Pinned, InMemory, Identified,
              Executed, Replaying, Undisturbed, Before, Working, Executing, Ended, Errors
<1> QED BY <1>1, <1>2 DEF CommandInv

-----------------------------------------------------------------------------
(* What the commands promise. *)

\* The invariant of the commands: every step of one, from reading a workspace to
\* saving it, keeps it for that command and for the others.
THEOREM CommandsCorrect == Spec => []CommandInv
BY CommandInit, CommandStep, PTL DEF Spec

\* WorkspacesReopen for every instance: what any command saved (Session.save_workspace)
\* Session.from_workspace accepts, since an execution that runner.execute appends has
\* a new identity and, if it is a covariance, an older source.
THEOREM ReopeningCorrect == Spec => []WorkspacesReopen
<1>1. CommandInv => WorkspacesReopen
  BY DEF CommandInv, FileInv, Whole, WorkspacesReopen
<1> QED BY <1>1, CommandsCorrect, PTL

\* RuntimesNamed for every instance: the identity that a saved record names
\* (runner.execute, create_investigation) computed its data, whatever is installed
\* between taking the one and the other.
THEOREM RuntimesCorrect == Spec => []RuntimesNamed
<1>1. CommandInv => RuntimesNamed
  BY DEF CommandInv, FileInv, Whole, Named, RuntimesNamed
<1> QED BY <1>1, CommandsCorrect, PTL

\* PinsPrecedeWrites for every instance: "Pin validation precedes any writes into the
\* requested destination" (investigation.py:408), for a replay, a covariance and a circle
\* create.  If nothing that is installed changes while it runs, such a command that has
\* written ends with an error only at the disk, at a session without room, after it
\* saved an outcome that does not match, or since its workspace was saved over.
THEOREM PinsCorrect == Spec => PinsPrecedeWrites
<1>1. ASSUME CommandInv, [Next]_vars, NEW c \in Commands
      PROVE  PinsKept(c)
  <2>1. CASE job'[c].stage = job[c].stage
    BY <2>1 DEF PinsKept, Ended
  <2>2. CASE job'[c].stage # job[c].stage
    <3>1. CASE UNCHANGED vars
      BY <2>2, <3>1 DEF vars
    <3>2. CASE Release \/ \E id \in Installs : Change(id)
      <4>1. job'[c] = [job[c] EXCEPT !.steady = @ /\ job[c].stage \in Ended]
        BY <3>2 DEF Release, Change
      <4>2. DOMAIN job[c] = Fields
        BY <1>1 DEF CommandInv, JobInv, Shape
      <4> QED BY <2>2, <4>1, <4>2 DEF Fields
    <3>3. ASSUME NEW b \in Commands, Begin(b) \/ Proceed(b)
          PROVE  PinsKept(c)
      <4>1. b = c
        BY <1>1, <2>2, <3>3, StepFiles
      <4>2. CASE Begin(c)
        BY <1>1, <4>2, BeginInv DEF PinsKept
      <4>3. CASE Proceed(c)
        BY <1>1, <4>3, ProceedInv
      <4> QED BY <3>3, <4>1, <4>2, <4>3
    <3> QED BY <1>1, <3>1, <3>2, <3>3 DEF Next
  <2> QED BY <2>1, <2>2
<1>2. CommandInv /\ [Next]_vars => [\A c \in Terminals : PinsKept(c)]_vars
  BY <1>1 DEF Commands
<1> QED BY <1>2, CommandsCorrect, PTL DEF Spec, PinsPrecedeWrites, PinsKept

\* A replay that ends has saved its work and compares it with what it had retained.
LEMMA ReplayEnds ==
  ASSUME CommandInv, [Next]_vars, NEW c \in Commands,
         job[c].stage = "executed", job[c].kind = "replay",
         job'[c].stage \in {"returned", "mismatch"}
  PROVE  job'[c].matches = Matches(job[c].old, job[c].oldData, job[c].work)
<1>1. CASE UNCHANGED vars
  BY <1>1 DEF vars
<1>2. CASE Release \/ \E id \in Installs : Change(id)
  <2>1. job'[c] = [job[c] EXCEPT !.steady = @ /\ job[c].stage \in Ended]
    BY <1>2 DEF Release, Change
  <2>2. DOMAIN job[c] = Fields
    BY DEF CommandInv, JobInv, Shape
  <2> QED BY <2>1, <2>2 DEF Fields
<1>3. ASSUME NEW b \in Commands, Begin(b) \/ Proceed(b)
      PROVE  job'[c].matches = Matches(job[c].old, job[c].oldData, job[c].work)
  <2>1. b = c
    BY <1>3, StepFiles
  <2>2. ~Begin(c)
    BY DEF Begin, CreateTank, CreateCircle, Replay, Covariance, Serve, Begun, Ended, Errors
  <2> DEFINE matches == Matches(job[c].old, job[c].oldData, job[c].work)
             error == IF matches = FALSE THEN "mismatch" ELSE "returned"
  <2>3. \A k : To(c, k) => job'[c] = k
    BY DEF To, CommandInv
  <2>4. ~Killed(c)
    BY <2>3, BlankFields DEF Killed
  <2>5. PICK stored \in BOOLEAN : Save(c, stored)
    BY <1>3, <2>1, <2>2, <2>4 DEF Proceed, Calibrate, MakeRun, Pin, Open, Identify, Invoke, Execute,
         Answered, Select, SaveServed, Stop, TurnedAway, At
  <2>6. job'[c] = IF ~stored THEN Ending(job[c], "failed")
                  ELSE [Ending(job[c], error) EXCEPT !.matches = matches]
    BY <2>3, <2>5 DEF Save
  <2> HIDE DEF matches, error
  <2>7. Ending(job[c], "failed").stage = "failed"
    BY BlankFields DEF Ending, Fields
  <2>8. job'[c] = [Ending(job[c], error) EXCEPT !.matches = matches]
    BY <2>6, <2>7
  <2>9. job'[c].matches = matches
    BY <2>8, BlankFields DEF Ending, Fields
  <2> QED BY <2>9 DEF matches
<1> QED BY <1>1, <1>2, <1>3 DEF Next

\* The newest execution is the last with its identity, and so is its result.
LEMMA MatchesHonest ==
  ASSUME CommandInv, NEW c \in Commands, job[c].stage = "executed", job[c].kind = "replay"
  PROVE  Honest(job[c], Matches(job[c].old, job[c].oldData, job[c].work))
<1> DEFINE j == job[c]
           w == j.work
           new == LastOf(w.executions)
           n == Len(w.executions)
           matches == Matches(j.old, j.oldData, w)
<1>1. /\ Whole(w, issued) /\ n \in Nat /\ n > 0 /\ new = w.executions[n]
      /\ Len(w.results) \in Nat
  BY Sequences DEF CommandInv, JobInv, InMemory, Executed, Working, Executing, Whole, LastOf
<1>2. /\ new.parameters = j.parameters /\ new.selection = w.selection
      /\ new.outcome = "completed" =>
           /\ new.runtime = j.adapter[j.op]
           /\ Len(w.results) > 0 /\ LastOf(w.results).id = new.id
  BY DEF CommandInv, JobInv, Executed
<1>3. /\ Repeats(j) /\ j.adapter[j.op] = j.old.runtime
      /\ j.op = "gte" => w.selection = j.old.selection
      /\ ~j.stale => Retained(j, w, n - 1)
  BY DEF CommandInv, JobInv, Replaying, Executing
<1>4. new.outcome = "completed" => DataOf(w, new) = Newest(w)
  <2> SUFFICES ASSUME new.outcome = "completed"
               PROVE  DataOf(w, new) = Newest(w)
    OBVIOUS
  <2> DEFINE r == LastOf(w.results)
  <2>1. r \in Elements(w.results) /\ r.id = new.id
    BY <1>1, <1>2 DEF Elements, LastOf
  <2>2. \A x \in Elements(w.results) : x.id = r.id => x = r
    BY <1>1, <2>1 DEF Whole, Numbered
  <2> HIDE DEF r, new
  <2>3. (CHOOSE x \in Elements(w.results) : x.id = new.id) = r
    BY <2>1, <2>2
  <2> QED BY <2>3 DEF DataOf, Newest, r
<1>5. ASSUME matches = TRUE
      PROVE  /\ new.outcome = j.old.outcome
             /\ new.outcome = "completed" => Content(DataOf(w, new)) = Content(j.oldData)
  <2>1. CASE j.old.outcome = "completed" /\ new.outcome = "completed"
    BY <1>4, <1>5, <2>1 DEF Matches, Completed
  <2>2. CASE ~(j.old.outcome = "completed" /\ new.outcome = "completed")
    <3>1. j.old.op = "gte"
      BY <1>5, <2>2, InvestigationTypes DEF Matches, Completed
    <3>2. new.outcome = j.old.outcome
      BY <1>5, <2>2, <3>1 DEF Matches, Completed
    <3> QED BY <2>2, <3>2
  <2> QED BY <2>1, <2>2
<1>6. ASSUME ~j.stale
      PROVE  /\ j.old \in Elements(w.executions) /\ new # j.old
             /\ j.oldData # None => \E r \in Elements(w.results) : r.data = j.oldData
  <2>1. Retained(j, w, n - 1)
    BY <1>3, <1>6
  <2>2. PICK i \in 1..(n - 1) : w.executions[i] = j.old
    BY <2>1 DEF Retained
  <2>3. i \in 1..n /\ n \in 1..n /\ i # n
    BY <1>1, <2>2
  <2>4. new # j.old
    <3>1. \A k, l \in 1..n : w.executions[k].id = w.executions[l].id => k = l
      BY <1>1 DEF Whole, Reopens
    <3> QED BY <1>1, <2>2, <2>3, <3>1
  <2> QED BY <2>1, <2>2, <2>3, <2>4 DEF Elements, Retained
<1> HIDE DEF matches, new
<1>7. Honest(j, matches)
  <2>1. new.parameters = j.old.parameters /\ (j.op = "gte" => new.selection = j.old.selection)
    BY <1>2, <1>3 DEF Repeats
  <2>2. new.outcome = "completed" => new.runtime = j.old.runtime
    BY <1>2, <1>3
  <2> QED BY <1>5, <1>6, <2>1, <2>2 DEF Honest, new
<1> QED BY <1>7 DEF matches

\* ReplaysHonest for every instance: what replay_investigation and replay_covariance
\* report of the retained and the new result is about one source, runtime, selection
\* and parameters, and a mismatch leaves both outcomes in the workspace.
THEOREM ReplaysCorrect == Spec => ReplaysHonest
<1> DEFINE Reports(c) ==
             At(c, "executed") /\ job[c].kind = "replay" /\ job'[c].stage \in {"returned", "mismatch"}
               => Honest(job[c], job'[c].matches)
<1>1. ASSUME CommandInv, [Next]_vars, NEW c \in Commands
      PROVE  Reports(c)
  BY <1>1, ReplayEnds, MatchesHonest DEF At
<1>2. CommandInv /\ [Next]_vars => [\A c \in Commands : Reports(c)]_vars
  BY <1>1
<1> QED BY <1>2, CommandsCorrect, PTL DEF Spec, ReplaysHonest
=============================================================================
