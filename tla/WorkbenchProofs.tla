-------------------------- MODULE WorkbenchProofs ---------------------------
(***************************************************************************)
(* Proofs about Workbench.tla, for every set of sources, kinds and threads *)
(* and every limit: its counters; what they are for, the links, slots and  *)
(* bytes of the catalog, and that a saved catalog reopens; what readers    *)
(* rely on: its steps are those of the append-only catalog of Catalog.tla; *)
(* and that its revision tells them apart.                                 *)
(***************************************************************************)
EXTENDS Workbench, FiniteSetTheorems, TLAPS

-----------------------------------------------------------------------------
(* Bytes are counted by cardinalities: adding a record adds its size.       *)

LEMMA Row ==
  ASSUME NEW x, NEW n \in Nat
  PROVE  IsFiniteSet({x} \X (1..n)) /\ Cardinality({x} \X (1..n)) = n
<1> DEFINE X == {x}
           N == 1..n
<1>1. IsFiniteSet(X) /\ Cardinality(X) = 1
  BY FS_Singleton
<1>2. IsFiniteSet(N) /\ Cardinality(N) = n
  BY FS_Interval
<1> HIDE DEF X, N
<1>3. IsFiniteSet(X \X N) /\ Cardinality(X \X N) = 1 * n
  BY <1>1, <1>2, FS_Product
<1> QED BY <1>3 DEF X, N

LEMMA AddRow ==
  ASSUME NEW B, IsFiniteSet(B), NEW x, NEW n \in Nat,
         \A i \in 1..n : <<x, i>> \notin B
  PROVE  /\ IsFiniteSet(B \cup ({x} \X (1..n)))
         /\ Cardinality(B \cup ({x} \X (1..n))) = Cardinality(B) + n
<1>1. IsFiniteSet({x} \X (1..n)) /\ Cardinality({x} \X (1..n)) = n
  BY Row
<1>2. B \cap ({x} \X (1..n)) = {}
  OBVIOUS
<1>3. Cardinality(B \cap ({x} \X (1..n))) = 0
  BY <1>2, FS_EmptySet
<1>4. Cardinality(B) \in Nat
  BY FS_CardinalityType
<1> QED BY <1>1, <1>3, <1>4, FS_Union

LEMMA RowsFinite ==
  ASSUME NEW S, IsFiniteSet(S), NEW n \in [S -> Nat]
  PROVE  IsFiniteSet(UNION {{x} \X (1..n[x]) : x \in S})
<1> DEFINE row == [x \in S |-> {x} \X (1..n[x])]
           rows == {{x} \X (1..n[x]) : x \in S}
<1>1. row \in Surjection(S, rows)
  BY DEF Surjection
<1>2. \A r \in rows : IsFiniteSet(r)
  <2> SUFFICES ASSUME NEW x \in S PROVE IsFiniteSet({x} \X (1..n[x]))
    OBVIOUS
  <2> DEFINE k == n[x]
  <2>1. k \in Nat
    OBVIOUS
  <2> HIDE DEF k
  <2>2. IsFiniteSet({x} \X (1..k))
    BY <2>1, Row
  <2> QED BY <2>2 DEF k
<1> HIDE DEF row, rows
<1>3. IsFiniteSet(rows)
  BY <1>1, FS_Surjection
<1>4. IsFiniteSet(UNION rows)
  BY <1>2, <1>3, FS_UNION
<1> QED BY <1>4 DEF rows

LEMMA RecordBytesFinite ==
  ASSUME NEW R, IsFiniteSet(R), \A r \in R : r.size \in Nat
  PROVE  IsFiniteSet(RecordBytes(R)) /\ Cardinality(RecordBytes(R)) \in Nat
<1> DEFINE n == [r \in R |-> r.size]
<1>1. n \in [R -> Nat] /\ \A r \in R : n[r] = r.size
  OBVIOUS
<1>2. RecordBytes(R) = UNION {{r} \X (1..n[r]) : r \in R}
  BY <1>1 DEF RecordBytes
<1> HIDE DEF n
<1>3. IsFiniteSet(UNION {{r} \X (1..n[r]) : r \in R})
  BY <1>1, RowsFinite
<1> QED BY <1>2, <1>3, FS_CardinalityType

LEMMA AddRecord ==
  ASSUME NEW R, IsFiniteSet(R), \A r \in R : r.size \in Nat,
         NEW q, q \notin R, q.size \in Nat
  PROVE  Cardinality(RecordBytes(R \cup {q})) = Cardinality(RecordBytes(R)) + q.size
<1> DEFINE n == q.size
           B == RecordBytes(R)
<1>1. IsFiniteSet(B)
  BY RecordBytesFinite
<1>2. \A i \in 1..n : <<q, i>> \notin B
  BY DEF RecordBytes
<1>3. RecordBytes(R \cup {q}) = B \cup ({q} \X (1..n))
  BY DEF RecordBytes
<1>4. n \in Nat
  OBVIOUS
<1> HIDE DEF n, B
<1>5. Cardinality(B \cup ({q} \X (1..n))) = Cardinality(B) + n
  BY <1>1, <1>2, <1>4, AddRow
<1> QED BY <1>3, <1>5 DEF n, B

LEMMA SourceBytesFinite ==
  ASSUME NEW S \in SUBSET Sources, IsFiniteSet(S)
  PROVE  IsFiniteSet(SourceBytes(S)) /\ Cardinality(SourceBytes(S)) \in Nat
<1> DEFINE n == [s \in S |-> SourceSize[s]]
<1>1. n \in [S -> Nat] /\ \A s \in S : n[s] = SourceSize[s]
  BY ConstantTypes
<1>2. SourceBytes(S) = UNION {{s} \X (1..n[s]) : s \in S}
  BY <1>1 DEF SourceBytes
<1> HIDE DEF n
<1>3. IsFiniteSet(UNION {{s} \X (1..n[s]) : s \in S})
  BY <1>1, RowsFinite
<1> QED BY <1>2, <1>3, FS_CardinalityType

LEMMA AddSourceBytes ==
  ASSUME NEW S \in SUBSET Sources, IsFiniteSet(S), NEW s \in Sources, s \notin S
  PROVE  Cardinality(SourceBytes(S \cup {s})) = Cardinality(SourceBytes(S)) + SourceSize[s]
<1> DEFINE n == SourceSize[s]
           B == SourceBytes(S)
<1>1. IsFiniteSet(B)
  BY SourceBytesFinite
<1>2. \A i \in 1..n : <<s, i>> \notin B
  BY DEF SourceBytes
<1>3. SourceBytes(S \cup {s}) = B \cup ({s} \X (1..n))
  BY DEF SourceBytes
<1>4. n \in Nat
  BY ConstantTypes
<1> HIDE DEF n, B
<1>5. Cardinality(B \cup ({s} \X (1..n))) = Cardinality(B) + n
  BY <1>1, <1>2, <1>4, AddRow
<1> QED BY <1>3, <1>5 DEF n, B

LEMMA HeldFinite ==
  ASSUME NEW h \in [Threads -> Nat], NEW T \in SUBSET Threads
  PROVE  IsFiniteSet(HeldBytes(h, T)) /\ Cardinality(HeldBytes(h, T)) \in Nat
<1>1. IsFiniteSet(T)
  BY FS_Subset, ConstantTypes
<1> DEFINE n == [t \in T |-> h[t]]
<1>2. n \in [T -> Nat] /\ \A t \in T : n[t] = h[t]
  OBVIOUS
<1>3. HeldBytes(h, T) = UNION {{t} \X (1..n[t]) : t \in T}
  BY <1>2 DEF HeldBytes
<1> HIDE DEF n
<1>4. IsFiniteSet(UNION {{t} \X (1..n[t]) : t \in T})
  BY <1>1, <1>2, RowsFinite
<1> QED BY <1>3, <1>4, FS_CardinalityType

LEMMA AddHolder ==
  ASSUME NEW h \in [Threads -> Nat], NEW T \in SUBSET Threads,
         NEW t \in Threads, t \notin T
  PROVE  Cardinality(HeldBytes(h, T \cup {t})) = Cardinality(HeldBytes(h, T)) + h[t]
<1> DEFINE n == h[t]
           B == HeldBytes(h, T)
<1>1. IsFiniteSet(B)
  BY HeldFinite
<1>2. \A i \in 1..n : <<t, i>> \notin B
  BY DEF HeldBytes
<1>3. HeldBytes(h, T \cup {t}) = B \cup ({t} \X (1..n))
  BY DEF HeldBytes
<1>4. n \in Nat
  OBVIOUS
<1> HIDE DEF n, B
<1>5. Cardinality(B \cup ({t} \X (1..n))) = Cardinality(B) + n
  BY <1>1, <1>2, <1>4, AddRow
<1> QED BY <1>3, <1>5 DEF n, B

\* Changing what t holds moves the total by the difference.
LEMMA ChangeHold ==
  ASSUME NEW h \in [Threads -> Nat], NEW t \in Threads, NEW n \in Nat
  PROVE  /\ Cardinality(HeldBytes([h EXCEPT ![t] = n], Threads)) \in Nat
         /\ Cardinality(HeldBytes(h, Threads)) \in Nat
         /\ h[t] <= Cardinality(HeldBytes(h, Threads))
         /\ Cardinality(HeldBytes([h EXCEPT ![t] = n], Threads))
              = Cardinality(HeldBytes(h, Threads)) - h[t] + n
<1> DEFINE g == [h EXCEPT ![t] = n]
           T == Threads \ {t}
<1>1. g \in [Threads -> Nat] /\ g[t] = n /\ \A u \in T : g[u] = h[u]
  OBVIOUS
<1>2. HeldBytes(g, T) = HeldBytes(h, T)
  BY <1>1 DEF HeldBytes
<1>3. T \in SUBSET Threads /\ t \notin T /\ Threads = T \cup {t}
  OBVIOUS
<1> HIDE DEF g, T
<1>4. Cardinality(HeldBytes(h, Threads)) = Cardinality(HeldBytes(h, T)) + h[t]
  BY <1>3, AddHolder
<1>5. Cardinality(HeldBytes(g, Threads)) = Cardinality(HeldBytes(h, T)) + n
  <2>1. Cardinality(HeldBytes(g, T \cup {t})) = Cardinality(HeldBytes(g, T)) + g[t]
    BY <1>1, <1>3, AddHolder
  <2> QED BY <2>1, <1>1, <1>2, <1>3
<1>6. Cardinality(HeldBytes(h, T)) \in Nat
  BY <1>3, HeldFinite
<1> QED BY <1>4, <1>5, <1>6 DEF g

-----------------------------------------------------------------------------
(* TypeOK and Accounting are inductive only together: _pending stays a      *)
(* natural number because it counts the operations in flight.  They fall    *)
(* into a part about the catalog and a part about the threads.              *)

CatalogOK ==
  /\ sources \subseteq Sources /\ IsFiniteSet(sources)
  /\ bundles \subseteq Bundle /\ IsFiniteSet(bundles)
  /\ candidates \subseteq Candidate /\ IsFiniteSet(candidates)
  /\ used \in Nat /\ revision \in Nat
  /\ used = Footprint(sources, bundles, candidates)
  /\ revision = Cardinality(sources) + Cardinality(bundles) + Cardinality(candidates)

ThreadsOK ==
  /\ pending \in Nat /\ reserved \in Nat
  /\ stage \in [Threads -> Stages]
  /\ job \in [Threads -> {NoJob} \cup BundleJobs \cup CandidateJobs]
  /\ hold \in [Threads -> Nat]
  /\ \A t \in Threads : (stage[t] = "idle") <=> (job[t] = NoJob)
  /\ \A t \in Threads : (stage[t] = "idle") <=> (hold[t] = 0)
  /\ pending = Cardinality(InFlight)
  /\ reserved = Cardinality(HeldBytes(hold, Threads))

RestOK ==
  /\ bound \subseteq Kinds /\ adapters \subseteq Assessable
  /\ saved \in [sources : SUBSET Sources, bundles : SUBSET Bundle,
               candidates : SUBSET Candidate, revision : Nat]
  /\ IsFiniteSet(saved.sources) /\ IsFiniteSet(saved.bundles) /\ IsFiniteSet(saved.candidates)
  /\ up \in BOOLEAN

LEMMA Parts == (TypeOK /\ Accounting) <=> (CatalogOK /\ ThreadsOK /\ RestOK)
BY DEF TypeOK, Accounting, CatalogOK, ThreadsOK, RestOK

-----------------------------------------------------------------------------
(* The threads' part, action by action.                                     *)

LEMMA ThreadsStutter ==
  ThreadsOK /\ UNCHANGED <<pending, reserved, threads>> => ThreadsOK'
BY DEF ThreadsOK, threads, InFlight

\* The threads of a process that has just started.
Started ==
  /\ pending = 0 /\ reserved = 0
  /\ stage = [t \in Threads |-> "idle"]
  /\ job = [t \in Threads |-> NoJob]
  /\ hold = [t \in Threads |-> 0]

LEMMA ThreadsFresh == Started => ThreadsOK
<1> SUFFICES ASSUME Started PROVE ThreadsOK
  OBVIOUS
<1> USE DEF Started
<1>1. InFlight = {}
  BY DEF InFlight
<1>2. HeldBytes(hold, Threads) = {}
  BY DEF HeldBytes
<1>3. Cardinality(InFlight) = 0 /\ Cardinality(HeldBytes(hold, Threads)) = 0
  BY <1>1, <1>2, FS_EmptySet
<1> QED BY <1>3 DEF ThreadsOK, Stages

LEMMA ThreadsReserve ==
  ASSUME NEW t \in Threads, NEW j \in BundleJobs \cup CandidateJobs,
         NEW n \in Nat \ {0}, NEW slots,
         ThreadsOK, Reserve(t, j, n, slots)
  PROVE  ThreadsOK'
<1> USE DEF Reserve, ThreadsOK
<1>1. j # NoJob
  BY DEF NoJob, BundleJobs, CandidateJobs
<1>2. IsFiniteSet(InFlight) /\ t \notin InFlight
  BY FS_Subset, ConstantTypes DEF InFlight
<1>3. InFlight' = InFlight \cup {t}
  BY DEF InFlight
<1>4. pending' = Cardinality(InFlight')
  BY <1>2, <1>3, FS_AddElement
<1> DEFINE h == [hold EXCEPT ![t] = n]
<1>5. hold' = h /\ hold[t] = 0 /\ reserved' = reserved + n
  OBVIOUS
<1>6. reserved' = Cardinality(HeldBytes(hold', Threads))
  <2>1. /\ Cardinality(HeldBytes(h, Threads)) \in Nat
        /\ Cardinality(HeldBytes(hold, Threads)) \in Nat
        /\ Cardinality(HeldBytes(h, Threads))
              = Cardinality(HeldBytes(hold, Threads)) - hold[t] + n
    BY ChangeHold
  <2>2. reserved = Cardinality(HeldBytes(hold, Threads))
    OBVIOUS
  <2> HIDE DEF h, Reserve, ThreadsOK
  <2> QED BY <1>5, <2>1, <2>2
<1>7. /\ pending' \in Nat /\ reserved' \in Nat
      /\ stage' \in [Threads -> Stages]
      /\ job' \in [Threads -> {NoJob} \cup BundleJobs \cup CandidateJobs]
      /\ hold' \in [Threads -> Nat]
  BY DEF Stages
<1>8. ASSUME NEW u \in Threads
      PROVE  /\ (stage'[u] = "idle") <=> (job'[u] = NoJob)
             /\ (stage'[u] = "idle") <=> (hold'[u] = 0)
  BY <1>1
<1> QED BY <1>4, <1>6, <1>7, <1>8

LEMMA ThreadsSettle ==
  ASSUME NEW t \in Threads, NEW result \in Settled,
         ThreadsOK, stage[t] = "computing", Settle(t, result),
         UNCHANGED <<pending, reserved, job, hold>>
  PROVE  ThreadsOK'
<1>1. InFlight' = InFlight
  BY DEF InFlight, ThreadsOK, Settle, Settled
<1> QED BY <1>1 DEF ThreadsOK, Settle, Settled, Stages

LEMMA ThreadsRelease ==
  ASSUME NEW t \in Threads, ThreadsOK, Release(t)
  PROVE  ThreadsOK'
<1> USE DEF Release, ThreadsOK
<1>1. IsFiniteSet(InFlight) /\ t \in InFlight
  BY FS_Subset, ConstantTypes DEF InFlight, Settled
<1>2. InFlight' = InFlight \ {t}
  BY DEF InFlight
<1>3. pending' = Cardinality(InFlight') /\ pending' \in Nat
  <2>1. IsFiniteSet(InFlight') /\ Cardinality(InFlight') = Cardinality(InFlight) - 1
    BY <1>1, <1>2, FS_RemoveElement
  <2>2. Cardinality(InFlight') \in Nat
    BY <2>1, FS_CardinalityType
  <2> QED BY <2>1, <2>2
<1> DEFINE h == [hold EXCEPT ![t] = 0]
<1>4. hold' = h /\ hold[t] \in Nat /\ reserved' = reserved - hold[t]
  OBVIOUS
<1>5. reserved' = Cardinality(HeldBytes(hold', Threads)) /\ reserved' \in Nat
  <2>1. /\ Cardinality(HeldBytes(h, Threads)) \in Nat
        /\ Cardinality(HeldBytes(hold, Threads)) \in Nat
        /\ Cardinality(HeldBytes(h, Threads))
              = Cardinality(HeldBytes(hold, Threads)) - hold[t] + 0
    <3>1. hold \in [Threads -> Nat] /\ 0 \in Nat
      OBVIOUS
    <3> HIDE DEF Release, ThreadsOK
    <3> QED BY <3>1, ChangeHold
  <2>2. reserved = Cardinality(HeldBytes(hold, Threads))
    OBVIOUS
  <2> DEFINE held == Cardinality(HeldBytes(hold, Threads))
             left == Cardinality(HeldBytes(h, Threads))
             freed == hold[t]
  <2>3. /\ left \in Nat /\ held \in Nat /\ freed \in Nat /\ left = held - freed + 0
        /\ reserved = held /\ reserved' = reserved - freed
    BY <1>4, <2>1, <2>2
  <2>4. Cardinality(HeldBytes(hold', Threads)) = left
    BY <1>4
  <2> HIDE DEF h, Release, ThreadsOK, held, left, freed
  <2>5. reserved' = left /\ left \in Nat
    BY <2>3
  <2> QED BY <2>4, <2>5
<1>6. /\ stage' \in [Threads -> Stages]
      /\ job' \in [Threads -> {NoJob} \cup BundleJobs \cup CandidateJobs]
      /\ hold' \in [Threads -> Nat]
  BY DEF Stages
<1>7. ASSUME NEW u \in Threads
      PROVE  /\ (stage'[u] = "idle") <=> (job'[u] = NoJob)
             /\ (stage'[u] = "idle") <=> (hold'[u] = 0)
  OBVIOUS
<1> QED BY <1>3, <1>5, <1>6, <1>7

-----------------------------------------------------------------------------
(* The catalog's part, action by action.                                    *)

LEMMA FootprintType ==
  ASSUME NEW S \in SUBSET Sources, IsFiniteSet(S), NEW B \in SUBSET Bundle, IsFiniteSet(B),
         NEW C \in SUBSET Candidate, IsFiniteSet(C)
  PROVE  Footprint(S, B, C) \in Nat
<1>1. (\A b \in B : b.size \in Nat) /\ (\A c \in C : c.size \in Nat)
  BY DEF Bundle, Candidate
<1> QED BY <1>1, SourceBytesFinite, RecordBytesFinite DEF Footprint

LEMMA CatalogStutter == CatalogOK /\ UNCHANGED catalog => CatalogOK'
BY DEF CatalogOK, catalog

LEMMA CatalogAddSource ==
  ASSUME NEW s \in Sources, CatalogOK, AddSource(s)
  PROVE  CatalogOK'
<1> USE DEF AddSource, CatalogOK
<1>1. IsFiniteSet(sources') /\ Cardinality(sources') = Cardinality(sources) + 1
  BY FS_AddElement
<1>2. Cardinality(SourceBytes(sources')) = Cardinality(SourceBytes(sources)) + SourceSize[s]
  BY AddSourceBytes
<1>3. SourceSize[s] \in Nat
  BY ConstantTypes
<1>4. /\ Cardinality(sources) \in Nat /\ Cardinality(bundles) \in Nat
      /\ Cardinality(candidates) \in Nat
  BY FS_CardinalityType
<1>5. /\ Cardinality(SourceBytes(sources)) \in Nat
      /\ Cardinality(RecordBytes(bundles)) \in Nat
      /\ Cardinality(RecordBytes(candidates)) \in Nat
  BY SourceBytesFinite, RecordBytesFinite DEF Bundle, Candidate
<1>6. used' = Footprint(sources', bundles', candidates')
  BY <1>2, <1>3, <1>5 DEF Footprint
<1>7. revision' = Cardinality(sources') + Cardinality(bundles') + Cardinality(candidates')
  BY <1>1, <1>4
<1> QED BY <1>1, <1>3, <1>6, <1>7

\* A running bundle operation has a bundle job, so what it retains is a bundle.
LEMMA BundleJob ==
  ASSUME NEW t \in Threads, ThreadsOK, Computing(t, "bundle")
  PROVE  /\ job[t] \in BundleJobs
         /\ \A size \in SizesOf(job[t]) : size \in Nat /\ size \in Sizes[Kind[job[t].source]]
<1>1. job[t] \in BundleJobs
  BY DEF ThreadsOK, Computing, NoJob, CandidateJobs
<1>2. Kind[job[t].source] \in Kinds
  BY <1>1, ConstantTypes DEF BundleJobs
<1>3. SizesOf(job[t]) = Sizes[Kind[job[t].source]]
  BY DEF SizesOf, Computing
<1> QED BY <1>1, <1>2, <1>3, ConstantTypes

LEMMA CandidateJob ==
  ASSUME NEW t \in Threads, ThreadsOK, Computing(t, "candidate")
  PROVE  /\ job[t] \in CandidateJobs
         /\ \A size \in SizesOf(job[t]) : size \in Nat
<1>1. job[t] \in CandidateJobs
  BY DEF ThreadsOK, Computing, NoJob, BundleJobs
<1>2. SizesOf(job[t]) = CandidateSizes
  BY DEF SizesOf, Computing
<1> QED BY <1>1, <1>2, ConstantTypes

LEMMA CatalogAddBundle ==
  ASSUME NEW b \in Bundle, CatalogOK, b \notin bundles,
         bundles' = bundles \cup {b},
         used' = used + b.size, revision' = revision + 1,
         UNCHANGED <<sources, candidates>>
  PROVE  CatalogOK'
<1> USE DEF CatalogOK
<1>1. IsFiniteSet(bundles') /\ Cardinality(bundles') = Cardinality(bundles) + 1
  BY FS_AddElement
<1>2. (\A o \in bundles : o.size \in Nat) /\ b.size \in Nat
  BY DEF Bundle
<1>3. Cardinality(RecordBytes(bundles')) = Cardinality(RecordBytes(bundles)) + b.size
  BY <1>2, AddRecord
<1>4. /\ Cardinality(sources) \in Nat /\ Cardinality(bundles) \in Nat
      /\ Cardinality(candidates) \in Nat
  BY FS_CardinalityType
<1>5. /\ Cardinality(SourceBytes(sources)) \in Nat
      /\ Cardinality(RecordBytes(bundles)) \in Nat
      /\ Cardinality(RecordBytes(candidates)) \in Nat
  BY <1>2, SourceBytesFinite, RecordBytesFinite DEF Candidate
<1>6. used' = Footprint(sources', bundles', candidates')
  BY <1>2, <1>3, <1>5 DEF Footprint
<1>7. revision' = Cardinality(sources') + Cardinality(bundles') + Cardinality(candidates')
  BY <1>1, <1>4
<1>8. used' \in Nat /\ revision' \in Nat /\ bundles' \subseteq Bundle
  BY <1>2
<1> QED BY <1>1, <1>6, <1>7, <1>8

LEMMA CatalogAddCandidate ==
  ASSUME NEW c \in Candidate, CatalogOK, c \notin candidates,
         candidates' = candidates \cup {c},
         used' = used + c.size, revision' = revision + 1,
         UNCHANGED <<sources, bundles>>
  PROVE  CatalogOK'
<1> USE DEF CatalogOK
<1>1. IsFiniteSet(candidates') /\ Cardinality(candidates') = Cardinality(candidates) + 1
  BY FS_AddElement
<1>2. (\A o \in candidates : o.size \in Nat) /\ c.size \in Nat
  BY DEF Candidate
<1>3. Cardinality(RecordBytes(candidates')) = Cardinality(RecordBytes(candidates)) + c.size
  BY <1>2, AddRecord
<1>4. /\ Cardinality(sources) \in Nat /\ Cardinality(bundles) \in Nat
      /\ Cardinality(candidates) \in Nat
  BY FS_CardinalityType
<1>5. /\ Cardinality(SourceBytes(sources)) \in Nat
      /\ Cardinality(RecordBytes(bundles)) \in Nat
      /\ Cardinality(RecordBytes(candidates)) \in Nat
  BY <1>2, SourceBytesFinite, RecordBytesFinite DEF Bundle
<1>6. used' = Footprint(sources', bundles', candidates')
  BY <1>2, <1>3, <1>5 DEF Footprint
<1>7. revision' = Cardinality(sources') + Cardinality(bundles') + Cardinality(candidates')
  BY <1>1, <1>4
<1>8. used' \in Nat /\ revision' \in Nat /\ candidates' \subseteq Candidate
  BY <1>2
<1> QED BY <1>1, <1>6, <1>7, <1>8

LEMMA CatalogRetain ==
  ASSUME NEW t \in Threads, NEW id \in Ids, NEW size \in SizesOf(job[t]),
         CatalogOK, ThreadsOK, Retain(t, id, size)
  PROVE  CatalogOK'
<1> DEFINE b == [id |-> id, source |-> job[t].source, upstream |-> job[t].upstream,
                 origin |-> job[t].origin, size |-> size]
<1>1. job[t] \in BundleJobs /\ size \in Nat
  BY BundleJob DEF Retain
<1>2. b \in Bundle /\ b.size = size /\ b.id = id
  BY <1>1 DEF BundleJobs, Bundle
<1>3. /\ bundles' = bundles \cup {b} /\ Fresh(id)
      /\ used' = used + size /\ revision' = revision + 1
      /\ UNCHANGED <<sources, candidates>>
  BY DEF Retain
<1> HIDE DEF b
<1>4. b \notin bundles
  BY <1>2, <1>3 DEF Fresh
<1> QED BY <1>2, <1>3, <1>4, CatalogAddBundle

LEMMA CatalogPublish ==
  ASSUME NEW t \in Threads, NEW id \in Ids, NEW size \in SizesOf(job[t]),
         CatalogOK, ThreadsOK, Publish(t, id, size)
  PROVE  CatalogOK'
<1> DEFINE c == [id |-> id, subject |-> job[t].subject, size |-> size]
<1>1. job[t] \in CandidateJobs /\ size \in Nat
  BY CandidateJob DEF Publish
<1>2. c \in Candidate /\ c.size = size /\ c.id = id
  BY <1>1 DEF CandidateJobs, Candidate
<1>3. /\ candidates' = candidates \cup {c} /\ \A other \in candidates : other.id # id
      /\ used' = used + size /\ revision' = revision + 1
      /\ UNCHANGED <<sources, bundles>>
  BY DEF Publish
<1> HIDE DEF c
<1>4. c \notin candidates
  BY <1>2, <1>3
<1> QED BY <1>2, <1>3, <1>4, CatalogAddCandidate

\* What can be loaded: a typed document with the revision that restore demands.
Loadable(d) ==
  /\ d.sources \in SUBSET Sources /\ IsFiniteSet(d.sources)
  /\ d.bundles \in SUBSET Bundle /\ IsFiniteSet(d.bundles)
  /\ d.candidates \in SUBSET Candidate /\ IsFiniteSet(d.candidates)
  /\ d.revision = Cardinality(d.sources) + Cardinality(d.bundles) + Cardinality(d.candidates)

LEMMA EmptyIsLoadable == Loadable(EmptyDocument) /\ Footprint({}, {}, {}) = 0
<1>1. IsFiniteSet({}) /\ Cardinality({}) = 0
  BY FS_EmptySet
<1>2. SourceBytes({}) = {} /\ RecordBytes({}) = {}
  BY DEF SourceBytes, RecordBytes
<1> QED BY <1>1, <1>2 DEF Loadable, EmptyDocument, Footprint

LEMMA CatalogLoad ==
  ASSUME NEW d, Loadable(d), Load(d)
  PROVE  CatalogOK' /\ ThreadsOK'
<1>1. ThreadsOK'
  <2>1. Started'
    BY DEF Load, Started
  <2> QED BY <2>1, ThreadsFresh, PTL
<1>2. Footprint(d.sources, d.bundles, d.candidates) \in Nat
  BY FootprintType DEF Loadable
<1>3. /\ Cardinality(d.sources) \in Nat /\ Cardinality(d.bundles) \in Nat
      /\ Cardinality(d.candidates) \in Nat
  BY FS_CardinalityType DEF Loadable
<1>4. CatalogOK'
  BY <1>2, <1>3 DEF CatalogOK, Load, Loadable, RestoredBytes
<1> QED BY <1>1, <1>4

-----------------------------------------------------------------------------
(* The whole invariant.                                                     *)

CountInv == CatalogOK /\ ThreadsOK /\ RestOK

LEMMA CountInit == Init => CountInv
<1> SUFFICES ASSUME Init PROVE CountInv
  OBVIOUS
<1>1. ThreadsOK
  <2>1. Started
    BY DEF Init, Started
  <2> QED BY <2>1, ThreadsFresh
<1>2. CatalogOK
  BY EmptyIsLoadable DEF Init, CatalogOK, Loadable, EmptyDocument
<1>3. RestOK
  BY EmptyIsLoadable, ConstantTypes DEF Init, RestOK, Loadable, EmptyDocument
<1> QED BY <1>1, <1>2, <1>3 DEF CountInv

\* The operations of the host: bind, save, crash, restore.
LEMMA CountHost == CountInv /\ Host => CountInv'
<1> SUFFICES ASSUME CountInv, Host PROVE CountInv'
  OBVIOUS
<1> USE DEF CountInv
<1>1. ASSUME NEW k \in Kinds, BindWorkflow(k) \/ BindCandidateAdapter(k)
      PROVE  CountInv'
  <2>1. UNCHANGED <<catalog, pending, reserved, threads, saved, up>>
    BY <1>1 DEF BindWorkflow, BindCandidateAdapter
  <2>2. bound' \subseteq Kinds /\ adapters' \subseteq Assessable
    BY <1>1 DEF BindWorkflow, BindCandidateAdapter, RestOK
  <2>3. RestOK'
    BY <2>1, <2>2 DEF RestOK
  <2> QED BY <2>1, <2>3, CatalogStutter, ThreadsStutter
<1>2. CASE Save
  <2>1. RestOK'
    BY <1>2 DEF Save, RestOK, CatalogOK, Document, bindings
  <2> QED BY <1>2, <2>1, CatalogStutter, ThreadsStutter DEF Save
<1>3. ASSUME NEW d, Loadable(d), Load(d), UNCHANGED saved, up' \in BOOLEAN
      PROVE  CountInv'
  <2>1. RestOK'
    BY <1>3, ConstantTypes DEF Load, RestOK
  <2> QED BY <1>3, <2>1, CatalogLoad
<1>4. CASE Crash
  BY <1>3, <1>4, EmptyIsLoadable DEF Crash
<1>5. CASE Restore
  <2>1. Loadable(saved)
    BY <1>5 DEF Restore, Accepts, RestOK, Loadable
  <2> QED BY <1>3, <1>5, <2>1 DEF Restore
<1> QED BY <1>1, <1>2, <1>4, <1>5 DEF Host

LEMMA CountWork ==
  ASSUME NEW t \in Threads, CountInv, Work(t)
  PROVE  CountInv'
<1> USE DEF CountInv
<1>1. UNCHANGED <<catalog, bindings, saved, up>>
  BY DEF Work, Execute, Replay, ExecuteCandidate, ReserveBundle
<1>2. ASSUME NEW s \in Sources, NEW u \in Ids \cup {None}, NEW o \in Ids \cup {None},
             ReserveBundle(t, s, u, o)
      PROVE  ThreadsOK'
  <2>1. [role |-> "bundle", source |-> s, upstream |-> u, origin |-> o] \in BundleJobs
    BY DEF BundleJobs
  <2>2. Reservation(Kind[s]) \in Nat \ {0}
    BY ConstantTypes DEF Reservation
  <2> QED BY <1>2, <2>1, <2>2, ThreadsReserve DEF ReserveBundle
<1>3. ASSUME NEW s \in sources, NEW u \in Ids \cup {None}, Execute(t, s, u)
      PROVE  ThreadsOK'
  BY <1>2, <1>3 DEF Execute, CatalogOK
<1>4. ASSUME NEW b \in bundles, Replay(t, b)
      PROVE  ThreadsOK'
  BY <1>2, <1>4 DEF Replay, CatalogOK, Bundle
<1>5. ASSUME NEW b \in bundles, ExecuteCandidate(t, b)
      PROVE  ThreadsOK'
  <2>1. [role |-> "candidate", subject |-> b.id] \in CandidateJobs
    BY DEF CandidateJobs, CatalogOK, Bundle
  <2>2. CandidateReservation \in Nat \ {0}
    BY ConstantTypes
  <2> QED BY <1>5, <2>1, <2>2, ThreadsReserve DEF ExecuteCandidate
<1>6. ThreadsOK'
  BY <1>3, <1>4, <1>5 DEF Work
<1>7. RestOK'
  BY <1>1 DEF RestOK, bindings
<1> QED BY <1>1, <1>6, <1>7, CatalogStutter

LEMMA CountFinish ==
  ASSUME NEW t \in Threads, CountInv, Finish(t)
  PROVE  CountInv'
<1> USE DEF CountInv
<1>1. UNCHANGED <<bindings, saved, up>>
  BY DEF Finish, Retain, Publish, RefuseOverrun, RefuseReceipt, RefuseCollision, Fail,
         Release, Refuse
<1>2. RestOK'
  BY <1>1 DEF RestOK, bindings
<1>3. ASSUME NEW result \in Settled, stage[t] = "computing", Settle(t, result),
             UNCHANGED <<pending, reserved, job, hold>>
      PROVE  ThreadsOK'
  BY <1>3, ThreadsSettle
<1>4. ASSUME NEW result \in Settled, stage[t] = "computing", Refuse(t, result)
      PROVE  CountInv'
  BY <1>2, <1>3, <1>4, CatalogStutter DEF Refuse
<1>5. ASSUME NEW id \in Ids, NEW size \in SizesOf(job[t]), Retain(t, id, size)
      PROVE  CountInv'
  <2>1. ThreadsOK'
    BY <1>3, <1>5 DEF Retain, Settled, Computing
  <2> QED BY <1>2, <1>5, <2>1, CatalogRetain
<1>6. ASSUME NEW id \in Ids, NEW size \in SizesOf(job[t]), Publish(t, id, size)
      PROVE  CountInv'
  <2>1. ThreadsOK'
    BY <1>3, <1>6 DEF Publish, Settled, Computing
  <2> QED BY <1>2, <1>6, <2>1, CatalogPublish
<1>7. ASSUME NEW size, RefuseOverrun(t, size) \/ RefuseReceipt(t, size)
      PROVE  CountInv'
  BY <1>4, <1>7 DEF RefuseOverrun, RefuseReceipt, Computing, Settled
<1>8. CASE RefuseCollision(t)
  BY <1>4, <1>8 DEF RefuseCollision, Computing, Settled
<1>9. CASE Fail(t)
  BY <1>4, <1>9 DEF Fail, Settled
<1>10. CASE Release(t)
  BY <1>2, <1>10, ThreadsRelease, CatalogStutter DEF Release
<1> QED BY <1>5, <1>6, <1>7, <1>8, <1>9, <1>10 DEF Finish

LEMMA CountNext == CountInv /\ [Next]_vars => CountInv'
<1> SUFFICES ASSUME CountInv, [Next]_vars PROVE CountInv'
  OBVIOUS
<1>1. CASE Host
  BY <1>1, CountHost
<1>2. ASSUME NEW s \in Sources, AddSource(s)
      PROVE  CountInv'
  <2>1. CatalogOK'
    BY <1>2, CatalogAddSource DEF CountInv
  <2>2. UNCHANGED <<bindings, pending, reserved, threads, saved, up>>
    BY <1>2 DEF AddSource
  <2> QED BY <2>1, <2>2, ThreadsStutter DEF CountInv, RestOK, bindings
<1>3. ASSUME NEW t \in Threads, Work(t) \/ Finish(t)
      PROVE  CountInv'
  BY <1>3, CountWork, CountFinish
<1>4. CASE UNCHANGED vars
  <2>1. UNCHANGED <<catalog, bindings, pending, reserved, threads, saved, up>>
    BY <1>4 DEF vars, bindings
  <2> QED BY <2>1, CatalogStutter, ThreadsStutter DEF CountInv, RestOK, bindings
<1> QED BY <1>1, <1>2, <1>3, <1>4 DEF Next

THEOREM Counting == Spec => []CountInv
BY CountInit, CountNext, PTL DEF Spec

\* Every attribute keeps its shape, and a thread holds a reservation exactly
\* while its operation is in flight, however many threads run.
THEOREM TypeCorrect == Spec => []TypeOK
<1>1. CountInv => TypeOK
  BY Parts DEF CountInv
<1> QED BY <1>1, Counting, PTL

\* The four counters of the workbench never drift from what they count.
THEOREM AccountingCorrect == Spec => []Accounting
<1>1. CountInv => Accounting
  BY Parts DEF CountInv
<1> QED BY <1>1, Counting, PTL

-----------------------------------------------------------------------------
(* Links and identity claims.                                               *)

\* A catalog in which every record names only what is retained.
Sound(S, B, C) ==
  /\ Cardinality(S) <= MaxSources
  /\ \A b \in B : b.source \in S /\ LinksHold(b, B)
  /\ \A b1, b2 \in B : b1.id = b2.id => b1 = b2
  /\ \A b1, b2 \in B : Agrees(Claims(b1.source), Claims(b2.source))
  /\ \A c \in C : SubjectHolds(c, B)
  /\ \A c1, c2 \in C : c1.id = c2.id => c1 = c2

\* What an operation in flight has looked up is still there.
JobsLinked ==
  \A t \in Threads :
    /\ job[t].role = "bundle" => job[t].source \in sources
    /\ job[t].role = "candidate" => SubjectHolds(job[t], bundles)

LinkInv ==
  /\ Sound(sources, bundles, candidates)
  /\ identities = UNION {Claims(b.source) : b \in bundles}
  /\ JobsLinked

LEMMA LinksGrow ==
  ASSUME NEW b, NEW B, NEW D, B \subseteq D
  PROVE  /\ LinksHold(b, B) => LinksHold(b, D)
         /\ \A c : SubjectHolds(c, B) => SubjectHolds(c, D)
BY DEF LinksHold, UpstreamHolds, ReceiptHolds, SubjectHolds

LEMMA ClaimsAgree ==
  ASSUME NEW s, NEW B, Agrees(Claims(s), UNION {Claims(b.source) : b \in B})
  PROVE  /\ \A b \in B : /\ Agrees(Claims(s), Claims(b.source))
                         /\ Agrees(Claims(b.source), Claims(s))
         /\ Agrees(Claims(s), Claims(s))
<1>1. \A b \in B : /\ Agrees(Claims(s), Claims(b.source))
                   /\ Agrees(Claims(b.source), Claims(s))
  BY DEF Agrees
<1>2. Agrees(Claims(s), Claims(s))
  BY DEF Agrees, Claims
<1> QED BY <1>1, <1>2

LEMMA LinkStutter ==
  LinkInv /\ UNCHANGED <<sources, bundles, candidates, identities, job>> => LinkInv'
BY DEF LinkInv, Sound, JobsLinked

\* Starting or ending an operation changes no record.
LEMMA LinkJob ==
  ASSUME LinkInv, NEW t \in Threads, NEW j, job \in [Threads -> {NoJob} \cup BundleJobs \cup CandidateJobs],
         UNCHANGED catalog, job' = [job EXCEPT ![t] = j],
         j.role = "bundle" => j.source \in sources,
         j.role = "candidate" => SubjectHolds(j, bundles)
  PROVE  LinkInv'
<1>1. JobsLinked'
  BY DEF LinkInv, JobsLinked, catalog
<1> QED BY <1>1 DEF LinkInv, Sound, catalog

LEMMA LinkAddSource ==
  ASSUME CountInv, LinkInv, NEW s \in Sources, AddSource(s)
  PROVE  LinkInv'
<1>1. Cardinality(sources') <= MaxSources
  <2>1. Cardinality(sources') = Cardinality(sources) + 1
    BY FS_AddElement DEF AddSource, CountInv, CatalogOK
  <2>2. Cardinality(sources) \in Nat /\ Cardinality(sources) < MaxSources /\ MaxSources \in Nat
    BY FS_CardinalityType, ConstantTypes DEF AddSource, CountInv, CatalogOK
  <2> QED BY <2>1, <2>2
<1>2. sources \subseteq sources' /\ UNCHANGED <<bundles, candidates, identities, job>>
  BY DEF AddSource, threads
<1>3. Sound(sources, bundles, candidates)'
  BY <1>1, <1>2 DEF LinkInv, Sound
<1>4. JobsLinked'
  BY <1>2 DEF LinkInv, JobsLinked
<1> QED BY <1>2, <1>3, <1>4 DEF LinkInv

LEMMA LinkAddBundle ==
  ASSUME LinkInv, NEW b, b.source \in sources, LinksHold(b, bundles),
         \A o \in bundles : o.id # b.id,
         Agrees(Claims(b.source), identities),
         bundles' = bundles \cup {b},
         identities' = identities \cup Claims(b.source),
         UNCHANGED <<sources, candidates, job>>
  PROVE  LinkInv'
<1>1. bundles \subseteq bundles'
  OBVIOUS
<1>2. \A o \in bundles' : o.source \in sources' /\ LinksHold(o, bundles')
  BY <1>1, LinksGrow DEF LinkInv, Sound
<1>3. \A b1, b2 \in bundles' : b1.id = b2.id => b1 = b2
  BY DEF LinkInv, Sound
<1>4. \A b1, b2 \in bundles' : Agrees(Claims(b1.source), Claims(b2.source))
  <2>1. /\ \A o \in bundles : /\ Agrees(Claims(b.source), Claims(o.source))
                              /\ Agrees(Claims(o.source), Claims(b.source))
        /\ Agrees(Claims(b.source), Claims(b.source))
    BY ClaimsAgree DEF LinkInv
  <2>2. \A b1, b2 \in bundles : Agrees(Claims(b1.source), Claims(b2.source))
    BY DEF LinkInv, Sound
  <2> QED BY <2>1, <2>2
<1>5. \A c \in candidates' : SubjectHolds(c, bundles')
  BY <1>1, LinksGrow DEF LinkInv, Sound
<1>6. Sound(sources, bundles, candidates)'
  BY <1>2, <1>3, <1>4, <1>5 DEF LinkInv, Sound
<1>7. identities' = UNION {Claims(o.source) : o \in bundles'}
  BY DEF LinkInv
<1>8. JobsLinked'
  BY <1>1, LinksGrow DEF LinkInv, JobsLinked
<1> QED BY <1>6, <1>7, <1>8 DEF LinkInv

LEMMA LinkRetain ==
  ASSUME CountInv, LinkInv, NEW t \in Threads, NEW id \in Ids, NEW size, Retain(t, id, size)
  PROVE  LinkInv'
<1> DEFINE b == [id |-> id, source |-> job[t].source, upstream |-> job[t].upstream,
                 origin |-> job[t].origin, size |-> size]
<1>1. b.source = job[t].source /\ b.id = id
  OBVIOUS
<1>2. job[t].source \in sources
  BY DEF Retain, Computing, LinkInv, JobsLinked
<1>3. /\ LinksHold(b, bundles) /\ Fresh(id) /\ Agrees(Claims(job[t].source), identities)
      /\ bundles' = bundles \cup {b}
      /\ identities' = identities \cup Claims(job[t].source)
      /\ UNCHANGED <<sources, candidates, job>>
  BY DEF Retain
<1> HIDE DEF b
<1> QED BY <1>1, <1>2, <1>3, LinkAddBundle DEF Fresh

LEMMA LinkPublish ==
  ASSUME CountInv, LinkInv, NEW t \in Threads, NEW id \in Ids, NEW size, Publish(t, id, size)
  PROVE  LinkInv'
<1> DEFINE c == [id |-> id, subject |-> job[t].subject, size |-> size]
<1>1. c.subject = job[t].subject /\ c.id = id
  OBVIOUS
<1>2. SubjectHolds(job[t], bundles)
  BY DEF Publish, Computing, LinkInv, JobsLinked
<1>3. /\ \A other \in candidates : other.id # id
      /\ candidates' = candidates \cup {c}
      /\ UNCHANGED <<sources, bundles, identities, job>>
  BY DEF Publish
<1> HIDE DEF c
<1>4. SubjectHolds(c, bundles)
  BY <1>1, <1>2 DEF SubjectHolds
<1>5. Sound(sources, bundles, candidates)'
  BY <1>1, <1>3, <1>4 DEF LinkInv, Sound
<1> QED BY <1>3, <1>5 DEF LinkInv, JobsLinked

LEMMA LinkLoad ==
  ASSUME NEW d, Sound(d.sources, d.bundles, d.candidates), Load(d)
  PROVE  LinkInv'
<1>1. JobsLinked'
  BY DEF Load, JobsLinked, NoJob
<1>2. Sound(sources, bundles, candidates)'
  BY DEF Load, Sound
<1> QED BY <1>1, <1>2 DEF LinkInv, Load, RestoredIdentities

LEMMA EmptyIsSound == Sound({}, {}, {})
<1>1. Cardinality({}) = 0
  BY FS_EmptySet
<1> QED BY <1>1, ConstantTypes DEF Sound

LEMMA AcceptedIsSound ==
  ASSUME NEW d, Accepts(d)
  PROVE  Sound(d.sources, d.bundles, d.candidates)
BY DEF Accepts, Sound

LEMMA LinkNext == CountInv /\ LinkInv /\ [Next]_vars => LinkInv'
<1> SUFFICES ASSUME CountInv, LinkInv, [Next]_vars PROVE LinkInv'
  OBVIOUS
<1>1. job \in [Threads -> {NoJob} \cup BundleJobs \cup CandidateJobs]
  BY DEF CountInv, ThreadsOK
<1>2. ASSUME NEW k, BindWorkflow(k) \/ BindCandidateAdapter(k) \/ Save PROVE LinkInv'
  BY <1>2, LinkStutter DEF BindWorkflow, BindCandidateAdapter, Save, catalog, threads
<1>3. CASE Crash
  BY <1>3, EmptyIsSound, LinkLoad DEF Crash, EmptyDocument
<1>4. CASE Restore
  BY <1>4, AcceptedIsSound, LinkLoad DEF Restore
<1>5. ASSUME NEW s \in Sources, AddSource(s) PROVE LinkInv'
  BY <1>5, LinkAddSource
<1>6. ASSUME NEW t \in Threads, NEW s \in sources, NEW u, NEW o, ReserveBundle(t, s, u, o)
      PROVE  LinkInv'
  <2> DEFINE j == [role |-> "bundle", source |-> s, upstream |-> u, origin |-> o]
  <2>1. j.role = "bundle" /\ j.source = s
    OBVIOUS
  <2>2. UNCHANGED catalog /\ job' = [job EXCEPT ![t] = j]
    BY <1>6 DEF ReserveBundle, Reserve
  <2> HIDE DEF j
  <2> QED BY <1>1, <2>1, <2>2, LinkJob
<1>7. ASSUME NEW t \in Threads, Work(t) PROVE LinkInv'
  <2>1. ASSUME NEW s \in sources, NEW u, Execute(t, s, u) PROVE LinkInv'
    BY <1>6, <2>1 DEF Execute
  <2>2. ASSUME NEW b \in bundles, Replay(t, b) PROVE LinkInv'
    BY <1>6, <2>2 DEF Replay, LinkInv, Sound
  <2>3. ASSUME NEW b \in bundles, ExecuteCandidate(t, b) PROVE LinkInv'
    <3> DEFINE j == [role |-> "candidate", subject |-> b.id]
    <3>1. j.role = "candidate" /\ j.subject = b.id
      OBVIOUS
    <3>2. UNCHANGED catalog /\ job' = [job EXCEPT ![t] = j]
      BY <2>3 DEF ExecuteCandidate, Reserve
    <3>3. Kind[b.source] \in Assessable
      BY <2>3 DEF ExecuteCandidate, CountInv, RestOK
    <3> HIDE DEF j
    <3>4. SubjectHolds(j, bundles)
      BY <3>1, <3>3 DEF SubjectHolds
    <3> QED BY <1>1, <3>1, <3>2, <3>4, LinkJob
  <2> QED BY <1>7, <2>1, <2>2, <2>3 DEF Work
<1>8. ASSUME NEW t \in Threads, Finish(t) PROVE LinkInv'
  <2>1. ASSUME NEW id \in Ids, NEW size, Retain(t, id, size) PROVE LinkInv'
    BY <2>1, LinkRetain
  <2>2. ASSUME NEW id \in Ids, NEW size, Publish(t, id, size) PROVE LinkInv'
    BY <2>2, LinkPublish
  <2>3. ASSUME NEW result, Refuse(t, result) PROVE LinkInv'
    BY <2>3, LinkStutter DEF Refuse, catalog
  <2>4. ASSUME NEW size, RefuseOverrun(t, size) \/ RefuseReceipt(t, size) PROVE LinkInv'
    BY <2>3, <2>4 DEF RefuseOverrun, RefuseReceipt
  <2>5. CASE RefuseCollision(t) \/ Fail(t)
    BY <2>3, <2>5 DEF RefuseCollision, Fail
  <2>6. CASE Release(t)
    BY <1>1, <2>6, LinkJob DEF Release, NoJob
  <2> QED BY <1>8, <2>1, <2>2, <2>4, <2>5, <2>6 DEF Finish
<1>9. CASE UNCHANGED vars
  BY <1>9, LinkStutter DEF vars, catalog, threads
<1> QED BY <1>2, <1>3, <1>4, <1>5, <1>7, <1>8, <1>9 DEF Next, Host

LEMMA LinkInit == Init => LinkInv
BY EmptyIsSound DEF Init, LinkInv, JobsLinked, NoJob

THEOREM Linking == Spec => []LinkInv
BY LinkInit, LinkNext, Counting, PTL DEF Spec

\* No two bundles of a catalog bind one capture occurrence to two logs, or one
\* log to two occurrences, however many operations were in flight together.
THEOREM OneLogCorrect == Spec => []OneLogPerRun
<1>1. LinkInv => OneLogPerRun
  BY DEF LinkInv, Sound, Agrees, Claims, OneLogPerRun
<1> QED BY <1>1, Linking, PTL

-----------------------------------------------------------------------------
(* Slots: an operation is admitted while retained records and all operations *)
(* in flight leave a slot, so the ones that retain its kind of record do.    *)

LEMMA ComputesFinite ==
  ASSUME ThreadsOK, NEW role
  PROVE  /\ IsFiniteSet(Computes(role)) /\ Cardinality(Computes(role)) \in Nat
         /\ Cardinality(Computes(role)) <= pending
<1>1. IsFiniteSet(InFlight)
  BY FS_Subset, ConstantTypes DEF InFlight
<1>2. Computes(role) \subseteq InFlight
  BY DEF Computes, Running, InFlight
<1>3. IsFiniteSet(Computes(role)) /\ Cardinality(Computes(role)) <= Cardinality(InFlight)
  BY <1>1, <1>2, FS_Subset
<1> QED BY <1>3, FS_CardinalityType DEF ThreadsOK

\* Operations that end, or none, leave the slots kept.
LEMMA SlotsShrink ==
  ASSUME CountInv, SlotsKept, UNCHANGED <<bundles, candidates>>,
         \A role : Computes(role)' \subseteq Computes(role)
  PROVE  SlotsKept'
<1>1. ASSUME NEW role PROVE /\ Cardinality(Computes(role)') <= Cardinality(Computes(role))
                            /\ Cardinality(Computes(role)') \in Nat
                            /\ Cardinality(Computes(role)) \in Nat
  BY ComputesFinite, FS_Subset, FS_CardinalityType DEF CountInv
<1> DEFINE nb == Cardinality(bundles)
           nc == Cardinality(candidates)
           before(role) == Cardinality(Computes(role))
           after(role) == Cardinality(Computes(role)')
<1>2. nb \in Nat /\ nc \in Nat
  BY FS_CardinalityType DEF CountInv, CatalogOK
<1>3. \A role : after(role) <= before(role) /\ after(role) \in Nat /\ before(role) \in Nat
  BY <1>1
<1>4. nb + before("bundle") <= MaxBundles /\ nc + before("candidate") <= MaxBundles
  BY DEF SlotsKept
<1> HIDE DEF nb, nc, before, after
<1>5. nb + after("bundle") <= MaxBundles /\ nc + after("candidate") <= MaxBundles
  BY <1>2, <1>3, <1>4, ConstantTypes
<1> QED BY <1>5 DEF SlotsKept, nb, nc, after

LEMMA SlotsReserve ==
  ASSUME CountInv, SlotsKept, UNCHANGED catalog,
         NEW t \in Threads, NEW j, NEW n, NEW slots, Reserve(t, j, n, slots),
         j.role = "bundle" => slots = Cardinality(bundles),
         j.role = "candidate" => slots = Cardinality(candidates)
  PROVE  SlotsKept'
<1>0. ThreadsOK /\ pending \in Nat
  BY DEF CountInv, ThreadsOK
<1>1. \A role : Computes(role)' = IF role = j.role THEN Computes(role) \cup {t} ELSE Computes(role)
  BY <1>0 DEF Computes, Running, Reserve, ThreadsOK
<1>2. \A role : t \notin Computes(role)
  BY DEF Computes, Running, Reserve
<1>3. \A role : /\ IsFiniteSet(Computes(role)) /\ Cardinality(Computes(role)) \in Nat
                /\ Cardinality(Computes(role)) <= pending
  BY <1>0, ComputesFinite
<1>4. \A role : Cardinality(Computes(role)') =
                  Cardinality(Computes(role)) + (IF role = j.role THEN 1 ELSE 0)
  BY <1>1, <1>2, <1>3, FS_AddElement
<1>5. slots + pending < MaxBundles
  BY DEF Reserve, HasSlot
<1> DEFINE nb == Cardinality(bundles)
           nc == Cardinality(candidates)
           before(role) == Cardinality(Computes(role))
           after(role) == Cardinality(Computes(role)')
           k == j.role
<1>6. nb \in Nat /\ nc \in Nat
  BY FS_CardinalityType DEF CountInv, CatalogOK
<1>7. /\ nb + before("bundle") <= MaxBundles /\ nc + before("candidate") <= MaxBundles
      /\ k = "bundle" => slots = nb
      /\ k = "candidate" => slots = nc
  BY DEF SlotsKept
<1>8. \A role : /\ before(role) \in Nat /\ before(role) <= pending
                /\ after(role) = before(role) + (IF role = k THEN 1 ELSE 0)
  BY <1>3, <1>4
<1>9. UNCHANGED <<bundles, candidates>>
  BY DEF catalog
<1> HIDE DEF nb, nc, before, after, k
<1>10. nb + after("bundle") <= MaxBundles
  BY <1>0, <1>5, <1>6, <1>7, <1>8, ConstantTypes
<1>11. nc + after("candidate") <= MaxBundles
  BY <1>0, <1>5, <1>6, <1>7, <1>8, ConstantTypes
<1> QED BY <1>9, <1>10, <1>11 DEF SlotsKept, nb, nc, after

\* An operation that retains its record leaves the ones that compute.
LEMMA Leaves ==
  ASSUME ThreadsOK, NEW t \in Threads, NEW role, Computing(t, role),
         NEW result \in Settled, Settle(t, result), job' = job
  PROVE  /\ Cardinality(Computes(role)') = Cardinality(Computes(role)) - 1
         /\ \A other : other # role => Computes(other)' = Computes(other)
<1>1. t \in Computes(role)
  BY DEF Computing, Computes, Running
<1>2. Computes(role)' = Computes(role) \ {t}
  BY DEF Computes, Running, Settle, Settled, ThreadsOK
<1>3. IsFiniteSet(Computes(role))
  BY ComputesFinite
<1>4. \A other : other # role => Computes(other)' = Computes(other)
  BY DEF Computes, Running, Settle, Settled, ThreadsOK, Computing
<1> QED BY <1>1, <1>2, <1>3, <1>4, FS_RemoveElement

LEMMA SlotsRetain ==
  ASSUME CountInv, SlotsKept, NEW t \in Threads, NEW id \in Ids, NEW size, Retain(t, id, size)
  PROVE  SlotsKept'
<1> DEFINE b == [id |-> id, source |-> job[t].source, upstream |-> job[t].upstream,
                 origin |-> job[t].origin, size |-> size]
<1>1. bundles' = bundles \cup {b} /\ b.id = id /\ Fresh(id) /\ UNCHANGED candidates
  BY DEF Retain
<1> HIDE DEF b
<1>2. b \notin bundles
  BY <1>1 DEF Fresh
<1>3. Cardinality(bundles') = Cardinality(bundles) + 1 /\ Cardinality(bundles) \in Nat
  BY <1>1, <1>2, FS_AddElement, FS_CardinalityType DEF CountInv, CatalogOK
<1>4. /\ Cardinality(Computes("bundle")') = Cardinality(Computes("bundle")) - 1
      /\ Computes("candidate")' = Computes("candidate")
  BY Leaves DEF Retain, CountInv, Settled
<1>5. Cardinality(Computes("bundle")) \in Nat
  BY ComputesFinite DEF CountInv
<1>6. Cardinality(bundles') + Cardinality(Computes("bundle")')
        = Cardinality(bundles) + Cardinality(Computes("bundle"))
  BY <1>3, <1>4, <1>5
<1> QED BY <1>1, <1>4, <1>6 DEF SlotsKept

LEMMA SlotsPublish ==
  ASSUME CountInv, SlotsKept, NEW t \in Threads, NEW id \in Ids, NEW size, Publish(t, id, size)
  PROVE  SlotsKept'
<1> DEFINE c == [id |-> id, subject |-> job[t].subject, size |-> size]
<1>1. /\ candidates' = candidates \cup {c} /\ c.id = id
      /\ \A other \in candidates : other.id # id
      /\ UNCHANGED bundles
  BY DEF Publish
<1> HIDE DEF c
<1>2. c \notin candidates
  BY <1>1
<1>3. Cardinality(candidates') = Cardinality(candidates) + 1 /\ Cardinality(candidates) \in Nat
  BY <1>1, <1>2, FS_AddElement, FS_CardinalityType DEF CountInv, CatalogOK
<1>4. /\ Cardinality(Computes("candidate")') = Cardinality(Computes("candidate")) - 1
      /\ Computes("bundle")' = Computes("bundle")
  BY Leaves DEF Publish, CountInv, Settled
<1>5. Cardinality(Computes("candidate")) \in Nat
  BY ComputesFinite DEF CountInv
<1>6. Cardinality(candidates') + Cardinality(Computes("candidate")')
        = Cardinality(candidates) + Cardinality(Computes("candidate"))
  BY <1>3, <1>4, <1>5
<1> QED BY <1>1, <1>4, <1>6 DEF SlotsKept

\* A document with no more records than a catalog may hold.
LEMMA SlotsLoad ==
  ASSUME NEW d, Load(d), Cardinality(d.bundles) <= MaxBundles,
         Cardinality(d.candidates) <= MaxBundles, Loadable(d)
  PROVE  SlotsKept'
<1>1. \A role : Computes(role)' = {}
  BY DEF Computes, Running, Load
<1>2. \A role : Cardinality(Computes(role)') = 0
  BY <1>1, FS_EmptySet
<1>3. Cardinality(d.bundles) \in Nat /\ Cardinality(d.candidates) \in Nat
  BY FS_CardinalityType DEF Loadable
<1>4. /\ Cardinality(d.bundles) + Cardinality(Computes("bundle")') <= MaxBundles
      /\ Cardinality(d.candidates) + Cardinality(Computes("candidate")') <= MaxBundles
  BY <1>2, <1>3
<1> QED BY <1>4 DEF Load, SlotsKept

LEMMA SlotsNext == CountInv /\ SlotsKept /\ [Next]_vars => SlotsKept'
<1> SUFFICES ASSUME CountInv, SlotsKept, [Next]_vars PROVE SlotsKept'
  OBVIOUS
<1>1. ASSUME UNCHANGED <<bundles, candidates, stage, job>> PROVE SlotsKept'
  BY <1>1 DEF SlotsKept, Computes, Running
<1>2. ASSUME NEW k, BindWorkflow(k) \/ BindCandidateAdapter(k) \/ Save PROVE SlotsKept'
  BY <1>1, <1>2 DEF BindWorkflow, BindCandidateAdapter, Save, catalog, threads
<1>3. CASE Crash
  <2>1. Cardinality({}) = 0 /\ MaxBundles \in Nat
    BY FS_EmptySet, ConstantTypes
  <2> QED BY <1>3, <2>1, EmptyIsLoadable, SlotsLoad DEF Crash, EmptyDocument
<1>4. CASE Restore
  <2>1. Loadable(saved)
    BY <1>4 DEF Restore, Accepts, CountInv, RestOK, Loadable
  <2> QED BY <1>4, <2>1, SlotsLoad DEF Restore, Accepts
<1>5. ASSUME NEW s, AddSource(s) PROVE SlotsKept'
  BY <1>1, <1>5 DEF AddSource, threads
<1>6. ASSUME NEW t \in Threads, Work(t) PROVE SlotsKept'
  <2>1. ASSUME NEW s, NEW u, NEW o, ReserveBundle(t, s, u, o) PROVE SlotsKept'
    <3> DEFINE j == [role |-> "bundle", source |-> s, upstream |-> u, origin |-> o]
    <3>1. j.role = "bundle"
      OBVIOUS
    <3>2. UNCHANGED catalog /\ Reserve(t, j, Reservation(Kind[s]), Cardinality(bundles))
      BY <2>1 DEF ReserveBundle
    <3> HIDE DEF j
    <3> QED BY <3>1, <3>2, SlotsReserve
  <2>2. ASSUME NEW b, ExecuteCandidate(t, b) PROVE SlotsKept'
    <3> DEFINE j == [role |-> "candidate", subject |-> b.id]
    <3>1. j.role = "candidate"
      OBVIOUS
    <3>2. UNCHANGED catalog /\ Reserve(t, j, CandidateReservation, Cardinality(candidates))
      BY <2>2 DEF ExecuteCandidate
    <3> HIDE DEF j
    <3> QED BY <3>1, <3>2, SlotsReserve
  <2> QED BY <1>6, <2>1, <2>2 DEF Work, Execute, Replay
<1>7. ASSUME NEW t \in Threads, Finish(t) PROVE SlotsKept'
  <2>1. ASSUME NEW id \in Ids, NEW size, Retain(t, id, size) \/ Publish(t, id, size)
        PROVE  SlotsKept'
    BY <2>1, SlotsRetain, SlotsPublish
  <2>2. ASSUME NEW result \in Settled, Refuse(t, result) PROVE SlotsKept'
    BY <2>2, SlotsShrink
       DEF Refuse, Settle, Settled, catalog, Computes, Running, CountInv, ThreadsOK
  <2>3. ASSUME NEW size, RefuseOverrun(t, size) \/ RefuseReceipt(t, size) PROVE SlotsKept'
    BY <2>2, <2>3 DEF RefuseOverrun, RefuseReceipt, Settled
  <2>4. CASE RefuseCollision(t) \/ Fail(t)
    BY <2>2, <2>4 DEF RefuseCollision, Fail, Settled
  <2>5. CASE Release(t)
    <3>1. UNCHANGED <<bundles, candidates>> /\ \A role : Computes(role)' \subseteq Computes(role)
      BY <2>5 DEF Release, catalog, Computes, Running, CountInv, ThreadsOK
    <3> QED BY <3>1, SlotsShrink
  <2> QED BY <1>7, <2>1, <2>3, <2>4, <2>5 DEF Finish
<1>8. CASE UNCHANGED vars
  BY <1>1, <1>8 DEF vars, catalog, threads
<1> QED BY <1>2, <1>3, <1>4, <1>5, <1>6, <1>7, <1>8 DEF Next, Host

LEMMA SlotsInit == Init => SlotsKept
<1> SUFFICES ASSUME Init PROVE SlotsKept
  OBVIOUS
<1>1. Computes("bundle") = {} /\ Computes("candidate") = {}
  BY DEF Init, Computes, Running
<1>2. bundles = {} /\ candidates = {}
  BY DEF Init
<1>3. Cardinality({}) = 0 /\ 0 + 0 <= MaxBundles
  BY FS_EmptySet, ConstantTypes
<1> QED BY <1>1, <1>2, <1>3 DEF SlotsKept

\* No interleaving of threads takes the catalog past its count limits.
THEOREM SlotsCorrect == Spec => []SlotsKept
BY SlotsInit, SlotsNext, Counting, PTL DEF Spec

-----------------------------------------------------------------------------
(* Bytes.  Budget is inductive only where every validated record is within  *)
(* the reservation of its kind, as RecordsFit says.                         *)

\* A running bundle operation still holds what _reserve granted its kind.
Granted ==
  \A t \in Threads : stage[t] # "idle" /\ job[t].role = "bundle" =>
                       hold[t] = Reservation(Kind[job[t].source])

ByteInv == Budget /\ Granted

LEMMA RunningHolds ==
  ASSUME ThreadsOK
  PROVE  /\ Running \in SUBSET Threads
         /\ Cardinality(HeldBytes(hold, Running)) \in Nat
         /\ Cardinality(HeldBytes(hold, Running)) <= reserved
<1>1. Running \in SUBSET Threads
  BY DEF Running
<1>2. HeldBytes(hold, Running) \subseteq HeldBytes(hold, Threads)
  BY <1>1 DEF HeldBytes
<1>3. IsFiniteSet(HeldBytes(hold, Threads))
  BY HeldFinite DEF ThreadsOK
<1>4. Cardinality(HeldBytes(hold, Running)) <= Cardinality(HeldBytes(hold, Threads))
  BY <1>2, <1>3, FS_Subset
<1> QED BY <1>1, <1>4, HeldFinite DEF ThreadsOK

\* What the other running operations hold, once t no longer runs.
LEMMA Others ==
  ASSUME ThreadsOK, NEW t \in Running
  PROVE  /\ Cardinality(HeldBytes(hold, Running \ {t})) \in Nat
         /\ Cardinality(HeldBytes(hold, Running))
              = Cardinality(HeldBytes(hold, Running \ {t})) + hold[t]
<1> DEFINE T == Running \ {t}
           h == hold
<1>1. T \in SUBSET Threads /\ t \in Threads /\ t \notin T /\ Running = T \cup {t}
  BY DEF Running
<1>2. h \in [Threads -> Nat]
  BY DEF ThreadsOK
<1> HIDE DEF T, h
<1>3. Cardinality(HeldBytes(h, T \cup {t})) = Cardinality(HeldBytes(h, T)) + h[t]
  BY <1>1, <1>2, AddHolder
<1>4. Cardinality(HeldBytes(h, T)) \in Nat
  BY <1>1, <1>2, HeldFinite
<1> QED BY <1>1, <1>3, <1>4 DEF T, h

\* A running operation that ends with at most what it holds keeps the budget.
LEMMA BudgetSettle ==
  ASSUME CountInv, Budget, NEW t \in Threads, stage[t] = "computing",
         NEW result \in Settled, Settle(t, result), hold' = hold,
         NEW n \in Nat, n <= hold[t], used' = used + n
  PROVE  Budget'
<1>1. ThreadsOK /\ used \in Nat /\ hold[t] \in Nat
  BY DEF CountInv, CatalogOK, ThreadsOK
<1>2. t \in Running
  BY DEF Running
<1>3. Running' = Running \ {t}
  BY <1>1 DEF Running, Settle, Settled, ThreadsOK
<1> DEFINE before == Cardinality(HeldBytes(hold, Running))
           after == Cardinality(HeldBytes(hold, Running \ {t}))
           own == hold[t]
<1>4. after \in Nat /\ before = after + own
  BY <1>1, <1>2, Others
<1>5. used + before + Overhead <= MaxBytes /\ own \in Nat /\ n <= own
  BY <1>1 DEF Budget
<1>6. Cardinality(HeldBytes(hold', Running')) = after
  BY <1>3
<1> HIDE DEF before, after, own
<1>7. used' + after + Overhead <= MaxBytes
  BY <1>1, <1>4, <1>5, ConstantTypes
<1> QED BY <1>6, <1>7 DEF Budget

LEMMA BudgetReserve ==
  ASSUME CountInv, NEW t \in Threads, NEW j, NEW n \in Nat, NEW slots,
         Reserve(t, j, n, slots), UNCHANGED catalog
  PROVE  Budget'
<1>1. ThreadsOK /\ used \in Nat /\ reserved \in Nat /\ t \notin Running
  BY DEF CountInv, CatalogOK, ThreadsOK, Reserve, Running
<1>2. used + reserved + n + Overhead <= MaxBytes /\ used' = used
  BY DEF Reserve, HasRoom, catalog
<1> DEFINE h == [hold EXCEPT ![t] = n]
           T == Running
           before == Cardinality(HeldBytes(hold, Running))
           after == Cardinality(HeldBytes(h, T \cup {t}))
<1>3. hold' = h /\ Running' = T \cup {t}
  BY <1>1 DEF Reserve, Running, ThreadsOK
<1>4. before \in Nat /\ before <= reserved /\ T \in SUBSET Threads
  BY <1>1, RunningHolds
<1>5. HeldBytes(h, T) = HeldBytes(hold, Running)
  BY <1>1 DEF HeldBytes, ThreadsOK, Running
<1>6. h \in [Threads -> Nat] /\ h[t] = n /\ t \notin T
  BY <1>1 DEF ThreadsOK
<1>7. after = before + n
  <2> HIDE DEF h, T
  <2>1. Cardinality(HeldBytes(h, T \cup {t})) = Cardinality(HeldBytes(h, T)) + h[t]
    BY <1>4, <1>6, AddHolder
  <2> QED BY <2>1, <1>5, <1>6
<1>8. Cardinality(HeldBytes(hold', Running')) = after
  BY <1>3
<1> HIDE DEF before, after
<1>9. used' + after + Overhead <= MaxBytes
  BY <1>1, <1>2, <1>4, <1>7, ConstantTypes
<1> QED BY <1>8, <1>9 DEF Budget

LEMMA BudgetAddSource ==
  ASSUME CountInv, NEW s \in Sources, AddSource(s)
  PROVE  Budget'
<1>1. ThreadsOK /\ used \in Nat /\ reserved \in Nat /\ SourceSize[s] \in Nat
  BY ConstantTypes DEF CountInv, CatalogOK, ThreadsOK
<1>2. used + reserved + SourceSize[s] + Overhead <= MaxBytes /\ used' = used + SourceSize[s]
  BY DEF AddSource, HasRoom
<1>3. Running' = Running /\ hold' = hold
  BY DEF AddSource, threads, Running
<1> DEFINE before == Cardinality(HeldBytes(hold, Running))
           n == SourceSize[s]
<1>4. before \in Nat /\ before <= reserved
  BY <1>1, RunningHolds
<1>5. n \in Nat /\ used + reserved + n + Overhead <= MaxBytes /\ used' = used + n
  BY <1>1, <1>2
<1> HIDE DEF before, n
<1>6. used' + before + Overhead <= MaxBytes
  BY <1>1, <1>4, <1>5, ConstantTypes
<1> QED BY <1>3, <1>6 DEF Budget, before

LEMMA BudgetLoad ==
  ASSUME NEW d, Load(d), Loadable(d),
         Footprint(d.sources, d.bundles, d.candidates) + Overhead <= MaxBytes
  PROVE  Budget'
<1>1. Running' = {} /\ used' = Footprint(d.sources, d.bundles, d.candidates)
  BY DEF Running, Load, RestoredBytes
<1>2. HeldBytes(hold', {}) = {}
  BY DEF HeldBytes
<1>3. Cardinality(HeldBytes(hold', Running')) = 0
  BY <1>1, <1>2, FS_EmptySet
<1>4. Footprint(d.sources, d.bundles, d.candidates) \in Nat
  BY FootprintType DEF Loadable
<1> DEFINE f == Footprint(d.sources, d.bundles, d.candidates)
<1>5. f \in Nat /\ used' = f /\ f + Overhead <= MaxBytes
  BY <1>1, <1>4
<1> HIDE DEF f
<1>6. used' + 0 + Overhead <= MaxBytes
  BY <1>5, ConstantTypes
<1> QED BY <1>3, <1>6 DEF Budget

LEMMA BudgetStutter == Budget /\ UNCHANGED <<used, stage, hold>> => Budget'
BY DEF Budget, Running

LEMMA GrantedStutter == Granted /\ UNCHANGED threads => Granted'
BY DEF Granted, threads

\* What a running operation may retain is within what it holds.
LEMMA Within ==
  ASSUME RecordsFit, CountInv, Granted, NEW t \in Threads, Computing(t, "bundle"),
         NEW size \in SizesOf(job[t])
  PROVE  size \in Nat /\ hold[t] \in Nat /\ size <= hold[t]
<1>1. job[t] \in BundleJobs /\ size \in Nat /\ size \in Sizes[Kind[job[t].source]]
  BY BundleJob DEF CountInv
<1>2. Kind[job[t].source] \in Kinds
  BY <1>1, ConstantTypes DEF BundleJobs
<1>3. hold[t] = Reservation(Kind[job[t].source])
  BY DEF Granted, Computing
<1> QED BY <1>1, <1>2, <1>3 DEF RecordsFit, CountInv, ThreadsOK

LEMMA ByteNext == RecordsFit /\ CountInv /\ ByteInv /\ [Next]_vars => ByteInv'
<1> SUFFICES ASSUME RecordsFit, CountInv, ByteInv, [Next]_vars PROVE ByteInv'
  OBVIOUS
<1> USE DEF ByteInv
<1>0. ThreadsOK /\ used \in Nat
  BY DEF CountInv, CatalogOK
<1>1. ASSUME UNCHANGED <<used, threads>> PROVE ByteInv'
  BY <1>1, BudgetStutter, GrantedStutter DEF threads
<1>2. ASSUME NEW k, BindWorkflow(k) \/ BindCandidateAdapter(k) \/ Save PROVE ByteInv'
  BY <1>1, <1>2 DEF BindWorkflow, BindCandidateAdapter, Save, catalog
<1>3. ASSUME NEW d, Load(d) PROVE Granted'
  BY <1>3 DEF Load, Granted
<1>4. CASE Crash
  <2>1. Footprint({}, {}, {}) + Overhead <= MaxBytes
    BY EmptyIsLoadable, ConstantTypes
  <2> QED BY <1>3, <1>4, <2>1, EmptyIsLoadable, BudgetLoad DEF Crash, EmptyDocument
<1>5. CASE Restore
  <2>1. Loadable(saved)
    BY <1>5 DEF Restore, Accepts, CountInv, RestOK, Loadable
  <2> QED BY <1>3, <1>5, <2>1, BudgetLoad DEF Restore, Accepts
<1>6. ASSUME NEW s \in Sources, AddSource(s) PROVE ByteInv'
  BY <1>6, BudgetAddSource, GrantedStutter DEF AddSource
<1>7. ASSUME NEW t \in Threads, Work(t) PROVE ByteInv'
  <2>1. ASSUME NEW s \in Sources, NEW u, NEW o, ReserveBundle(t, s, u, o) PROVE ByteInv'
    <3> DEFINE j == [role |-> "bundle", source |-> s, upstream |-> u, origin |-> o]
               n == Reservation(Kind[s])
    <3>1. j.role = "bundle" /\ j.source = s /\ n \in Nat
      BY ConstantTypes DEF Reservation
    <3>2. UNCHANGED catalog /\ Reserve(t, j, n, Cardinality(bundles))
      BY <2>1 DEF ReserveBundle
    <3>3. n = Reservation(Kind[j.source])
      OBVIOUS
    <3> HIDE DEF j, n
    <3>4. Granted'
      BY <1>0, <3>2, <3>3 DEF Granted, Reserve, ThreadsOK
    <3> QED BY <3>1, <3>2, <3>4, BudgetReserve
  <2>2. ASSUME NEW b, ExecuteCandidate(t, b) PROVE ByteInv'
    <3> DEFINE j == [role |-> "candidate", subject |-> b.id]
    <3>1. j.role = "candidate" /\ CandidateReservation \in Nat
      BY ConstantTypes
    <3>2. UNCHANGED catalog /\ Reserve(t, j, CandidateReservation, Cardinality(candidates))
      BY <2>2 DEF ExecuteCandidate
    <3> HIDE DEF j
    <3>3. Granted'
      BY <1>0, <3>1, <3>2 DEF Granted, Reserve, ThreadsOK
    <3> QED BY <3>1, <3>2, <3>3, BudgetReserve
  <2>3. ASSUME NEW s \in sources, NEW u, Execute(t, s, u) PROVE ByteInv'
    BY <2>1, <2>3 DEF Execute, CountInv, CatalogOK
  <2>4. ASSUME NEW b \in bundles, Replay(t, b) PROVE ByteInv'
    BY <2>1, <2>4 DEF Replay, CountInv, CatalogOK, Bundle
  <2> QED BY <1>7, <2>2, <2>3, <2>4 DEF Work
<1>8. ASSUME NEW t \in Threads, Finish(t) PROVE ByteInv'
  <2>1. ASSUME NEW result \in Settled, Settle(t, result), UNCHANGED <<job, hold>>,
               stage[t] = "computing"
        PROVE  Granted'
    BY <1>0, <2>1 DEF Granted, Settle, Settled, ThreadsOK
  <2>2. ASSUME NEW id \in Ids, NEW size \in SizesOf(job[t]), Retain(t, id, size)
        PROVE  ByteInv'
    <3>1. size \in Nat /\ size <= hold[t]
      BY <2>2, Within DEF Retain
    <3>2. /\ stage[t] = "computing" /\ Settle(t, "retained") /\ UNCHANGED <<job, hold>>
          /\ used' = used + size /\ "retained" \in Settled
      BY <2>2 DEF Retain, Computing, Settled
    <3> QED BY <2>1, <3>1, <3>2, BudgetSettle
  <2>3. ASSUME NEW id \in Ids, NEW size \in SizesOf(job[t]), Publish(t, id, size)
        PROVE  ByteInv'
    <3>1. size \in Nat /\ size <= hold[t]
      BY <1>0, <2>3, CandidateJob DEF Publish
    <3>2. /\ stage[t] = "computing" /\ Settle(t, "retained") /\ UNCHANGED <<job, hold>>
          /\ used' = used + size /\ "retained" \in Settled
      BY <2>3 DEF Publish, Computing, Settled
    <3> QED BY <2>1, <3>1, <3>2, BudgetSettle
  <2>4. ASSUME NEW result \in Settled, Refuse(t, result), stage[t] = "computing"
        PROVE  ByteInv'
    <3>1. Settle(t, result) /\ UNCHANGED <<job, hold>> /\ used' = used + 0
      BY <1>0, <2>4 DEF Refuse, catalog
    <3>2. 0 \in Nat /\ 0 <= hold[t]
      BY <1>0 DEF ThreadsOK
    <3> QED BY <2>1, <2>4, <3>1, <3>2, BudgetSettle
  <2>5. ASSUME NEW size, RefuseOverrun(t, size) \/ RefuseReceipt(t, size) PROVE ByteInv'
    BY <2>4, <2>5 DEF RefuseOverrun, RefuseReceipt, Settled, Computing
  <2>6. CASE RefuseCollision(t) \/ Fail(t)
    BY <2>4, <2>6 DEF RefuseCollision, Fail, Settled, Computing
  <2>7. CASE Release(t)
    <3>1. Running' = Running /\ \A u \in Running : hold'[u] = hold[u]
      BY <1>0, <2>7 DEF Release, Running, Settled, ThreadsOK
    <3>2. HeldBytes(hold', Running') = HeldBytes(hold, Running) /\ used' = used
      BY <2>7, <3>1 DEF HeldBytes, Release, catalog
    <3>3. Granted'
      BY <1>0, <2>7 DEF Granted, Release, ThreadsOK
    <3> QED BY <3>2, <3>3 DEF Budget
  <2> QED BY <1>8, <2>2, <2>3, <2>5, <2>6, <2>7 DEF Finish
<1>9. CASE UNCHANGED vars
  BY <1>1, <1>9 DEF vars, catalog
<1> QED BY <1>2, <1>4, <1>5, <1>6, <1>7, <1>8, <1>9 DEF Next, Host

LEMMA ByteInit == Init => ByteInv
<1> SUFFICES ASSUME Init PROVE ByteInv
  OBVIOUS
<1>1. Running = {} /\ used = 0
  BY DEF Init, Running
<1>2. HeldBytes(hold, Running) = {}
  BY <1>1 DEF HeldBytes
<1>3. 0 + 0 + Overhead <= MaxBytes
  BY ConstantTypes
<1>4. Budget
  BY <1>1, <1>2, <1>3, FS_EmptySet DEF Budget
<1> QED BY <1>4 DEF Init, ByteInv, Granted

\* A running operation that is granted its bytes finds them in Fits.
LEMMA GrantFits ==
  ASSUME RecordsFit, CountInv, ByteInv, NEW t \in Threads, Computing(t, "bundle"),
         NEW size \in SizesOf(job[t])
  PROVE  Fits(size)
<1>1. size \in Nat /\ hold[t] \in Nat /\ size <= hold[t]
  BY Within DEF ByteInv
<1>2. ThreadsOK /\ used \in Nat /\ t \in Running
  BY DEF CountInv, CatalogOK, Running, Computing
<1> DEFINE before == Cardinality(HeldBytes(hold, Running))
           after == Cardinality(HeldBytes(hold, Running \ {t}))
           own == hold[t]
<1>3. after \in Nat /\ before = after + own
  BY <1>2, Others
<1>4. used + before + Overhead <= MaxBytes /\ own \in Nat /\ size <= own
  BY <1>1 DEF ByteInv, Budget
<1> HIDE DEF before, after, own
<1>5. used + size + Overhead <= MaxBytes
  BY <1>1, <1>2, <1>3, <1>4, ConstantTypes
<1> QED BY <1>5 DEF Fits

LEMMA HonourNext ==
  RecordsFit /\ CountInv /\ ByteInv /\ ReservationHonoured /\ [Next]_vars => ReservationHonoured'
<1> SUFFICES ASSUME RecordsFit, CountInv, ByteInv, ReservationHonoured, [Next]_vars
             PROVE  ReservationHonoured'
  OBVIOUS
<1>0. stage \in [Threads -> Stages]
  BY DEF CountInv, ThreadsOK
<1>1. ASSUME UNCHANGED stage PROVE ReservationHonoured'
  BY <1>1 DEF ReservationHonoured
<1>2. ASSUME NEW t \in Threads, NEW v, v # "overrun", stage' = [stage EXCEPT ![t] = v]
      PROVE  ReservationHonoured'
  BY <1>0, <1>2 DEF ReservationHonoured
<1>3. CASE Host
  <2>1. ASSUME NEW d, Load(d) PROVE ReservationHonoured'
    BY <2>1 DEF Load, ReservationHonoured
  <2> QED BY <1>1, <1>3, <2>1
          DEF Host, BindWorkflow, BindCandidateAdapter, Save, Crash, Restore, threads
<1>4. ASSUME NEW s, AddSource(s) PROVE ReservationHonoured'
  BY <1>1, <1>4 DEF AddSource, threads
<1>5. ASSUME NEW t \in Threads, Work(t) PROVE ReservationHonoured'
  BY <1>2, <1>5 DEF Work, Execute, Replay, ExecuteCandidate, ReserveBundle, Reserve
<1>6. ASSUME NEW t \in Threads, Finish(t) PROVE ReservationHonoured'
  <2>1. ASSUME NEW size \in SizesOf(job[t]), RefuseOverrun(t, size) PROVE FALSE
    BY <2>1, GrantFits DEF RefuseOverrun
  <2>2. ASSUME NEW id, NEW size, Retain(t, id, size) \/ Publish(t, id, size)
        PROVE  ReservationHonoured'
    BY <1>2, <2>2 DEF Retain, Publish, Settle
  <2>3. ASSUME NEW size, RefuseReceipt(t, size) PROVE ReservationHonoured'
    BY <1>2, <2>3 DEF RefuseReceipt, Refuse, Settle
  <2>4. CASE RefuseCollision(t) \/ Fail(t)
    BY <1>2, <2>4 DEF RefuseCollision, Fail, Refuse, Settle
  <2>5. CASE Release(t)
    BY <1>2, <2>5 DEF Release
  <2> QED BY <1>6, <2>1, <2>2, <2>3, <2>4, <2>5 DEF Finish
<1>7. CASE UNCHANGED vars
  BY <1>1, <1>7 DEF vars, threads
<1> QED BY <1>3, <1>4, <1>5, <1>6, <1>7 DEF Next

-----------------------------------------------------------------------------
(* Saved workspaces.                                                        *)

LEMMA DocumentAccepted ==
  ASSUME CountInv, LinkInv, SlotsKept, Budget
  PROVE  Accepts(Document)
<1> DEFINE d == Document
<1>1. /\ d.sources = sources /\ d.bundles = bundles /\ d.candidates = candidates
      /\ d.revision = revision
  BY DEF Document
<1> HIDE DEF d
<1>2. Cardinality(bundles) <= MaxBundles /\ Cardinality(candidates) <= MaxBundles
  <2>1. /\ Cardinality(bundles) \in Nat /\ Cardinality(candidates) \in Nat
        /\ Cardinality(Computes("bundle")) \in Nat /\ Cardinality(Computes("candidate")) \in Nat
    BY ComputesFinite, FS_CardinalityType DEF CountInv, CatalogOK
  <2> QED BY <2>1, ConstantTypes DEF SlotsKept
<1>3. Footprint(sources, bundles, candidates) + Overhead <= MaxBytes
  <2> DEFINE held == Cardinality(HeldBytes(hold, Running))
  <2>1. held \in Nat /\ used \in Nat /\ used + held + Overhead <= MaxBytes
    BY RunningHolds DEF Budget, CountInv, CatalogOK
  <2> HIDE DEF held
  <2>2. used + Overhead <= MaxBytes
    BY <2>1, ConstantTypes
  <2> QED BY <2>2 DEF CountInv, CatalogOK
<1>4. revision = Cardinality(sources) + Cardinality(bundles) + Cardinality(candidates)
  BY DEF CountInv, CatalogOK
<1>5. Accepts(d)
  BY <1>1, <1>2, <1>3, <1>4 DEF LinkInv, Sound, Accepts
<1> QED BY <1>5 DEF d

LEMMA EmptyAccepted == Accepts(EmptyDocument)
<1>1. Cardinality({}) = 0 /\ Footprint({}, {}, {}) = 0
  BY EmptyIsLoadable, FS_EmptySet
<1> QED BY <1>1, ConstantTypes DEF Accepts, EmptyDocument

LEMMA ReopenNext ==
  ASSUME CountInv, LinkInv, SlotsKept, Budget, SavedReopens, [Next]_vars
  PROVE  SavedReopens'
<1>1. CASE Save
  BY <1>1, DocumentAccepted DEF Save, SavedReopens
<1>2. CASE UNCHANGED saved
  BY <1>2 DEF SavedReopens
<1>3. Save \/ UNCHANGED saved
  <2>1. ASSUME NEW t \in Threads, Work(t) PROVE UNCHANGED saved
    BY <2>1 DEF Work, Execute, Replay, ExecuteCandidate, ReserveBundle
  <2>2. ASSUME NEW t \in Threads, Finish(t) PROVE UNCHANGED saved
    BY <2>2 DEF Finish, Retain, Publish, RefuseOverrun, RefuseReceipt, RefuseCollision,
                Fail, Release, Refuse
  <2>3. CASE Host \/ \E s \in Sources : AddSource(s)
    BY <2>3 DEF Host, BindWorkflow, BindCandidateAdapter, Crash, Restore, AddSource
  <2>4. CASE UNCHANGED vars
    BY <2>4 DEF vars
  <2> QED BY <2>1, <2>2, <2>3, <2>4 DEF Next
<1> QED BY <1>1, <1>2, <1>3

-----------------------------------------------------------------------------
\* Retained bytes and granted reservations never exceed the byte budget, where
\* every workflow's records are within what it reserves.
THEOREM BudgetCorrect == RecordsFit => (Spec => []Budget)
<1> SUFFICES ASSUME RecordsFit PROVE Spec => []Budget
  OBVIOUS
<1>1. CountInv /\ ByteInv /\ [Next]_vars => ByteInv'
  BY ByteNext
<1>2. ByteInv => Budget
  BY DEF ByteInv
<1> QED BY <1>1, <1>2, ByteInit, Counting, PTL DEF Spec

\* There too, no operation that was admitted is refused for want of bytes.
THEOREM ReservationCorrect == RecordsFit => (Spec => []ReservationHonoured)
<1> SUFFICES ASSUME RecordsFit PROVE Spec => []ReservationHonoured
  OBVIOUS
<1>1. CountInv /\ ByteInv /\ [Next]_vars => ByteInv'
  BY ByteNext
<1>2. CountInv /\ ByteInv /\ ReservationHonoured /\ [Next]_vars => ReservationHonoured'
  BY HonourNext
<1>3. Init => ReservationHonoured
  BY DEF Init, ReservationHonoured
<1> QED BY <1>1, <1>2, <1>3, ByteInit, Counting, PTL DEF Spec

\* There too, whenever the workspace was saved, it reopens.
THEOREM ReopeningCorrect == RecordsFit => (Spec => []SavedReopens)
<1> SUFFICES ASSUME RecordsFit PROVE Spec => []SavedReopens
  OBVIOUS
<1>1. CountInv /\ LinkInv /\ SlotsKept /\ Budget /\ SavedReopens /\ [Next]_vars => SavedReopens'
  BY ReopenNext
<1>2. Init => SavedReopens
  BY EmptyAccepted DEF Init, SavedReopens
<1>3. Spec => []Budget
  BY BudgetCorrect
<1> QED BY <1>1, <1>2, <1>3, Counting, Linking, SlotsCorrect, PTL DEF Spec

-----------------------------------------------------------------------------
(* Refinement of Catalog.                                                    *)

LEMMA InitRefines == Init => Abstract!Init
BY DEF Init, Abstract!Init, Abstract!Empty, EmptyDocument

LEMMA RetainRefines ==
  ASSUME CountInv, LinkInv, NEW t \in Threads, NEW id \in Ids, NEW size, Retain(t, id, size)
  PROVE  \E b \in bundles' \ bundles : Abstract!RetainBundle(b)
<1> DEFINE b == [id |-> id, source |-> job[t].source, upstream |-> job[t].upstream,
                 origin |-> job[t].origin, size |-> size]
<1>1. b.id = id /\ b.source = job[t].source
  OBVIOUS
<1>2. job[t].source \in sources
  BY DEF Retain, Computing, LinkInv, JobsLinked
<1>3. /\ up /\ LinksHold(b, bundles) /\ \A other \in bundles : other.id # id
      /\ bundles' = bundles \cup {b}
      /\ UNCHANGED <<sources, candidates, saved, up>>
  BY DEF Retain, Computing, Fresh
<1> HIDE DEF b
<1>4. b \in bundles' \ bundles
  BY <1>1, <1>3
<1>5. Abstract!UpstreamRetained(b, bundles) /\ Abstract!OriginRetained(b, bundles)
  BY <1>3 DEF LinksHold, UpstreamHolds, ReceiptHolds, Abstract!UpstreamRetained,
              Abstract!OriginRetained
<1>6. Abstract!RetainBundle(b)
  BY <1>1, <1>2, <1>3, <1>5 DEF Abstract!RetainBundle
<1> QED BY <1>4, <1>6

LEMMA PublishRefines ==
  ASSUME LinkInv, NEW t \in Threads, NEW id \in Ids, NEW size, Publish(t, id, size)
  PROVE  \E c \in candidates' \ candidates : Abstract!RetainCandidate(c)
<1> DEFINE c == [id |-> id, subject |-> job[t].subject, size |-> size]
<1>1. c.id = id /\ c.subject = job[t].subject
  OBVIOUS
<1>2. SubjectHolds(job[t], bundles)
  BY DEF Publish, Computing, LinkInv, JobsLinked
<1>3. /\ up /\ \A other \in candidates : other.id # id
      /\ candidates' = candidates \cup {c}
      /\ UNCHANGED <<sources, bundles, saved, up>>
  BY DEF Publish, Computing
<1> HIDE DEF c
<1>4. c \in candidates' \ candidates
  BY <1>1, <1>3
<1>5. Abstract!RetainCandidate(c)
  BY <1>1, <1>2, <1>3 DEF Abstract!RetainCandidate, Abstract!SubjectRetained, SubjectHolds
<1> QED BY <1>4, <1>5

LEMMA NextRefines ==
  CountInv /\ LinkInv /\ [Next]_vars => [Abstract!Next]_(Abstract!vars)
<1> SUFFICES ASSUME CountInv, LinkInv, [Next]_vars PROVE [Abstract!Next]_(Abstract!vars)
  OBVIOUS
<1>1. ASSUME UNCHANGED <<catalog, saved, up>> PROVE UNCHANGED Abstract!vars
  BY <1>1 DEF catalog, Abstract!vars
<1>2. ASSUME NEW k, BindWorkflow(k) \/ BindCandidateAdapter(k) PROVE UNCHANGED Abstract!vars
  BY <1>1, <1>2 DEF BindWorkflow, BindCandidateAdapter
<1>3. CASE Save
  <2>1. Abstract!Save
    BY <1>3 DEF Save, Document, Abstract!Save, catalog
  <2> QED BY <2>1 DEF Abstract!Next
<1>4. CASE Crash
  <2>1. Abstract!Stop
    BY <1>4 DEF Crash, Load, EmptyDocument, Abstract!Stop
  <2> QED BY <2>1 DEF Abstract!Next
<1>5. CASE Restore
  <2>1. Abstract!Reopen
    BY <1>5 DEF Restore, Load, Abstract!Reopen, RestOK, CountInv
  <2> QED BY <2>1 DEF Abstract!Next
<1>6. ASSUME NEW s \in Sources, AddSource(s) PROVE Abstract!Next
  <2>1. Abstract!RetainSource(s)
    BY <1>6 DEF AddSource, Abstract!RetainSource
  <2> QED BY <2>1 DEF Abstract!Next
<1>7. ASSUME NEW t \in Threads, Work(t) PROVE UNCHANGED Abstract!vars
  BY <1>1, <1>7 DEF Work, Execute, Replay, ExecuteCandidate, ReserveBundle
<1>8. ASSUME NEW t \in Threads, Finish(t) PROVE [Abstract!Next]_(Abstract!vars)
  <2>1. ASSUME NEW id \in Ids, NEW size, Retain(t, id, size) PROVE Abstract!Next
    BY <2>1, RetainRefines DEF Abstract!Next
  <2>2. ASSUME NEW id \in Ids, NEW size, Publish(t, id, size) PROVE Abstract!Next
    BY <2>2, PublishRefines DEF Abstract!Next
  <2>3. CASE UNCHANGED <<catalog, saved, up>>
    BY <1>1, <2>3
  <2> QED BY <1>8, <2>1, <2>2, <2>3
          DEF Finish, RefuseOverrun, RefuseReceipt, RefuseCollision, Fail, Release, Refuse
<1>9. CASE UNCHANGED vars
  BY <1>1, <1>9 DEF vars
<1> QED BY <1>2, <1>3, <1>4, <1>5, <1>6, <1>7, <1>8, <1>9 DEF Next, Host

\* Every behaviour of the workbench, crashes and restarts included, is one of
\* the append-only catalog.
THEOREM CatalogImplemented == Spec => ImplementsCatalog
BY InitRefines, NextRefines, Counting, Linking, PTL DEF Spec, ImplementsCatalog, Abstract!Spec

-----------------------------------------------------------------------------
\* Within one process the revision moves exactly when the catalog does.
THEOREM RevisionCorrect == Spec => RevisionTracksCatalog
<1> DEFINE Tracks == up /\ up' =>
             IF <<sources, bundles, candidates>>' = <<sources, bundles, candidates>>
               THEN revision' = revision
               ELSE revision' = revision + 1
<1>1. [Next]_vars => [Tracks]_vars
  <2> SUFFICES ASSUME Next PROVE Tracks
    OBVIOUS
  <2>1. ASSUME UNCHANGED catalog PROVE Tracks
    BY <2>1 DEF catalog
  <2>2. CASE Host
    BY <2>1, <2>2 DEF Host, BindWorkflow, BindCandidateAdapter, Save, Crash, Restore
  <2>3. ASSUME NEW s \in Sources, AddSource(s) PROVE Tracks
    BY <2>3 DEF AddSource
  <2>4. ASSUME NEW t \in Threads, Work(t) PROVE Tracks
    BY <2>1, <2>4 DEF Work, Execute, Replay, ExecuteCandidate, ReserveBundle
  <2>5. ASSUME NEW t \in Threads, Finish(t) PROVE Tracks
    <3>1. ASSUME NEW id \in Ids, NEW size, Retain(t, id, size) PROVE Tracks
      <4> DEFINE r == [id |-> id, source |-> job[t].source, upstream |-> job[t].upstream,
                     origin |-> job[t].origin, size |-> size]
      <4>0. bundles' = bundles \cup {r} /\ r.id = id /\ \A other \in bundles : other.id # id
        BY <3>1 DEF Retain, Fresh
      <4> HIDE DEF r
      <4>1. bundles' # bundles
        BY <4>0
      <4> QED BY <3>1, <4>1 DEF Retain
    <3>2. ASSUME NEW id \in Ids, NEW size, Publish(t, id, size) PROVE Tracks
      <4> DEFINE r == [id |-> id, subject |-> job[t].subject, size |-> size]
      <4>0. candidates' = candidates \cup {r} /\ r.id = id /\ \A other \in candidates : other.id # id
        BY <3>2 DEF Publish
      <4> HIDE DEF r
      <4>1. candidates' # candidates
        BY <4>0
      <4> QED BY <3>2, <4>1 DEF Publish
    <3>3. CASE UNCHANGED catalog
      BY <2>1, <3>3
    <3> QED BY <2>5, <3>1, <3>2, <3>3
            DEF Finish, RefuseOverrun, RefuseReceipt, RefuseCollision, Fail, Release, Refuse
  <2> QED BY <2>2, <2>3, <2>4, <2>5 DEF Next
<1> QED BY <1>1, PTL DEF Spec, RevisionTracksCatalog
=============================================================================
