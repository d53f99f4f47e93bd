\* An observable source, the design that consumes its bundles, two energy logs of one
\* capture run and an exchange whose bundle no catalog has room for; two threads;
\* candidate receipts, one size of which exceeds its reservation.  Every operation
\* ends.  Liveness excludes symmetry.
CONSTANTS
  process = process
  design = design
  exchange = exchange
  energy1 = energy1
  energy2 = energy2
  None = None
  Sources = {process, design, exchange, energy1, energy2}
  Threads = {t1, t2}
  Ids = {i1, i2, i3}
  Kinds = {"observable", "design", "exchange", "energy"}
  Kind <- MCKind
  UpstreamKind <- MCUpstreamKind
  Assessable = {"observable"}
  Builtin = {"energy"}
  Run <- MCRun
  Log <- MCLog
  SourceSize <- MCSourceSize
  Limit <- MCLimit
  Sizes <- LargeSizes
  CandidateReservation = 2
  CandidateSizes = {1, 3}
  MaxSources = 2
  MaxBundles = 2
  MaxBytes = 7
  Overhead = 1
SPECIFICATION FairSpec
INVARIANTS
  TypeOK
  Accounting
  SlotsKept
  Budget
  SavedReopens
  OneLogPerRun
PROPERTIES
  ImplementsCatalog
  OperationsEnd
