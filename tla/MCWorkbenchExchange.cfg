\* The records of instrument-exchange may exceed what _reserve grants, while a candidate action is in flight.
CONSTANTS
  process = process
  design = design
  exchange = exchange
  energy1 = energy1
  energy2 = energy2
  None = None
  Sources = {process, exchange}
  Threads = {t1, t2}
  Ids = {i1, i2, i3}
  Kinds = {"observable", "exchange"}
  Kind <- MCKind
  UpstreamKind <- MCUpstreamKind
  Assessable = {"observable"}
  Builtin = {}
  Run <- MCRun
  Log <- MCLog
  SourceSize <- MCSourceSize
  Limit <- MCLimit
  Sizes <- ExchangeSizes
  CandidateReservation = 2
  CandidateSizes = {1, 3}
  MaxSources = 2
  MaxBundles = 3
  MaxBytes = 10
  Overhead = 1
SPECIFICATION Spec
SYMMETRY Symmetric
INVARIANT SavedReopens
