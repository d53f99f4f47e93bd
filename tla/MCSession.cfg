\* Analyses and operations of two threads at the record limit, with failed writes,
\* saves, crashes and reopenings; every operation ends. Liveness excludes symmetry.
CONSTANTS
  None = None
  Threads = {t1, t2}
  Values = {a, b}
  First = a
  MaxRecords = 2
  MaxIssued = 3
  MaxRevision = 1
SPECIFICATION FairSpec
INVARIANTS
  SavedReopens
  WholeCaptures
  RecordsOnDisk
  RefusalsRetained
PROPERTIES
  OperationsEnd
  ImplementsLedger
