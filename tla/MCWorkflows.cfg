\* Every workflow kind, two interchangeable sources, at most two mishaps.
INIT Init
NEXT Next
CONSTANTS
  Catalog <- Kinds
  s1 = s1
  s2 = s2
  Sources = {s1, s2}
  MaxMishaps = 2
  MaxCreated = 2
  MaxCalls = 3
SYMMETRY Sym
\* The calls are bounded: there may be none left to make.
CHECK_DEADLOCK FALSE
INVARIANTS
  ReturnedReproduced
  InspectedIsWhole
  ReceiptsMatch
  SteadyReplays
