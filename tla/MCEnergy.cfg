\* One warm-up batch and two measured ones, of one or two ticks each, so that the
\* minimum duration is reached or not; two mishaps.
CONSTANTS
  None = None
  WarmupBatches = 1
  MaxBatches = 2
  MinimumDuration = 3
  IdleDuration = 1
  Full = 9
  Paces = {1, 2}
  MaxMishaps = 2
SPECIFICATION Spec
INVARIANTS
  EligibleMeasured
  PublishedWhole
  EndsCleanly
