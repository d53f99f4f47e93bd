\* Two pinned parts, a limit below what a pipe carries, a retry.
CONSTANTS
  Parts <- MCParts
  Limit = 1
  MaxOutput = 2
  MaxChanges = 1
  MaxCalls = 2
SPECIFICATION FairSpec
INVARIANTS
  OutputComplete
  AcceptedWasPinned
PROPERTY CallsEnd
\* The caller may be content with the calls it has made.
CHECK_DEADLOCK FALSE
