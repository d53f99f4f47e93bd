\* Two users; a queued intent meets the other's change.
CONSTANTS
  None = None
  Clients = {v1, v2}
  Attentive = {v1}
  Users = {v1, v2}
  Polling = {}
  Capacity = 2
  MaxRevision = 2
  MaxCatalog = 0
  MaxSession = 1
  MaxConnections = 2
SPECIFICATION Spec
INVARIANT IntentsObserved
\* A viewport that has made its last connection may stay away for good.
CHECK_DEADLOCK FALSE
