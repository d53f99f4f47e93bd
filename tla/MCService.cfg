\* Two viewports, two revisions, two processes that serve the workspace in turn.
CONSTANTS
  None = None
  Clients = {v1, v2}
  Attentive = {}
  Users = {v1, v2}
  Polling = {}
  Capacity = 2
  MaxRevision = 2
  MaxCatalog = 0
  MaxSession = 2
  MaxConnections = 2
SPECIFICATION Spec
SYMMETRY Symmetric
INVARIANTS
  BroadcastsInOrder
  SessionsNotMixed
PROPERTY ImplementsSharedSelection
\* A viewport that has made its last connection may stay away for good.
CHECK_DEADLOCK FALSE
