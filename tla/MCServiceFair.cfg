\* Two viewports, of which one goes on reading and the other may stop; or one viewport, a
\* catalog that changes twice, heartbeats and a restart.
CONSTANTS
  None = None
  Clients = {v1, v2}
  Attentive = {v1}
  Users = {v1, v2}
  Polling = {v1}
  Stranger = v2
  Capacity = 1
  MaxRevision = 1
  MaxCatalog = 2
  MaxSession = 2
  MaxConnections = 2
SPECIFICATION ChosenSpec
PROPERTIES
  Converges
  UpdatesAnswered
\* A viewport that has made its last connection may stay away for good.
CHECK_DEADLOCK FALSE
