\* A terminal and a service over one directory, one investigation; a changed installation or
\* the tank's workspace served.
CONSTANTS
  None = None
  Terminals = {t}
  Services = {s}
  Directories = {d}
  Lanes = {"tank", "circle"}
  Inputs <- MCInputs
  Served = {"tank", "circle"}
  Asked = {"other"}
  Selections = {"whole", "part"}
  Installs <- MCInstalls
  MaxRelease = 2
  MaxChanges = 1
  MaxRecords = 2
  MaxEvidence = 1
  MaxExecutions = 3
SPECIFICATION ChosenSpec
INVARIANTS
  WorkspacesReopen
  RuntimesNamed
PROPERTIES
  PinsPrecedeWrites
  ReplaysHonest
\* Nothing more may be created or executed.
CHECK_DEADLOCK FALSE
