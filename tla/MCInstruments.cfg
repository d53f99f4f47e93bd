\* A project, or one process of PLSR, or one of the exchange, or manifests of two machines.
CONSTANTS
  None = None
  Processes = {p}
  Machines = {"lathe", "mill"}
SPECIFICATION Spec
INVARIANTS
  StaleExactly
  
  AcceptedOfOneSession
  AcceptedSupported
