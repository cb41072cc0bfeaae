SPECIFICATION Spec
CONSTANTS
  Endpoints <- MCEndpoints
  Bauds <- MCBauds
  Framings <- MCFramings
  RxQueues <- MCRxQueues
  Defaults <- MCDefaults
  MaxAttempts = 2
  MaxCalls = 4
  MaxDepth = 1
CHECK_DEADLOCK FALSE
INVARIANTS
  RequestIsStored
