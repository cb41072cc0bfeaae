SPECIFICATION Spec
CONSTANTS
  Endpoints <- MCEndpoints
  Bauds <- MCBauds
  Framings <- MCFramings
  RxQueues <- MCRxQueues
  Defaults <- MCDefaults
  MaxAttempts = 2
  MaxCalls = 3
  MaxDepth = 2
CHECK_DEADLOCK FALSE
INVARIANTS
  EffectiveIsInForce
