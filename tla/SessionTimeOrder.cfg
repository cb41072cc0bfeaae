SPECIFICATION Spec
CONSTANTS
  ActivationIds <- MCActivationIds
  SourceTimes <- MCSourceTimes
  MaxObservations = 4
CHECK_DEADLOCK FALSE
INVARIANTS
  SessionTimeNonDecreasing
