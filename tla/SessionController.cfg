SPECIFICATION FairSpec
CONSTANTS
  ActivationIds <- MCActivationIds
  SourceTimes <- MCSourceTimes
  MaxObservations = 4
CHECK_DEADLOCK FALSE
INVARIANTS
  TypeOK
  LiveMeansAnchored
  NothingLostNothingReordered
  FilterIsSound
  ObservationTimesNeverDecrease
PROPERTIES
  ImplementsSessionStream
  ReferenceNeverMoves
  EverythingIsDelivered
