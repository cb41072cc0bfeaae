SPECIFICATION SessionSpec
CONSTANTS
  ActivationIds <- MCActivationIds
  SourceTimes <- MCSourceTimes
  MaxObservations = 3
  FlushInterval = 1
  MaxTime = 1
CHECK_DEADLOCK FALSE
INVARIANTS
  SessionTypeOK
  HeaderAnchorsTheStream
  RecordingKeepsUp
PROPERTIES
  CloseIsRecorded
