SPECIFICATION Spec
CONSTANTS
  Anchors <- MCAnchors
  FlushInterval = 2
  MaxTime = 4
  MaxEvents = 3
CHECK_DEADLOCK FALSE
INVARIANTS
  TypeOK
  BufferedTailIsBounded
PROPERTIES
  ImplementsSessionFile
  ReportDescribesFile
  DamageReportIsFinal
