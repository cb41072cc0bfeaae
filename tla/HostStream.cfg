SPECIFICATION Spec
CONSTANTS
  Codes <- MCCodes
  MaxCtlSequenceLength = 1
  QueueSizes <- MCQueueSizes
  UploadSizes <- MCUploadSizes
  MaxLineBufferLength = 2
  MaxWork = 10
CHECK_DEADLOCK FALSE
INVARIANTS
  TypeOK
  TextIsDrawn
  RenderedInOrder
  DownloadIsExact
  UploadIsExact
  LogHasTheText
PROPERTIES
  OnlyOverflowLoses
  NothingWaitsForEver
