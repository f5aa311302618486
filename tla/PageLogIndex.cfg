\* One flush is enough.
SPECIFICATION Spec
CONSTANTS
  NumPages = 2
  BufferedRecords = 2
  WordRecord = 0
  Erased = 3
  Longitudes = {0, 1, 2}
  IndexRange = 4
  PageRange = 3
  MaxFlushes = 2
  MaxLosses = 2
INVARIANTS RecordHasPlace
CHECK_DEADLOCK FALSE
