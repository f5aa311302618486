\* Three pages of two records: runs past the end of the buffer, around the
\* end of the flash, and three losses of power at any point.
SPECIFICATION Spec
CONSTANTS
  NumPages = 3
  BufferedRecords = 2
  WordRecord = 1
  Erased = 3
  Longitudes = {0, 2}
  IndexRange = 4
  PageRange = 5
  MaxFlushes = 3
  MaxLosses = 3
INVARIANTS TypeOK ScanFindsErased
PROPERTIES FirstFlushSparesPages BootCompletes UsesStore
CHECK_DEADLOCK FALSE
