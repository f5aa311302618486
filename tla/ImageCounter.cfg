\* The sizes of the code.
SPECIFICATION ImageSpec
CONSTANTS
  PageSize = 264
  HeaderSize = 8
  CounterSize = 4
  RecordSize = 18
  BufferedRecords = 28
  MaxFlushes = 1
INVARIANT CounterIsRead
CHECK_DEADLOCK FALSE
