\* Any order of good, impossible, incomplete and foreign sentences; writes and
\* clears of two-byte buffers, each torn at any byte; page images at the sizes
\* of the code.
SPECIFICATION DataSpec
CONSTANTS
  Lines <- TestLines
  SentenceSize = 49
  Behind <- TestBehind
  Buffers <- TestBuffers
  Crc <- TestCrc
  MaxLosses = 2
  PageSize = 264
  HeaderSize = 8
  CounterSize = 4
  RecordSize = 18
  BufferedRecords = 28
  MaxFlushes = 2
INVARIANTS DecodeTypeOK CompleteLineDecoded ClearedIsRejected PageIsTail
PROPERTY LocationHasTime
CHECK_DEADLOCK FALSE
