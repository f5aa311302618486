\* Writes and clears of two-byte buffers, each torn at any byte.
SPECIFICATION Spec
CONSTANTS
  Buffers <- TestBuffers
  Crc <- TestCrc
  MaxLosses = 2
INVARIANTS WrittenIsAccepted
CHECK_DEADLOCK FALSE
