\* Packets of two bytes and buffers of two packets, two connections.
SPECIFICATION Spec
CONSTANTS
  EpSize = 2
  TxBuffers = 4
  Frames = 2
  ZlpPeriod = 2
  MaxBytes = 5
  MaxSetups = 2
INVARIANTS TypeOK RoomStays
PROPERTIES InOrder Flushed TransferEnds PutcReturns
CHECK_DEADLOCK FALSE
