\* Packets of two bytes and buffers of two packets, two connections.
SPECIFICATION Spec
CONSTANTS
  EpSize = 2
  RxBuffers = 4
  MaxBytes = 5
  MaxSetups = 2
INVARIANTS TypeOK ReceivesAside
PROPERTIES InOrderUnlessOutrun Delivered Listens
CHECK_DEADLOCK FALSE
