\* One connection, packets of at most two bytes, of which the host sends five.
SPECIFICATION Spec
CONSTANTS
  EpSize = 2
  RxBuffers = 2
  MaxBytes = 5
  MaxSetups = 1
PROPERTIES InOrder
CHECK_DEADLOCK FALSE
