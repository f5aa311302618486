\* Ring of 3, sentences of 3: every lap, wrap and split within 7 characters.
SPECIFICATION Spec
CONSTANTS
  BufferSize = 3
  SentenceSize = 3
  LF = LF
  NUL = NUL
  Text = {x}
  MaxReceived = 7
INVARIANTS TypeOK UnreadSlots SentenceIsLine
PROPERTIES InOrder Drain
CHECK_DEADLOCK FALSE
