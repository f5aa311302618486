\* Two pages of two bytes: programs and erases under way during other calls,
\* a reset or a power loss at any point.
SPECIFICATION Spec
CONSTANTS
  NumPages = 2
  PageSize = 2
  Values = {0, 1}
  ErasedByte = 255
  MaxCalls = 3
  MaxLosses = 1
INVARIANTS TypeOK ReadsArray
PROPERTIES ImplementsStore CallReturns
CHECK_DEADLOCK FALSE
