SPECIFICATION FairSpec
CONSTANTS
  NullPtr = NullPtr
  Messages <- AllMessages
  MaxSent = 2
INVARIANTS Conservation Realigned InOrder OnlyArraysTear
PROPERTIES Delivered Drained
CHECK_DEADLOCK FALSE
