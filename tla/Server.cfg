SPECIFICATION FairSpec
CONSTANTS
  NullPtr = NullPtr
  serialize <- ProtocolSerialize
  has_message <- ProtocolHasMessage
  parse_message <- ProtocolParseMessage
  NoClient = NoClient
  Clients <- TwoClients
  Request <- Mixed
  MaxRequests = 2
  Cuts <- AfterHeader
  ReadBufferSize = 22
  MaxBufferSize = 22
INVARIANTS OwnReplies WholeExecutedOnce
PROPERTIES Answered Released Stops
CHECK_DEADLOCK FALSE
