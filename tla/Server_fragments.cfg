SPECIFICATION Spec
CONSTANTS
  NullPtr = NullPtr
  serialize <- ProtocolSerialize
  has_message <- ProtocolHasMessage
  parse_message <- ProtocolParseMessage
  NoClient = NoClient
  Clients <- TwoClients
  Request <- Inline
  MaxRequests = 1
  Cuts <- Anywhere
  ReadBufferSize = 64
  MaxBufferSize = 64
INVARIANT ExecutedOnce
CHECK_DEADLOCK FALSE
