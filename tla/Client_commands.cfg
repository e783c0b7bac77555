SPECIFICATION FairSpec
CONSTANTS
  NullPtr = NullPtr
  serialize <- ProtocolSerialize
  has_message <- ProtocolHasMessage
  parse_message <- ProtocolParseMessage
  NoReply = NoReply
  Reply <- SomeReply
  MaxCommands = 3
  MaxConnects = 2
INVARIANTS PairedUntilLate NoReplyTwice
PROPERTY CommandsEnd
CHECK_DEADLOCK FALSE
