------------------------------ MODULE MCClient ------------------------------
(* The protocol and replies for model checking: different for each command, *)
(* of three types, one an array, with a payload byte that looks like a type.*)
EXTENDS Client

P == INSTANCE Protocol

ProtocolSerialize(m) == P!Serialize(m)
ProtocolHasMessage(buf) == P!HasMessage(buf)
ProtocolParseMessage(buf) == P!ParseMessage(buf)

SomeReply(k) ==
  CASE k = 1 -> P!Message(P!BULK_STRING, <<P!SIMPLE_STRING>>)
    [] k = 2 -> P!Message(P!ARRAY, <<P!NullMessage, P!NullMessage>>)
    [] k = 3 -> P!Message(P!SIMPLE_STRING, <<7, 8>>)
    [] OTHER -> P!Message(P!INTEGER, k)

(* What the proofs assume of the protocol, for tails that are replies       *)
(* arrived in part.                                                         *)
ASSUME FramingOfReplies ==
  RepliesFramed(UNION {Prefixes(serialize(Reply(k))) : k \in 1 .. MaxCommands})
=============================================================================
