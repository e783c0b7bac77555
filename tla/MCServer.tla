------------------------------ MODULE MCServer ------------------------------
(* The protocol, requests for model checking, distinct for each client and  *)
(* position, and the places where reads may cut them.  A command is an      *)
(* array of bulk strings; an inline request is one bulk string, which the   *)
(* store answers with an error.                                             *)
EXTENDS Server

P == INSTANCE Protocol

ProtocolSerialize(m) == P!Serialize(m)
ProtocolHasMessage(buf) == P!HasMessage(buf)
ProtocolParseMessage(buf) == P!ParseMessage(buf)

Inline(c, n) == P!Message(P!BULK_STRING, <<10 * c + n>>)

Command(c, n) == P!Message(P!ARRAY, <<Inline(c, n)>>)

(* The first client sends commands, the second a command and then inline    *)
(* requests.                                                                *)
Mixed(c, n) == IF c = 2 /\ n > 1 THEN Inline(c, n) ELSE Command(c, n)

TwoClients == {1, 2}

Anywhere == 1 .. 64

AfterHeader == {5}

(* What the proofs assume of the protocol, for tails that are requests      *)
(* arrived in part.                                                         *)
ASSUME FramingOfRequests ==
  RequestsFramed(UNION {Prefixes(serialize(Request(c, n))) :
                          c \in Clients, n \in 1 .. MaxRequests})
=============================================================================
