------------------------------- MODULE Parser -------------------------------
(***************************************************************************)
(* One stream of messages through protocol::Parser.  A peer serializes      *)
(* messages onto a byte stream, the stream is cut into reads, each read is  *)
(* fed to the parser, and its owner calls parse_message while has_message   *)
(* says there is one (the loop of CommandHandler::handle_client and of      *)
(* RedisClient::send_command).                                              *)
(*                                                                          *)
(* A read may end after any byte, inside an array too.  has_message does    *)
(* not look past the header of an array, so that parse_message may meet one *)
(* of which a part is still on the wire.  It then returns null and keeps    *)
(* what it has consumed: the array is torn.                                 *)
(***************************************************************************)
EXTENDS Protocol

CONSTANTS Messages,     \* the messages the peer may send
          MaxSent       \* bound on the number of messages sent

ASSUME MaxSentAssumption == MaxSent \in Nat

VARIABLES sent,         \* the messages sent so far
          wire,         \* the bytes not read yet
          buffer,       \* Parser::buffer_
          parsed,       \* the messages parse_message has returned
          torn          \* history: has parse_message returned null?

vars == <<sent, wire, buffer, parsed, torn>>
-----------------------------------------------------------------------------
Init == sent = <<>> /\ wire = <<>> /\ buffer = <<>> /\ parsed = <<>> /\ torn = FALSE

(* The peer sends a message. *)
Send(m) ==
  /\ Len(sent) < MaxSent
  /\ sent' = Append(sent, m)
  /\ wire' = wire \o Serialize(m)
  /\ UNCHANGED <<buffer, parsed, torn>>

(* A read returns n bytes, and they are fed to the parser. *)
feed(n) ==
  /\ buffer' = buffer \o SubSeq(wire, 1, n)
  /\ wire' = SubSeq(wire, n + 1, Len(wire))
  /\ UNCHANGED <<sent, parsed, torn>>

(* parse_message, called only once has_message answered true.  A null       *)
(* result is not a message, but what it did to the buffer stays done.       *)
parse_message ==
  /\ HasMessage(buffer)
  /\ LET result == ParseMessage(buffer)
     IN  /\ buffer' = result.rest
         /\ IF result.msg = NullPtr
            THEN torn' = TRUE /\ UNCHANGED parsed
            ELSE parsed' = Append(parsed, result.msg) /\ UNCHANGED torn
  /\ UNCHANGED <<sent, wire>>

Next ==
  \/ \E m \in Messages : Send(m)
  \/ \E n \in 1 .. Len(wire) : feed(n)
  \/ parse_message

Spec == Init /\ [][Next]_vars

(* The reader keeps reading while there are bytes, and the loop keeps       *)
(* parsing while there are messages.  The peer need not send anything.      *)
Fairness ==
  /\ WF_vars(\E n \in 1 .. Len(wire) : feed(n))
  /\ WF_vars(parse_message)

FairSpec == Spec /\ Fairness
-----------------------------------------------------------------------------
(* The messages that parse_message meets one after the other in m: m, and   *)
(* inside an array its elements.                                            *)
RECURSIVE Parts(_)
Parts(m) ==
  IF m.type # ARRAY THEN <<m>>
  ELSE <<m>> \o FlattenSeq([i \in DOMAIN m.value |-> Parts(m.value[i])])

AllParts == FlattenSeq([i \in DOMAIN sent |-> Parts(sent[i])])

(* The bytes parse_message consumes for a part itself. *)
OwnBytes(m) == IF m.type = ARRAY THEN Header(ARRAY, Len(m.value)) ELSE Serialize(m)

(* Until an array is torn no byte is lost, repeated or moved between        *)
(* messages: what was parsed, what is buffered and what is still on the     *)
(* wire are, in this order, what was sent (Parser::feed, parse_message and  *)
(* consume_bytes).  Tearing an array does lose bytes, see Realigned.        *)
Conservation ==
  ~torn => SerializeMessages(parsed) \o buffer \o wire = SerializeMessages(sent)

(* Tearing an array loses its header and its elements up to the missing     *)
(* one, and nothing else: whatever was torn before, the next byte to be     *)
(* parsed is the first one of a message that was sent or of an element of   *)
(* one, never one inside a header or a payload (parse_array consumes only   *)
(* what it has read in full).                                               *)
Realigned ==
  LET parts == AllParts
      own   == [i \in DOMAIN parts |-> OwnBytes(parts[i])]
  IN  \E k \in 1 .. Len(own) + 1 : buffer \o wire = FlattenSeq(SubSeq(own, k, Len(own)))

RECURSIVE IsSubsequence(_, _)
IsSubsequence(s, t) ==
  \/ s = <<>>
  \/ /\ t # <<>>
     /\ IsSubsequence(IF Head(s) = Head(t) THEN Tail(s) ELSE s, Tail(t))

(* Until an array is torn, the messages come out equal to those sent and in *)
(* their order, so that deserialization inverts serialize, signs and        *)
(* nesting included.  After it, elements of the torn array may come out as  *)
(* if they were messages, but still nothing that was not sent, nothing      *)
(* twice and nothing out of order.                                          *)
InOrder ==
  /\ ~torn => IsPrefix(parsed, sent)
  /\ IsSubsequence(parsed, AllParts)

(* has_message announces a message that parse_message cannot deliver only   *)
(* when it is an array of which bytes have yet to be read.  It is the case  *)
(* that CommandHandler::handle_client says shouldn't happen.                *)
OnlyArraysTear ==
  HasMessage(buffer) /\ ParseMessage(buffer).msg = NullPtr => buffer[1] = ARRAY /\ wire # <<>>

(* Unless an array is torn, every message sent is delivered: no cut of the  *)
(* stream leaves the parser waiting for bytes that already came.            *)
Delivered == \A n \in 1 .. MaxSent : Len(sent) >= n ~> (Len(parsed) >= n \/ torn)

(* The parser never comes to rest on bytes, not even on those that a torn   *)
(* array leaves: what is buffered becomes messages, and the stream goes on. *)
Drained == []<>(buffer = <<>> /\ wire = <<>>)
=============================================================================
