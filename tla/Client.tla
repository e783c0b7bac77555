------------------------------- MODULE Client -------------------------------
(***************************************************************************)
(* The client library: RedisClient over TcpClient, one thread, one command  *)
(* at a time, with a parser on the bytes it receives.  The peer is          *)
(* external: it answers the commands of a connection in order, or closes    *)
(* it.  Bytes on their way may be late, so any receive may time out; a read *)
(* may end after any byte.  Command k is the k-th call of execute() and     *)
(* Reply(k) what the peer answers; the replies are pairwise different.      *)
(***************************************************************************)
EXTENDS Framing

CONSTANTS Reply(_),      \* the peer's reply to command k
          NoReply,       \* the error_response the library makes itself
          MaxCommands,   \* bound on the calls of execute()
          MaxConnects    \* bound on the calls of connect()

ASSUME ClientAssumption ==
  /\ MaxCommands \in Nat /\ MaxConnects \in Nat
  /\ \A k \in 1 .. MaxCommands :
       /\ Reply(k) \notin {NullPtr, NoReply}
       /\ serialize(Reply(k)) \in Seq(Byte) \ {<<>>}
       /\ \A j \in 1 .. MaxCommands : Reply(j) = Reply(k) => j = k

VARIABLES connected,     \* TcpClient::connected_
          peer,          \* the socket: none, open, refused or closed by the peer
          pending,       \* bytes of replies on this connection the peer has to write
          wire,          \* bytes on their way to the client
          parser,        \* RedisClient::parser_, its buffer
          pc,            \* where send_command is
          results,       \* what each command returned
          late,          \* history: has a receive timed out?
          astray,        \* history: has the parser lost its place?
          connects       \* calls of connect() so far

vars == <<connected, peer, pending, wire, parser, pc, results, late, astray, connects>>

Init ==
  /\ connected = FALSE /\ peer = "none" /\ pending = <<>> /\ wire = <<>>
  /\ parser = <<>> /\ pc = "idle" /\ results = <<>> /\ late = FALSE /\ astray = FALSE
  /\ connects = 0
-----------------------------------------------------------------------------
(* TcpClient::connect with a timeout, after its disconnect() and the new    *)
(* socket: a non-blocking connect succeeds at once, or is in progress; then *)
(* select() waits for the socket to become readable, which it does when the *)
(* peer refused or has closed again, and not when the connection was made.  *)
(* Without a socket there is nothing to wait for.  The parser keeps what it *)
(* held, and what the new connection brings goes behind that.               *)
connect ==
  /\ pc = "idle" /\ connects < MaxConnects
  /\ connects' = connects + 1
  /\ \/ connected' = TRUE  /\ peer' \in {"open", "refused", "closed"}
     \/ connected' = FALSE /\ peer' \in {"none", "open"}
  /\ pending' = <<>> /\ wire' = <<>>
  /\ astray' = (astray \/ parser # <<>>)
  /\ UNCHANGED <<parser, pc, results, late>>

Dropped == connected' = FALSE /\ peer' = "none" /\ pending' = <<>> /\ wire' = <<>>

disconnect ==
  /\ pc = "idle" /\ connected
  /\ Dropped
  /\ UNCHANGED <<parser, pc, results, late, astray, connects>>

Returns(r) == results' = Append(results, r) /\ pc' = "idle"

(* send_command up to the first receive.  The loop of send_raw writes to a  *)
(* blocking socket, so it stays in "send" as long as the peer reads nothing *)
(* and the buffers are full; writing to a peer that is gone fails, or the   *)
(* signal SIGPIPE, which nothing catches, ends the process.                 *)
NotConnected ==
  /\ pc = "idle" /\ Len(results) < MaxCommands
  /\ ~connected
  /\ Returns(NoReply)
  /\ UNCHANGED <<connected, peer, pending, wire, parser, late, astray, connects>>

send_command ==
  /\ pc = "idle" /\ Len(results) < MaxCommands
  /\ connected
  /\ pc' = "send"
  /\ UNCHANGED <<connected, peer, pending, wire, parser, results, late, astray, connects>>

Sent ==
  /\ pc = "send" /\ peer # "refused"
  /\ pc' = "receive"
  /\ pending' = IF peer = "open" THEN pending \o serialize(Reply(Len(results) + 1))
                ELSE pending
  /\ UNCHANGED <<connected, peer, wire, parser, results, late, astray, connects>>

SendFails ==
  /\ pc = "send"
  /\ Dropped
  /\ Returns(NoReply)
  /\ UNCHANGED <<parser, late, astray, connects>>

SendKills ==
  /\ pc = "send" /\ peer = "closed"
  /\ pc' = "killed"
  /\ UNCHANGED <<connected, peer, pending, wire, parser, results, late, astray, connects>>

send_raw == Sent \/ SendFails \/ SendKills

(* receive_with_timeout, the first one and those of the loop, which ends    *)
(* when there is a message or no connection.                                *)
Receiving == pc = "receive" \/ (pc = "loop" /\ connected /\ ~has_message(parser))

ReceiveBytes ==
  /\ Receiving
  /\ \E n \in 1 .. Len(wire) :
       /\ parser' = parser \o SubSeq(wire, 1, n)
       /\ wire' = SubSeq(wire, n + 1, Len(wire))
  /\ pc' = "loop"
  /\ UNCHANGED <<connected, peer, pending, results, late, astray, connects>>

(* What the last lines of send_command return for a parser with this buffer.*)
Answer(buf) ==
  IF parse_message(buf).msg = NullPtr THEN NoReply ELSE parse_message(buf).msg

RestKept(buf) ==    \* mutant: the message stays in the buffer
  buf

Rest(buf) == parse_message(buf).rest

(* The message an array's header announces may not be there: parse_message  *)
(* returns nothing, and what it took is gone.                               *)
Parse ==
  /\ Returns(Answer(parser)) /\ parser' = Rest(parser)
  /\ astray' = (astray \/ (has_message(parser) /\ parse_message(parser).msg = NullPtr))

NothingRead == Returns(NoReply) /\ UNCHANGED <<parser, astray>>

(* A timeout: the first receive gives up, the loop parses what there is.    *)
(* The connection stays.                                                    *)
ReceiveTimeoutAgain ==    \* mutant: the loop goes on after a timeout
  /\ Receiving
  /\ late' = TRUE
  /\ \/ pc = "receive" /\ NothingRead
     \/ pc = "loop" /\ UNCHANGED <<pc, results, parser, astray>>
  /\ UNCHANGED <<connected, peer, pending, wire, connects>>

ReceiveTimeout ==
  /\ Receiving
  /\ late' = TRUE
  /\ \/ pc = "receive" /\ NothingRead
     \/ pc = "loop" /\ Parse
  /\ UNCHANGED <<connected, peer, pending, wire, connects>>

(* recv() returns 0 or an error after the last byte: disconnect().          *)
ReceiveEnd ==
  /\ Receiving
  /\ peer = "closed" /\ wire = <<>>
  /\ Dropped
  /\ \/ pc = "receive" /\ NothingRead
     \/ pc = "loop" /\ Parse
  /\ UNCHANGED <<late, connects>>

ParsedEarly ==    \* mutant: parses after one receive, message or not
  /\ pc = "loop"
  /\ Parse
  /\ UNCHANGED <<connected, peer, pending, wire, late, connects>>

ParseReply ==
  /\ pc = "loop" /\ has_message(parser)
  /\ Parse
  /\ UNCHANGED <<connected, peer, pending, wire, late, connects>>
-----------------------------------------------------------------------------
(* The peer: it writes its replies in order, in as many parts as it likes,  *)
(* falls silent, or closes, perhaps in the middle of one.                   *)
PeerWrites ==
  /\ peer = "open"
  /\ \E n \in 1 .. Len(pending) :
       /\ wire' = wire \o SubSeq(pending, 1, n)
       /\ pending' = SubSeq(pending, n + 1, Len(pending))
  /\ UNCHANGED <<connected, peer, parser, pc, results, late, astray, connects>>

PeerCloses ==
  /\ peer = "open" /\ connected
  /\ peer' = "closed" /\ pending' = <<>>
  /\ UNCHANGED <<connected, wire, parser, pc, results, late, astray, connects>>

ClientStep == ReceiveBytes \/ ReceiveTimeout \/ ReceiveEnd \/ ParseReply

Next ==
  \/ connect \/ disconnect
  \/ NotConnected \/ send_command \/ send_raw
  \/ ClientStep
  \/ PeerWrites \/ PeerCloses

Spec == Init /\ [][Next]_vars

(* A call of execute() that waits for its reply goes on: select() returns   *)
(* when its time is over if nothing arrives before.  The peer owes nothing, *)
(* and a blocking send nothing either.                                      *)
FairSpec == Spec /\ WF_vars(ClientStep)
-----------------------------------------------------------------------------
(* The parser finds a whole reply at the front of its buffer, whatever of   *)
(* these tails follows it; one that is not all there it leaves alone, or,   *)
(* if it is an array, tears (Parser::has_message, parse_message).           *)
RepliesFramed(tails) ==
  /\ ~has_message(<<>>) /\ parse_message(<<>>) = [msg |-> NullPtr, rest |-> <<>>]
  /\ \A k \in 1 .. MaxCommands :
       /\ \A tail \in tails : Framed(Reply(k), tail)
       /\ \A n \in 1 .. Len(serialize(Reply(k))) - 1 : Awaited(Reply(k), n) \/ Torn(Reply(k), n)

(* The answer to a command is its own, or an error of the library, never a  *)
(* null message (RedisClient::send_command).                                *)
Paired == \A k \in DOMAIN results : results[k] \in {NoReply, Reply(k)}

(* Over any number of connections, wherever reads cut the replies and the   *)
(* peer closes: two things can pair a command with the reply of another, a  *)
(* receive that has timed out before, or a parser that lost its place.  It  *)
(* loses that in two ways only: an array was announced and torn, or         *)
(* connect() found bytes of the connection before in it.                    *)
PairedUntilLate == ~late /\ ~astray => Paired

(* Timeouts or not, a reply is returned at most once and never before its   *)
(* command: until the parser loses its place the library may fall behind    *)
(* the replies of a connection, but not run ahead of them or between two.   *)
Once ==
  \A k \in DOMAIN results :
    results[k] # NoReply =>
      \E j \in 1 .. k :
        /\ results[k] = Reply(j)
        /\ \A i \in 1 .. k - 1 : results[i] # Reply(j)

NoReplyTwice == ~astray => Once

(* Every command that has been sent returns, though the peer may never      *)
(* answer, and however the parser has lost its place.                       *)
CommandsEnd == (pc \in {"receive", "loop"}) ~> (pc = "idle")
=============================================================================
