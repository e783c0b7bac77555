------------------------------- MODULE Server -------------------------------
(***************************************************************************)
(* The server of main.cpp: TcpServer's accept loop, which serves one client *)
(* at a time in the main thread, the ClientConnection and its read buffer,  *)
(* the single CommandHandler every connection shares, with its protocol     *)
(* parser, and the signal handler that stops the server at any moment.      *)
(*                                                                          *)
(* A command is executed by the key-value store, which always returns some  *)
(* reply; here a reply is the request it answers.  A read ends where a      *)
(* request ends or after a byte of it that Cuts names.                      *)
(***************************************************************************)
EXTENDS Framing, FiniteSets

CONSTANTS Clients,
          Request(_, _),    \* the n-th request of a client, a protocol message
          MaxRequests,      \* bound on the requests of one client
          Cuts,             \* the bytes of a request after which a read may end
          ReadBufferSize,   \* READ_BUFFER_SIZE: the most bytes one read returns
          MaxBufferSize,    \* MAX_BUFFER_SIZE: the most bytes read_buffer_ holds
          NoClient

ASSUME ServerAssumption ==
  /\ MaxRequests \in Nat
  /\ MaxBufferSize \in Nat /\ ReadBufferSize \in 1 .. MaxBufferSize
  /\ Cuts \subseteq Nat \ {0}
  /\ NoClient \notin Clients
  /\ \A c \in Clients : \A n \in 1 .. MaxRequests :
       /\ Request(c, n) # NullPtr
       /\ serialize(Request(c, n)) \in Seq(Byte) \ {<<>>}
       /\ \A d \in Clients : \A k \in 1 .. MaxRequests :
            Request(c, n) = Request(d, k) => c = d /\ n = k

VARIABLES
  requests,             \* what each client has sent, in order
  stream,               \* the bytes of it the server has not read
  hung_up,              \* has the client closed its side?
  replies,              \* what the server wrote to each client
  waiting,              \* connections the listening socket holds
  current,              \* the client being served, or NoClient
  running,              \* TcpServer's flags, and whether listen_socket_ is open
  stop_requested,
  listening,
  pc,                   \* where the main thread is
  read_buffer,          \* ClientConnection::read_buffer_ of the current client
  parser,               \* the buffer of CommandHandler::parser_
  messages_processed,   \* locals of CommandHandler::handle_client
  connection_ok,
  executed,             \* the commands the store has executed
  stats,                \* CommandHandler's counters
  cut                   \* history: did some read end inside a request?

clientVars == <<requests, stream, hung_up>>
handlerVars == <<parser, messages_processed, connection_ok, executed, stats>>
stopVars == <<running, stop_requested, listening>>
vars == <<clientVars, handlerVars, stopVars, replies, waiting, current, pc, read_buffer, cut>>

(* A request on its way: at which of its bytes may a read stop, and which   *)
(* is its last?                                                             *)
OnWire(request) ==
  LET bytes == serialize(request)
  IN  [i \in 1 .. Len(bytes) |-> [byte |-> bytes[i],
                                 stop |-> i \in Cuts \cup {Len(bytes)},
                                 last |-> i = Len(bytes)]]

(* The first n bytes the current client's socket holds. *)
Received(n) == [i \in 1 .. n |-> stream[current][i].byte]

Connected(c) == c = current \/ (c \in waiting /\ listening)
-----------------------------------------------------------------------------
Init ==
  /\ requests = [c \in Clients |-> <<>>]
  /\ stream = [c \in Clients |-> <<>>]
  /\ hung_up = [c \in Clients |-> FALSE]
  /\ replies = [c \in Clients |-> <<>>]
  /\ waiting = Clients
  /\ current = NoClient
  /\ running = FALSE /\ stop_requested = FALSE
  /\ listening = TRUE
  /\ pc = "begin"
  /\ read_buffer = <<>>
  /\ parser = <<>>
  /\ messages_processed = 0
  /\ connection_ok = TRUE
  /\ executed = <<>>
  /\ stats = [connections_handled |-> 0, requests_processed |-> 0, errors_encountered |-> 0]
  /\ cut = FALSE

(* A client sends its next request, possibly before the server accepts it   *)
(* and without waiting for earlier replies.                                 *)
Send(c) ==
  /\ Connected(c) /\ ~hung_up[c]
  /\ Len(requests[c]) < MaxRequests
  /\ LET request == Request(c, Len(requests[c]) + 1)
     IN  /\ requests' = [requests EXCEPT ![c] = Append(@, request)]
         /\ stream' = [stream EXCEPT ![c] = @ \o OnWire(request)]
  /\ UNCHANGED <<hung_up, handlerVars, stopVars, replies, waiting, current, pc, read_buffer, cut>>

(* A client closes its socket, whatever it is still owed. *)
HangUp(c) ==
  /\ Connected(c) /\ ~hung_up[c]
  /\ hung_up' = [hung_up EXCEPT ![c] = TRUE]
  /\ UNCHANGED <<requests, stream, handlerVars, stopVars, replies, waiting, current, pc, read_buffer, cut>>

stopKeepsListening ==    \* mutant: accept is left waiting for another client
  /\ running' = FALSE
  /\ stop_requested' = TRUE
  /\ UNCHANGED <<clientVars, handlerVars, replies, waiting, current, pc, read_buffer, cut, listening>>

(* A signal runs TcpServer::stop on the main thread, wherever that is.      *)
(* There is no server thread to join, and no code adds to connections_, so  *)
(* the client being served keeps its connection.                            *)
stop ==
  /\ pc \notin {"stopped", "killed"}
  /\ stop_requested' = TRUE
  /\ listening' = FALSE
  /\ running' = FALSE
  /\ UNCHANGED <<clientVars, handlerVars, replies, waiting, current, pc, read_buffer, cut>>

(* run_blocking begins: nothing is served without a listening socket. *)
run_blocking ==
  /\ pc = "begin"
  /\ pc' = IF listening THEN "set" ELSE "stopped"
  /\ UNCHANGED <<clientVars, handlerVars, stopVars, replies, waiting, current, read_buffer, cut>>

(* It sets running_, and on the next line clears stop_requested_: a stop    *)
(* that came just before the two is forgotten.                              *)
SetRunning ==
  /\ pc = "set"
  /\ running' = TRUE
  /\ pc' = "start"
  /\ UNCHANGED <<clientVars, handlerVars, stop_requested, listening,
                 replies, waiting, current, read_buffer, cut>>

ClearStop ==
  /\ pc = "start"
  /\ stop_requested' = FALSE
  /\ pc' = "while"
  /\ UNCHANGED <<clientVars, handlerVars, running, listening,
                 replies, waiting, current, read_buffer, cut>>

(* The condition of the accept loop, and the end of run_blocking. *)
While ==
  /\ pc = "while"
  /\ \/ running /\ ~stop_requested /\ pc' = "accept" /\ UNCHANGED running
     \/ ~(running /\ ~stop_requested) /\ pc' = "stopped" /\ running' = FALSE
  /\ UNCHANGED <<clientVars, handlerVars, stop_requested, listening,
                 replies, waiting, current, read_buffer, cut>>

(* accept fails on the socket stop closed; the loop goes on. *)
AcceptInvalid ==
  /\ pc = "accept" /\ ~listening
  /\ pc' = "while"
  /\ UNCHANGED <<clientVars, handlerVars, stopVars, replies, waiting, current, read_buffer, cut>>

(* TcpServer::run_blocking takes a connection and makes it the one it       *)
(* serves until it ends.                                                    *)
accept(c) ==
  /\ pc = "accept" /\ listening
  /\ waiting' = waiting \ {c}
  /\ current' = c
  /\ pc' = "read"
  /\ UNCHANGED <<clientVars, handlerVars, stopVars, replies, read_buffer, cut>>

(* TcpServer::handle_client leaves its loop: the connection is closed, its  *)
(* buffer emptied, and the accept loop goes on; cleanup_connections has     *)
(* nothing to clean.                                                        *)
Close ==
  /\ current' = NoClient
  /\ read_buffer' = <<>>
  /\ pc' = "while"

(* ClientConnection::read gets n bytes; too many close the connection.      *)
read(n) ==
  /\ pc = "read" /\ n \in 1 .. Len(stream[current])
  /\ n <= ReadBufferSize /\ stream[current][n].stop
  /\ IF Len(read_buffer) + n > MaxBufferSize
     THEN Close
     ELSE /\ read_buffer' = read_buffer \o Received(n)
          /\ pc' = "feed"
          /\ UNCHANGED current
  /\ stream' = [stream EXCEPT ![current] = SubSeq(@, n + 1, Len(@))]
  /\ cut' = (cut \/ ~stream[current][n].last)
  /\ UNCHANGED <<requests, hung_up, handlerVars, stopVars, replies, waiting>>

ReadEndRetries ==    \* mutant: a read of 0 bytes is taken for "no data yet"
  /\ pc = "read" /\ hung_up[current] /\ stream[current] # <<>>
  /\ Close
  /\ UNCHANGED <<clientVars, handlerVars, stopVars, replies, waiting, cut>>

(* read returns 0, or an error that discards what the client had sent.      *)
ReadEnd ==
  /\ pc = "read" /\ hung_up[current]
  /\ Close
  /\ UNCHANGED <<clientVars, handlerVars, stopVars, replies, waiting, cut>>

(* CommandHandler::handle_client begins: the whole read buffer goes to the  *)
(* parser.  The buffer is never empty here, since a read brought bytes.     *)
feed ==
  /\ pc = "feed"
  /\ stats' = [stats EXCEPT !.connections_handled = @ + 1]
  /\ parser' = parser \o read_buffer
  /\ messages_processed' = 0
  /\ connection_ok' = TRUE
  /\ pc' = "loop"
  /\ UNCHANGED <<clientVars, stopVars, replies, waiting, current, read_buffer, executed, cut>>

(* has_message said yes and parse_message returned null. *)
ParseFailed ==
  /\ pc = "loop" /\ has_message(parser)
  /\ LET result == parse_message(parser)
     IN  result.msg = NullPtr /\ parser' = result.rest
  /\ stats' = [stats EXCEPT !.errors_encountered = @ + 1]
  /\ pc' = "consume"
  /\ UNCHANGED <<clientVars, stopVars, replies, waiting, current, read_buffer,
                 messages_processed, connection_ok, executed, cut>>

(* send_response wrote the whole reply.  It may do so after the client has  *)
(* gone, as long as its socket has not said so.                             *)
Reply(request) ==
  /\ replies' = [replies EXCEPT ![current] = Append(@, request)]
  /\ messages_processed' = messages_processed + 1
  /\ stats' = [stats EXCEPT !.requests_processed = @ + 1]
  /\ UNCHANGED <<pc, connection_ok, current, read_buffer, listening>>

(* The write failed, which takes a client that is gone; it closes the       *)
(* connection, which empties the read buffer.  What else the parser holds   *)
(* stays there.                                                             *)
ReplyFailed ==
  /\ hung_up[current]
  /\ connection_ok' = FALSE
  /\ read_buffer' = <<>>
  /\ stats' = [stats EXCEPT !.requests_processed = @ + 1, !.errors_encountered = @ + 1]
  /\ pc' = "consume"
  /\ UNCHANGED <<replies, messages_processed, current, listening>>

(* Or the write raised SIGPIPE, which Socket::send does not suppress and    *)
(* for which main installs no handler: the process is gone.                 *)
ReplyKills ==
  /\ hung_up[current]
  /\ pc' = "killed"
  /\ current' = NoClient
  /\ read_buffer' = <<>>
  /\ listening' = FALSE
  /\ stats' = [stats EXCEPT !.requests_processed = @ + 1]
  /\ UNCHANGED <<replies, messages_processed, connection_ok>>

process_request_retries ==    \* mutant: a request whose reply was lost is put back
  /\ pc = "loop" /\ has_message(parser)
  /\ LET result == parse_message(parser)
     IN  /\ result.msg # NullPtr
         /\ executed' = Append(executed, result.msg)
         /\ \/ (Reply(result.msg) \/ ReplyKills) /\ parser' = result.rest
            \/ ReplyFailed /\ UNCHANGED parser
  /\ UNCHANGED <<clientVars, running, stop_requested, waiting, cut>>

(* One turn of the loop: parse a request, execute it, write its reply. *)
process_request ==
  /\ pc = "loop" /\ has_message(parser)
  /\ LET result == parse_message(parser)
     IN  /\ result.msg # NullPtr
         /\ parser' = result.rest
         /\ executed' = Append(executed, result.msg)
         /\ Reply(result.msg) \/ ReplyFailed \/ ReplyKills
  /\ UNCHANGED <<clientVars, running, stop_requested, waiting, cut>>

LoopDoneAfterOne ==    \* mutant: one request per read
  /\ pc = "loop" /\ (~has_message(parser) \/ messages_processed > 0)
  /\ pc' = "consume"
  /\ UNCHANGED <<clientVars, handlerVars, stopVars, replies, waiting, current, read_buffer, cut>>

LoopDone ==
  /\ pc = "loop" /\ ~has_message(parser)
  /\ pc' = "consume"
  /\ UNCHANGED <<clientVars, handlerVars, stopVars, replies, waiting, current, read_buffer, cut>>

consumeNothing ==    \* mutant: processed bytes stay in the read buffer
  /\ pc = "consume"
  /\ \/ connection_ok /\ pc' = "read" /\ UNCHANGED <<current, read_buffer>>
     \/ ~connection_ok /\ Close
  /\ UNCHANGED <<clientVars, handlerVars, stopVars, replies, waiting, cut>>

(* handle_client ends: the read buffer is consumed only when some message   *)
(* was processed, otherwise its bytes stay, and are fed again.              *)
consume ==
  /\ pc = "consume"
  /\ \/ /\ connection_ok
        /\ read_buffer' = IF messages_processed > 0 THEN <<>> ELSE read_buffer
        /\ pc' = "read"
        /\ UNCHANGED current
     \/ ~connection_ok /\ Close
  /\ UNCHANGED <<clientVars, handlerVars, stopVars, replies, waiting, cut>>

ServerStep ==
  \/ run_blocking \/ SetRunning \/ ClearStop \/ While \/ AcceptInvalid
  \/ \E c \in waiting : accept(c)
  \/ pc = "read" /\ \E n \in 1 .. Len(stream[current]) : read(n)
  \/ ReadEnd
  \/ feed \/ ParseFailed \/ process_request \/ LoopDone \/ consume

Next == ServerStep \/ stop \/ \E c \in Clients : Send(c) \/ HangUp(c)

Spec == Init /\ [][Next]_vars

(* The main thread runs while it can: accept and recv return when there is  *)
(* something to return.  Clients owe nothing, and no signal need come.      *)
FairSpec == Spec /\ WF_vars(ServerStep)
-----------------------------------------------------------------------------
(* The parser finds a whole request at the front of its buffer, whatever of *)
(* these tails follows it (Parser::has_message, parse_message).             *)
RequestsFramed(tails) ==
  /\ ~has_message(<<>>)
  /\ \A c \in Clients : \A n \in 1 .. MaxRequests : \A tail \in tails : Framed(Request(c, n), tail)

(* Types; a client is being served exactly when the main thread is inside   *)
(* TcpServer::handle_client.                                                *)
TypeOK ==
  /\ current \in Clients \cup {NoClient}
  /\ current # NoClient <=> pc \in {"read", "feed", "loop", "consume"}
  /\ pc \notin {"read", "feed", "loop", "consume"} =>
       pc \in {"begin", "set", "start", "while", "accept", "stopped", "killed"}
  /\ waiting \subseteq Clients \ {current}
  /\ Len(read_buffer) <= MaxBufferSize
  /\ messages_processed \in 0 .. Len(executed)
  /\ stats.requests_processed = Len(executed)

(* The replies that client c gets without having asked: to requests that    *)
(* other clients sent and did not wait for.                                 *)
Strays(c) == UNION {Range(requests[d]) : d \in {d \in Clients \ {c} : hung_up[d]}}

(* As long as every read ends where a request ends, a client gets the       *)
(* replies to its own requests, in their order and with no other among      *)
(* them.  Before them it gets replies it did not ask for once a write has   *)
(* failed: the client that left in the middle of its answers leaves the     *)
(* rest of its requests in the parser that all connections share            *)
(* (CommandHandler::handle_client, make_command_handler).                   *)
OwnReplies ==
  cut \/ \A c \in Clients : \E k \in 0 .. Len(replies[c]) :
           /\ stats.errors_encountered = 0 => k = 0
           /\ \A i \in 1 .. k : replies[c][i] \in Strays(c)
           /\ IsPrefix(SubSeq(replies[c], k + 1, Len(replies[c])), requests[c])

(* The store executes only what a client sent, and each request at most     *)
(* once: neither the read buffer that is fed again nor a lost reply repeats *)
(* a command (CommandHandler::handle_client).                               *)
ExecutedOnce ==
  /\ IsInjective(executed)
  /\ Range(executed) \subseteq UNION {Range(requests[c]) : c \in Clients}

(* The same, as long as every read ends where a request ends. *)
WholeExecutedOnce == cut \/ ExecutedOnce

(* Every request of the client being served is answered while the client    *)
(* stays and no read has cut a request, the later ones of a pipelined batch *)
(* and those that come after a stop included (CommandHandler::handle_client).*)
Answered ==
  \A c \in Clients : \A n \in 1 .. MaxRequests :
    (current = c /\ Len(requests[c]) >= n) ~>
       (Request(c, n) \in Range(replies[c]) \/ hung_up[c] \/ cut)

(* A client that is gone does not hold the only thread, whichever of its    *)
(* requests it sent and reads cut after a header: it is let go, unless it   *)
(* takes the process with it.  The loops of the two handle_client neither   *)
(* spin nor block.                                                          *)
Released == \A c \in Clients : (current = c /\ hung_up[c]) ~> current # c

(* Once the accept loop is entered, a signal ends it, except that the       *)
(* client being served is served until it leaves, which may kill the        *)
(* process: accept does not stay blocked on the socket stop() closed, and   *)
(* no flag is lost between the loop's condition and accept                  *)
(* (TcpServer::run_blocking, TcpServer::stop).                              *)
Stops ==
  (stop_requested /\ pc \notin {"begin", "set", "start"}) ~>
     (pc \in {"stopped", "killed"} \/ (current # NoClient /\ ~hung_up[current]))
=============================================================================
