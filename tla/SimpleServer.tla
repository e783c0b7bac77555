---------------------------- MODULE SimpleServer ----------------------------
(***************************************************************************)
(* simple_server.cpp: a single-threaded server around poll(), with one     *)
(* Conn per file descriptor and a length before every request and reply.   *)
(*                                                                          *)
(* The framing is exact, so the bytes of a connection are those of the      *)
(* requests its client sent, one after the other, and it is enough to       *)
(* count them.  Clients run on their own: they connect, send without        *)
(* waiting for replies, and leave at any moment.                            *)
(***************************************************************************)
EXTENDS Integers, Sequences, FiniteSets

CONSTANTS Clients,
          Fds,           \* the descriptors accept() may return: enough for all
          Requests,      \* what each client may send: [cmd, key, value, len]
          Keys, Values,
          KMaxMsg,       \* k_max_msg, in bytes
          HeaderSize,    \* bytes of the length before a message (4)
          MaxRequests,   \* bound on the number of requests of each client
          Empty, Null    \* the empty string; no connection

RequestType == [cmd : STRING, key : Keys, value : Values, len : Nat]

(* What goes back to a client: lengths, and texts that are not empty. *)
PieceType == [client : Clients, reply : Nat, part : {"length", "text"},
              text : Values \cup {Empty, "PONG", "OK", "ERROR"}]

(* struct Conn: incoming is the number of bytes in the buffer. *)
ConnType == [client : Clients, want_read : BOOLEAN, want_write : BOOLEAN,
             want_close : BOOLEAN, incoming : 0 .. KMaxMsg, outgoing : Seq(PieceType)]

ASSUME SimpleServerAssumption ==
  /\ Fds \subseteq Nat /\ IsFiniteSet(Fds) /\ IsFiniteSet(Clients)
  /\ Cardinality(Fds) >= Cardinality(Clients)
  /\ KMaxMsg \in Nat /\ HeaderSize \in Nat \ {0} /\ HeaderSize < KMaxMsg
  /\ MaxRequests \in [Clients -> Nat]
  /\ \A c \in Clients : \A r \in Requests[c] : r \in RequestType
  /\ Null \notin ConnType

VARIABLES
  sent,           \* the requests each client has sent
  unread,         \* how many bytes of them are still in the socket
  gone,           \* has the client closed its side?
  received,       \* the pieces of replies each client has got
  backlog,        \* clients waiting in the listening socket
  closed,         \* clients whose connection the server has closed
  fd2conn,        \* fd2conn: the Conn of each descriptor, or Null
  g_map,          \* g_map: the value of each key, or Empty
  poll_args,      \* poll_args not handled yet: [fd, in, out], revents only
  pc,             \* where main() is
  up,             \* running, aborted (an assert), killed (SIGPIPE) or died (poll)
  done,           \* history: how many requests of a client were consumed
  promised        \* history: every piece appended to a client's replies

clientVars == <<sent, gone>>
loopVars == <<backlog, closed, fd2conn, g_map, poll_args, pc, up>>
history == <<done, promised>>
vars == <<clientVars, unread, received, loopVars, history>>

NewConn(c) == [client |-> c, want_read |-> TRUE, want_write |-> FALSE,
               want_close |-> FALSE, incoming |-> 0, outgoing |-> <<>>]

Init ==
  /\ sent = [c \in Clients |-> <<>>]
  /\ unread = [c \in Clients |-> 0]
  /\ gone = [c \in Clients |-> FALSE]
  /\ received = [c \in Clients |-> <<>>]
  /\ backlog = {}
  /\ closed = {}
  /\ fd2conn = [fd \in Fds |-> Null]
  /\ g_map = [k \in Keys |-> Empty]
  /\ poll_args = <<>>
  /\ pc = "poll"
  /\ up = "running"
  /\ done = [c \in Clients |-> 0]
  /\ promised = [c \in Clients |-> <<>>]

Live == {fd \in Fds : fd2conn[fd] # Null}
Connected == {fd2conn[fd].client : fd \in Live}
-----------------------------------------------------------------------------
(* The clients. *)
Connect(c) ==
  /\ c \notin backlog \cup Connected \cup closed /\ ~gone[c]
  /\ backlog' = backlog \cup {c}
  /\ UNCHANGED <<clientVars, unread, received, closed, fd2conn, g_map, poll_args, pc, up, history>>

Send(c) ==
  /\ c \in backlog \cup Connected /\ ~gone[c]
  /\ Len(sent[c]) < MaxRequests[c]
  /\ \E r \in Requests[c] :
       /\ sent' = [sent EXCEPT ![c] = Append(@, r)]
       /\ unread' = [unread EXCEPT ![c] = @ + HeaderSize + r.len]
  /\ UNCHANGED <<gone, received, loopVars, history>>

HangUp(c) ==
  /\ c \in backlog \cup Connected /\ ~gone[c]
  /\ gone' = [gone EXCEPT ![c] = TRUE]
  /\ UNCHANGED <<sent, unread, received, loopVars, history>>
-----------------------------------------------------------------------------
Readable(c) == unread[c] > 0 \/ gone[c]

(* The entries of poll_args with revents, in the order of fd2conn: fds are  *)
(* the descriptors that poll() reports.                                     *)
Reported(fds) ==
  LET Position(fd) == Cardinality({f \in fds : f <= fd})
  IN  [n \in 1 .. Cardinality(fds) |->
        LET fd == CHOOSE f \in fds : Position(f) = n
        IN  [fd |-> fd,
             in |-> fd2conn[fd].want_read /\ Readable(fd2conn[fd].client),
             out |-> fd2conn[fd].want_write]]

(* poll() returns because of a connection, or of the listening socket. *)
poll ==
  /\ pc = "poll" /\ up = "running"
  /\ LET ready == {fd \in Live : \/ fd2conn[fd].want_write
                                 \/ fd2conn[fd].want_read /\ Readable(fd2conn[fd].client)}
     IN  /\ ready # {} \/ backlog # {}
         /\ poll_args' = Reported(ready)
  /\ pc' = IF backlog # {} THEN "accept" ELSE "handle"
  /\ UNCHANGED <<clientVars, unread, received, backlog, closed, fd2conn, g_map, up, history>>

(* die(): poll() itself fails, a signal interrupts it for one. *)
PollDies ==
  /\ pc = "poll" /\ up = "running"
  /\ up' = "died"
  /\ UNCHANGED <<clientVars, unread, received, backlog, closed, fd2conn, g_map, poll_args, pc, history>>

handle_acceptKeeps(c, fd) ==    \* mutant: the Conn of the descriptor's last user is taken over
  /\ pc = "accept" /\ c \in backlog
  /\ fd \notin Live /\ \A f \in Fds \ Live : fd <= f
  /\ fd2conn' = [fd2conn EXCEPT ![fd] =
       [NewConn(c) EXCEPT !.outgoing = IF closed = {} THEN <<>> ELSE promised[CHOOSE d \in closed : TRUE]]]
  /\ backlog' = backlog \ {c}
  /\ pc' = "handle"
  /\ UNCHANGED <<clientVars, unread, received, closed, g_map, poll_args, up, history>>

(* accept() gives the lowest free descriptor. *)
handle_accept(c, fd) ==
  /\ pc = "accept" /\ c \in backlog
  /\ fd \notin Live /\ \A f \in Fds \ Live : fd <= f
  /\ fd2conn' = [fd2conn EXCEPT ![fd] = NewConn(c)]
  /\ backlog' = backlog \ {c}
  /\ pc' = "handle"
  /\ UNCHANGED <<clientVars, unread, received, closed, g_map, poll_args, up, history>>

(* accept() fails because the client has left. *)
AcceptError(c) ==
  /\ pc = "accept" /\ c \in backlog /\ gone[c]
  /\ backlog' = backlog \ {c}
  /\ closed' = closed \cup {c}
  /\ pc' = "handle"
  /\ UNCHANGED <<clientVars, unread, received, fd2conn, g_map, poll_args, up, history>>

HandledAll ==
  /\ pc = "handle" /\ poll_args = <<>>
  /\ pc' = "poll"
  /\ UNCHANGED <<clientVars, unread, received, backlog, closed, fd2conn, g_map, poll_args, up, history>>
-----------------------------------------------------------------------------
(* The connection at hand: the first entry of poll_args. *)
Fd == Head(poll_args).fd
Conn == fd2conn[Fd]

Update(conn) == fd2conn' = [fd2conn EXCEPT ![Fd] = conn]

Reading == pc = "handle" /\ poll_args # <<>> /\ Head(poll_args).in /\ Conn.want_read

(* assert(conn->incoming.size() < k_max_msg) *)
ReadAsserts ==
  /\ Reading /\ Conn.incoming >= KMaxMsg
  /\ up' = "aborted" /\ pc' = "down"
  /\ UNCHANGED <<clientVars, unread, received, backlog, closed, fd2conn, g_map, poll_args, history>>

handle_readPast(n) ==    \* mutant: the buffer may hold a header more
  /\ Reading /\ Conn.incoming < KMaxMsg
  /\ n \in 1 .. unread[Conn.client] /\ n <= KMaxMsg + HeaderSize - Conn.incoming
  /\ Update([Conn EXCEPT !.incoming = @ + n])
  /\ unread' = [unread EXCEPT ![Conn.client] = @ - n]
  /\ pc' = "requests"
  /\ UNCHANGED <<clientVars, received, backlog, closed, g_map, poll_args, up, history>>

(* read() gets n bytes, at most what is free of k_max_msg.  It does not     *)
(* return EAGAIN: poll() has said that there is something to read.          *)
handle_read(n) ==
  /\ Reading /\ Conn.incoming < KMaxMsg
  /\ n \in 1 .. unread[Conn.client] /\ n <= KMaxMsg - Conn.incoming
  /\ Update([Conn EXCEPT !.incoming = @ + n])
  /\ unread' = [unread EXCEPT ![Conn.client] = @ - n]
  /\ pc' = "requests"
  /\ UNCHANGED <<clientVars, received, backlog, closed, g_map, poll_args, up, history>>

(* End of file, or an error of a connection whose client has left.  The     *)
(* buffer keeps the size it was given for the read.                         *)
ReadEnd ==
  /\ Reading /\ Conn.incoming < KMaxMsg /\ gone[Conn.client]
  /\ Update([Conn EXCEPT !.want_close = TRUE, !.incoming = KMaxMsg])
  /\ pc' = "write"
  /\ UNCHANGED <<clientVars, unread, received, backlog, closed, g_map, poll_args, up, history>>

NoRead ==
  /\ pc = "handle" /\ poll_args # <<>> /\ ~Reading
  /\ pc' = "write"
  /\ UNCHANGED <<clientVars, unread, received, backlog, closed, fd2conn, g_map, poll_args, up, history>>
-----------------------------------------------------------------------------
(* What do_request answers: some text, the empty string for a key without a *)
(* value, or nothing at all for a GET without an argument or a SET without  *)
(* two.                                                                     *)
Answers(r) == r.cmd # "INCOMPLETE"

Text(r) ==
  CASE r.cmd = "PING" -> "PONG"
    [] r.cmd = "GET" -> g_map[r.key]
    [] r.cmd = "SET" -> "OK"
    [] OTHER -> "ERROR"

(* The n-th reply of client c as it goes on the wire: its length, and its   *)
(* text unless that is empty.                                               *)
Pieces(c, n, text) ==
  IF text = Empty THEN <<[client |-> c, reply |-> n, part |-> "length", text |-> Empty]>>
  ELSE <<[client |-> c, reply |-> n, part |-> "length", text |-> Empty],
         [client |-> c, reply |-> n, part |-> "text", text |-> text]>>

do_request(r, c) == IF Answers(r) THEN Pieces(c, done[c] + 1, Text(r)) ELSE <<>>

NextRequest == sent[Conn.client][done[Conn.client] + 1]

(* The three ways try_one_request() returns false. *)
TooLong == Conn.incoming >= HeaderSize /\ NextRequest.len > KMaxMsg

Incomplete ==
  Conn.incoming < HeaderSize + (IF Conn.incoming < HeaderSize THEN 0 ELSE NextRequest.len)

NoRequest ==
  /\ pc = "requests"
  /\ \/ TooLong /\ Update([Conn EXCEPT !.want_close = TRUE])
     \/ ~TooLong /\ Incomplete /\ UNCHANGED fd2conn
  /\ pc' = "write"
  /\ UNCHANGED <<clientVars, unread, received, backlog, closed, g_map, poll_args, up, history>>

try_one_requestOnce ==    \* mutant: the loop of handle_read ends after one request
  /\ pc = "requests" /\ ~TooLong /\ ~Incomplete
  /\ LET c == Conn.client
         r == NextRequest
         reply == do_request(r, c)
     IN  /\ Update([Conn EXCEPT !.incoming = @ - (HeaderSize + r.len),
                                !.outgoing = @ \o reply, !.want_write = TRUE])
         /\ g_map' = IF r.cmd = "SET" THEN [g_map EXCEPT ![r.key] = r.value] ELSE g_map
         /\ done' = [done EXCEPT ![c] = @ + 1]
         /\ promised' = [promised EXCEPT ![c] = @ \o reply]
  /\ pc' = "write"
  /\ UNCHANGED <<clientVars, unread, received, backlog, closed, poll_args, up>>

(* A complete request: executed, consumed, and its reply to be written. *)
try_one_request ==
  /\ pc = "requests" /\ ~TooLong /\ ~Incomplete
  /\ LET c == Conn.client
         r == NextRequest
         reply == do_request(r, c)
     IN  /\ Update([Conn EXCEPT !.incoming = @ - (HeaderSize + r.len),
                                !.outgoing = @ \o reply, !.want_write = TRUE])
         /\ g_map' = IF r.cmd = "SET" THEN [g_map EXCEPT ![r.key] = r.value] ELSE g_map
         /\ done' = [done EXCEPT ![c] = @ + 1]
         /\ promised' = [promised EXCEPT ![c] = @ \o reply]
  /\ UNCHANGED <<clientVars, unread, received, backlog, closed, poll_args, pc, up>>
-----------------------------------------------------------------------------
Writing == pc = "write" /\ Head(poll_args).out /\ Conn.want_write

(* assert(conn->outgoing.size() > 0) *)
WriteAsserts ==
  /\ Writing /\ Conn.outgoing = <<>>
  /\ up' = "aborted" /\ pc' = "down"
  /\ UNCHANGED <<clientVars, unread, received, backlog, closed, fd2conn, g_map, poll_args, history>>

handle_writeKeepsFlag(n) ==    \* mutant: want_write stays set after the last byte
  /\ Writing /\ n \in 1 .. Len(Conn.outgoing)
  /\ LET c == Conn.client
         rest == SubSeq(Conn.outgoing, n + 1, Len(Conn.outgoing))
     IN  /\ Update([Conn EXCEPT !.outgoing = rest])
         /\ received' = IF gone[c] THEN received
                        ELSE [received EXCEPT ![c] = @ \o SubSeq(Conn.outgoing, 1, n)]
  /\ pc' = "close"
  /\ UNCHANGED <<clientVars, unread, backlog, closed, g_map, poll_args, up, history>>

(* write() takes n pieces; a client that has left does not get them. *)
handle_write(n) ==
  /\ Writing /\ n \in 1 .. Len(Conn.outgoing)
  /\ LET c == Conn.client
         rest == SubSeq(Conn.outgoing, n + 1, Len(Conn.outgoing))
     IN  /\ Update([Conn EXCEPT !.outgoing = rest, !.want_write = rest # <<>>,
                                !.want_read = @ \/ rest = <<>>])
         /\ received' = IF gone[c] THEN received
                        ELSE [received EXCEPT ![c] = @ \o SubSeq(Conn.outgoing, 1, n)]
  /\ pc' = "close"
  /\ UNCHANGED <<clientVars, unread, backlog, closed, g_map, poll_args, up, history>>

(* EAGAIN: the client does not read, and the socket is full. *)
WriteAgain ==
  /\ Writing /\ Conn.outgoing # <<>>
  /\ pc' = "close"
  /\ UNCHANGED <<clientVars, unread, received, backlog, closed, fd2conn, g_map, poll_args, up, history>>

(* A write to a client that has left fails, or raises SIGPIPE, for which    *)
(* the program has no handler.                                              *)
WriteError ==
  /\ Writing /\ Conn.outgoing # <<>> /\ gone[Conn.client]
  /\ \/ Update([Conn EXCEPT !.want_close = TRUE]) /\ pc' = "close" /\ UNCHANGED up
     \/ up' = "killed" /\ pc' = "down" /\ UNCHANGED fd2conn
  /\ UNCHANGED <<clientVars, unread, received, backlog, closed, g_map, poll_args, history>>

NoWrite ==
  /\ pc = "write" /\ ~Writing
  /\ pc' = "close"
  /\ UNCHANGED <<clientVars, unread, received, backlog, closed, fd2conn, g_map, poll_args, up, history>>

(* The end of the loop's body: a connection that wants it is closed. *)
EndConn ==
  /\ pc = "close"
  /\ IF Conn.want_close
     THEN /\ fd2conn' = [fd2conn EXCEPT ![Fd] = Null]
          /\ closed' = closed \cup {Conn.client}
          /\ unread' = [unread EXCEPT ![Conn.client] = 0]
     ELSE UNCHANGED <<fd2conn, closed, unread>>
  /\ poll_args' = Tail(poll_args)
  /\ pc' = "handle"
  /\ UNCHANGED <<clientVars, received, backlog, g_map, up, history>>
-----------------------------------------------------------------------------
ServerStep ==
  \/ poll \/ HandledAll
  \/ \E c \in Clients : AcceptError(c) \/ \E fd \in Fds : handle_accept(c, fd)
  \/ ReadAsserts \/ ReadEnd \/ NoRead \/ \E n \in 1 .. KMaxMsg : handle_read(n)
  \/ NoRequest \/ try_one_request
  \/ WriteAsserts \/ WriteAgain \/ WriteError \/ NoWrite
  \/ pc = "write" /\ \E n \in 1 .. Len(Conn.outgoing) : handle_write(n)
  \/ EndConn

Next == ServerStep \/ PollDies \/ \E c \in Clients : Connect(c) \/ Send(c) \/ HangUp(c)

Spec == Init /\ [][Next]_vars

(* A piece of a reply is written to client c. *)
Writes(c) ==
  pc = "write" /\ Conn.client = c /\ \E n \in 1 .. Len(Conn.outgoing) : handle_write(n)

(* The loop goes on.  A client that stays reads what it is sent, so a write *)
(* that is tried again and again succeeds at last.  Clients owe nothing     *)
(* else.                                                                    *)
FairSpec == Spec /\ WF_vars(ServerStep) /\ \A c \in Clients : SF_vars(Writes(c))
-----------------------------------------------------------------------------
(* A request that can be served: it has an answer, and fits the buffer      *)
(* together with its length.                                                *)
Good(r) == Answers(r) /\ HeaderSize + r.len <= KMaxMsg

(* Types, and what main() takes for granted: the buffers keep to k_max_msg, *)
(* every entry of poll_args still to be handled has a Conn, though others   *)
(* are closed and descriptors given out again in the same round, and no     *)
(* client has two.                                                          *)
TypeOK ==
  /\ pc \in {"poll", "accept", "handle", "requests", "write", "close", "down"}
  /\ up \in {"running", "aborted", "killed", "died"}
  /\ \A fd \in Live : fd2conn[fd].incoming \in 0 .. KMaxMsg
  /\ \A n \in DOMAIN poll_args : poll_args[n].fd \in Live
  /\ pc \in {"requests", "write", "close"} => poll_args # <<>>
  /\ \A f, g \in Live : fd2conn[f].client = fd2conn[g].client => f = g

(* The server falls only over a request it cannot serve (an assert of       *)
(* handle_read or handle_write: a GET or SET without its arguments, a       *)
(* length that k_max_msg admits but the buffer does not) or over a client   *)
(* that leaves before its replies (SIGPIPE), a failing poll() aside.  No    *)
(* order of reads, writes, pipelining or closing does it alone.             *)
FallsOnlyFor ==
  /\ up = "aborted" => \E c \in Clients : \E n \in DOMAIN sent[c] : ~Good(sent[c][n])
  /\ up = "killed" => \E c \in Clients : gone[c]

(* A client gets the pieces of its own replies, in order, none twice and    *)
(* none left out: what it has and what is still in outgoing is what was     *)
(* appended for it (handle_write's partial writes, descriptors used again). *)
RepliesInOrder ==
  \A fd \in Live : LET c == fd2conn[fd].client
                   IN  ~gone[c] => received[c] \o fd2conn[fd].outgoing = promised[c]

(* Client c has the whole reply to its n-th request. *)
Replied(c, n) ==
  /\ done[c] >= n
  /\ \A j \in DOMAIN promised[c] : promised[c][j].reply <= n => j <= Len(received[c])

(* Every request is answered, those that share a read with others included, *)
(* unless its client leaves, has sent a request that cannot be served, or   *)
(* the server has fallen: neither poll() nor the flags of a Conn ever       *)
(* forget a connection with something to do.                                *)
Answered ==
  \A c \in Clients : \A n \in 1 .. MaxRequests[c] :
    (Len(sent[c]) >= n) ~>
      \/ Replied(c, n) \/ gone[c] \/ up # "running"
      \/ \E j \in DOMAIN sent[c] : ~Good(sent[c][j])
=============================================================================
