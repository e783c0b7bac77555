------------------------- MODULE SimpleServerProofs -------------------------
(***************************************************************************)
(* The poll loop for any clients, descriptors, requests and buffer size:    *)
(* what brings the server down, and what its clients get back.              *)
(***************************************************************************)
EXTENDS SimpleServer, FiniteSetTheorems, SequenceTheorems, TLAPS

Typed ==
  /\ sent \in [Clients -> Seq(RequestType)] /\ unread \in [Clients -> Nat]
  /\ gone \in [Clients -> BOOLEAN] /\ done \in [Clients -> Nat]
  /\ received \in [Clients -> Seq(PieceType)] /\ promised \in [Clients -> Seq(PieceType)]
  /\ backlog \subseteq Clients /\ closed \subseteq Clients
  /\ fd2conn \in [Fds -> ConnType \cup {Null}]
  /\ g_map \in [Keys -> Values \cup {Empty}]
  /\ poll_args \in Seq([fd : Fds, in : BOOLEAN, out : BOOLEAN])
  /\ pc \in {"poll", "accept", "handle", "requests", "write", "close", "down"}
  /\ up \in {"running", "aborted", "killed", "died"}

(* main() is in the body of its loop, or fell there. *)
AtHand == pc \in {"requests", "write", "close", "down"}

(* poll_args names connections, each once; a client has one at most. *)
LoopInv ==
  /\ \A n \in DOMAIN poll_args : poll_args[n].fd \in Live
  /\ \A m, n \in DOMAIN poll_args : poll_args[m].fd = poll_args[n].fd => m = n
  /\ AtHand => poll_args # <<>>
  /\ \A f, g \in Live : fd2conn[f].client = fd2conn[g].client => f = g
  /\ \A f \in Live : fd2conn[f].client \notin backlog

LEMMA ConnFields ==
  ASSUME NEW x \in ConnType
  PROVE  /\ x # Null /\ x.client \in Clients /\ x.outgoing \in Seq(PieceType)
         /\ x.want_read \in BOOLEAN /\ x.want_write \in BOOLEAN /\ x.want_close \in BOOLEAN
         /\ x.incoming \in 0 .. KMaxMsg /\ x.incoming \in Nat
  BY SimpleServerAssumption DEF ConnType

LEMMA LiveConn ==
  ASSUME Typed, NEW fd
  PROVE  fd \in Live <=> fd \in Fds /\ fd2conn[fd] \in ConnType
  BY SimpleServerAssumption DEF Typed, Live

(* The head of poll_args is a connection while main() handles it. *)
LEMMA ConnAtHand ==
  ASSUME Typed, LoopInv, poll_args # <<>>
  PROVE  Fd \in Live /\ Fd \in Fds /\ Conn \in ConnType /\ Conn = fd2conn[Fd]
<1>1. 1 \in DOMAIN poll_args /\ Head(poll_args) = poll_args[1]
  BY DEF Typed
<1> QED
  BY <1>1, LiveConn DEF LoopInv, Fd, Conn
-----------------------------------------------------------------------------
(* The descriptors poll() reports, in order: every position is taken by one *)
(* of them, and by one only.                                                *)
LEMMA Positions ==
  ASSUME NEW fds \in SUBSET Nat, IsFiniteSet(fds)
  PROVE  \A n \in 1 .. Cardinality(fds) :
           \E fd \in fds : Cardinality({f \in fds : f <= fd}) = n
<1> DEFINE Below(fd) == {f \in fds : f <= fd}
           P == [fd \in fds |-> Cardinality(Below(fd))]
           N == 1 .. Cardinality(fds)
<1>1. Cardinality(fds) \in Nat
  BY FS_CardinalityType
<1>2. \A fd \in fds : /\ IsFiniteSet(Below(fd)) /\ Cardinality(Below(fd)) \in Nat
                      /\ Cardinality(Below(fd)) <= Cardinality(fds)
  BY FS_Subset, FS_CardinalityType
<1>3. ASSUME NEW fd \in fds PROVE P[fd] \in N
  <2>1. fd \in Below(fd)
    OBVIOUS
  <2>2. Cardinality(Below(fd)) # 0
    BY <1>2, <2>1, FS_EmptySet
  <2> QED
    BY <1>1, <1>2, <2>2
<1>4. ASSUME NEW f \in fds, NEW g \in fds, f < g PROVE P[f] # P[g]
  <2>1. Below(f) \in SUBSET Below(g) /\ g \in Below(g) /\ g \notin Below(f)
    <3>1. f \in Nat /\ g \in Nat /\ \A h \in fds : h \in Nat
      OBVIOUS
    <3>2. \A h \in fds : h <= f => h <= g
      BY <1>4, <3>1
    <3>3. ~(g <= f) /\ g <= g
      BY <1>4, <3>1
    <3> QED
      BY <3>2, <3>3
  <2>2. Cardinality(Below(f)) # Cardinality(Below(g))
    <3> HIDE DEF Below
    <3> QED
      BY <1>2, <2>1, FS_Subset
  <2> QED
    BY <2>2
<1>5. P \in Injection(fds, N)
  <2>1. P \in [fds -> N]
    BY <1>3
  <2>2. ASSUME NEW f \in fds, NEW g \in fds, P[f] = P[g] PROVE f = g
    <3>1. f < g \/ g < f \/ f = g
      OBVIOUS
    <3> HIDE DEF P
    <3> QED
      BY <1>4, <2>2, <3>1
  <2> HIDE DEF P, N
  <2> QED
    BY <2>1, <2>2 DEF Injection, IsInjective
<1>6. IsFiniteSet(N) /\ Cardinality(N) = Cardinality(fds)
  BY <1>1, FS_Interval
<1>7. P \in Surjection(fds, N)
  <2> HIDE DEF P, N
  <2> QED
    BY <1>5, <1>6, FS_Injection
<1>8. \A n \in N : \E fd \in fds : P[fd] = n
  <2> HIDE DEF P, N
  <2> QED
    BY <1>7 DEF Surjection
<1> QED
  BY <1>8

(* What poll() leaves in poll_args. *)
LEMMA ReportedEntries ==
  ASSUME Typed, NEW fds \in SUBSET Live
  PROVE  /\ Reported(fds) \in Seq([fd : Fds, in : BOOLEAN, out : BOOLEAN])
         /\ \A n \in DOMAIN Reported(fds) : Reported(fds)[n].fd \in fds
         /\ \A m, n \in DOMAIN Reported(fds) :
              Reported(fds)[m].fd = Reported(fds)[n].fd => m = n
<1> DEFINE Position(fd) == Cardinality({f \in fds : f <= fd})
           N == Cardinality(fds)
           At(n) == CHOOSE f \in fds : Position(f) = n
           Entry(n) == [fd |-> At(n),
                        in |-> fd2conn[At(n)].want_read /\ Readable(fd2conn[At(n)].client),
                        out |-> fd2conn[At(n)].want_write]
<1>1. IsFiniteSet(fds) /\ fds \in SUBSET Nat /\ N \in Nat
  BY SimpleServerAssumption, FS_Subset, FS_CardinalityType DEF Live
<1>2. Reported(fds) = [n \in 1 .. N |-> Entry(n)]
  BY DEF Reported
<1>3. ASSUME NEW n \in 1 .. N PROVE At(n) \in fds /\ Position(At(n)) = n
  <2>1. \E fd \in fds : Position(fd) = n
    BY <1>1, Positions
  <2> HIDE DEF Position
  <2> QED
    BY <2>1
<1>4. ASSUME NEW n \in 1 .. N PROVE Entry(n) \in [fd : Fds, in : BOOLEAN, out : BOOLEAN]
  <2>1. At(n) \in Fds /\ fd2conn[At(n)] \in ConnType
    BY <1>3, LiveConn DEF Live
  <2>2. fd2conn[At(n)].want_write \in BOOLEAN
    BY <2>1, ConnFields
  <2> HIDE DEF At
  <2> QED
    BY <2>1, <2>2
<1> HIDE DEF Entry
<1>5. Reported(fds) \in Seq([fd : Fds, in : BOOLEAN, out : BOOLEAN])
  <2> DEFINE E == [fd : Fds, in : BOOLEAN, out : BOOLEAN]
  <2>1. \A n \in 1 .. N : Entry(n) \in E
    BY <1>4
  <2> HIDE DEF E, N
  <2>2. [n \in 1 .. N |-> Entry(n)] \in [1 .. N -> E]
    BY <2>1
  <2>3. Reported(fds) \in Seq(E)
    BY <1>1, <1>2, <2>2, SeqDef
  <2> QED
    BY <2>3 DEF E
<1>6. ASSUME NEW n \in 1 .. N PROVE Reported(fds)[n].fd = At(n)
  <2>1. Reported(fds)[n] = Entry(n)
    BY <1>2
  <2> QED
    BY <2>1 DEF Entry
<1>7. DOMAIN Reported(fds) = 1 .. N
  BY <1>2
<1> HIDE DEF At, Position
<1> QED
  BY <1>3, <1>5, <1>6, <1>7
-----------------------------------------------------------------------------
(* The bytes of a client's requests: b of them are on their way or in the   *)
(* buffer when d of the requests in s have been consumed.  The offsets say  *)
(* where each request ends.                                                 *)
Balances(s, d, b) ==
  /\ d \in 0 .. Len(s)
  /\ \E o \in [0 .. Len(s) -> Nat] :
       /\ \A j \in 1 .. Len(s) : o[j] = o[j - 1] + HeaderSize + s[j].len
       /\ b = o[Len(s)] - o[d]

LEMMA BalancesNone == Balances(<<>>, 0, 0)
<1> DEFINE o == [j \in 0 .. Len(<<>>) |-> 0]
<1>1. Len(<<>>) = 0 /\ 0 \in 0 .. Len(<<>>)
  OBVIOUS
<1>2. o \in [0 .. Len(<<>>) -> Nat]
  OBVIOUS
<1>3. \A j \in 1 .. Len(<<>>) : o[j] = o[j - 1] + HeaderSize + <<>>[j].len
  BY <1>1
<1>4. 0 = o[Len(<<>>)] - o[0]
  BY <1>1
<1> HIDE DEF o
<1>5. \E p \in [0 .. Len(<<>>) -> Nat] :
        /\ \A j \in 1 .. Len(<<>>) : p[j] = p[j - 1] + HeaderSize + <<>>[j].len
        /\ 0 = p[Len(<<>>)] - p[0]
  BY <1>2, <1>3, <1>4
<1> QED
  BY <1>1, <1>5 DEF Balances

LEMMA BalancesSend ==
  ASSUME NEW s \in Seq(RequestType), NEW r \in RequestType, NEW d, NEW b, Balances(s, d, b)
  PROVE  Balances(Append(s, r), d, b + HeaderSize + r.len)
<1> DEFINE n == Len(s)
           q == Append(s, r)
<1>1. n \in Nat /\ Len(q) = n + 1 /\ q[n + 1] = r /\ \A j \in 1 .. n : q[j] = s[j]
  OBVIOUS
<1>2. PICK o \in [0 .. n -> Nat] : /\ \A j \in 1 .. n : o[j] = o[j - 1] + HeaderSize + s[j].len
                                   /\ b = o[n] - o[d]
  BY DEF Balances
<1>3. d \in 0 .. n /\ HeaderSize \in Nat /\ r.len \in Nat
  BY SimpleServerAssumption DEF Balances, RequestType
<1> DEFINE p == [j \in 0 .. n + 1 |-> IF j = n + 1 THEN o[n] + HeaderSize + r.len ELSE o[j]]
<1>4. p \in [0 .. n + 1 -> Nat]
  BY <1>1, <1>3
<1>5. ASSUME NEW j \in 1 .. n + 1 PROVE p[j] = p[j - 1] + HeaderSize + q[j].len
  <2>1. CASE j = n + 1
    BY <1>1, <1>3, <2>1
  <2>2. CASE j # n + 1
    <3>1. j \in 1 .. n /\ j - 1 \in 0 .. n
      BY <1>1, <2>2
    <3> QED
      BY <1>1, <1>2, <3>1
  <2> QED
    BY <2>1, <2>2
<1>6. b + HeaderSize + r.len = p[n + 1] - p[d]
  <2>1. p[n + 1] = o[n] + HeaderSize + r.len /\ p[d] = o[d] /\ o[n] \in Nat /\ o[d] \in Nat
    BY <1>1, <1>3, SMTT(30)
  <2> HIDE DEF p
  <2> QED
    BY <1>2, <1>3, <2>1
<1>7. d \in 0 .. Len(q)
  BY <1>1, <1>3
<1> HIDE DEF p, q
<1> QED
  BY <1>1, <1>4, <1>5, <1>6, <1>7 DEF Balances, q

(* A byte left to consume belongs to a request that was sent. *)
LEMMA BalancesNext ==
  ASSUME NEW s \in Seq(RequestType), NEW d, NEW b \in Nat, b > 0, Balances(s, d, b)
  PROVE  /\ d + 1 \in DOMAIN s /\ s[d + 1].len \in Nat
         /\ Balances(s, d + 1, b - (HeaderSize + s[d + 1].len))
<1>1. PICK o \in [0 .. Len(s) -> Nat] :
        /\ \A j \in 1 .. Len(s) : o[j] = o[j - 1] + HeaderSize + s[j].len
        /\ b = o[Len(s)] - o[d]
  BY DEF Balances
<1>2. d \in 0 .. Len(s) /\ Len(s) \in Nat
  BY DEF Balances
<1>3. d # Len(s)
  BY <1>1, <1>2
<1>4. d + 1 \in 1 .. Len(s) /\ DOMAIN s = 1 .. Len(s)
  BY <1>2, <1>3
<1>5. s[d + 1].len \in Nat
  <2>1. s[d + 1] \in RequestType
    BY <1>4
  <2> QED
    BY <2>1 DEF RequestType
<1>6. o[d + 1] = o[d] + HeaderSize + s[d + 1].len
  BY <1>1, <1>2, <1>4
<1>7. b - (HeaderSize + s[d + 1].len) = o[Len(s)] - o[d + 1]
  <2>1. o[d] \in Nat /\ o[Len(s)] \in Nat
    BY <1>2
  <2> QED
    BY <1>1, <1>5, <1>6, <2>1, SimpleServerAssumption
<1>8. d + 1 \in 0 .. Len(s)
  BY <1>2, <1>4
<1> QED
  BY <1>1, <1>4, <1>5, <1>7, <1>8 DEF Balances
-----------------------------------------------------------------------------
(* Some client has sent what cannot be served. *)
BadSent == \E c \in Clients : \E n \in DOMAIN sent[c] : ~Good(sent[c][n])

(* A connection has something to write when it wants to, its buffer and its *)
(* socket hold the bytes of the requests not consumed, and its client has   *)
(* been sent, or will be, all that was promised.                            *)
SolidConn(conn) ==
  /\ conn.want_write /\ conn.outgoing = <<>> => BadSent
  /\ ~conn.want_close =>
       Balances(sent[conn.client], done[conn.client], conn.incoming + unread[conn.client])
  /\ ~gone[conn.client] => received[conn.client] \o conn.outgoing = promised[conn.client]

(* Between two turns a buffer has room, and no connection waits to close;   *)
(* during its turn a connection may have a full buffer.                     *)
SettledConn(conn) == ~conn.want_close /\ (conn.incoming >= KMaxMsg => BadSent)

HandedConn(conn) ==
  /\ pc = "requests" => ~conn.want_close
  /\ pc \in {"write", "close"} /\ conn.incoming >= KMaxMsg => BadSent \/ conn.want_close

ConnInv ==
  \A fd \in Live :
    /\ SolidConn(fd2conn[fd])
    /\ AtHand /\ fd = Fd => HandedConn(fd2conn[fd])
    /\ ~(AtHand /\ fd = Fd) => SettledConn(fd2conn[fd])

(* Clients that are not connected yet. *)
Unserved(c) == done[c] = 0 /\ received[c] = <<>> /\ promised[c] = <<>>

ClientInv ==
  /\ \A c \in backlog : Balances(sent[c], 0, unread[c]) /\ Unserved(c)
  /\ \A c \in Clients \ (backlog \cup closed) :
       (\A fd \in Live : fd2conn[fd].client # c) =>
         sent[c] = <<>> /\ unread[c] = 0 /\ Unserved(c)

Inv == Typed /\ LoopInv /\ ConnInv /\ ClientInv /\ FallsOnlyFor

LEMMA InvInit == Init => Inv
<1> SUFFICES ASSUME Init PROVE Inv
  OBVIOUS
<1>1. Typed
  BY DEF Init, Typed
<1>2. Live = {}
  BY DEF Init, Live
<1>3. LoopInv
  BY <1>2 DEF Init, LoopInv, AtHand
<1>4. ConnInv
  BY <1>2 DEF ConnInv
<1>5. ClientInv
  BY DEF Init, ClientInv, Unserved
<1>6. FallsOnlyFor
  BY DEF Init, FallsOnlyFor
<1> QED
  BY <1>1, <1>3, <1>4, <1>5, <1>6 DEF Inv

(* A step in the turn of the connection at hand, which becomes conn. *)
Turns(conn) ==
  /\ poll_args # <<>> /\ poll_args' = poll_args /\ pc' \in {"requests", "write", "close", "down"}
  /\ fd2conn'[Fd] = conn /\ conn.client = Conn.client
  /\ \A fd \in Fds : fd # Fd => fd2conn'[fd] = fd2conn[fd]
  /\ UNCHANGED <<sent, gone, backlog, closed>>
  /\ \A c \in Clients : c # Conn.client =>
       /\ unread'[c] = unread[c] /\ done'[c] = done[c]
       /\ received'[c] = received[c] /\ promised'[c] = promised[c]

LEMMA SolidSame ==
  ASSUME NEW conn, SolidConn(conn), BadSent => BadSent',
         sent'[conn.client] = sent[conn.client], done'[conn.client] = done[conn.client],
         unread'[conn.client] = unread[conn.client], gone'[conn.client] = gone[conn.client],
         received'[conn.client] = received[conn.client],
         promised'[conn.client] = promised[conn.client]
  PROVE  SolidConn(conn)'
  BY DEF SolidConn

LEMMA TurnInv ==
  ASSUME Inv, NEW conn \in ConnType, Turns(conn), Typed', SolidConn(conn)', HandedConn(conn)',
         FallsOnlyFor'
  PROVE  Inv'
<1>1. Fd \in Live /\ Fd \in Fds /\ Conn \in ConnType /\ Conn = fd2conn[Fd] /\ Fd' = Fd
  BY ConnAtHand DEF Inv, Turns, Fd
<1>2. BadSent' = BadSent
  BY DEF Turns, BadSent
<1>3. Live' = Live
  <2>1. ASSUME NEW fd \in Fds PROVE fd2conn'[fd] # Null <=> fd2conn[fd] # Null
    BY <1>1, ConnFields DEF Turns
  <2> QED
    BY <2>1 DEF Live
<1>4. \A fd \in Live : fd2conn'[fd].client = fd2conn[fd].client
  BY <1>1 DEF Turns, Live
<1>5. LoopInv'
  BY <1>3, <1>4 DEF Inv, LoopInv, Turns
<1>6. ConnInv'
  <2> SUFFICES ASSUME NEW fd \in Live
               PROVE  /\ SolidConn(fd2conn[fd])'
                      /\ (AtHand /\ fd = Fd => HandedConn(fd2conn[fd]))'
                      /\ (~(AtHand /\ fd = Fd) => SettledConn(fd2conn[fd]))'
    BY <1>3 DEF ConnInv
  <2>1. AtHand'
    BY DEF Turns, AtHand
  <2>2. CASE fd = Fd
    <3>1. fd2conn'[fd] = conn
      BY <2>2 DEF Turns
    <3>2. SolidConn(fd2conn[fd])'
      BY <3>1 DEF SolidConn
    <3>3. HandedConn(fd2conn[fd])'
      BY <3>1 DEF HandedConn
    <3> QED
      BY <1>1, <2>1, <2>2, <3>2, <3>3
  <2>3. CASE fd # Fd
    <3>1. PICK other : other = fd2conn[fd]
      OBVIOUS
    <3>2. fd2conn'[fd] = other /\ other \in ConnType
      BY <2>3, <3>1, LiveConn DEF Turns, Inv, Live
    <3>3. SolidConn(other) /\ SettledConn(other)
      BY <2>3, <3>1 DEF Inv, ConnInv
    <3>4. other.client # Conn.client /\ other.client \in Clients
      BY <1>1, <2>3, <3>1, <3>2, ConnFields DEF Inv, LoopInv
    <3>5. SolidConn(other)'
      BY <1>2, <3>3, <3>4, SolidSame DEF Turns
    <3>6. SolidConn(fd2conn[fd])'
      BY <3>2, <3>5 DEF SolidConn
    <3>7. SettledConn(fd2conn[fd])'
      BY <1>2, <3>2, <3>3 DEF SettledConn
    <3> QED
      BY <1>1, <2>3, <3>6, <3>7
  <2> QED
    BY <2>2, <2>3
<1>7. ClientInv'
  <2>1. Conn.client \notin backlog
    BY <1>1 DEF Inv, LoopInv
  <2>2. ASSUME NEW c \in backlog PROVE Balances(sent'[c], 0, unread'[c]) /\ Unserved(c)'
    <3>1. c \in Clients /\ c # Conn.client
      BY <2>1 DEF Inv, Typed
    <3>2. Balances(sent[c], 0, unread[c]) /\ Unserved(c)
      BY DEF Inv, ClientInv
    <3> QED
      BY <3>1, <3>2 DEF Turns, Unserved
  <2>3. ASSUME NEW c \in Clients \ (backlog \cup closed), \A fd \in Live : fd2conn'[fd].client # c
        PROVE  sent'[c] = <<>> /\ unread'[c] = 0 /\ Unserved(c)'
    <3>1. c # Conn.client /\ \A fd \in Live : fd2conn[fd].client # c
      BY <1>1, <1>4, <2>3
    <3>2. sent[c] = <<>> /\ unread[c] = 0 /\ Unserved(c)
      BY <3>1 DEF Inv, ClientInv
    <3> QED
      BY <3>1, <3>2 DEF Turns, Unserved
  <2> QED
    BY <1>3, <2>2, <2>3 DEF ClientInv, Turns
<1> QED
  BY <1>5, <1>6, <1>7 DEF Inv
-----------------------------------------------------------------------------
(* The connection at hand when its turn begins. *)
LEMMA BeforeTurn ==
  ASSUME Inv, pc = "handle", poll_args # <<>>
  PROVE  Conn \in ConnType /\ SolidConn(Conn) /\ SettledConn(Conn) /\ Fd \in Fds
  BY ConnAtHand DEF Inv, ConnInv, AtHand

(* ... and in its turn. *)
LEMMA InTurn ==
  ASSUME Inv, pc \in {"requests", "write", "close"}
  PROVE  /\ poll_args # <<>> /\ Fd \in Fds /\ Conn \in ConnType
         /\ SolidConn(Conn) /\ HandedConn(Conn)
<1>1. AtHand /\ poll_args # <<>>
  BY DEF AtHand, Inv, LoopInv
<1> QED
  BY <1>1, ConnAtHand DEF Inv, ConnInv

(* A step of its turn that leaves the connection as it is. *)
LEMMA TurnSame ==
  ASSUME Inv, poll_args # <<>>, pc' \in {"requests", "write", "close", "down"},
         up' \in {"running", "aborted", "killed", "died"},
         UNCHANGED <<clientVars, unread, received, backlog, closed, fd2conn, g_map, poll_args, history>>,
         pc' = "requests" => ~Conn.want_close,
         pc' \in {"write", "close"} /\ Conn.incoming >= KMaxMsg => BadSent \/ Conn.want_close,
         FallsOnlyFor'
  PROVE  Inv'
<1>1. PICK conn : conn = Conn
  OBVIOUS
<1>2. conn \in ConnType /\ SolidConn(conn) /\ fd2conn[Fd] = conn /\ Fd \in Fds
  BY <1>1, ConnAtHand DEF Inv, ConnInv
<1>3. Typed'
  BY DEF Inv, Typed, clientVars, history
<1>4. Turns(conn)
  BY <1>1, <1>2 DEF Turns, clientVars, history
<1>5. BadSent' = BadSent
  BY DEF BadSent, clientVars
<1>6. SolidConn(conn)'
  BY <1>2, <1>5, SolidSame DEF clientVars, history
<1>7. HandedConn(conn)'
  BY <1>1, <1>5 DEF HandedConn
<1> QED
  BY <1>2, <1>3, <1>4, <1>6, <1>7, TurnInv

LEMMA FallsSame ==
  ASSUME FallsOnlyFor, UNCHANGED <<sent, gone, up>>
  PROVE  FallsOnlyFor'
  BY DEF FallsOnlyFor

LEMMA InvReadAsserts ==
  ASSUME Inv, ReadAsserts
  PROVE  Inv'
<1>1. pc = "handle" /\ poll_args # <<>> /\ Conn.incoming >= KMaxMsg /\ pc' = "down" /\ up' = "aborted"
  BY DEF ReadAsserts, Reading
<1>2. BadSent
  BY <1>1, BeforeTurn DEF SettledConn
<1>3. FallsOnlyFor'
  BY <1>1, <1>2 DEF FallsOnlyFor, BadSent, ReadAsserts, clientVars
<1> QED
  BY <1>1, <1>3, TurnSame DEF ReadAsserts

LEMMA InvNoRead ==
  ASSUME Inv, NoRead
  PROVE  Inv'
<1>1. pc = "handle" /\ poll_args # <<>> /\ pc' = "write" /\ up' = up
  BY DEF NoRead
<1>2. Conn.incoming >= KMaxMsg => BadSent
  BY <1>1, BeforeTurn DEF SettledConn
<1>3. FallsOnlyFor' /\ up' \in {"running", "aborted", "killed", "died"}
  BY <1>1, FallsSame DEF Inv, Typed, NoRead, clientVars
<1> QED
  BY <1>1, <1>2, <1>3, TurnSame DEF NoRead

LEMMA InvRead ==
  ASSUME Inv, NEW n \in 1 .. KMaxMsg, handle_read(n)
  PROVE  Inv'
<1>1. /\ pc = "handle" /\ poll_args # <<>> /\ pc' = "requests" /\ n \in 1 .. unread[Conn.client]
      /\ n <= KMaxMsg - Conn.incoming
      /\ UNCHANGED <<sent, gone, received, backlog, closed, g_map, poll_args, up, done, promised>>
  BY DEF handle_read, Reading, clientVars, history
<1>2. Conn \in ConnType /\ SolidConn(Conn) /\ SettledConn(Conn) /\ Fd \in Fds
  BY <1>1, BeforeTurn
<1>3. PICK conn : conn = [Conn EXCEPT !.incoming = @ + n]
  OBVIOUS
<1>4. Update(conn) /\ unread' = [unread EXCEPT ![Conn.client] = @ - n]
  BY <1>3 DEF handle_read
<1>5. /\ conn \in ConnType /\ conn.client = Conn.client /\ conn.client \in Clients
      /\ conn.incoming = Conn.incoming + n /\ Conn.incoming \in Nat
      /\ conn.want_close = Conn.want_close /\ conn.want_write = Conn.want_write
      /\ conn.outgoing = Conn.outgoing
  BY <1>1, <1>2, <1>3, SimpleServerAssumption, SMTT(30) DEF ConnType
<1>6. unread[conn.client] \in Nat /\ unread'[conn.client] = unread[conn.client] - n
  BY <1>4, <1>5 DEF Inv, Typed
<1>7. unread' \in [Clients -> Nat]
  <2>1. unread \in [Clients -> Nat]
    BY DEF Inv, Typed
  <2>2. PICK rest : rest = unread[conn.client] - n
    OBVIOUS
  <2>3. rest \in Nat
    BY <1>1, <1>5, <1>6, <2>2
  <2>4. unread' = [unread EXCEPT ![conn.client] = rest]
    BY <1>4, <1>5, <2>2
  <2> QED
    BY <2>1, <2>3, <2>4
<1>8. fd2conn' \in [Fds -> ConnType \cup {Null}]
  BY <1>4, <1>5 DEF Update, Inv, Typed
<1>9. Typed'
  BY <1>1, <1>7, <1>8 DEF Inv, Typed
<1>10. Turns(conn)
  BY <1>1, <1>2, <1>4, <1>5 DEF Turns, Update, Inv, Typed
<1>11. BadSent' = BadSent
  BY <1>1 DEF BadSent
<1>12. SolidConn(conn)'
  <2>1. conn.incoming + unread'[conn.client] = Conn.incoming + unread[Conn.client]
    BY <1>1, <1>5, <1>6
  <2>2. ~conn.want_close => Balances(sent'[conn.client], done'[conn.client],
                                     conn.incoming + unread'[conn.client])
    BY <1>1, <1>2, <1>5, <2>1 DEF SolidConn
  <2> QED
    BY <1>1, <1>2, <1>5, <1>11, <2>2 DEF SolidConn
<1>13. HandedConn(conn)'
  BY <1>1, <1>2, <1>5 DEF HandedConn, SettledConn
<1>14. FallsOnlyFor'
  BY <1>1, FallsSame DEF Inv
<1> QED
  BY <1>5, <1>9, <1>10, <1>12, <1>13, <1>14, TurnInv

LEMMA InvReadEnd ==
  ASSUME Inv, ReadEnd
  PROVE  Inv'
<1>1. /\ pc = "handle" /\ poll_args # <<>> /\ pc' = "write"
      /\ UNCHANGED <<sent, gone, unread, received, backlog, closed, g_map, poll_args, up, done, promised>>
  BY DEF ReadEnd, Reading, clientVars, history
<1>2. Conn \in ConnType /\ SolidConn(Conn) /\ SettledConn(Conn) /\ Fd \in Fds
  BY <1>1, BeforeTurn
<1>3. PICK conn : conn = [Conn EXCEPT !.want_close = TRUE, !.incoming = KMaxMsg]
  OBVIOUS
<1>4. Update(conn)
  BY <1>3 DEF ReadEnd
<1>5. /\ conn \in ConnType /\ conn.client = Conn.client /\ conn.client \in Clients
      /\ conn.want_close = TRUE /\ conn.want_write = Conn.want_write
      /\ conn.outgoing = Conn.outgoing
  <2>1. KMaxMsg \in 0 .. KMaxMsg
    BY SimpleServerAssumption
  <2>2. conn \in ConnType
    BY <1>2, <1>3, <2>1 DEF ConnType
  <2>3. /\ conn.client = Conn.client /\ conn.want_close = TRUE
        /\ conn.want_write = Conn.want_write /\ conn.outgoing = Conn.outgoing
    BY <1>2, <1>3 DEF ConnType
  <2> QED
    BY <2>2, <2>3, ConnFields
<1>6. Typed'
  BY <1>1, <1>4, <1>5 DEF Inv, Typed, Update
<1>7. Turns(conn)
  BY <1>1, <1>2, <1>4, <1>5 DEF Turns, Update, Inv, Typed
<1>8. SolidConn(conn)'
  BY <1>1, <1>2, <1>5 DEF SolidConn, BadSent
<1>9. HandedConn(conn)'
  BY <1>1, <1>5 DEF HandedConn
<1>10. FallsOnlyFor'
  BY <1>1, FallsSame DEF Inv
<1> QED
  BY <1>5, <1>6, <1>7, <1>8, <1>9, <1>10, TurnInv
-----------------------------------------------------------------------------
(* Behind a whole header there is a request that the client has sent. *)
LEMMA NextSent ==
  ASSUME Inv, pc = "requests", Conn.incoming >= HeaderSize
  PROVE  /\ done[Conn.client] + 1 \in DOMAIN sent[Conn.client]
         /\ NextRequest \in RequestType /\ NextRequest.len \in Nat
         /\ Balances(sent[Conn.client], done[Conn.client] + 1,
                     (Conn.incoming + unread[Conn.client]) - (HeaderSize + NextRequest.len))
<1> DEFINE c == Conn.client
           b == Conn.incoming + unread[c]
<1>1. Conn \in ConnType /\ ~Conn.want_close /\ SolidConn(Conn)
  BY InTurn DEF HandedConn
<1>2. Conn.incoming \in Nat /\ c \in Clients
  BY <1>1, ConnFields
<1>3. sent[c] \in Seq(RequestType) /\ unread[c] \in Nat
  BY <1>2 DEF Inv, Typed
<1>4. b \in Nat /\ b > 0
  BY <1>2, <1>3, SimpleServerAssumption
<1>5. Balances(sent[c], done[c], b)
  BY <1>1 DEF SolidConn
<1>6. NextRequest = sent[c][done[c] + 1]
  BY DEF NextRequest
<1> HIDE DEF b
<1>7. /\ done[c] + 1 \in DOMAIN sent[c] /\ sent[c][done[c] + 1].len \in Nat
      /\ Balances(sent[c], done[c] + 1, b - (HeaderSize + sent[c][done[c] + 1].len))
  <2> HIDE DEF c
  <2> QED
    BY <1>3, <1>4, <1>5, BalancesNext
<1>8. sent[c][done[c] + 1] \in RequestType
  BY <1>3, <1>7
<1> QED
  BY <1>6, <1>7, <1>8 DEF b

LEMMA InvNoRequest ==
  ASSUME Inv, NoRequest
  PROVE  Inv'
<1>1. /\ pc = "requests" /\ pc' = "write"
      /\ UNCHANGED <<sent, gone, unread, received, backlog, closed, g_map, poll_args, up, done, promised>>
  BY DEF NoRequest, clientVars, history
<1>2. /\ Conn \in ConnType /\ SolidConn(Conn) /\ HandedConn(Conn) /\ Fd \in Fds
      /\ poll_args # <<>>
  BY <1>1, InTurn
<1>3. FallsOnlyFor'
  BY <1>1, FallsSame DEF Inv
<1>4. CASE TooLong /\ Update([Conn EXCEPT !.want_close = TRUE])
  <2>1. PICK conn : conn = [Conn EXCEPT !.want_close = TRUE]
    OBVIOUS
  <2>2. /\ conn \in ConnType /\ conn.client = Conn.client /\ conn.client \in Clients
        /\ conn.want_close = TRUE /\ conn.want_write = Conn.want_write
        /\ conn.outgoing = Conn.outgoing
    BY <1>2, <2>1 DEF ConnType
  <2>3. Update(conn)
    BY <1>4, <2>1
  <2>4. Typed'
    BY <1>1, <2>2, <2>3 DEF Inv, Typed, Update
  <2>5. Turns(conn)
    BY <1>1, <1>2, <2>2, <2>3 DEF Turns, Update, Inv, Typed
  <2>6. SolidConn(conn)'
    BY <1>1, <1>2, <2>2 DEF SolidConn, BadSent
  <2>7. HandedConn(conn)'
    BY <1>1, <2>2 DEF HandedConn
  <2> QED
    BY <1>3, <2>2, <2>4, <2>5, <2>6, <2>7, TurnInv
<1>5. CASE ~TooLong /\ Incomplete /\ UNCHANGED fd2conn
  <2>1. ASSUME Conn.incoming >= KMaxMsg PROVE BadSent
    <3>1. Conn.incoming \in Nat /\ Conn.client \in Clients
      BY <1>2, ConnFields
    <3>2. Conn.incoming >= HeaderSize /\ ~(Conn.incoming < HeaderSize)
      BY <2>1, <3>1, SimpleServerAssumption
    <3>3. /\ done[Conn.client] + 1 \in DOMAIN sent[Conn.client] /\ NextRequest.len \in Nat
      BY <1>1, <3>2, NextSent
    <3>4. Conn.incoming < HeaderSize + NextRequest.len
      BY <1>5, <3>2 DEF Incomplete
    <3>5. ~(HeaderSize + NextRequest.len <= KMaxMsg)
      BY <2>1, <3>1, <3>3, <3>4, SimpleServerAssumption
    <3>6. ~Good(NextRequest)
      BY <3>5 DEF Good
    <3> QED
      BY <3>1, <3>3, <3>6 DEF BadSent, NextRequest
  <2>2. up' \in {"running", "aborted", "killed", "died"}
    BY <1>1 DEF Inv, Typed
  <2> QED
    BY <1>1, <1>2, <1>3, <1>5, <2>1, <2>2, TurnSame DEF clientVars, history
<1> QED
  BY <1>4, <1>5 DEF NoRequest

LEMMA RequestReply ==
  ASSUME Typed, NEW r \in RequestType, NEW c \in Clients
  PROVE  do_request(r, c) \in Seq(PieceType) /\ (Answers(r) => do_request(r, c) # <<>>)
<1> DEFINE Texts == Values \cup {Empty, "PONG", "OK", "ERROR"}
<1>1. r.key \in Keys /\ g_map[r.key] \in Texts /\ done[c] + 1 \in Nat
  BY DEF Typed, RequestType
<1>2. Text(r) \in Texts
  <2>1. Text(r) \in {g_map[r.key], "PONG", "OK", "ERROR"}
    BY DEF Text
  <2> QED
    BY <1>1, <2>1
<1>3. ASSUME NEW n \in Nat, NEW text \in Texts
      PROVE  Pieces(c, n, text) \in Seq(PieceType) /\ Pieces(c, n, text) # <<>>
  <2> DEFINE head == [client |-> c, reply |-> n, part |-> "length", text |-> Empty]
             body == [client |-> c, reply |-> n, part |-> "text", text |-> text]
  <2>1. head \in PieceType /\ body \in PieceType
    BY DEF PieceType
  <2>2. Pieces(c, n, text) \in {<<head>>, <<head, body>>}
    BY DEF Pieces
  <2> HIDE DEF head, body
  <2>3. /\ <<head>> \in Seq(PieceType) /\ <<head, body>> \in Seq(PieceType)
        /\ <<head>> # <<>> /\ <<head, body>> # <<>>
    BY <2>1
  <2> QED
    BY <2>2, <2>3
<1> QED
  BY <1>1, <1>2, <1>3 DEF do_request

LEMMA Regroup ==
  ASSUME NEW x \in Seq(PieceType), NEW y \in Seq(PieceType), NEW z \in Seq(PieceType)
  PROVE  (x \o y) \o z = x \o (y \o z)
  BY ConcatAssociative

LEMMA InvRequest ==
  ASSUME Inv, try_one_request
  PROVE  Inv'
<1> DEFINE c == Conn.client
           r == NextRequest
<1>1. /\ pc = "requests" /\ pc' = "requests" /\ ~Incomplete
      /\ UNCHANGED <<sent, gone, unread, received, backlog, closed, poll_args, up>>
  BY DEF try_one_request, clientVars
<1>2. /\ Conn \in ConnType /\ SolidConn(Conn) /\ HandedConn(Conn) /\ Fd \in Fds
      /\ poll_args # <<>> /\ c \in Clients /\ Conn.incoming \in 0 .. KMaxMsg
      /\ Conn.outgoing \in Seq(PieceType) /\ unread[c] \in Nat /\ HeaderSize \in Nat
  BY <1>1, InTurn, ConnFields, SimpleServerAssumption DEF Inv, Typed
<1>3. Conn.incoming >= HeaderSize
  BY <1>1, <1>2 DEF Incomplete
<1>4. /\ done[c] + 1 \in DOMAIN sent[c] /\ r \in RequestType /\ r.len \in Nat
      /\ Balances(sent[c], done[c] + 1, (Conn.incoming + unread[c]) - (HeaderSize + r.len))
  BY <1>1, <1>3, NextSent
<1>5. Conn.incoming >= HeaderSize + r.len
  BY <1>1, <1>2, <1>3, <1>4 DEF Incomplete
<1>6. PICK reply : reply = do_request(r, c)
  OBVIOUS
<1>7. reply \in Seq(PieceType) /\ (Answers(r) => reply # <<>>)
  BY <1>2, <1>4, <1>6, RequestReply DEF Inv
<1>8. PICK conn : conn = [Conn EXCEPT !.incoming = @ - (HeaderSize + r.len),
                                      !.outgoing = @ \o reply, !.want_write = TRUE]
  OBVIOUS
<1>9. /\ Update(conn) /\ done' = [done EXCEPT ![c] = @ + 1]
      /\ promised' = [promised EXCEPT ![c] = @ \o reply]
      /\ g_map' = IF r.cmd = "SET" THEN [g_map EXCEPT ![r.key] = r.value] ELSE g_map
  BY <1>6, <1>8 DEF try_one_request
<1>10. Conn.incoming - (HeaderSize + r.len) \in 0 .. KMaxMsg /\ Conn.outgoing \o reply \in Seq(PieceType)
  BY <1>2, <1>4, <1>5, <1>7, SimpleServerAssumption, SMTT(30)
<1>11. /\ conn \in ConnType /\ conn.client = c
       /\ conn.incoming = Conn.incoming - (HeaderSize + r.len)
       /\ conn.outgoing = Conn.outgoing \o reply /\ conn.want_close = Conn.want_close
  BY <1>2, <1>8, <1>10 DEF ConnType
<1>12. Typed'
  <2>1. done' \in [Clients -> Nat]
    BY <1>2, <1>9 DEF Inv, Typed
  <2>2. promised' \in [Clients -> Seq(PieceType)]
    <3>1. promised[c] \o reply \in Seq(PieceType)
      BY <1>2, <1>7 DEF Inv, Typed
    <3> QED
      BY <1>2, <1>9, <3>1 DEF Inv, Typed
  <2>3. g_map' \in [Keys -> Values \cup {Empty}]
    <3>1. r.key \in Keys /\ r.value \in Values
      BY <1>4 DEF RequestType
    <3> QED
      BY <1>9, <3>1 DEF Inv, Typed
  <2>4. fd2conn' \in [Fds -> ConnType \cup {Null}]
    BY <1>9, <1>11 DEF Update, Inv, Typed
  <2> QED
    BY <1>1, <2>1, <2>2, <2>3, <2>4 DEF Inv, Typed
<1>13. Turns(conn)
  BY <1>1, <1>2, <1>9, <1>11 DEF Turns, Update, Inv, Typed
<1>14. SolidConn(conn)'
  <2>1. done'[c] = done[c] + 1 /\ promised'[c] = promised[c] \o reply
    BY <1>2, <1>9 DEF Inv, Typed
  <2>2. conn.incoming + unread[c] = (Conn.incoming + unread[c]) - (HeaderSize + r.len)
    BY <1>2, <1>4, <1>11
  <2>3. Balances(sent'[c], done'[c], conn.incoming + unread'[c])
    BY <1>1, <1>4, <2>1, <2>2
  <2>4. conn.outgoing = <<>> => BadSent'
    <3> SUFFICES ASSUME conn.outgoing = <<>> PROVE BadSent'
      OBVIOUS
    <3>1. reply = <<>>
      BY <1>2, <1>7, <1>11, ConcatEqualIffEmpty
    <3>2. ~Good(sent[c][done[c] + 1])
      BY <1>7, <3>1 DEF Good, NextRequest
    <3> QED
      BY <1>1, <1>2, <1>4, <3>2 DEF BadSent
  <2>5. ASSUME ~gone[c] PROVE received[c] \o conn.outgoing = promised[c] \o reply
    <3>1. received[c] \in Seq(PieceType)
      BY <1>2 DEF Inv, Typed
    <3>2. received[c] \o Conn.outgoing = promised[c]
      BY <1>2, <2>5 DEF SolidConn
    <3>3. (received[c] \o Conn.outgoing) \o reply = received[c] \o (Conn.outgoing \o reply)
      BY <1>2, <1>7, <3>1, Regroup
    <3> QED
      BY <1>11, <3>2, <3>3
  <2> QED
    BY <1>1, <1>11, <2>1, <2>3, <2>4, <2>5 DEF SolidConn
<1>15. HandedConn(conn)'
  BY <1>1, <1>2, <1>11 DEF HandedConn
<1>16. FallsOnlyFor'
  BY <1>1, FallsSame DEF Inv
<1> QED
  BY <1>11, <1>12, <1>13, <1>14, <1>15, <1>16, TurnInv
-----------------------------------------------------------------------------
LEMMA InvWriteAsserts ==
  ASSUME Inv, WriteAsserts
  PROVE  Inv'
<1>1. pc = "write" /\ Conn.want_write /\ Conn.outgoing = <<>> /\ pc' = "down" /\ up' = "aborted"
  BY DEF WriteAsserts, Writing
<1>2. BadSent /\ poll_args # <<>>
  BY <1>1, InTurn DEF SolidConn
<1>3. FallsOnlyFor'
  BY <1>1, <1>2 DEF FallsOnlyFor, BadSent, WriteAsserts, clientVars
<1> QED
  BY <1>1, <1>2, <1>3, TurnSame DEF WriteAsserts

(* EAGAIN, or nothing to write. *)
LEMMA InvNoWrite ==
  ASSUME Inv, WriteAgain \/ NoWrite
  PROVE  Inv'
<1>1. /\ pc = "write" /\ pc' = "close" /\ up' = up
      /\ UNCHANGED <<clientVars, unread, received, backlog, closed, fd2conn, g_map, poll_args, history>>
  BY DEF WriteAgain, NoWrite, Writing
<1>2. poll_args # <<>> /\ (Conn.incoming >= KMaxMsg => BadSent \/ Conn.want_close)
  BY <1>1, InTurn DEF HandedConn
<1>3. FallsOnlyFor' /\ up' \in {"running", "aborted", "killed", "died"}
  BY <1>1, FallsSame DEF Inv, Typed, clientVars
<1> QED
  BY <1>1, <1>2, <1>3, TurnSame

LEMMA InvWriteError ==
  ASSUME Inv, WriteError
  PROVE  Inv'
<1>1. /\ pc = "write" /\ gone[Conn.client]
      /\ UNCHANGED <<sent, gone, unread, received, backlog, closed, g_map, poll_args, done, promised>>
  BY DEF WriteError, Writing, clientVars, history
<1>2. /\ Conn \in ConnType /\ SolidConn(Conn) /\ HandedConn(Conn) /\ Fd \in Fds
      /\ poll_args # <<>> /\ Conn.client \in Clients
  BY <1>1, InTurn, ConnFields
<1>3. CASE Update([Conn EXCEPT !.want_close = TRUE]) /\ pc' = "close" /\ UNCHANGED up
  <2>1. PICK conn : conn = [Conn EXCEPT !.want_close = TRUE]
    OBVIOUS
  <2>2. /\ conn \in ConnType /\ conn.client = Conn.client /\ conn.client \in Clients
        /\ conn.want_close = TRUE /\ conn.want_write = Conn.want_write
        /\ conn.outgoing = Conn.outgoing
    BY <1>2, <2>1 DEF ConnType
  <2>3. Update(conn)
    BY <1>3, <2>1
  <2>4. Typed'
    <3>1. fd2conn' \in [Fds -> ConnType \cup {Null}]
      BY <2>2, <2>3 DEF Inv, Typed, Update
    <3> QED
      BY <1>1, <1>3, <3>1 DEF Inv, Typed
  <2>5. Turns(conn)
    BY <1>1, <1>2, <1>3, <2>2, <2>3 DEF Turns, Update, Inv, Typed
  <2>6. SolidConn(conn)'
    BY <1>1, <1>2, <2>2 DEF SolidConn, BadSent
  <2>7. HandedConn(conn)'
    BY <1>3, <2>2 DEF HandedConn
  <2>8. FallsOnlyFor'
    BY <1>1, <1>3, FallsSame DEF Inv
  <2> QED
    BY <2>2, <2>4, <2>5, <2>6, <2>7, <2>8, TurnInv
<1>4. CASE up' = "killed" /\ pc' = "down" /\ UNCHANGED fd2conn
  <2>1. FallsOnlyFor'
    BY <1>1, <1>2, <1>4 DEF FallsOnlyFor
  <2> QED
    BY <1>1, <1>2, <1>4, <2>1, TurnSame DEF clientVars, history
<1> QED
  BY <1>3, <1>4 DEF WriteError

(* What is written and what is left are what there was. *)
LEMMA Split ==
  ASSUME NEW q \in Seq(PieceType), NEW n \in 1 .. Len(q)
  PROVE  /\ SubSeq(q, 1, n) \in Seq(PieceType) /\ SubSeq(q, n + 1, Len(q)) \in Seq(PieceType)
         /\ SubSeq(q, 1, n) \o SubSeq(q, n + 1, Len(q)) = q
<1>1. n \in Int /\ Len(q) \in Int /\ 1 \in Int /\ n + 1 \in Int
  OBVIOUS
<1>2. (\A j \in 1 .. n : q[j] \in PieceType) /\ (\A j \in n + 1 .. Len(q) : q[j] \in PieceType)
  OBVIOUS
<1>3. SubSeq(q, 1, n) \in Seq(PieceType) /\ SubSeq(q, n + 1, Len(q)) \in Seq(PieceType)
  BY <1>1, <1>2, SubSeqProperties
<1>4. 1 \in 1 .. Len(q) + 1 /\ n \in 1 - 1 .. Len(q) /\ Len(q) \in n .. Len(q)
  OBVIOUS
<1>5. SubSeq(q, 1, n) \o SubSeq(q, n + 1, Len(q)) = SubSeq(q, 1, Len(q))
  BY <1>4, ConcatAdjacentSubSeq
<1>6. SubSeq(q, 1, Len(q)) = q
  BY SubSeqFull
<1> QED
  BY <1>3, <1>5, <1>6

LEMMA InvWrite ==
  ASSUME Inv, NEW n, handle_write(n)
  PROVE  Inv'
<1> DEFINE c == Conn.client
<1>1. /\ pc = "write" /\ pc' = "close" /\ n \in 1 .. Len(Conn.outgoing)
      /\ UNCHANGED <<sent, gone, unread, backlog, closed, g_map, poll_args, up, done, promised>>
  BY DEF handle_write, Writing, clientVars, history
<1>2. /\ Conn \in ConnType /\ SolidConn(Conn) /\ HandedConn(Conn) /\ Fd \in Fds
      /\ poll_args # <<>> /\ c \in Clients /\ Conn.outgoing \in Seq(PieceType)
  BY <1>1, InTurn, ConnFields
<1>3. PICK written, rest : /\ written = SubSeq(Conn.outgoing, 1, n)
                           /\ rest = SubSeq(Conn.outgoing, n + 1, Len(Conn.outgoing))
  OBVIOUS
<1>4. /\ written \in Seq(PieceType) /\ rest \in Seq(PieceType) /\ written \o rest = Conn.outgoing
  BY <1>1, <1>2, <1>3, Split
<1>5. PICK conn : conn = [Conn EXCEPT !.outgoing = rest, !.want_write = rest # <<>>,
                                      !.want_read = @ \/ rest = <<>>]
  OBVIOUS
<1>6. /\ Update(conn)
      /\ received' = IF gone[c] THEN received ELSE [received EXCEPT ![c] = @ \o written]
  BY <1>3, <1>5 DEF handle_write
<1>7. /\ conn \in ConnType /\ conn.client = c /\ conn.outgoing = rest
      /\ conn.want_write = (rest # <<>>) /\ conn.incoming = Conn.incoming
      /\ conn.want_close = Conn.want_close
  BY <1>2, <1>4, <1>5 DEF ConnType
<1>8. received[c] \in Seq(PieceType) /\ received[c] \o written \in Seq(PieceType)
  BY <1>2, <1>4 DEF Inv, Typed
<1>9. received' \in [Clients -> Seq(PieceType)]
  BY <1>2, <1>6, <1>8 DEF Inv, Typed
<1>10. Typed'
  BY <1>1, <1>6, <1>7, <1>9 DEF Inv, Typed, Update
<1>11. Turns(conn)
  BY <1>1, <1>2, <1>6, <1>7 DEF Turns, Update, Inv, Typed
<1>12. BadSent' = BadSent
  BY <1>1 DEF BadSent
<1>13. SolidConn(conn)'
  <2>1. ASSUME ~gone[c] PROVE received'[c] \o conn.outgoing = promised[c]
    <3>1. received'[c] = received[c] \o written
      BY <1>2, <1>6, <2>1 DEF Inv, Typed
    <3>2. received[c] \o Conn.outgoing = promised[c]
      BY <1>2, <2>1 DEF SolidConn
    <3>3. (received[c] \o written) \o rest = received[c] \o (written \o rest)
      BY <1>4, <1>8, Regroup
    <3> QED
      BY <1>4, <1>7, <3>1, <3>2, <3>3
  <2>2. ~conn.want_close => Balances(sent[c], done[c], conn.incoming + unread[c])
    BY <1>2, <1>7 DEF SolidConn
  <2> QED
    BY <1>1, <1>7, <2>1, <2>2 DEF SolidConn
<1>14. HandedConn(conn)'
  BY <1>1, <1>2, <1>7, <1>12 DEF HandedConn
<1>15. FallsOnlyFor'
  BY <1>1, FallsSame DEF Inv
<1> QED
  BY <1>7, <1>10, <1>11, <1>13, <1>14, <1>15, TurnInv

(* What is left of poll_args is about other connections than the one whose  *)
(* turn has ended.                                                          *)
LEMMA RestOfRound ==
  ASSUME Typed, LoopInv, poll_args # <<>>, poll_args' = Tail(poll_args)
  PROVE  /\ poll_args' \in Seq([fd : Fds, in : BOOLEAN, out : BOOLEAN])
         /\ \A n \in DOMAIN poll_args' : poll_args'[n].fd \in Live /\ poll_args'[n].fd # Fd
         /\ \A m, n \in DOMAIN poll_args' : poll_args'[m].fd = poll_args'[n].fd => m = n
<1> DEFINE E == [fd : Fds, in : BOOLEAN, out : BOOLEAN]
<1>1. poll_args \in Seq(E)
  BY DEF Typed
<1> HIDE DEF E
<1>2. /\ poll_args' \in Seq(E) /\ DOMAIN poll_args' = 1 .. Len(poll_args) - 1
      /\ DOMAIN poll_args = 1 .. Len(poll_args) /\ Len(poll_args) \in Nat
      /\ \A n \in 1 .. Len(poll_args) - 1 : poll_args'[n] = poll_args[n + 1]
      /\ Fd = poll_args[1].fd
  BY <1>1 DEF Fd
<1>3. ASSUME NEW n \in DOMAIN poll_args' PROVE poll_args'[n].fd \in Live /\ poll_args'[n].fd # Fd
  <2>1. /\ n + 1 \in DOMAIN poll_args /\ 1 \in DOMAIN poll_args /\ n + 1 # 1
        /\ poll_args'[n] = poll_args[n + 1]
    BY <1>2
  <2> QED
    BY <1>2, <2>1 DEF LoopInv
<1>4. ASSUME NEW m \in DOMAIN poll_args', NEW n \in DOMAIN poll_args',
             poll_args'[m].fd = poll_args'[n].fd
      PROVE  m = n
  <2>1. /\ m + 1 \in DOMAIN poll_args /\ n + 1 \in DOMAIN poll_args
        /\ poll_args'[m] = poll_args[m + 1] /\ poll_args'[n] = poll_args[n + 1]
    BY <1>2
  <2>2. m + 1 = n + 1
    BY <1>4, <2>1 DEF LoopInv
  <2> QED
    BY <1>2, <2>2
<1> QED
  BY <1>2, <1>3, <1>4 DEF E

(* A connection keeps what it has when only others change. *)
LEMMA ConnKept ==
  ASSUME Inv, NEW fd \in Live, fd2conn'[fd] = fd2conn[fd], BadSent => BadSent',
         SettledConn(fd2conn[fd]),
         LET c == fd2conn[fd].client
         IN  /\ sent'[c] = sent[c] /\ done'[c] = done[c] /\ unread'[c] = unread[c]
             /\ gone'[c] = gone[c] /\ received'[c] = received[c] /\ promised'[c] = promised[c]
  PROVE  SolidConn(fd2conn[fd])' /\ SettledConn(fd2conn[fd])'
<1>1. PICK conn : conn = fd2conn[fd]
  OBVIOUS
<1>2. SolidConn(conn) /\ SettledConn(conn) /\ fd2conn'[fd] = conn
  BY <1>1 DEF Inv, ConnInv
<1>3. SolidConn(conn)'
  BY <1>1, <1>2, SolidSame
<1>4. SolidConn(fd2conn[fd])'
  BY <1>2, <1>3 DEF SolidConn
<1>5. SettledConn(fd2conn[fd])'
  BY <1>2 DEF SettledConn
<1> QED
  BY <1>4, <1>5

LEMMA InvEndConn ==
  ASSUME Inv, EndConn
  PROVE  Inv'
<1>1. /\ pc = "close" /\ pc' = "handle" /\ poll_args' = Tail(poll_args)
      /\ UNCHANGED <<sent, gone, received, backlog, g_map, up, done, promised>>
  BY DEF EndConn, clientVars, history
<1>2. /\ Conn \in ConnType /\ HandedConn(Conn) /\ Fd \in Fds /\ Fd \in Live /\ Conn = fd2conn[Fd]
      /\ poll_args # <<>> /\ Conn.client \in Clients
  BY <1>1, InTurn, ConnFields, ConnAtHand DEF Inv
<1>3. /\ poll_args' \in Seq([fd : Fds, in : BOOLEAN, out : BOOLEAN])
      /\ \A n \in DOMAIN poll_args' : poll_args'[n].fd \in Live /\ poll_args'[n].fd # Fd
      /\ \A m, n \in DOMAIN poll_args' : poll_args'[m].fd = poll_args'[n].fd => m = n
  BY <1>1, <1>2, RestOfRound DEF Inv
<1>4. BadSent' = BadSent /\ ~AtHand'
  BY <1>1 DEF BadSent, AtHand
<1>5. FallsOnlyFor'
  BY <1>1, FallsSame DEF Inv
<1>6. \A fd \in Live : fd # Fd => SettledConn(fd2conn[fd])
  BY DEF Inv, ConnInv
<1>7. CASE Conn.want_close
  <2>1. /\ fd2conn' = [fd2conn EXCEPT ![Fd] = Null] /\ closed' = closed \cup {Conn.client}
        /\ unread' = [unread EXCEPT ![Conn.client] = 0]
    BY <1>7 DEF EndConn
  <2>2. Typed'
    <3>1. fd2conn' \in [Fds -> ConnType \cup {Null}] /\ unread' \in [Clients -> Nat]
      BY <1>2, <2>1 DEF Inv, Typed
    <3>2. closed' \subseteq Clients
      BY <1>2, <2>1 DEF Inv, Typed
    <3> QED
      BY <1>1, <1>3, <3>1, <3>2 DEF Inv, Typed
  <2>3. Live' = Live \ {Fd} /\ \A fd \in Live' : fd2conn'[fd] = fd2conn[fd]
    BY <1>2, <2>1 DEF Live, Inv, Typed
  <2>4. LoopInv'
    BY <1>1, <1>3, <1>4, <2>3 DEF Inv, LoopInv
  <2>5. ASSUME NEW fd \in Live' PROVE SolidConn(fd2conn[fd])' /\ SettledConn(fd2conn[fd])'
    <3>1. fd \in Live /\ fd # Fd /\ fd2conn'[fd] = fd2conn[fd] /\ fd2conn[fd] \in ConnType
      BY <2>3, LiveConn DEF Inv
    <3>2. fd2conn[fd].client # Conn.client /\ fd2conn[fd].client \in Clients
      BY <1>2, <3>1, ConnFields DEF Inv, LoopInv
    <3>3. unread'[fd2conn[fd].client] = unread[fd2conn[fd].client]
      BY <2>1, <3>2 DEF Inv, Typed
    <3> QED
      BY <1>1, <1>4, <1>6, <3>1, <3>3, ConnKept
  <2>6. ConnInv'
    BY <1>4, <2>5 DEF ConnInv
  <2>7. ClientInv'
    <3>1. Conn.client \notin backlog
      BY <1>2 DEF Inv, LoopInv
    <3>2. \A c \in Clients : c # Conn.client => unread'[c] = unread[c] /\ (Unserved(c)' <=> Unserved(c))
      BY <1>1, <2>1 DEF Inv, Typed, Unserved
    <3>3. ASSUME NEW c \in backlog PROVE Balances(sent'[c], 0, unread'[c]) /\ Unserved(c)'
      <4>1. c \in Clients /\ c # Conn.client /\ Balances(sent[c], 0, unread[c]) /\ Unserved(c)
        BY <3>1 DEF Inv, Typed, ClientInv
      <4> QED
        BY <1>1, <3>2, <4>1
    <3>4. ASSUME NEW c \in Clients \ (backlog \cup closed'), \A fd \in Live' : fd2conn'[fd].client # c
          PROVE  sent'[c] = <<>> /\ unread'[c] = 0 /\ Unserved(c)'
      <4>1. c # Conn.client /\ c \in Clients \ (backlog \cup closed)
        BY <2>1
      <4>2. \A fd \in Live : fd2conn[fd].client # c
        BY <1>2, <2>3, <3>4, <4>1
      <4>3. sent[c] = <<>> /\ unread[c] = 0 /\ Unserved(c)
        BY <4>1, <4>2 DEF Inv, ClientInv
      <4> QED
        BY <1>1, <3>2, <4>1, <4>3
    <3> QED
      BY <1>1, <3>3, <3>4 DEF ClientInv
  <2> QED
    BY <1>5, <2>2, <2>4, <2>6, <2>7 DEF Inv
<1>8. CASE ~Conn.want_close
  <2>1. UNCHANGED <<fd2conn, closed, unread>>
    BY <1>8 DEF EndConn
  <2>2. Typed'
    BY <1>1, <1>3, <2>1 DEF Inv, Typed
  <2>3. Live' = Live
    BY <2>1 DEF Live
  <2>4. LoopInv'
    BY <1>1, <1>3, <1>4, <2>1, <2>3 DEF Inv, LoopInv
  <2>5. SettledConn(Conn)
    BY <1>1, <1>2, <1>8 DEF SettledConn, HandedConn
  <2>6. \A fd \in Live : SettledConn(fd2conn[fd])
    BY <1>2, <1>6, <2>5
  <2>7. ASSUME NEW fd \in Live PROVE SolidConn(fd2conn[fd])' /\ SettledConn(fd2conn[fd])'
    BY <1>1, <1>4, <2>1, <2>6, ConnKept
  <2>8. ConnInv'
    BY <1>4, <2>3, <2>7 DEF ConnInv
  <2>9. ClientInv'
    BY <1>1, <2>1, <2>3 DEF Inv, ClientInv, Unserved
  <2> QED
    BY <1>5, <2>2, <2>4, <2>8, <2>9 DEF Inv
<1> QED
  BY <1>7, <1>8
-----------------------------------------------------------------------------
(* poll() has returned, or all it reported has been handled. *)
LEMMA InvPoll ==
  ASSUME Inv, poll \/ HandledAll
  PROVE  Inv'
<1>1. /\ ~AtHand /\ pc' \in {"poll", "accept", "handle"}
      /\ UNCHANGED <<sent, gone, unread, received, backlog, closed, fd2conn, g_map, up, done, promised>>
  BY DEF poll, HandledAll, AtHand, clientVars, history
<1>2. ~AtHand' /\ Live' = Live /\ BadSent' = BadSent
  BY <1>1 DEF AtHand, Live, BadSent
<1>3. /\ poll_args' \in Seq([fd : Fds, in : BOOLEAN, out : BOOLEAN])
      /\ \A n \in DOMAIN poll_args' : poll_args'[n].fd \in Live
      /\ \A m, n \in DOMAIN poll_args' : poll_args'[m].fd = poll_args'[n].fd => m = n
  <2>1. CASE poll
    <3>1. PICK ready \in SUBSET Live : poll_args' = Reported(ready)
      BY <2>1 DEF poll
    <3>2. /\ Reported(ready) \in Seq([fd : Fds, in : BOOLEAN, out : BOOLEAN])
          /\ \A n \in DOMAIN Reported(ready) : Reported(ready)[n].fd \in ready
          /\ \A m, n \in DOMAIN Reported(ready) :
               Reported(ready)[m].fd = Reported(ready)[n].fd => m = n
      BY ReportedEntries DEF Inv
    <3> QED
      BY <3>1, <3>2
  <2>2. CASE HandledAll
    BY <2>2 DEF HandledAll, Inv, Typed, LoopInv
  <2> QED
    BY <2>1, <2>2
<1>4. Typed'
  BY <1>1, <1>3 DEF Inv, Typed
<1>5. LoopInv'
  BY <1>1, <1>2, <1>3 DEF Inv, LoopInv
<1>6. ConnInv'
  <2>1. ASSUME NEW fd \in Live PROVE SolidConn(fd2conn[fd])' /\ SettledConn(fd2conn[fd])'
    <3>1. SettledConn(fd2conn[fd])
      BY <1>1 DEF Inv, ConnInv
    <3> QED
      BY <1>1, <1>2, <3>1, ConnKept
  <2> QED
    BY <1>2, <2>1 DEF ConnInv
<1>7. ClientInv'
  BY <1>1, <1>2 DEF Inv, ClientInv, Unserved
<1>8. FallsOnlyFor'
  BY <1>1, FallsSame DEF Inv
<1> QED
  BY <1>4, <1>5, <1>6, <1>7, <1>8 DEF Inv

(* A descriptor used again starts with a Conn of its own. *)
LEMMA InvAccept ==
  ASSUME Inv, NEW c \in Clients, NEW fd \in Fds, handle_accept(c, fd)
  PROVE  Inv'
<1>1. /\ ~AtHand /\ c \in backlog /\ fd \notin Live /\ pc' = "handle"
      /\ fd2conn' = [fd2conn EXCEPT ![fd] = NewConn(c)] /\ backlog' = backlog \ {c}
      /\ UNCHANGED <<sent, gone, unread, received, closed, g_map, poll_args, up, done, promised>>
  BY DEF handle_accept, AtHand, clientVars, history
<1>2. PICK conn : conn = NewConn(c)
  OBVIOUS
<1>3. /\ conn \in ConnType /\ conn.client = c /\ conn.want_close = FALSE
      /\ conn.want_write = FALSE /\ conn.incoming = 0 /\ conn.outgoing = <<>>
  <2>1. 0 \in 0 .. KMaxMsg /\ <<>> \in Seq(PieceType)
    BY SimpleServerAssumption
  <2> QED
    BY <1>2, <2>1 DEF NewConn, ConnType
<1>4. fd2conn'[fd] = conn /\ \A f \in Fds : f # fd => fd2conn'[f] = fd2conn[f]
  BY <1>1, <1>2 DEF Inv, Typed
<1>5. ~AtHand' /\ BadSent' = BadSent /\ Live' = Live \cup {fd}
  BY <1>1, <1>3, <1>4, ConnFields DEF AtHand, BadSent, Live
<1>6. Typed'
  <2>1. fd2conn' \in [Fds -> ConnType \cup {Null}]
    BY <1>1, <1>2, <1>3 DEF Inv, Typed
  <2> QED
    BY <1>1, <2>1 DEF Inv, Typed
<1>7. \A f \in Live : f # fd /\ f \in Fds /\ fd2conn'[f] = fd2conn[f] /\ fd2conn[f].client # c
  BY <1>1, <1>4 DEF Live, Inv, LoopInv
<1>8. LoopInv'
  <2>1. \A f, g \in Live' : fd2conn'[f].client = fd2conn'[g].client => f = g
    BY <1>3, <1>4, <1>5, <1>7 DEF Inv, LoopInv
  <2>2. \A f \in Live' : fd2conn'[f].client \notin backlog'
    BY <1>1, <1>3, <1>4, <1>5, <1>7 DEF Inv, LoopInv
  <2> QED
    BY <1>1, <1>5, <2>1, <2>2 DEF Inv, LoopInv
<1>9. ConnInv'
  <2>1. ASSUME NEW f \in Live PROVE SolidConn(fd2conn[f])' /\ SettledConn(fd2conn[f])'
    <3>1. SettledConn(fd2conn[f])
      BY <1>1 DEF Inv, ConnInv
    <3> QED
      BY <1>1, <1>5, <1>7, <3>1, ConnKept
  <2>2. SolidConn(fd2conn[fd])' /\ SettledConn(fd2conn[fd])'
    <3>1. Balances(sent[c], 0, unread[c]) /\ Unserved(c) /\ unread[c] \in Nat
      BY <1>1 DEF Inv, ClientInv, Typed
    <3>2. Balances(sent'[c], done'[c], conn.incoming + unread'[c])
      BY <1>1, <1>3, <3>1 DEF Unserved
    <3>3. received'[c] \o conn.outgoing = promised'[c]
      BY <1>1, <1>3, <3>1 DEF Unserved
    <3>4. SolidConn(fd2conn[fd])'
      BY <1>3, <1>4, <3>2, <3>3 DEF SolidConn
    <3>5. SettledConn(fd2conn[fd])'
      BY <1>3, <1>4, SimpleServerAssumption DEF SettledConn
    <3> QED
      BY <3>4, <3>5
  <2> QED
    BY <1>5, <2>1, <2>2 DEF ConnInv
<1>10. ClientInv'
  <2>1. ASSUME NEW d \in backlog' PROVE Balances(sent'[d], 0, unread'[d]) /\ Unserved(d)'
    BY <1>1 DEF Inv, ClientInv, Unserved
  <2>2. ASSUME NEW d \in Clients \ (backlog' \cup closed'), \A f \in Live' : fd2conn'[f].client # d
        PROVE  sent'[d] = <<>> /\ unread'[d] = 0 /\ Unserved(d)'
    <3>1. d # c
      BY <1>3, <1>4, <1>5, <2>2
    <3>2. d \in Clients \ (backlog \cup closed) /\ \A f \in Live : fd2conn[f].client # d
      BY <1>1, <1>5, <1>7, <2>2, <3>1
    <3> QED
      BY <1>1, <3>2 DEF Inv, ClientInv, Unserved
  <2> QED
    BY <2>1, <2>2 DEF ClientInv
<1>11. FallsOnlyFor'
  BY <1>1, FallsSame DEF Inv
<1> QED
  BY <1>6, <1>8, <1>9, <1>10, <1>11 DEF Inv

LEMMA InvAcceptError ==
  ASSUME Inv, NEW c \in Clients, AcceptError(c)
  PROVE  Inv'
<1>1. /\ ~AtHand /\ backlog' = backlog \ {c} /\ closed' = closed \cup {c} /\ pc' = "handle"
      /\ UNCHANGED <<sent, gone, unread, received, fd2conn, g_map, poll_args, up, done, promised>>
  BY DEF AcceptError, AtHand, clientVars, history
<1>2. ~AtHand' /\ BadSent' = BadSent /\ Live' = Live
  BY <1>1 DEF AtHand, BadSent, Live
<1>3. Typed'
  <2>1. backlog' \subseteq Clients /\ closed' \subseteq Clients
    BY <1>1 DEF Inv, Typed
  <2> QED
    BY <1>1, <2>1 DEF Inv, Typed
<1>4. LoopInv'
  BY <1>1, <1>2 DEF Inv, LoopInv
<1>5. ConnInv'
  <2>1. ASSUME NEW fd \in Live PROVE SolidConn(fd2conn[fd])' /\ SettledConn(fd2conn[fd])'
    <3>1. SettledConn(fd2conn[fd])
      BY <1>1 DEF Inv, ConnInv
    <3> QED
      BY <1>1, <1>2, <3>1, ConnKept
  <2> QED
    BY <1>2, <2>1 DEF ConnInv
<1>6. ClientInv'
  BY <1>1, <1>2 DEF Inv, ClientInv, Unserved
<1>7. FallsOnlyFor'
  BY <1>1, FallsSame DEF Inv
<1> QED
  BY <1>3, <1>4, <1>5, <1>6, <1>7 DEF Inv
-----------------------------------------------------------------------------
(* A step of a client: the server's own state stays as it is. *)
LEMMA ConnClient ==
  ASSUME Inv, UNCHANGED <<fd2conn, pc, poll_args>>, BadSent => BadSent',
         \A fd \in Live : SolidConn(fd2conn[fd])'
  PROVE  ConnInv'
<1>1. Live' = Live /\ (AtHand' <=> AtHand) /\ Fd' = Fd
  BY DEF Live, AtHand, Fd
<1>2. ASSUME NEW fd \in Live
      PROVE  /\ HandedConn(fd2conn[fd]) => HandedConn(fd2conn[fd])'
             /\ SettledConn(fd2conn[fd]) => SettledConn(fd2conn[fd])'
  BY DEF HandedConn, SettledConn
<1> QED
  BY <1>1, <1>2 DEF Inv, ConnInv

LEMMA InvPollDies ==
  ASSUME Inv, PollDies
  PROVE  Inv'
<1>1. up' = "died"
      /\ UNCHANGED <<sent, unread, gone, received, backlog, closed, fd2conn, g_map, poll_args, pc,
                     done, promised>>
  BY DEF PollDies, clientVars, history
<1>2. Typed'
  BY <1>1 DEF Inv, Typed
<1>3. LoopInv' /\ Live' = Live
  BY <1>1 DEF Inv, LoopInv, Live, AtHand
<1>4. ConnInv'
  BY <1>1, <1>3 DEF Inv, ConnInv, SolidConn, SettledConn, HandedConn, BadSent, AtHand, Fd, Unserved
<1>5. ClientInv'
  BY <1>1, <1>3 DEF Inv, ClientInv, Unserved, Connected
<1>6. FallsOnlyFor'
  BY <1>1 DEF FallsOnlyFor
<1> QED
  BY <1>2, <1>3, <1>4, <1>5, <1>6 DEF Inv

LEMMA InvConnect ==
  ASSUME Inv, NEW c \in Clients, Connect(c)
  PROVE  Inv'
<1>1. /\ c \notin backlog \cup Connected \cup closed /\ backlog' = backlog \cup {c}
      /\ UNCHANGED <<sent, gone, unread, received, closed, fd2conn, g_map, poll_args, pc, up,
                     done, promised>>
  BY DEF Connect, clientVars, history
<1>2. BadSent' = BadSent /\ Live' = Live /\ (AtHand' <=> AtHand)
  BY <1>1 DEF BadSent, Live, AtHand
<1>3. \A fd \in Live : fd2conn[fd].client # c
  BY <1>1 DEF Connected
<1>4. Typed'
  <2>1. backlog' \subseteq Clients
    BY <1>1 DEF Inv, Typed
  <2> QED
    BY <1>1, <2>1 DEF Inv, Typed
<1>5. LoopInv'
  BY <1>1, <1>2, <1>3 DEF Inv, LoopInv
<1>6. ConnInv'
  <2>1. \A fd \in Live : SolidConn(fd2conn[fd])'
    BY <1>1, <1>2 DEF Inv, ConnInv, SolidConn
  <2> QED
    BY <1>1, <1>2, <2>1, ConnClient
<1>7. ClientInv'
  <2>1. sent[c] = <<>> /\ unread[c] = 0 /\ Unserved(c)
    BY <1>1, <1>3 DEF Inv, ClientInv
  <2>2. Balances(sent[c], 0, unread[c])
    BY <2>1, BalancesNone
  <2>3. \A d \in backlog' : Balances(sent[d], 0, unread[d]) /\ Unserved(d)
    BY <1>1, <2>1, <2>2 DEF Inv, ClientInv
  <2> QED
    BY <1>1, <1>2, <2>3 DEF Inv, ClientInv, Unserved
<1>8. FallsOnlyFor'
  BY <1>1, FallsSame DEF Inv
<1> QED
  BY <1>4, <1>5, <1>6, <1>7, <1>8 DEF Inv

LEMMA InvSend ==
  ASSUME Inv, NEW c \in Clients, Send(c)
  PROVE  Inv'
<1>1. PICK r \in Requests[c] :
        /\ sent' = [sent EXCEPT ![c] = Append(@, r)]
        /\ unread' = [unread EXCEPT ![c] = @ + HeaderSize + r.len]
  BY DEF Send
<1>2. /\ c \in backlog \cup Connected
      /\ UNCHANGED <<gone, received, backlog, closed, fd2conn, g_map, poll_args, pc, up,
                     done, promised>>
  BY DEF Send, loopVars, history
<1>3. r \in RequestType /\ r.len \in Nat /\ HeaderSize \in Nat
  BY SimpleServerAssumption DEF RequestType
<1>4. /\ sent[c] \in Seq(RequestType) /\ unread[c] \in Nat
      /\ sent'[c] = Append(sent[c], r) /\ unread'[c] = unread[c] + HeaderSize + r.len
      /\ \A d \in Clients : d # c => sent'[d] = sent[d] /\ unread'[d] = unread[d]
  BY <1>1 DEF Inv, Typed
<1>5. /\ Append(sent[c], r) \in Seq(RequestType)
      /\ \A n \in DOMAIN sent[c] : n \in DOMAIN sent'[c] /\ sent'[c][n] = sent[c][n]
  BY <1>3, <1>4
<1>6. BadSent => BadSent'
  BY <1>4, <1>5 DEF BadSent
<1>7. Live' = Live /\ (AtHand' <=> AtHand)
  BY <1>2 DEF Live, AtHand
<1>8. Typed'
  <2>1. sent' \in [Clients -> Seq(RequestType)]
    BY <1>1, <1>5 DEF Inv, Typed
  <2>2. unread' \in [Clients -> Nat]
    BY <1>1, <1>3, <1>4 DEF Inv, Typed
  <2> QED
    BY <1>2, <2>1, <2>2 DEF Inv, Typed
<1>9. LoopInv'
  BY <1>2, <1>7 DEF Inv, LoopInv
<1>10. ConnInv'
  <2>1. ASSUME NEW fd \in Live PROVE SolidConn(fd2conn[fd])'
    <3>1. PICK conn : conn = fd2conn[fd]
      OBVIOUS
    <3>2. /\ conn \in ConnType /\ conn.client \in Clients /\ conn.incoming \in Nat
          /\ SolidConn(conn) /\ fd2conn'[fd] = conn
      BY <1>2, <3>1, LiveConn, ConnFields DEF Inv, ConnInv
    <3>3. SolidConn(conn)'
      <4>1. CASE conn.client # c
        BY <1>2, <1>4, <1>6, <3>2, <4>1, SolidSame
      <4>2. CASE conn.client = c
        <5> DEFINE b == conn.incoming + unread[c]
        <5>1. ASSUME ~conn.want_close
              PROVE  Balances(sent'[c], done'[c], conn.incoming + unread'[c])
          <6>1. Balances(sent[c], done[c], b)
            BY <3>2, <4>2, <5>1 DEF SolidConn
          <6>2. conn.incoming + unread'[c] = b + HeaderSize + r.len
            BY <1>3, <1>4, <3>2
          <6> HIDE DEF b
          <6>3. Balances(Append(sent[c], r), done[c], b + HeaderSize + r.len)
            BY <1>3, <1>4, <6>1, BalancesSend
          <6> QED
            BY <1>2, <1>4, <6>2, <6>3
        <5> QED
          BY <1>2, <1>6, <3>2, <4>2, <5>1 DEF SolidConn
      <4> QED
        BY <4>1, <4>2
    <3> QED
      BY <3>2, <3>3 DEF SolidConn
  <2> QED
    BY <1>2, <1>6, <2>1, ConnClient
<1>11. ClientInv'
  <2>1. ASSUME NEW d \in backlog PROVE Balances(sent'[d], 0, unread'[d]) /\ Unserved(d)'
    <3>1. d \in Clients /\ Balances(sent[d], 0, unread[d]) /\ Unserved(d)
      BY DEF Inv, Typed, ClientInv
    <3>2. Unserved(d)'
      BY <1>2, <3>1 DEF Unserved
    <3>3. CASE d # c
      BY <1>4, <3>1, <3>2, <3>3
    <3>4. CASE d = c
      <4>1. Balances(Append(sent[c], r), 0, unread[c] + HeaderSize + r.len)
        BY <1>3, <1>4, <3>1, <3>4, BalancesSend
      <4> QED
        BY <1>4, <3>2, <3>4, <4>1
    <3> QED
      BY <3>3, <3>4
  <2>2. ASSUME NEW d \in Clients \ (backlog \cup closed), \A fd \in Live : fd2conn[fd].client # d
        PROVE  sent'[d] = <<>> /\ unread'[d] = 0 /\ Unserved(d)'
    <3>1. d # c
      BY <1>2, <2>2 DEF Connected
    <3>2. sent[d] = <<>> /\ unread[d] = 0 /\ Unserved(d)
      BY <2>2 DEF Inv, ClientInv
    <3> QED
      BY <1>2, <1>4, <3>1, <3>2 DEF Unserved
  <2> QED
    BY <1>2, <1>7, <2>1, <2>2 DEF ClientInv
<1>12. FallsOnlyFor'
  <2>1. up = "aborted" => BadSent
    BY DEF Inv, FallsOnlyFor, BadSent
  <2>2. up' = "aborted" => BadSent'
    BY <1>2, <1>6, <2>1
  <2> QED
    BY <1>2, <2>2 DEF Inv, FallsOnlyFor, BadSent
<1> QED
  BY <1>8, <1>9, <1>10, <1>11, <1>12 DEF Inv

LEMMA InvHangUp ==
  ASSUME Inv, NEW c \in Clients, HangUp(c)
  PROVE  Inv'
<1>1. /\ gone' = [gone EXCEPT ![c] = TRUE]
      /\ UNCHANGED <<sent, unread, received, backlog, closed, fd2conn, g_map, poll_args, pc, up,
                     done, promised>>
  BY DEF HangUp, loopVars, history
<1>2. gone' \in [Clients -> BOOLEAN] /\ \A d \in Clients : gone[d] => gone'[d]
  BY <1>1 DEF Inv, Typed
<1>3. BadSent' = BadSent /\ Live' = Live /\ (AtHand' <=> AtHand)
  BY <1>1 DEF BadSent, Live, AtHand
<1>4. Typed'
  BY <1>1, <1>2 DEF Inv, Typed
<1>5. LoopInv'
  BY <1>1, <1>3 DEF Inv, LoopInv
<1>6. ConnInv'
  <2>1. ASSUME NEW fd \in Live PROVE SolidConn(fd2conn[fd])'
    <3>1. fd2conn[fd].client \in Clients /\ SolidConn(fd2conn[fd])
      BY LiveConn, ConnFields DEF Inv, ConnInv
    <3> QED
      BY <1>1, <1>2, <1>3, <3>1 DEF SolidConn
  <2> QED
    BY <1>1, <1>3, <2>1, ConnClient
<1>7. ClientInv'
  BY <1>1, <1>3 DEF Inv, ClientInv, Unserved
<1>8. FallsOnlyFor'
  BY <1>1, <1>2 DEF Inv, FallsOnlyFor
<1> QED
  BY <1>4, <1>5, <1>6, <1>7, <1>8 DEF Inv

LEMMA InvNext == Inv /\ [Next]_vars => Inv'
<1> SUFFICES ASSUME Inv, [Next]_vars PROVE Inv'
  OBVIOUS
<1>1. CASE ServerStep
  BY <1>1, InvPoll, InvAccept, InvAcceptError, InvReadAsserts, InvReadEnd, InvNoRead, InvRead,
     InvNoRequest, InvRequest, InvWriteAsserts, InvNoWrite, InvWriteError, InvWrite, InvEndConn
     DEF ServerStep
<1>2. CASE UNCHANGED vars
  BY <1>2, ZenonT(30) DEF vars, clientVars, loopVars, history, Inv, Typed, LoopInv, ConnInv, ClientInv,
              FallsOnlyFor, Live, AtHand, Fd, SolidConn, SettledConn, HandedConn, Unserved, BadSent
<1> QED
  BY <1>1, <1>2, InvPollDies, InvConnect, InvSend, InvHangUp DEF Next

(* The buffers keep to k_max_msg, every entry of poll_args still to be      *)
(* handled has a Conn, and no client has two, for any number of clients and *)
(* descriptors (main() and handle_accept, descriptors used again included). *)
THEOREM TypeCorrect == Spec => []TypeOK
<1>1. Inv => TypeOK
  <2> SUFFICES ASSUME Inv PROVE TypeOK
    OBVIOUS
  <2>1. \A fd \in Live : fd2conn[fd].incoming \in 0 .. KMaxMsg
    BY LiveConn, ConnFields DEF Inv
  <2> QED
    BY <2>1 DEF Inv, Typed, LoopInv, AtHand, TypeOK
<1> QED
  BY <1>1, InvInit, InvNext, PTL DEF Spec

(* Only a request that cannot be served makes an assert of handle_read or   *)
(* handle_write fail, and only a client that left kills the server, however *)
(* the reads are cut, requests pipelined and connections closed.            *)
THEOREM FallsOnly == Spec => []FallsOnlyFor
<1>1. Inv => FallsOnlyFor
  BY DEF Inv
<1> QED
  BY <1>1, InvInit, InvNext, PTL DEF Spec

(* What a client that stays has received, followed by what its Conn still   *)
(* holds, is what try_one_request promised it, in order and once.           *)
THEOREM RepliesKeepOrder == Spec => []RepliesInOrder
<1>1. Inv => RepliesInOrder
  BY DEF Inv, ConnInv, SolidConn, RepliesInOrder
<1> QED
  BY <1>1, InvInit, InvNext, PTL DEF Spec
=============================================================================
