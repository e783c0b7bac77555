--------------------------- MODULE MCSimpleServer ---------------------------
(* Two clients, a buffer of four bytes and lengths of one byte: requests   *)
(* that leave room, fill the buffer, fit it only without their length, and  *)
(* are too long.  The second client sends what can be served.               *)
EXTENDS SimpleServer, TLC

CONSTANTS c1, c2, k, v

MCClients == {c1, c2}
MCKeys == {k}
MCValues == {v}

Request(cmd, len) == [cmd |-> cmd, key |-> k, value |-> v, len |-> len]

MCRequests ==
  c1 :> {Request("GET", 1), Request("INCOMPLETE", 1),
         Request("OTHER", 4), Request("OTHER", 5)}
  @@ c2 :> {Request("SET", 3)}

MCMaxRequests == c1 :> 2 @@ c2 :> 1
=============================================================================
