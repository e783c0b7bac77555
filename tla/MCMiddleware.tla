---------------------------- MODULE MCMiddleware ----------------------------
EXTENDS Middleware

(* One command of every kind of effect and reply; FLUSHDB comes with stop. *)
EveryKind == {<<"SET", 1>>, <<"DEL", 1>>, <<"PING", 1>>}
=============================================================================
