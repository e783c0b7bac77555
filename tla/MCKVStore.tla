----------------------------- MODULE MCKVStore -----------------------------
(* Two threads, two keys, one value, and requests of every command, with    *)
(* repeated keys, wrong numbers of arguments, and a command of kv_store.hpp *)
(* that has no handler.                                                     *)
EXTENDS KVStore, TLC

CONSTANTS t1, t2, k1, k2, v

MCThreads == {t1, t2}
MCKeys == {k1, k2}
MCValues == {v}

MCRequests ==
  {<<>>, <<"ZADD">>, <<"GET">>, <<"GET", k1>>, <<"SET", k1, v>>, <<"SET", k2, v>>,
   <<"DEL", k1, k2>>, <<"DEL", k1, k1>>, <<"EXISTS", k1, k2>>, <<"KEYS", {k1}>>,
   <<"PING">>, <<"ECHO">>, <<"FLUSHDB">>, <<"DBSIZE">>, <<"INFO">>}

Symmetric == Permutations(MCThreads)
=============================================================================
