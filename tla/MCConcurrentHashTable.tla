----------------------- MODULE MCConcurrentHashTable -----------------------
(* A small table for TLC: it starts with one bucket, so that two keys make  *)
(* it grow twice; k1 and k2 collide until it has four buckets, k1 and k3    *)
(* always.                                                                  *)
EXTENDS ConcurrentHashTable

CONSTANTS t1, t2, k1, k2, k3, v1

MCThreads == {t1, t2}
MCHash    == k1 :> 5 @@ k2 :> 3 @@ k3 :> 1
ThreeKeys == {k1, k2, k3}
=============================================================================
