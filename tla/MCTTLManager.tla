---------------------------- MODULE MCTTLManager ----------------------------
(* A small manager for TLC: a second is two ticks, and the clock runs long  *)
(* enough for the shortest duration to pass and for a longer one not to.    *)
EXTENDS TTLManager

CONSTANTS t1, t2, k1, k2, k3

OneThread == {t1}
MCThreads == {t1, t2}
ThreeKeys == {k1, k2, k3}

(* Threads and keys are interchangeable. *)
ThreadsAndKeys == Permutations(Threads) \cup Permutations(Keys)
=============================================================================
