---------------------------- MODULE MCSortedSet ----------------------------
(* Argument lists for model checking: two calls that undo each other, item  *)
(* by item, the first of them naming a member twice. The members 0 to 4     *)
(* hold the empty string, "\xff", which is 3, and one that sorts after it.  *)
EXTENDS SortedSet, TLC

CONSTANTS t1, t2

TwoThreads == {t1, t2}

SomeItems == {<<<<1, 2>>, <<2, 1>>, <<1, 1>>>>}

SomeMembers == {<<2, 1>>}

(* Threads differ in nothing. *)
Symmetry == Permutations(TwoThreads)
=============================================================================
