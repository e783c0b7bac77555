----------------------------- MODULE TTLManager -----------------------------
(***************************************************************************)
(* TTLManager of src/src/data/ttl_manager.cpp: deadlines in an array heap   *)
(* with an index from keys to heap positions, shared by threads under one   *)
(* std::mutex, while the steady clock goes on.  Positions count from 1, so  *)
(* index i of the code is position i + 1 here, and position 0 stands for    *)
(* key_to_index_.end().  Each turn of a heapify loop, and each turn of the  *)
(* loop of check_expirations, is a step of its own.  The ids (next_id_,     *)
(* key_to_id_) are written and never read, and are left out.                *)
(***************************************************************************)
EXTENDS Integers, SequencesExt, FiniteSets

CONSTANTS Threads,      \* the threads that call the manager
          Keys,         \* the strings used as keys
          Durations,    \* the durations callers ask for, in the call's unit
          Second,       \* ticks of the clock in a second
          Millisecond,  \* and in a millisecond
          MaxTime,      \* bound: the clock stops there
          Nil,          \* "no call", "no result yet", "no key"
          NoThread      \* the mutex has no owner

ASSUME DurationsAssumption == Durations \subseteq Int
ASSUME UnitAssumption == Second \in Nat \ {0} /\ Millisecond \in Nat \ {0}
ASSUME MaxTimeAssumption == MaxTime \in Nat
ASSUME NoThreadAssumption == NoThread \notin Threads
ASSUME NilAssumption == Nil \notin Int

VARIABLES expiration_heap,  \* expiration_heap_: a sequence of entries
          key_to_index,     \* key_to_index_: key_to_index[k] is 0 without a TTL
          total_expired,    \* total_expired_
          owner,            \* the thread that holds mutex_
          now,              \* what now() reads
          pc,               \* pc[t]: what t does next
          call,             \* call[t]: the call t is in
          index,            \* index[t]: the local of the heapify loops
          from,             \* from[t]: where heapify_down is to start, or 0
          now_time,         \* now_time[t]: the local of check_expirations
          expired_key,      \* expired_key[t]: likewise
          expired_count,    \* expired_count[t]: likewise
          ret               \* ret[t]: the value t's call is about to return

vars == <<expiration_heap, key_to_index, total_expired, owner, now, pc, call,
          index, from, now_time, expired_key, expired_count, ret>>

store   == <<expiration_heap, key_to_index>>
heaping == <<index, from>>
checks  == <<now_time, expired_key, expired_count>>

Entry == [key : Keys, expire_time : Nat]

SetOps      == {"set_ttl", "set_ttl_ms"}
SetCalls    == [op : SetOps, key : Keys, time : Durations]
KeyCalls    == [op : {"get_ttl", "get_ttl_ms", "has_ttl", "remove_ttl"}, key : Keys]
GlobalCalls == [op : {"check_expirations", "size", "clear", "get_stats"}]
AllCalls    == SetCalls \cup KeyCalls \cup GlobalCalls

Init ==
  /\ expiration_heap = <<>>
  /\ key_to_index  = [k \in Keys |-> 0]
  /\ total_expired = 0
  /\ owner         = NoThread
  /\ now           = 0
  /\ pc            = [t \in Threads |-> "idle"]
  /\ call          = [t \in Threads |-> Nil]
  /\ index         = [t \in Threads |-> 0]
  /\ from          = [t \in Threads |-> 0]
  /\ now_time      = [t \in Threads |-> 0]
  /\ expired_key   = [t \in Threads |-> Nil]
  /\ expired_count = [t \in Threads |-> 0]
  /\ ret           = [t \in Threads |-> Nil]
-----------------------------------------------------------------------------
(* TTLEntry::operator>, on the entries at two positions. *)
Later(heap, i, j) == heap[i].expire_time > heap[j].expire_time

(* What heapify_down calls smallest: it starts at index, and a child is     *)
(* taken when it is later than the one chosen so far.                       *)
Smallest(heap, i) ==
  LET left  == 2 * i
      right == 2 * i + 1
      first == IF left <= Len(heap) /\ Later(heap, left, i) THEN left ELSE i
  IN  IF right <= Len(heap) /\ Later(heap, right, first) THEN right ELSE first

(* swap_entries, on the heap and on the index. *)
Swapped(heap, i, j) == [heap EXCEPT ![i] = heap[j], ![j] = heap[i]]
(* Mutant of Reindexed: only one of the two keys is given its new place. *)
ReindexedOnce(where, heap, i, j) == [where EXCEPT ![heap[i].key] = j]

Reindexed(where, heap, i, j) == [where EXCEPT ![heap[i].key] = j, ![heap[j].key] = i]

swap_entries(i, j) ==
  /\ expiration_heap' = Swapped(expiration_heap, i, j)
  /\ key_to_index' = Reindexed(key_to_index, expiration_heap, i, j)

Goto(t, label) == pc' = [pc EXCEPT ![t] = label]

(* The method is done but for the destructor of its lock_guard. *)
ReturnValue(t, value) ==
  /\ ret' = [ret EXCEPT ![t] = value]
  /\ Goto(t, "unlock")

(* What follows heapify_up and heapify_down: the rest of the loop of        *)
(* check_expirations, or the return of set_ttl, set_ttl_ms or remove_ttl.   *)
Heapified(t) ==
  IF call[t].op = "check_expirations"
  THEN Goto(t, "callback") /\ UNCHANGED ret
  ELSE ReturnValue(t, TRUE)

(* heapify_up(i), and heapify_down(down) after it unless down is 0. *)
Heapify(t, i, down) ==
  /\ index' = [index EXCEPT ![t] = i]
  /\ from'  = [from EXCEPT ![t] = down]
  /\ Goto(t, "up")

(* remove_from_heap: the last entry takes the place of the one at i. *)
remove_from_heap(t, i) ==
  LET last == Len(expiration_heap)
  IN  /\ expiration_heap' = Front(Swapped(expiration_heap, i, last))
      /\ key_to_index' = [Reindexed(key_to_index, expiration_heap, i, last)
                            EXCEPT ![expiration_heap[i].key] = 0]
      /\ IF i # last
         THEN Heapify(t, i, i) /\ UNCHANGED ret
         ELSE Heapified(t) /\ UNCHANGED heaping
-----------------------------------------------------------------------------
Call(t) ==
  /\ pc[t] = "idle"
  /\ \E c \in AllCalls : call' = [call EXCEPT ![t] = c]
  /\ Goto(t, "lock")
  /\ UNCHANGED <<store, total_expired, owner, now, heaping, checks, ret>>

(* The lock_guard of the method, and the second one ("relock") when         *)
(* set_ttl calls remove_ttl.  mutex_ is a std::mutex: a thread that already *)
(* holds it waits like any other.                                           *)
Lock(t) ==
  /\ pc[t] \in {"lock", "relock"}
  /\ owner = NoThread
  /\ owner' = t
  /\ Goto(t, IF pc[t] = "relock" \/ call[t].op = "remove_ttl" THEN "remove" ELSE "apply")
  /\ UNCHANGED <<store, total_expired, now, call, heaping, checks, ret>>

Applying(t, op) == pc[t] = "apply" /\ call[t].op = op

SetNonPositive(t) ==
  /\ call[t].time <= 0
  /\ Goto(t, "relock")
  /\ UNCHANGED <<store, heaping, ret>>

SetUpdate(t, unit) ==
  LET i == key_to_index[call[t].key]
  IN  /\ call[t].time > 0
      /\ i # 0
      /\ expiration_heap' =
           [expiration_heap EXCEPT
              ![i] = [key |-> @.key, expire_time |-> now + call[t].time * unit]]
      /\ Heapify(t, i, i)
      /\ UNCHANGED <<key_to_index, ret>>

SetInsert(t, unit) ==
  LET k == call[t].key
      i == Len(expiration_heap) + 1
  IN  /\ call[t].time > 0
      /\ key_to_index[k] = 0
      /\ expiration_heap' = Append(expiration_heap,
           [key |-> k, expire_time |-> now + call[t].time * unit])
      /\ key_to_index' = [key_to_index EXCEPT ![k] = i]
      /\ Heapify(t, i, 0)
      /\ UNCHANGED ret

SetWith(t, op, unit) ==
  /\ Applying(t, op)
  /\ SetNonPositive(t) \/ SetUpdate(t, unit) \/ SetInsert(t, unit)
  /\ UNCHANGED <<total_expired, owner, now, call, checks>>

set_ttl(t)    == SetWith(t, "set_ttl", Second)
set_ttl_ms(t) == SetWith(t, "set_ttl_ms", Millisecond)

RemoveMissing(t) ==
  /\ pc[t] = "remove"
  /\ key_to_index[call[t].key] = 0
  /\ ReturnValue(t, FALSE)
  /\ UNCHANGED <<store, total_expired, owner, now, call, heaping, checks>>

RemoveFound(t) ==
  /\ pc[t] = "remove"
  /\ key_to_index[call[t].key] # 0
  /\ remove_from_heap(t, key_to_index[call[t].key])
  /\ UNCHANGED <<total_expired, owner, now, call, checks>>
-----------------------------------------------------------------------------
(* Mutant of heapify_up: the loop does not follow the entry it moved. *)
heapify_up_stays(t) ==
  LET i      == index[t]
      parent == i \div 2
  IN  /\ pc[t] = "up"
      /\ i > 1
      /\ ~Later(expiration_heap, i, parent)
      /\ swap_entries(i, parent)
      /\ UNCHANGED <<total_expired, owner, now, pc, call, heaping, checks, ret>>

heapify_up(t) ==
  LET i      == index[t]
      parent == i \div 2
  IN  /\ pc[t] = "up"
      /\ i > 1
      /\ ~Later(expiration_heap, i, parent)
      /\ swap_entries(i, parent)
      /\ index' = [index EXCEPT ![t] = parent]
      /\ UNCHANGED <<total_expired, owner, now, pc, call, from, checks, ret>>

(* heapify_down starts where heapify_up started, not where it ended. *)
UpDone(t) ==
  /\ pc[t] = "up"
  /\ index[t] > 1 => Later(expiration_heap, index[t], index[t] \div 2)
  /\ index' = [index EXCEPT ![t] = from[t]]
  /\ IF from[t] # 0 THEN Goto(t, "down") /\ UNCHANGED ret ELSE Heapified(t)
  /\ UNCHANGED <<store, total_expired, owner, now, call, from, checks>>

heapify_down(t) ==
  LET i        == index[t]
      smallest == Smallest(expiration_heap, i)
  IN  /\ pc[t] = "down"
      /\ smallest # i
      /\ swap_entries(i, smallest)
      /\ index' = [index EXCEPT ![t] = smallest]
      /\ UNCHANGED <<total_expired, owner, now, pc, call, from, checks, ret>>

DownDone(t) ==
  /\ pc[t] = "down"
  /\ Smallest(expiration_heap, index[t]) = index[t]
  /\ Heapified(t)
  /\ UNCHANGED <<store, total_expired, owner, now, call, heaping, checks>>
-----------------------------------------------------------------------------
(* check_expirations reads the clock once, before its loop. *)
CheckStart(t) ==
  /\ Applying(t, "check_expirations")
  /\ now_time' = [now_time EXCEPT ![t] = now]
  /\ Goto(t, "check")
  /\ UNCHANGED <<store, total_expired, owner, now, call, heaping,
                 expired_key, expired_count, ret>>

(* Mutant of TopExpired: an entry is taken one tick before its time. *)
TopExpiresEarly(t) ==
  expiration_heap # <<>> /\ expiration_heap[1].expire_time <= now_time[t] + 1

TopExpired(t) == expiration_heap # <<>> /\ expiration_heap[1].expire_time <= now_time[t]

(* Mutant of CheckTop: the key is read through top after the removal. *)
CheckTopStale(t) ==
  /\ pc[t] = "check"
  /\ TopExpired(t)
  /\ remove_from_heap(t, 1)
  /\ expired_key' = [expired_key EXCEPT ![t] =
       IF Len(expiration_heap) > 1 THEN expiration_heap'[1].key ELSE expiration_heap[1].key]
  /\ UNCHANGED <<total_expired, owner, now, call, now_time, expired_count>>

CheckTop(t) ==
  /\ pc[t] = "check"
  /\ TopExpired(t)
  /\ expired_key' = [expired_key EXCEPT ![t] = expiration_heap[1].key]
  /\ remove_from_heap(t, 1)
  /\ UNCHANGED <<total_expired, owner, now, call, now_time, expired_count>>

(* expiration_callback_(expired_key), still under mutex_, and the counts. *)
Callback(t) ==
  /\ pc[t] = "callback"
  /\ expired_count' = [expired_count EXCEPT ![t] = @ + 1]
  /\ total_expired' = total_expired + 1
  /\ Goto(t, "check")
  /\ UNCHANGED <<store, owner, now, call, heaping, now_time, expired_key, ret>>

CheckDone(t) ==
  /\ pc[t] = "check"
  /\ ~TopExpired(t)
  /\ ReturnValue(t, expired_count[t])
  /\ UNCHANGED <<store, total_expired, owner, now, call, heaping, checks>>
-----------------------------------------------------------------------------
(* -1: the key has no TTL; -2: its time has come, and no check has run. *)
Remaining(k, unit) ==
  LET expire_time == expiration_heap[key_to_index[k]].expire_time
  IN  IF key_to_index[k] = 0 THEN -1
      ELSE IF expire_time <= now THEN -2
      ELSE (expire_time - now) \div unit

Answer(t, op, value) ==
  /\ Applying(t, op)
  /\ ReturnValue(t, value)
  /\ UNCHANGED <<store, total_expired, owner, now, call, heaping, checks>>

get_ttl(t)    == Answer(t, "get_ttl", Remaining(call[t].key, Second))
get_ttl_ms(t) == Answer(t, "get_ttl_ms", Remaining(call[t].key, Millisecond))
has_ttl(t)    == Answer(t, "has_ttl", key_to_index[call[t].key] # 0)
size(t)       == Answer(t, "size", Len(expiration_heap))
get_stats(t)  == Answer(t, "get_stats", [entries |-> Len(expiration_heap),
                                         expired |-> total_expired])

clear(t) ==
  /\ Applying(t, "clear")
  /\ expiration_heap' = <<>>
  /\ key_to_index' = [k \in Keys |-> 0]
  /\ ReturnValue(t, Nil)
  /\ UNCHANGED <<total_expired, owner, now, call, heaping, checks>>

Unlock(t) ==
  /\ pc[t] = "unlock"
  /\ owner' = NoThread
  /\ Goto(t, "idle")
  /\ call'          = [call EXCEPT ![t] = Nil]
  /\ index'         = [index EXCEPT ![t] = 0]
  /\ from'          = [from EXCEPT ![t] = 0]
  /\ now_time'      = [now_time EXCEPT ![t] = 0]
  /\ expired_key'   = [expired_key EXCEPT ![t] = Nil]
  /\ expired_count' = [expired_count EXCEPT ![t] = 0]
  /\ ret'           = [ret EXCEPT ![t] = Nil]
  /\ UNCHANGED <<store, total_expired, now>>

Tick ==
  /\ now < MaxTime
  /\ now' = now + 1
  /\ UNCHANGED <<store, total_expired, owner, pc, call, heaping, checks, ret>>
-----------------------------------------------------------------------------
Apply(t) == set_ttl(t) \/ set_ttl_ms(t) \/ get_ttl(t) \/ get_ttl_ms(t) \/ has_ttl(t)
              \/ size(t) \/ get_stats(t) \/ clear(t) \/ CheckStart(t)
              \/ RemoveMissing(t) \/ RemoveFound(t)
Loops(t) == heapify_up(t) \/ UpDone(t) \/ heapify_down(t) \/ DownDone(t)
              \/ CheckTop(t) \/ Callback(t) \/ CheckDone(t)

(* The steps of a method between its lock and the return to its caller. *)
Body(t) == Apply(t) \/ Loops(t) \/ Unlock(t)

Next == Tick \/ \E t \in Threads : Call(t) \/ Lock(t) \/ Body(t)

Spec == Init /\ [][Next]_vars
-----------------------------------------------------------------------------
Pcs == {"idle", "lock", "relock", "apply", "remove", "up", "down",
        "check", "callback", "unlock"}

Results ==
  [set_ttl |-> BOOLEAN, set_ttl_ms |-> BOOLEAN, remove_ttl |-> BOOLEAN,
   get_ttl |-> Int, get_ttl_ms |-> Int, has_ttl |-> BOOLEAN, check_expirations |-> Nat,
   size |-> Nat, clear |-> {Nil}, get_stats |-> [entries : Nat, expired : Nat]]

TypeOK ==
  /\ expiration_heap \in Seq(Entry)
  /\ key_to_index \in [Keys -> Nat]
  /\ total_expired \in Nat
  /\ owner \in Threads \cup {NoThread}
  /\ now \in Nat
  /\ pc \in [Threads -> Pcs]
  /\ index \in [Threads -> Nat]
  /\ from \in [Threads -> Nat]
  /\ now_time \in [Threads -> Nat]
  /\ expired_key \in [Threads -> Keys \cup {Nil}]
  /\ expired_count \in [Threads -> Nat]
  /\ DOMAIN call = Threads /\ DOMAIN ret = Threads
  /\ \A t \in Threads :
       IF pc[t] = "idle"
       THEN call[t] = Nil /\ ret[t] = Nil
       ELSE /\ call[t] \in AllCalls
            /\ ret[t] \in IF pc[t] = "unlock" THEN Results[call[t].op] ELSE {Nil}

Indexes(where, heap) ==
  /\ \A i \in DOMAIN heap : where[heap[i].key] = i
  /\ \A k \in Keys : where[k] # 0 => where[k] \in DOMAIN heap /\ heap[where[k]].key = k

(* IndexOK: key_to_index_ is the inverse of the heap, after every swap of   *)
(* every heapify loop: a key has one entry at most, every entry is found    *)
(* through its key, and no key leads outside the vector or to the entry of  *)
(* another key, which an update or a removal would then change instead.     *)
IndexOK == Indexes(key_to_index, expiration_heap)

(* CallbackAfterRemoval: the key handed to the expiration callback is the   *)
(* one whose entry was taken off the heap: it has no TTL any more, although *)
(* another entry stands where top refers to.                                *)
CallbackAfterRemoval ==
  \A t \in Threads : expired_key[t] # Nil => key_to_index[expired_key[t]] = 0

(* What is left of the method of a thread at label p, with n entries in the *)
(* heap and i the local of its heapify loop, most significant first: the    *)
(* stage, the entries a check may still take, the phase of the removal it   *)
(* is in, and the turns the loop can still make.                            *)
Stage == [lock |-> 5, apply |-> 4, relock |-> 3, remove |-> 2, unlock |-> 0, idle |-> 0]

Left(p, n, i) ==
  CASE p = "up"       -> <<1, n, 3, i>>
    [] p = "down"     -> <<1, n, 2, n - i>>
    [] p = "callback" -> <<1, n, 1, 0>>
    [] p = "check"    -> <<1, n, 0, 0>>
    [] OTHER          -> <<Stage[p], 0, 0, 0>>

LeftOf(t) == Left(pc[t], Len(expiration_heap), index[t])

Less(a, b) == \E i \in 1..4 : a[i] < b[i] /\ \A j \in 1..(i - 1) : a[j] = b[j]

(* LoopsEnd: every step a thread takes in a method, from the lock to the    *)
(* return, brings the return closer: the heapify loops, heapify_down from   *)
(* the position heapify_up left, and the loop over expired entries all end, *)
(* whatever is in the heap.                                                 *)
LoopsEnd ==
  [][\A t \in Threads :
       (Lock(t) \/ (Body(t) /\ ~Unlock(t))) => Less(LeftOf(t)', LeftOf(t))]_vars

(* CheckComplete: check_expirations leaves no entry behind that had expired *)
(* when it began: its comment says "Check all expired entries".             *)
CheckComplete ==
  \A t \in Threads :
    (pc[t] = "unlock" /\ call[t].op = "check_expirations") =>
      \A i \in DOMAIN expiration_heap : expiration_heap[i].expire_time > now_time[t]
-----------------------------------------------------------------------------
(* What makes these inductive: who holds the mutex, and what the thread     *)
(* that holds it knows at each of its steps.  A thread in "relock" holds    *)
(* the mutex it waits for, so "remove" is only reached by remove_ttl.       *)
Inside(t)   == pc[t] \notin {"idle", "lock"}
Checking(t) == pc[t] # "idle" /\ call[t].op = "check_expirations"

LockInv == \A t \in Threads : owner = t <=> Inside(t)

PcInv(t) ==
  /\ pc[t] = "apply" => call[t].op # "remove_ttl"
  /\ pc[t] = "remove" => call[t].op = "remove_ttl"
  /\ pc[t] = "relock" => call[t].op \in SetOps
  /\ pc[t] \in {"up", "down"} =>
       call[t].op \in SetOps \cup {"remove_ttl", "check_expirations"}
  /\ pc[t] \in {"check", "callback"} => call[t].op = "check_expirations"
  /\ (call[t] \in SetCalls /\ pc[t] \in {"up", "down", "unlock"}) => call[t].time > 0

HeapifyInv(t) ==
  pc[t] \in {"up", "down"} =>
    index[t] \in DOMAIN expiration_heap /\ from[t] \in DOMAIN expiration_heap \cup {0}

CheckInv(t) ==
  /\ now_time[t] <= now
  /\ expired_key[t] # Nil => Checking(t) /\ Inside(t) /\ key_to_index[expired_key[t]] = 0
  /\ expired_count[t] # 0 => Checking(t) /\ Inside(t)

ThreadInv(t) == PcInv(t) /\ HeapifyInv(t) /\ CheckInv(t)

IndInv == TypeOK /\ LockInv /\ IndexOK /\ \A t \in Threads : ThreadInv(t)
-----------------------------------------------------------------------------
(* The deadlines a heap and its index represent. *)
Deadlines(where, heap) ==
  [k \in Keys |-> IF where[k] = 0 THEN Nil ELSE heap[where[k]].expire_time]

(* The promise the manager implements, and how far each call has got.       *)
deadline == Deadlines(key_to_index, expiration_heap)

InFlight(t)  == Checking(t) /\ pc[t] \in {"up", "down", "callback"}
Performed(t) == pc[t] = "unlock" \/ (pc[t] \in {"up", "down"} /\ ~Checking(t))

total  == total_expired + IF \E t \in Threads : InFlight(t) THEN 1 ELSE 0
tally  == [t \in Threads |-> expired_count[t] + IF InFlight(t) THEN 1 ELSE 0]
status == [t \in Threads |-> IF pc[t] = "idle" THEN "idle"
                             ELSE IF Performed(t) THEN "done" ELSE "pending"]
seen   == [t \in Threads |-> IF pc[t] = "unlock" THEN ret[t]
                             ELSE IF Performed(t) THEN TRUE ELSE Nil]

Promise == INSTANCE ExpiryMap WITH ret <- seen

(* KeepsPromise: the heap, its index and the loops behave as one map from   *)
(* keys to deadlines: every call takes effect at one instant, no deadline   *)
(* is lost or changed by moving entries around, and a key expires, and is   *)
(* counted, only once its deadline has passed.                              *)
KeepsPromise == Promise!Spec
=============================================================================
