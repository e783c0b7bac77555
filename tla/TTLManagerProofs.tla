-------------------------- MODULE TTLManagerProofs --------------------------
(***************************************************************************)
(* The inductive invariant of TTLManager, for every set of threads, keys    *)
(* and durations and however long the clock runs, and that TTLManager       *)
(* implements ExpiryMap.                                                    *)
(***************************************************************************)
EXTENDS TTLManager, FiniteSetTheorems, TLAPS

(* A heap and the index that belongs to it. *)
GoodHeap(where, heap) ==
  heap \in Seq(Entry) /\ where \in [Keys -> Nat] /\ Indexes(where, heap)

LEMMA HeapPositions ==
  ASSUME NEW heap \in Seq(Entry)
  PROVE  /\ DOMAIN heap = 1..Len(heap) /\ Len(heap) \in Nat
         /\ \A i \in DOMAIN heap : i \in Nat /\ i # 0 /\ heap[i] \in Entry
                                   /\ heap[i].key \in Keys /\ heap[i].expire_time \in Nat
<1>1. DOMAIN heap = 1..Len(heap) /\ Len(heap) \in Nat /\ \A i \in DOMAIN heap : heap[i] \in Entry
  OBVIOUS
<1>2. \A i \in DOMAIN heap : i \in Nat /\ i # 0
  BY <1>1
<1>3. \A e \in Entry : e.key \in Keys /\ e.expire_time \in Nat
  BY DEF Entry
<1> QED
  BY <1>1, <1>2, <1>3

(* swap_entries: the index stays the inverse, the entries stay the same. *)
LEMMA SwapKeepsIndex ==
  ASSUME NEW where, NEW heap, GoodHeap(where, heap),
         NEW i \in DOMAIN heap, NEW j \in DOMAIN heap
  PROVE  /\ GoodHeap(Reindexed(where, heap, i, j), Swapped(heap, i, j))
         /\ Len(Swapped(heap, i, j)) = Len(heap)
         /\ DOMAIN Swapped(heap, i, j) = DOMAIN heap
         /\ \A k \in Keys : Reindexed(where, heap, i, j)[k] = 0 <=> where[k] = 0
         /\ Deadlines(Reindexed(where, heap, i, j), Swapped(heap, i, j))
              = Deadlines(where, heap)
<1> DEFINE h == Swapped(heap, i, j)
           w == Reindexed(where, heap, i, j)
<1>1. /\ heap \in Seq(Entry) /\ where \in [Keys -> Nat]
      /\ \A m \in DOMAIN heap : where[heap[m].key] = m
      /\ \A k \in Keys : where[k] # 0 => where[k] \in DOMAIN heap /\ heap[where[k]].key = k
  BY DEF GoodHeap, Indexes
<1>2. /\ \A m \in DOMAIN heap : m \in Nat /\ m # 0 /\ heap[m] \in Entry /\ heap[m].key \in Keys
      /\ DOMAIN heap = 1..Len(heap) /\ Len(heap) \in Nat
  BY <1>1, HeapPositions
<1>3. /\ DOMAIN h = DOMAIN heap /\ h[i] = heap[j] /\ h[j] = heap[i]
      /\ \A m \in DOMAIN heap : m # i /\ m # j => h[m] = heap[m]
  BY DEF Swapped
<1>4. h \in Seq(Entry) /\ Len(h) = Len(heap)
  <2>1. h \in [1..Len(heap) -> Entry]
    BY <1>1, <1>2 DEF Swapped
  <2> QED
    BY <1>2, <2>1
<1>5. /\ w \in [Keys -> Nat] /\ w[heap[j].key] = i /\ w[heap[i].key] = j
      /\ \A k \in Keys : k # heap[i].key /\ k # heap[j].key => w[k] = where[k]
  BY <1>1, <1>2 DEF Reindexed
<1> HIDE DEF h, w
<1>6. Indexes(w, h)
  <2>1. ASSUME NEW m \in DOMAIN h PROVE w[h[m].key] = m
    <3>1. CASE m = i \/ m = j
      BY <1>3, <1>5, <3>1
    <3>2. CASE m # i /\ m # j
      <4>1. m \in DOMAIN heap /\ h[m] = heap[m] /\ heap[m].key \in Keys
        BY <1>2, <1>3, <3>2
      <4>2. heap[m].key # heap[i].key /\ heap[m].key # heap[j].key
        BY <1>1, <3>2, <4>1
      <4> QED
        BY <1>1, <1>5, <4>1, <4>2
    <3> QED
      BY <3>1, <3>2
  <2>2. ASSUME NEW k \in Keys, w[k] # 0 PROVE w[k] \in DOMAIN h /\ h[w[k]].key = k
    BY <1>1, <1>2, <1>3, <1>5, <2>2
  <2> QED
    BY <2>1, <2>2 DEF Indexes
<1>7. \A k \in Keys : w[k] = 0 <=> where[k] = 0
  BY <1>1, <1>2, <1>5
<1>8. \A k \in Keys : where[k] # 0 => h[w[k]] = heap[where[k]]
  BY <1>1, <1>2, <1>3, <1>5
<1>9. Deadlines(w, h) = Deadlines(where, heap)
  BY <1>7, <1>8 DEF Deadlines
<1> QED
  BY <1>3, <1>4, <1>5, <1>6, <1>7, <1>9 DEF GoodHeap, h, w

(* The index without a key, and the deadlines without it. *)
Without(f, k, none) == [f EXCEPT ![k] = none]

(* pop_back and erase: what remove_from_heap does to the swapped heap. *)
LEMMA PopKeepsIndex ==
  ASSUME NEW where, NEW heap, GoodHeap(where, heap), heap # <<>>, NEW key,
         key = heap[Len(heap)].key
  PROVE  /\ GoodHeap(Without(where, key, 0), Front(heap))
         /\ Len(Front(heap)) = Len(heap) - 1
         /\ Without(where, key, 0)[key] = 0
         /\ \A k \in Keys : k # key => Without(where, key, 0)[k] = where[k]
         /\ Deadlines(Without(where, key, 0), Front(heap))
              = Without(Deadlines(where, heap), key, Nil)
<1> DEFINE n == Len(heap)
           h == Front(heap)
           w == Without(where, key, 0)
<1>1. /\ heap \in Seq(Entry) /\ where \in [Keys -> Nat]
      /\ \A m \in DOMAIN heap : where[heap[m].key] = m
      /\ \A k \in Keys : where[k] # 0 => where[k] \in DOMAIN heap /\ heap[where[k]].key = k
  BY DEF GoodHeap, Indexes
<1>2. /\ \A m \in DOMAIN heap : m \in Nat /\ m # 0 /\ heap[m] \in Entry /\ heap[m].key \in Keys
      /\ DOMAIN heap = 1..n /\ n \in Nat /\ n # 0
  BY <1>1, HeapPositions
<1>3. /\ h \in Seq(Entry) /\ Len(h) = n - 1 /\ DOMAIN h = 1..(n - 1)
      /\ \A m \in 1..(n - 1) : h[m] = heap[m]
  BY <1>1, <1>2 DEF Front
<1>4. key \in Keys /\ where[key] = n
  BY <1>1, <1>2
<1>5. w \in [Keys -> Nat] /\ w[key] = 0 /\ \A k \in Keys : k # key => w[k] = where[k]
  BY <1>1, <1>4 DEF Without
<1> HIDE DEF h, w, n
<1>6. \A k \in Keys : k # key /\ where[k] # 0 => where[k] \in 1..(n - 1)
  BY <1>1, <1>2, <1>4 DEF n
<1>7. Indexes(w, h)
  <2>1. ASSUME NEW m \in DOMAIN h PROVE w[h[m].key] = m
    <3>1. m \in DOMAIN heap /\ m # n /\ h[m] = heap[m]
      BY <1>2, <1>3
    <3>2. h[m].key # key /\ h[m].key \in Keys
      BY <1>1, <1>2, <1>4, <3>1
    <3> QED
      BY <1>1, <1>5, <3>1, <3>2
  <2>2. ASSUME NEW k \in Keys, w[k] # 0 PROVE w[k] \in DOMAIN h /\ h[w[k]].key = k
    BY <1>1, <1>3, <1>5, <1>6, <2>2
  <2> QED
    BY <2>1, <2>2 DEF Indexes
<1>8. Deadlines(w, h) = Without(Deadlines(where, heap), key, Nil)
  <2>1. \A k \in Keys : Deadlines(w, h)[k] = IF k = key THEN Nil ELSE Deadlines(where, heap)[k]
    BY <1>3, <1>5, <1>6 DEF Deadlines
  <2> QED
    BY <1>4, <2>1 DEF Deadlines, Without
<1> QED
  BY <1>3, <1>5, <1>7, <1>8 DEF GoodHeap, h, w, n

(* A new entry at the end of the heap, and a new time for one that is there. *)
Added(heap, key, time) == Append(heap, [key |-> key, expire_time |-> time])
Retimed(heap, i, time) == [heap EXCEPT ![i] = [key |-> @.key, expire_time |-> time]]

(* emplace_back of a key that has no entry. *)
LEMMA AppendKeepsIndex ==
  ASSUME NEW where, NEW heap, GoodHeap(where, heap), NEW key \in Keys, where[key] = 0,
         NEW time \in Nat, NEW h, h = Added(heap, key, time)
  PROVE  /\ GoodHeap(Without(where, key, Len(heap) + 1), h)
         /\ Len(h) = Len(heap) + 1
         /\ Deadlines(Without(where, key, Len(heap) + 1), h)
              = Without(Deadlines(where, heap), key, time)
<1> DEFINE n == Len(heap) + 1
           e == [key |-> key, expire_time |-> time]
           w == Without(where, key, n)
<1>1. /\ heap \in Seq(Entry) /\ where \in [Keys -> Nat]
      /\ \A m \in DOMAIN heap : where[heap[m].key] = m
      /\ \A k \in Keys : where[k] # 0 => where[k] \in DOMAIN heap /\ heap[where[k]].key = k
  BY DEF GoodHeap, Indexes
<1>2. /\ \A m \in DOMAIN heap : m \in Nat /\ m # 0 /\ heap[m] \in Entry /\ heap[m].key \in Keys
      /\ DOMAIN heap = 1..(n - 1) /\ n \in Nat /\ n # 0
  BY <1>1, HeapPositions
<1>3. e \in Entry /\ e.key = key /\ e.expire_time = time
  BY DEF Entry
<1> HIDE DEF e
<1>4. /\ h \in Seq(Entry) /\ Len(h) = n /\ DOMAIN h = 1..n /\ h[n] = e
      /\ \A m \in DOMAIN heap : h[m] = heap[m]
  <2>1. h = Append(heap, e)
    BY DEF e, Added
  <2> QED
    BY <1>1, <1>2, <1>3, <2>1
<1>5. w \in [Keys -> Nat] /\ w[key] = n /\ \A k \in Keys : k # key => w[k] = where[k]
  BY <1>1, <1>2 DEF Without
<1> HIDE DEF w, n
<1>6. Indexes(w, h)
  <2>1. ASSUME NEW m \in DOMAIN h PROVE w[h[m].key] = m
    BY <1>1, <1>2, <1>3, <1>4, <1>5, <2>1
  <2>2. ASSUME NEW k \in Keys, w[k] # 0 PROVE w[k] \in DOMAIN h /\ h[w[k]].key = k
    BY <1>1, <1>2, <1>3, <1>4, <1>5, <2>2
  <2> QED
    BY <2>1, <2>2 DEF Indexes
<1>7. Deadlines(w, h) = Without(Deadlines(where, heap), key, time)
  <2>1. \A k \in Keys : Deadlines(w, h)[k] = IF k = key THEN time ELSE Deadlines(where, heap)[k]
    BY <1>1, <1>2, <1>3, <1>4, <1>5 DEF Deadlines
  <2> QED
    BY <2>1 DEF Deadlines, Without
<1> QED
  BY <1>4, <1>5, <1>6, <1>7 DEF GoodHeap, w, n

(* The new time of an entry that is there. *)
LEMMA UpdateKeepsIndex ==
  ASSUME NEW where, NEW heap, GoodHeap(where, heap), NEW key \in Keys, where[key] # 0,
         NEW time \in Nat, NEW h, h = Retimed(heap, where[key], time)
  PROVE  /\ GoodHeap(where, h)
         /\ DOMAIN h = DOMAIN heap
         /\ Deadlines(where, h) = Without(Deadlines(where, heap), key, time)
<1> DEFINE i == where[key]
<1>1. /\ heap \in Seq(Entry) /\ where \in [Keys -> Nat]
      /\ \A m \in DOMAIN heap : where[heap[m].key] = m
      /\ \A k \in Keys : where[k] # 0 => where[k] \in DOMAIN heap /\ heap[where[k]].key = k
  BY DEF GoodHeap, Indexes
<1>2. /\ \A m \in DOMAIN heap : m \in Nat /\ m # 0 /\ heap[m] \in Entry /\ heap[m].key \in Keys
      /\ DOMAIN heap = 1..Len(heap) /\ Len(heap) \in Nat /\ i \in DOMAIN heap
  BY <1>1, HeapPositions
<1>3. [key |-> heap[i].key, expire_time |-> time] \in Entry
  BY <1>2 DEF Entry
<1>4. /\ h \in [1..Len(heap) -> Entry] /\ h[i].key = heap[i].key /\ h[i].expire_time = time
      /\ \A m \in DOMAIN heap : m # i => h[m] = heap[m]
  BY <1>1, <1>2, <1>3 DEF Entry, Retimed
<1>5. h \in Seq(Entry) /\ DOMAIN h = DOMAIN heap
  BY <1>2, <1>4
<1>6. Indexes(where, h)
  <2>1. \A m \in DOMAIN heap : h[m].key = heap[m].key
    BY <1>4
  <2> QED
    BY <1>1, <1>5, <2>1 DEF Indexes
<1>7. Deadlines(where, h) = Without(Deadlines(where, heap), key, time)
  <2>1. \A k \in Keys : k # key /\ where[k] # 0 => where[k] # i
    BY <1>1
  <2>2. \A k \in Keys : Deadlines(where, h)[k] = IF k = key THEN time ELSE Deadlines(where, heap)[k]
    BY <1>1, <1>2, <1>4, <2>1 DEF Deadlines
  <2> QED
    BY <2>2 DEF Deadlines, Without
<1> QED
  BY <1>1, <1>5, <1>6, <1>7 DEF GoodHeap
-----------------------------------------------------------------------------
(* The fields of a call. *)
LEMMA CallFields ==
  ASSUME NEW c \in AllCalls
  PROVE  /\ c.op \in SetOps <=> c \in SetCalls
         /\ c.op \in SetOps => c.key \in Keys /\ c.time \in Int
         /\ c.op \in {"get_ttl", "get_ttl_ms", "has_ttl", "remove_ttl"} => c.key \in Keys
  BY DurationsAssumption DEF AllCalls, SetCalls, KeyCalls, GlobalCalls, SetOps

(* A step of t leaves the locals of the other threads alone. *)
OthersSame(t) ==
  \A u \in Threads \ {t} :
    /\ pc'[u] = pc[u] /\ call'[u] = call[u] /\ index'[u] = index[u] /\ from'[u] = from[u]
    /\ now_time'[u] = now_time[u] /\ expired_key'[u] = expired_key[u]
    /\ expired_count'[u] = expired_count[u] /\ ret'[u] = ret[u]

(* While t holds the mutex the other threads are outside, and know nothing  *)
(* of the heap that a step of t could make wrong.                           *)
LEMMA StepInv ==
  ASSUME IndInv, NEW t \in Threads, Inside(t), Inside(t)', owner' = owner, now' = now,
         OthersSame(t), TypeOK', IndexOK', ThreadInv(t)'
  PROVE  IndInv'
<1>1. owner = t /\ \A u \in Threads \ {t} : ~Inside(u)
  BY DEF IndInv, LockInv
<1>2. LockInv'
  BY <1>1 DEF LockInv, Inside, OthersSame
<1>3. ASSUME NEW u \in Threads, u # t PROVE ThreadInv(u)'
  <2>1. /\ pc[u] \in {"idle", "lock"} /\ pc'[u] = pc[u] /\ expired_key[u] = Nil
        /\ expired_count[u] = 0 /\ now_time[u] <= now
    BY <1>1, <1>3 DEF IndInv, ThreadInv, CheckInv, Inside, OthersSame
  <2>2. PcInv(u)' /\ HeapifyInv(u)'
    BY <2>1 DEF PcInv, HeapifyInv
  <2>3. CheckInv(u)'
    BY <1>3, <2>1 DEF CheckInv, OthersSame
  <2> QED
    BY <2>2, <2>3 DEF ThreadInv
<1> QED
  BY <1>2, <1>3 DEF IndInv

LEMMA InitInv == Init => IndInv
<1> SUFFICES ASSUME Init PROVE IndInv
  OBVIOUS
<1>1. TypeOK
  BY DEF Init, TypeOK, Pcs
<1>2. LockInv
  BY NoThreadAssumption DEF Init, LockInv, Inside
<1>3. IndexOK
  BY DEF Init, IndexOK, Indexes
<1>4. ASSUME NEW t \in Threads PROVE ThreadInv(t)
  BY DEF Init, ThreadInv, PcInv, HeapifyInv, CheckInv
<1> QED
  BY <1>1, <1>2, <1>3, <1>4 DEF IndInv

LEMMA CallInv ==
  ASSUME IndInv, NEW t \in Threads, Call(t) PROVE IndInv'
<1>1. TypeOK'
  BY DEF Call, Goto, IndInv, TypeOK, Pcs, store, heaping, checks
<1>2. LockInv'
  BY DEF Call, Goto, IndInv, TypeOK, LockInv, Inside
<1>3. IndexOK'
  BY DEF Call, IndInv, IndexOK, store
<1>4. ASSUME NEW u \in Threads PROVE ThreadInv(u)'
  <2>1. PcInv(u)' /\ HeapifyInv(u)'
    BY DEF Call, Goto, IndInv, TypeOK, ThreadInv, PcInv, HeapifyInv, store, heaping
  <2>2. CheckInv(u)'
    BY DEF Call, Goto, IndInv, TypeOK, ThreadInv, CheckInv, Inside, Checking, store, checks
  <2> QED
    BY <2>1, <2>2 DEF ThreadInv
<1> QED
  BY <1>1, <1>2, <1>3, <1>4 DEF IndInv

(* A thread in "relock" holds the mutex, so only one in "lock" gets it. *)
LEMMA LockStepInv ==
  ASSUME IndInv, NEW t \in Threads, Lock(t)
  PROVE  IndInv' /\ pc[t] = "lock" /\ pc' = [pc EXCEPT ![t] = IF call[t].op = "remove_ttl"
                                                         THEN "remove" ELSE "apply"]
<1>1. pc[t] = "lock"
  BY NoThreadAssumption DEF Lock, IndInv, LockInv, Inside
<1>2. pc' = [pc EXCEPT ![t] = IF call[t].op = "remove_ttl" THEN "remove" ELSE "apply"]
  BY <1>1 DEF Lock, Goto
<1>3. TypeOK'
  BY <1>1, <1>2 DEF Lock, IndInv, TypeOK, Pcs, store, heaping, checks
<1>4. LockInv'
  BY <1>1, <1>2, NoThreadAssumption DEF Lock, IndInv, TypeOK, LockInv, Inside
<1>5. IndexOK'
  BY DEF Lock, IndInv, IndexOK, store
<1>6. ASSUME NEW u \in Threads PROVE ThreadInv(u)'
  <2>1. PcInv(u)' /\ HeapifyInv(u)'
    BY <1>1, <1>2 DEF Lock, IndInv, TypeOK, ThreadInv, PcInv, HeapifyInv, store, heaping
  <2>2. CheckInv(u)'
    BY <1>1, <1>2 DEF Lock, IndInv, TypeOK, ThreadInv, CheckInv, Inside, Checking, store, checks
  <2> QED
    BY <2>1, <2>2 DEF ThreadInv
<1> QED
  BY <1>1, <1>2, <1>3, <1>4, <1>5, <1>6 DEF IndInv

LEMMA TickInv ==
  ASSUME IndInv, Tick PROVE IndInv'
<1>1. TypeOK'
  BY DEF Tick, IndInv, TypeOK, store, heaping, checks
<1>2. LockInv' /\ IndexOK'
  BY DEF Tick, IndInv, LockInv, Inside, IndexOK, store
<1>3. ASSUME NEW u \in Threads PROVE ThreadInv(u)'
  BY DEF Tick, IndInv, TypeOK, ThreadInv, PcInv, HeapifyInv, CheckInv, Inside, Checking,
         store, heaping, checks
<1> QED
  BY <1>1, <1>2, <1>3 DEF IndInv

LEMMA UnlockInv ==
  ASSUME IndInv, NEW t \in Threads, Unlock(t) PROVE IndInv'
<1>1. owner = t
  BY DEF Unlock, IndInv, LockInv, Inside
<1>2. TypeOK'
  BY DEF Unlock, Goto, IndInv, TypeOK, Pcs, store
<1>3. LockInv'
  BY <1>1, NoThreadAssumption DEF Unlock, Goto, IndInv, TypeOK, LockInv, Inside
<1>4. IndexOK'
  BY DEF Unlock, IndInv, IndexOK, store
<1>5. ASSUME NEW u \in Threads PROVE ThreadInv(u)'
  <2>1. PcInv(u)' /\ HeapifyInv(u)'
    BY DEF Unlock, Goto, IndInv, TypeOK, ThreadInv, PcInv, HeapifyInv, store
  <2>2. CheckInv(u)'
    BY DEF Unlock, Goto, IndInv, TypeOK, ThreadInv, CheckInv, Inside, Checking, store
  <2> QED
    BY <2>1, <2>2 DEF ThreadInv
<1> QED
  BY <1>2, <1>3, <1>4, <1>5 DEF IndInv
-----------------------------------------------------------------------------
(* The methods that only read. *)
Readers == {"get_ttl", "get_ttl_ms", "has_ttl", "size", "get_stats"}

LEMMA AnswerInv ==
  ASSUME IndInv, NEW t \in Threads, NEW op \in Readers, NEW v \in Results[op], Answer(t, op, v)
  PROVE  IndInv'
<1>1. /\ pc[t] = "apply" /\ call[t].op = op /\ pc' = [pc EXCEPT ![t] = "unlock"]
      /\ ret' = [ret EXCEPT ![t] = v]
      /\ UNCHANGED <<expiration_heap, key_to_index, total_expired, owner, now, call, index, from,
                     now_time, expired_key, expired_count>>
  BY DEF Answer, Applying, ReturnValue, Goto, store, heaping, checks
<1>2. TypeOK' /\ OthersSame(t)
  BY <1>1 DEF IndInv, TypeOK, Pcs, OthersSame
<1>3. IndexOK'
  BY <1>1 DEF IndInv, IndexOK
<1>4. ThreadInv(t)'
  <2>1. call[t] \notin SetCalls
    BY <1>1, CallFields DEF IndInv, TypeOK, SetCalls, SetOps, Readers
  <2>2. PcInv(t)' /\ HeapifyInv(t)'
    BY <1>1, <2>1 DEF IndInv, TypeOK, PcInv, HeapifyInv
  <2>3. CheckInv(t)'
    BY <1>1 DEF IndInv, TypeOK, ThreadInv, CheckInv, Inside, Checking
  <2> QED
    BY <2>2, <2>3 DEF ThreadInv
<1>5. Inside(t) /\ Inside(t)'
  BY <1>1 DEF Inside, IndInv, TypeOK
<1> QED
  BY <1>1, <1>2, <1>3, <1>4, <1>5, StepInv

LEMMA RemainingIsInt ==
  ASSUME IndInv, NEW k \in Keys, NEW unit \in Nat \ {0} PROVE Remaining(k, unit) \in Int
<1>1. CASE key_to_index[k] = 0
  BY <1>1 DEF Remaining
<1>2. CASE key_to_index[k] # 0
  <2>1. expiration_heap[key_to_index[k]].expire_time \in Nat /\ now \in Nat
    BY <1>2, HeapPositions DEF IndInv, TypeOK, IndexOK, Indexes
  <2> QED
    BY <1>2, <2>1 DEF Remaining
<1> QED
  BY <1>1, <1>2

LEMMA ReadInv ==
  ASSUME IndInv, NEW t \in Threads,
         get_ttl(t) \/ get_ttl_ms(t) \/ has_ttl(t) \/ size(t) \/ get_stats(t)
  PROVE  IndInv'
<1>1. pc[t] = "apply" => call[t] \in AllCalls
  BY DEF IndInv, TypeOK
<1>2. CASE get_ttl(t)
  <2>1. Remaining(call[t].key, Second) \in Results["get_ttl"]
    BY <1>1, <1>2, CallFields, RemainingIsInt, UnitAssumption DEF get_ttl, Answer, Applying, Results
  <2> QED
    BY <1>2, <2>1, AnswerInv DEF get_ttl, Readers
<1>3. CASE get_ttl_ms(t)
  <2>1. Remaining(call[t].key, Millisecond) \in Results["get_ttl_ms"]
    BY <1>1, <1>3, CallFields, RemainingIsInt, UnitAssumption DEF get_ttl_ms, Answer, Applying, Results
  <2> QED
    BY <1>3, <2>1, AnswerInv DEF get_ttl_ms, Readers
<1>4. CASE has_ttl(t)
  <2>1. (key_to_index[call[t].key] # 0) \in Results["has_ttl"]
    BY DEF Results
  <2> QED
    BY <1>4, <2>1, AnswerInv DEF has_ttl, Readers
<1>5. CASE size(t)
  <2>1. Len(expiration_heap) \in Results["size"]
    BY HeapPositions DEF Results, IndInv, TypeOK
  <2> QED
    BY <1>5, <2>1, AnswerInv DEF size, Readers
<1>6. CASE get_stats(t)
  <2>1. [entries |-> Len(expiration_heap), expired |-> total_expired] \in Results["get_stats"]
    BY HeapPositions DEF Results, IndInv, TypeOK
  <2> QED
    BY <1>6, <2>1, AnswerInv DEF get_stats, Readers
<1> QED
  BY <1>2, <1>3, <1>4, <1>5, <1>6

LEMMA ClearInv ==
  ASSUME IndInv, NEW t \in Threads, clear(t)
  PROVE  IndInv' /\ deadline' = [k \in Keys |-> Nil]
<1>1. /\ pc[t] = "apply" /\ call[t].op = "clear" /\ pc' = [pc EXCEPT ![t] = "unlock"]
      /\ ret' = [ret EXCEPT ![t] = Nil]
      /\ expiration_heap' = <<>> /\ key_to_index' = [k \in Keys |-> 0]
      /\ UNCHANGED <<total_expired, owner, now, call, index, from,
                     now_time, expired_key, expired_count>>
  BY DEF clear, Applying, ReturnValue, Goto, heaping, checks
<1>2. TypeOK' /\ OthersSame(t)
  <2>1. Nil \in Results[call[t].op]
    BY <1>1 DEF Results
  <2> QED
    BY <1>1, <2>1 DEF IndInv, TypeOK, Pcs, OthersSame
<1>3. IndexOK' /\ deadline' = [k \in Keys |-> Nil]
  BY <1>1 DEF IndexOK, Indexes, deadline, Deadlines
<1>4. ThreadInv(t)'
  <2>1. call[t] \notin SetCalls
    BY <1>1 DEF SetCalls, SetOps
  <2>2. PcInv(t)' /\ HeapifyInv(t)'
    BY <1>1, <2>1 DEF IndInv, TypeOK, PcInv, HeapifyInv
  <2>3. CheckInv(t)'
    BY <1>1 DEF IndInv, TypeOK, ThreadInv, CheckInv, Inside, Checking
  <2> QED
    BY <2>2, <2>3 DEF ThreadInv
<1>5. Inside(t) /\ Inside(t)'
  BY <1>1 DEF Inside, IndInv, TypeOK
<1> QED
  BY <1>1, <1>2, <1>3, <1>4, <1>5, StepInv

LEMMA CheckStartInv ==
  ASSUME IndInv, NEW t \in Threads, CheckStart(t) PROVE IndInv'
<1>1. /\ pc[t] = "apply" /\ call[t].op = "check_expirations" /\ pc' = [pc EXCEPT ![t] = "check"]
      /\ now_time' = [now_time EXCEPT ![t] = now]
      /\ UNCHANGED <<expiration_heap, key_to_index, total_expired, owner, now, call, index, from,
                     expired_key, expired_count, ret>>
  BY DEF CheckStart, Applying, Goto, store, heaping
<1>2. TypeOK' /\ OthersSame(t)
  BY <1>1 DEF IndInv, TypeOK, Pcs, OthersSame
<1>3. IndexOK'
  BY <1>1 DEF IndInv, IndexOK
<1>4. ThreadInv(t)'
  BY <1>1 DEF IndInv, TypeOK, ThreadInv, PcInv, HeapifyInv, CheckInv, Inside, Checking
<1>5. Inside(t) /\ Inside(t)'
  BY <1>1 DEF Inside, IndInv, TypeOK
<1> QED
  BY <1>1, <1>2, <1>3, <1>4, <1>5, StepInv

LEMMA CallbackInv ==
  ASSUME IndInv, NEW t \in Threads, Callback(t) PROVE IndInv'
<1>1. /\ pc[t] = "callback" /\ pc' = [pc EXCEPT ![t] = "check"]
      /\ expired_count' = [expired_count EXCEPT ![t] = expired_count[t] + 1]
      /\ total_expired' = total_expired + 1
      /\ UNCHANGED <<expiration_heap, key_to_index, owner, now, call, index, from,
                     now_time, expired_key, ret>>
  BY DEF Callback, Goto, store, heaping
<1>2. TypeOK' /\ OthersSame(t)
  BY <1>1, SMTT(30) DEF IndInv, TypeOK, Pcs, OthersSame
<1>3. IndexOK'
  BY <1>1 DEF IndInv, IndexOK
<1>4. ThreadInv(t)'
  BY <1>1 DEF IndInv, TypeOK, ThreadInv, PcInv, HeapifyInv, CheckInv, Inside, Checking
<1>5. Inside(t) /\ Inside(t)'
  BY <1>1 DEF Inside, IndInv, TypeOK
<1> QED
  BY <1>1, <1>2, <1>3, <1>4, <1>5, StepInv

LEMMA CheckDoneInv ==
  ASSUME IndInv, NEW t \in Threads, CheckDone(t) PROVE IndInv'
<1>1. /\ pc[t] = "check" /\ pc' = [pc EXCEPT ![t] = "unlock"]
      /\ ret' = [ret EXCEPT ![t] = expired_count[t]]
      /\ UNCHANGED <<expiration_heap, key_to_index, total_expired, owner, now, call, index, from,
                     now_time, expired_key, expired_count>>
  BY DEF CheckDone, ReturnValue, Goto, store, heaping, checks
<1>2. call[t].op = "check_expirations" /\ call[t] \notin SetCalls
  BY <1>1 DEF IndInv, ThreadInv, PcInv, SetCalls, SetOps
<1>3. TypeOK' /\ OthersSame(t)
  <2>1. expired_count[t] \in Results[call[t].op]
    BY <1>2 DEF Results, IndInv, TypeOK
  <2> QED
    BY <1>1, <1>2, <2>1 DEF IndInv, TypeOK, Pcs, OthersSame
<1>4. IndexOK'
  BY <1>1 DEF IndInv, IndexOK
<1>5. ThreadInv(t)'
  BY <1>1, <1>2 DEF IndInv, TypeOK, ThreadInv, PcInv, HeapifyInv, CheckInv, Inside, Checking
<1>6. Inside(t) /\ Inside(t)'
  BY <1>1 DEF Inside, IndInv, TypeOK
<1> QED
  BY <1>1, <1>3, <1>4, <1>5, <1>6, StepInv

LEMMA RemoveMissingInv ==
  ASSUME IndInv, NEW t \in Threads, RemoveMissing(t) PROVE IndInv'
<1>1. /\ pc[t] = "remove" /\ pc' = [pc EXCEPT ![t] = "unlock"]
      /\ ret' = [ret EXCEPT ![t] = FALSE]
      /\ UNCHANGED <<expiration_heap, key_to_index, total_expired, owner, now, call, index, from,
                     now_time, expired_key, expired_count>>
  BY DEF RemoveMissing, ReturnValue, Goto, store, heaping, checks
<1>2. call[t].op = "remove_ttl" /\ call[t] \notin SetCalls
  BY <1>1 DEF IndInv, ThreadInv, PcInv, SetCalls, SetOps
<1>3. TypeOK' /\ OthersSame(t)
  <2>1. FALSE \in Results[call[t].op]
    BY <1>2 DEF Results, IndInv, TypeOK
  <2> QED
    BY <1>1, <1>2, <2>1 DEF IndInv, TypeOK, Pcs, OthersSame
<1>4. IndexOK'
  BY <1>1 DEF IndInv, IndexOK
<1>5. ThreadInv(t)'
  BY <1>1, <1>2 DEF IndInv, TypeOK, ThreadInv, PcInv, HeapifyInv, CheckInv, Inside, Checking
<1>6. Inside(t) /\ Inside(t)'
  BY <1>1 DEF Inside, IndInv, TypeOK
<1> QED
  BY <1>1, <1>3, <1>4, <1>5, <1>6, StepInv
-----------------------------------------------------------------------------
LEMMA SmallestIsPosition ==
  ASSUME NEW heap \in Seq(Entry), NEW i \in DOMAIN heap
  PROVE  Smallest(heap, i) \in DOMAIN heap
<1>1. DOMAIN heap = 1..Len(heap) /\ Len(heap) \in Nat
  BY HeapPositions
<1> QED
  BY <1>1 DEF Smallest

(* One turn of heapify_up or heapify_down. *)
LEMMA SwapInv ==
  ASSUME IndInv, NEW t \in Threads, pc[t] \in {"up", "down"},
         NEW i \in DOMAIN expiration_heap, NEW j \in DOMAIN expiration_heap,
         swap_entries(i, j), index' = [index EXCEPT ![t] = j],
         UNCHANGED <<total_expired, owner, now, pc, call, from, checks, ret>>
  PROVE  IndInv' /\ deadline' = deadline
<1>1. GoodHeap(key_to_index, expiration_heap)
  BY DEF IndInv, TypeOK, IndexOK, GoodHeap
<1>2. /\ GoodHeap(key_to_index', expiration_heap')
      /\ DOMAIN expiration_heap' = DOMAIN expiration_heap
      /\ \A k \in Keys : key_to_index'[k] = 0 <=> key_to_index[k] = 0
      /\ Deadlines(key_to_index', expiration_heap') = Deadlines(key_to_index, expiration_heap)
  BY <1>1, SwapKeepsIndex DEF swap_entries
<1>3. TypeOK' /\ OthersSame(t)
  <2>1. j \in Nat
    BY HeapPositions DEF IndInv, TypeOK
  <2> QED
    BY <1>2, <2>1 DEF IndInv, TypeOK, OthersSame, GoodHeap, checks
<1>4. IndexOK' /\ deadline' = deadline
  BY <1>2 DEF IndexOK, GoodHeap, deadline
<1>5. ThreadInv(t)'
  <2>1. PcInv(t)'
    BY DEF IndInv, TypeOK, ThreadInv, PcInv
  <2>2. HeapifyInv(t)'
    BY <1>2 DEF IndInv, TypeOK, ThreadInv, HeapifyInv
  <2>3. CheckInv(t)'
    BY <1>2 DEF IndInv, TypeOK, ThreadInv, CheckInv, Inside, Checking, checks
  <2> QED
    BY <2>1, <2>2, <2>3 DEF ThreadInv
<1>6. Inside(t) /\ Inside(t)'
  BY DEF Inside
<1> QED
  BY <1>3, <1>4, <1>5, <1>6, StepInv

LEMMA HeapifyUpInv ==
  ASSUME IndInv, NEW t \in Threads, heapify_up(t) PROVE IndInv' /\ deadline' = deadline
<1>1. index[t] \in DOMAIN expiration_heap /\ index[t] > 1
  BY DEF heapify_up, IndInv, ThreadInv, HeapifyInv
<1>2. index[t] \div 2 \in DOMAIN expiration_heap
  BY <1>1, HeapPositions DEF IndInv, TypeOK
<1> QED
  BY <1>1, <1>2, SwapInv DEF heapify_up

LEMMA HeapifyDownInv ==
  ASSUME IndInv, NEW t \in Threads, heapify_down(t) PROVE IndInv' /\ deadline' = deadline
<1>1. index[t] \in DOMAIN expiration_heap
  BY DEF heapify_down, IndInv, ThreadInv, HeapifyInv
<1>2. Smallest(expiration_heap, index[t]) \in DOMAIN expiration_heap
  BY <1>1, SmallestIsPosition DEF IndInv, TypeOK
<1> QED
  BY <1>1, <1>2, SwapInv DEF heapify_down

(* The end of the heapify loops: the heap is as the last swap left it. *)
LEMMA HeapifiedInv ==
  ASSUME IndInv, NEW t \in Threads, pc[t] \in {"up", "down"}, Heapified(t),
         NEW i \in Nat, index' = [index EXCEPT ![t] = i],
         UNCHANGED <<store, total_expired, owner, now, call, from, checks>>
  PROVE  IndInv'
<1>1. UNCHANGED <<expiration_heap, key_to_index, now_time, expired_key, expired_count>>
  BY DEF store, checks
<1>2. call[t].op \in SetOps \cup {"remove_ttl", "check_expirations"} /\ call[t] \in AllCalls
  BY DEF IndInv, TypeOK, ThreadInv, PcInv
<1>3. IndexOK'
  BY <1>1 DEF IndInv, IndexOK
<1>4. CASE call[t].op = "check_expirations"
  <2>1. pc' = [pc EXCEPT ![t] = "callback"] /\ ret' = ret
    BY <1>4 DEF Heapified, Goto
  <2>2. TypeOK' /\ OthersSame(t)
    BY <1>1, <2>1 DEF IndInv, TypeOK, OthersSame, Pcs
  <2>3. ThreadInv(t)'
    BY <1>1, <1>4, <2>1 DEF IndInv, TypeOK, ThreadInv, PcInv, HeapifyInv, CheckInv, Inside, Checking
  <2>4. Inside(t) /\ Inside(t)'
    BY <2>1 DEF Inside, IndInv, TypeOK
  <2> QED
    BY <1>3, <2>2, <2>3, <2>4, StepInv
<1>5. CASE call[t].op # "check_expirations"
  <2>1. pc' = [pc EXCEPT ![t] = "unlock"] /\ ret' = [ret EXCEPT ![t] = TRUE]
    BY <1>5 DEF Heapified, Goto, ReturnValue
  <2>2. TRUE \in Results[call[t].op]
    <3>1. call[t].op \in {"set_ttl", "set_ttl_ms", "remove_ttl"}
      BY <1>2, <1>5 DEF SetOps
    <3>2. /\ Results["set_ttl"] = BOOLEAN /\ Results["set_ttl_ms"] = BOOLEAN
          /\ Results["remove_ttl"] = BOOLEAN
      BY DEF Results
    <3> QED
      BY <3>1, <3>2
  <2>3. TypeOK' /\ OthersSame(t)
    BY <1>1, <2>1, <2>2 DEF IndInv, TypeOK, OthersSame, Pcs
  <2>4. ThreadInv(t)'
    BY <1>1, <1>5, <2>1 DEF IndInv, TypeOK, ThreadInv, PcInv, HeapifyInv, CheckInv, Inside, Checking
  <2>5. Inside(t) /\ Inside(t)'
    BY <2>1 DEF Inside, IndInv, TypeOK
  <2> QED
    BY <1>3, <2>3, <2>4, <2>5, StepInv
<1> QED
  BY <1>4, <1>5

LEMMA UpDoneInv ==
  ASSUME IndInv, NEW t \in Threads, UpDone(t) PROVE IndInv'
<1>1. /\ pc[t] = "up" /\ index' = [index EXCEPT ![t] = from[t]] /\ from[t] \in Nat
      /\ UNCHANGED <<store, total_expired, owner, now, call, from, checks>>
  BY DEF UpDone, IndInv, TypeOK
<1>2. CASE from[t] = 0
  BY <1>1, <1>2, HeapifiedInv DEF UpDone
<1>3. CASE from[t] # 0
  <2>1. /\ pc' = [pc EXCEPT ![t] = "down"] /\ ret' = ret
        /\ UNCHANGED <<expiration_heap, key_to_index, now_time, expired_key, expired_count>>
    BY <1>3 DEF UpDone, Goto, store, checks
  <2>2. TypeOK' /\ OthersSame(t)
    BY <1>1, <2>1 DEF IndInv, TypeOK, OthersSame, Pcs
  <2>3. IndexOK'
    BY <2>1 DEF IndInv, IndexOK
  <2>4. ThreadInv(t)'
    BY <1>1, <1>3, <2>1 DEF IndInv, TypeOK, ThreadInv, PcInv, HeapifyInv, CheckInv, Inside, Checking
  <2>5. Inside(t) /\ Inside(t)'
    BY <1>1, <2>1 DEF Inside, IndInv, TypeOK
  <2> QED
    BY <1>1, <2>2, <2>3, <2>4, <2>5, StepInv
<1> QED
  BY <1>2, <1>3

LEMMA DownDoneInv ==
  ASSUME IndInv, NEW t \in Threads, DownDone(t) PROVE IndInv'
<1>1. index' = [index EXCEPT ![t] = index[t]] /\ index[t] \in Nat
  BY DEF DownDone, IndInv, TypeOK, heaping
<1> QED
  BY <1>1, HeapifiedInv DEF DownDone, heaping
-----------------------------------------------------------------------------
(* What remove_from_heap does to the heap and its index. *)
LEMMA RemovedEntry ==
  ASSUME IndInv, NEW t \in Threads, NEW i \in DOMAIN expiration_heap, remove_from_heap(t, i),
         NEW key, key = expiration_heap[i].key
  PROVE  /\ GoodHeap(key_to_index', expiration_heap')
         /\ key \in Keys /\ key_to_index'[key] = 0
         /\ Len(expiration_heap') = Len(expiration_heap) - 1
         /\ i # Len(expiration_heap) => i \in DOMAIN expiration_heap'
         /\ \A k \in Keys : key_to_index[k] = 0 => key_to_index'[k] = 0
         /\ deadline' = Without(deadline, key, Nil)
<1> DEFINE last == Len(expiration_heap)
           h == Swapped(expiration_heap, i, last)
           w == Reindexed(key_to_index, expiration_heap, i, last)
<1>1. GoodHeap(key_to_index, expiration_heap)
  BY DEF IndInv, TypeOK, IndexOK, GoodHeap
<1>2. last \in DOMAIN expiration_heap /\ last \in Nat /\ i \in 1..last /\ key \in Keys
  BY HeapPositions DEF IndInv, TypeOK
<1>3. /\ GoodHeap(w, h) /\ Len(h) = last
      /\ \A k \in Keys : w[k] = 0 <=> key_to_index[k] = 0
      /\ Deadlines(w, h) = deadline
  BY <1>1, <1>2, SwapKeepsIndex DEF deadline
<1>4. h[Len(h)].key = key
  BY <1>2, <1>3 DEF Swapped
<1>5. expiration_heap' = Front(h) /\ key_to_index' = Without(w, key, 0)
  BY DEF remove_from_heap, Without
<1> HIDE DEF h, w
<1>6. h # <<>>
  BY <1>2, <1>3
<1>7. /\ GoodHeap(key_to_index', expiration_heap')
      /\ Len(expiration_heap') = last - 1
      /\ key_to_index'[key] = 0
      /\ \A k \in Keys : k # key => key_to_index'[k] = w[k]
      /\ Deadlines(key_to_index', expiration_heap') = Without(deadline, key, Nil)
  BY <1>3, <1>4, <1>5, <1>6, PopKeepsIndex
<1>8. i # last => i \in DOMAIN expiration_heap'
  BY <1>2, <1>7, HeapPositions DEF GoodHeap
<1> QED
  BY <1>2, <1>3, <1>7, <1>8 DEF deadline

(* The control of remove_from_heap: heapify, or the end of it. *)
LEMMA RemovedInv ==
  ASSUME IndInv, NEW t \in Threads, NEW i \in DOMAIN expiration_heap, remove_from_heap(t, i),
         pc[t] \in {"remove", "check"},
         NEW k, expired_key' = [expired_key EXCEPT ![t] = k],
         k # Nil => call[t].op = "check_expirations" /\ k = expiration_heap[i].key,
         UNCHANGED <<total_expired, owner, now, call, now_time, expired_count>>
  PROVE  IndInv'
<1>1. /\ GoodHeap(key_to_index', expiration_heap')
      /\ i # Len(expiration_heap) => i \in DOMAIN expiration_heap'
      /\ k # Nil => k \in Keys /\ key_to_index'[k] = 0
  BY RemovedEntry
<1>2. i \in Nat /\ call[t] \in AllCalls
  BY HeapPositions DEF IndInv, TypeOK
<1>3. call[t].op \in {"remove_ttl", "check_expirations"} /\ call[t] \notin SetCalls
  BY DEF IndInv, ThreadInv, PcInv, SetCalls, SetOps
<1>4. IndexOK'
  BY <1>1 DEF IndexOK, GoodHeap
<1>5. \A e \in Keys : key_to_index[e] = 0 => key_to_index'[e] = 0
  BY RemovedEntry
<1>6. ASSUME Inside(t)' PROVE CheckInv(t)'
  BY <1>1, <1>5, <1>6 DEF IndInv, TypeOK, ThreadInv, CheckInv, Inside, Checking
<1>7. CASE i # Len(expiration_heap)
  <2>1. /\ index' = [index EXCEPT ![t] = i] /\ from' = [from EXCEPT ![t] = i]
        /\ pc' = [pc EXCEPT ![t] = "up"] /\ ret' = ret
    BY <1>7 DEF remove_from_heap, Heapify, Goto
  <2>2. TypeOK' /\ OthersSame(t)
    BY <1>1, <1>2, <2>1 DEF IndInv, TypeOK, OthersSame, Pcs, GoodHeap
  <2>3. PcInv(t)' /\ HeapifyInv(t)'
    BY <1>1, <1>3, <1>7, <2>1 DEF IndInv, TypeOK, PcInv, HeapifyInv
  <2>4. Inside(t) /\ Inside(t)'
    BY <2>1 DEF Inside, IndInv, TypeOK
  <2> QED
    BY <1>4, <1>6, <2>2, <2>3, <2>4, StepInv DEF ThreadInv
<1>8. CASE i = Len(expiration_heap) /\ call[t].op = "check_expirations"
  <2>1. UNCHANGED <<index, from>> /\ pc' = [pc EXCEPT ![t] = "callback"] /\ ret' = ret
    BY <1>8 DEF remove_from_heap, Heapified, Goto, heaping
  <2>2. TypeOK' /\ OthersSame(t)
    BY <1>1, <2>1 DEF IndInv, TypeOK, OthersSame, Pcs, GoodHeap
  <2>3. PcInv(t)' /\ HeapifyInv(t)'
    BY <1>3, <1>8, <2>1 DEF IndInv, TypeOK, PcInv, HeapifyInv
  <2>4. Inside(t) /\ Inside(t)'
    BY <2>1 DEF Inside, IndInv, TypeOK
  <2> QED
    BY <1>4, <1>6, <2>2, <2>3, <2>4, StepInv DEF ThreadInv
<1>9. CASE i = Len(expiration_heap) /\ call[t].op = "remove_ttl"
  <2>1. UNCHANGED <<index, from>> /\ pc' = [pc EXCEPT ![t] = "unlock"]
        /\ ret' = [ret EXCEPT ![t] = TRUE]
    BY <1>9 DEF remove_from_heap, Heapified, ReturnValue, Goto, heaping
  <2>2. TRUE \in Results[call[t].op]
    BY <1>9 DEF Results
  <2>3. TypeOK' /\ OthersSame(t)
    BY <1>1, <2>1, <2>2 DEF IndInv, TypeOK, OthersSame, Pcs, GoodHeap
  <2>4. PcInv(t)' /\ HeapifyInv(t)'
    BY <1>3, <2>1 DEF IndInv, TypeOK, PcInv, HeapifyInv
  <2>5. Inside(t) /\ Inside(t)'
    BY <2>1 DEF Inside, IndInv, TypeOK
  <2> QED
    BY <1>4, <1>6, <2>3, <2>4, <2>5, StepInv DEF ThreadInv
<1> QED
  BY <1>3, <1>7, <1>8, <1>9

LEMMA RemoveFoundInv ==
  ASSUME IndInv, NEW t \in Threads, RemoveFound(t)
  PROVE  IndInv' /\ deadline' = Without(deadline, call[t].key, Nil)
<1> DEFINE i == key_to_index[call[t].key]
<1>1. call[t].key \in Keys /\ pc[t] = "remove"
  BY CallFields DEF RemoveFound, IndInv, TypeOK, ThreadInv, PcInv
<1>2. i \in DOMAIN expiration_heap /\ expiration_heap[i].key = call[t].key
  BY <1>1 DEF RemoveFound, IndInv, IndexOK, Indexes
<1>3. /\ remove_from_heap(t, i)
      /\ UNCHANGED <<total_expired, owner, now, call, now_time, expired_key, expired_count>>
  BY DEF RemoveFound, checks
<1>4. expired_key' = [expired_key EXCEPT ![t] = Nil]
  <2>1. expired_key[t] = Nil
    BY <1>1 DEF IndInv, ThreadInv, CheckInv, Checking, PcInv
  <2> QED
    BY <1>3, <2>1 DEF IndInv, TypeOK
<1> HIDE DEF i
<1>5. IndInv'
  BY <1>1, <1>2, <1>3, <1>4, RemovedInv
<1> QED
  BY <1>2, <1>3, <1>5, RemovedEntry

LEMMA CheckTopInv ==
  ASSUME IndInv, NEW t \in Threads, CheckTop(t)
  PROVE  /\ IndInv' /\ expiration_heap[1].key \in Keys
         /\ deadline' = Without(deadline, expiration_heap[1].key, Nil)
<1>1. 1 \in DOMAIN expiration_heap
  BY HeapPositions DEF CheckTop, TopExpired, IndInv, TypeOK
<1>2. /\ remove_from_heap(t, 1) /\ pc[t] = "check"
      /\ expired_key' = [expired_key EXCEPT ![t] = expiration_heap[1].key]
      /\ UNCHANGED <<total_expired, owner, now, call, now_time, expired_count>>
  BY DEF CheckTop
<1>3. call[t].op = "check_expirations"
  BY <1>2 DEF IndInv, ThreadInv, PcInv
<1>4. IndInv'
  BY <1>1, <1>2, <1>3, RemovedInv
<1> QED
  BY <1>1, <1>2, <1>4, RemovedEntry

-----------------------------------------------------------------------------
LEMMA SetNonPositiveInv ==
  ASSUME IndInv, NEW t \in Threads, pc[t] = "apply", call[t].op \in SetOps, SetNonPositive(t),
         UNCHANGED <<total_expired, owner, now, call, checks>>
  PROVE  IndInv'
<1>1. /\ pc' = [pc EXCEPT ![t] = "relock"] /\ ret' = ret
      /\ UNCHANGED <<expiration_heap, key_to_index, index, from, now_time, expired_key, expired_count>>
  BY DEF SetNonPositive, Goto, store, heaping, checks
<1>2. TypeOK' /\ OthersSame(t)
  BY <1>1 DEF IndInv, TypeOK, OthersSame, Pcs
<1>3. IndexOK'
  BY <1>1 DEF IndInv, IndexOK
<1>4. ThreadInv(t)'
  BY <1>1 DEF IndInv, TypeOK, ThreadInv, PcInv, HeapifyInv, CheckInv, Inside, Checking
<1>5. Inside(t) /\ Inside(t)'
  BY <1>1 DEF Inside, IndInv, TypeOK
<1> QED
  BY <1>2, <1>3, <1>4, <1>5, StepInv

(* A deadline set from now on lies on the clock. *)
LEMMA DeadlineIsTime ==
  ASSUME NEW n \in Nat, NEW d \in Int, d > 0, NEW unit \in Nat \ {0}
  PROVE  n + d * unit \in Nat
  OBVIOUS

(* The control of both ways to set a deadline. *)
LEMMA SetInv ==
  ASSUME IndInv, NEW t \in Threads, pc[t] = "apply", call[t].op \in SetOps, call[t].time > 0,
         GoodHeap(key_to_index', expiration_heap'),
         NEW i \in DOMAIN expiration_heap', NEW down \in {0, i}, Heapify(t, i, down),
         UNCHANGED <<total_expired, owner, now, call, checks, ret>>
  PROVE  IndInv'
<1>1. /\ index' = [index EXCEPT ![t] = i] /\ from' = [from EXCEPT ![t] = down]
      /\ pc' = [pc EXCEPT ![t] = "up"]
      /\ UNCHANGED <<now_time, expired_key, expired_count>>
  BY DEF Heapify, Goto, checks
<1>2. i \in Nat
  BY HeapPositions DEF GoodHeap
<1>3. TypeOK' /\ OthersSame(t)
  BY <1>1, <1>2, SMTT(30) DEF IndInv, TypeOK, OthersSame, Pcs, GoodHeap
<1>4. IndexOK'
  BY DEF IndexOK, GoodHeap
<1>5. PcInv(t)' /\ HeapifyInv(t)'
  BY <1>1 DEF IndInv, TypeOK, PcInv, HeapifyInv
<1>6. CheckInv(t)'
  BY <1>1 DEF IndInv, TypeOK, ThreadInv, CheckInv, Checking, Inside, SetOps
<1>7. Inside(t) /\ Inside(t)'
  BY <1>1 DEF Inside, IndInv, TypeOK
<1> QED
  BY <1>3, <1>4, <1>5, <1>6, <1>7, StepInv DEF ThreadInv

LEMMA SetUpdateInv ==
  ASSUME IndInv, NEW t \in Threads, pc[t] = "apply", call[t].op \in SetOps,
         NEW unit \in Nat \ {0}, SetUpdate(t, unit),
         UNCHANGED <<total_expired, owner, now, call, checks>>
  PROVE  /\ IndInv' /\ call[t].time > 0 /\ pc' = [pc EXCEPT ![t] = "up"] /\ ret' = ret
         /\ deadline' = Without(deadline, call[t].key, now + call[t].time * unit)
<1> DEFINE i == key_to_index[call[t].key]
           time == now + call[t].time * unit
<1>1. call[t].key \in Keys /\ call[t].time \in Int /\ call[t].time > 0
  BY CallFields DEF SetUpdate, IndInv, TypeOK
<1>2. time \in Nat
  BY <1>1, DeadlineIsTime DEF IndInv, TypeOK
<1> HIDE DEF time
<1>3. /\ i # 0 /\ Heapify(t, i, i) /\ UNCHANGED <<key_to_index, ret>>
      /\ expiration_heap' = Retimed(expiration_heap, i, time)
  BY DEF SetUpdate, time, Retimed
<1>4. GoodHeap(key_to_index, expiration_heap)
  BY DEF IndInv, TypeOK, IndexOK, GoodHeap
<1>5. /\ GoodHeap(key_to_index, expiration_heap')
      /\ DOMAIN expiration_heap' = DOMAIN expiration_heap
      /\ Deadlines(key_to_index, expiration_heap') = Without(deadline, call[t].key, time)
  BY <1>1, <1>2, <1>3, <1>4, UpdateKeepsIndex DEF deadline
<1>6. i \in DOMAIN expiration_heap'
  BY <1>1, <1>3, <1>4, <1>5 DEF GoodHeap, Indexes
<1>7. GoodHeap(key_to_index', expiration_heap') /\ deadline' = Without(deadline, call[t].key, time)
  BY <1>3, <1>5 DEF deadline
<1> HIDE DEF i
<1>8. IndInv'
  BY <1>1, <1>3, <1>6, <1>7, SetInv
<1> QED
  BY <1>1, <1>3, <1>7, <1>8 DEF Heapify, Goto, time

LEMMA SetInsertInv ==
  ASSUME IndInv, NEW t \in Threads, pc[t] = "apply", call[t].op \in SetOps,
         NEW unit \in Nat \ {0}, SetInsert(t, unit),
         UNCHANGED <<total_expired, owner, now, call, checks>>
  PROVE  /\ IndInv' /\ call[t].time > 0 /\ pc' = [pc EXCEPT ![t] = "up"] /\ ret' = ret
         /\ deadline' = Without(deadline, call[t].key, now + call[t].time * unit)
<1> DEFINE i == Len(expiration_heap) + 1
           k == call[t].key
           time == now + call[t].time * unit
<1>1. k \in Keys /\ call[t].time \in Int /\ call[t].time > 0
  BY CallFields DEF SetInsert, IndInv, TypeOK
<1>2. time \in Nat
  BY <1>1, DeadlineIsTime DEF IndInv, TypeOK
<1> HIDE DEF time
<1>3. /\ key_to_index[k] = 0 /\ Heapify(t, i, 0) /\ ret' = ret
      /\ expiration_heap' = Added(expiration_heap, k, time)
      /\ key_to_index' = Without(key_to_index, k, i)
  BY DEF SetInsert, time, Without, Added
<1>4. GoodHeap(key_to_index, expiration_heap)
  BY DEF IndInv, TypeOK, IndexOK, GoodHeap
<1>5. /\ GoodHeap(key_to_index', expiration_heap') /\ Len(expiration_heap') = i
      /\ Deadlines(key_to_index', expiration_heap') = Without(deadline, k, time)
  BY <1>1, <1>2, <1>3, <1>4, AppendKeepsIndex DEF deadline
<1>6. i \in DOMAIN expiration_heap'
  BY <1>4, <1>5, HeapPositions DEF GoodHeap
<1>7. deadline' = Without(deadline, k, time)
  BY <1>5 DEF deadline
<1> HIDE DEF i, k
<1>8. IndInv'
  BY <1>1, <1>3, <1>5, <1>6, SetInv
<1> QED
  BY <1>1, <1>3, <1>7, <1>8 DEF Heapify, Goto, time, k

LEMMA SetWithInv ==
  ASSUME IndInv, NEW t \in Threads, set_ttl(t) \/ set_ttl_ms(t) PROVE IndInv'
<1>1. ASSUME NEW op \in SetOps, NEW unit \in Nat \ {0}, SetWith(t, op, unit) PROVE IndInv'
  BY <1>1, SetNonPositiveInv, SetUpdateInv, SetInsertInv DEF SetWith, Applying
<1> QED
  BY <1>1, UnitAssumption DEF set_ttl, set_ttl_ms, SetOps
-----------------------------------------------------------------------------
LEMMA NextInv == IndInv /\ [Next]_vars => IndInv'
<1> SUFFICES ASSUME IndInv, [Next]_vars PROVE IndInv'
  OBVIOUS
<1>1. ASSUME NEW t \in Threads, Apply(t) PROVE IndInv'
  BY <1>1, SetWithInv, ReadInv, ClearInv, CheckStartInv, RemoveMissingInv, RemoveFoundInv DEF Apply
<1>2. ASSUME NEW t \in Threads, Loops(t) PROVE IndInv'
  BY <1>2, HeapifyUpInv, UpDoneInv, HeapifyDownInv, DownDoneInv, CheckTopInv, CallbackInv,
     CheckDoneInv DEF Loops
<1>3. CASE UNCHANGED vars
  BY <1>3 DEF vars, IndInv, TypeOK, LockInv, IndexOK, ThreadInv, PcInv, HeapifyInv, CheckInv,
              Inside, Checking
<1> QED
  BY <1>1, <1>2, <1>3, CallInv, LockStepInv, UnlockInv, TickInv DEF Next, Body

(* Invariance: the inductive invariant holds in every reachable state, for  *)
(* any number of threads and keys and any durations, 0 and negative ones    *)
(* included.                                                                *)
THEOREM Invariance == Spec => []IndInv
  BY InitInv, NextInv, PTL DEF Spec

(* The variables of the TTL manager keep their types. *)
THEOREM TypeCorrect == Spec => []TypeOK
<1>1. IndInv => TypeOK
  BY DEF IndInv
<1> QED
  BY <1>1, Invariance, PTL

(* key_to_index_ is the inverse of the heap in every reachable state, the   *)
(* ones between two swaps of a heapify loop included.                       *)
THEOREM IndexKept == Spec => []IndexOK
<1>1. IndInv => IndexOK
  BY DEF IndInv
<1> QED
  BY <1>1, Invariance, PTL

(* The callback of check_expirations gets a key that has left the heap.     *)
THEOREM CallbacksAfterRemoval == Spec => []CallbackAfterRemoval
<1>1. IndInv => CallbackAfterRemoval
  BY DEF IndInv, ThreadInv, CheckInv, CallbackAfterRemoval
<1> QED
  BY <1>1, Invariance, PTL
-----------------------------------------------------------------------------
(* The measure of LoopsEnd, and what each step does to it. *)
LEMMA LessAt ==
  ASSUME NEW x, NEW y,
         \/ x[1] < y[1]
         \/ x[1] = y[1] /\ x[2] < y[2]
         \/ x[1] = y[1] /\ x[2] = y[2] /\ x[3] < y[3]
         \/ x[1] = y[1] /\ x[2] = y[2] /\ x[3] = y[3] /\ x[4] < y[4]
  PROVE  Less(x, y)
<1>1. CASE x[1] < y[1]
  BY <1>1 DEF Less
<1>2. CASE x[1] = y[1] /\ x[2] < y[2]
  <2>1. \A j \in 1..(2 - 1) : x[j] = y[j]
    BY <1>2
  <2> QED
    BY <1>2, <2>1 DEF Less
<1>3. CASE x[1] = y[1] /\ x[2] = y[2] /\ x[3] < y[3]
  <2>1. \A j \in 1..(3 - 1) : x[j] = y[j]
    BY <1>3
  <2> QED
    BY <1>3, <2>1 DEF Less
<1>4. CASE x[1] = y[1] /\ x[2] = y[2] /\ x[3] = y[3] /\ x[4] < y[4]
  <2>1. \A j \in 1..(4 - 1) : x[j] = y[j]
    BY <1>4
  <2> QED
    BY <1>4, <2>1 DEF Less
<1> QED
  BY <1>1, <1>2, <1>3, <1>4

LEMMA LeftAt ==
  ASSUME NEW n, NEW i
  PROVE  /\ Left("lock", n, i) = <<5, 0, 0, 0>>
         /\ Left("apply", n, i) = <<4, 0, 0, 0>>
         /\ Left("relock", n, i) = <<3, 0, 0, 0>>
         /\ Left("remove", n, i) = <<2, 0, 0, 0>>
         /\ Left("up", n, i) = <<1, n, 3, i>>
         /\ Left("down", n, i) = <<1, n, 2, n - i>>
         /\ Left("callback", n, i) = <<1, n, 1, 0>>
         /\ Left("check", n, i) = <<1, n, 0, 0>>
         /\ Left("unlock", n, i) = <<0, 0, 0, 0>>
  BY DEF Left, Stage

(* The order of the stages: from each label only the labels below it. *)
Follows(p, q) ==
  \/ p = "lock" /\ q \in {"apply", "remove"}
  \/ p = "apply" /\ q \in {"relock", "up", "check", "unlock"}
  \/ p = "remove" /\ q \in {"up", "unlock"}
  \/ p \in {"up", "down", "check"} /\ q = "unlock"

LEMMA StageLess ==
  ASSUME NEW p, NEW q, Follows(p, q), NEW n \in Int, NEW i \in Int, NEW n2 \in Int, NEW i2 \in Int
  PROVE  Less(Left(q, n2, i2), Left(p, n, i))
  BY LeftAt, LessAt DEF Follows

(* The next label of t, and the measure it comes with. *)
LEMMA LabelLess ==
  ASSUME IndInv, IndInv', NEW t \in Threads, NEW q, pc' = [pc EXCEPT ![t] = q],
         \/ Follows(pc[t], q)
         \/ /\ pc[t] = "check" /\ q \in {"up", "callback"}
            /\ Len(expiration_heap') < Len(expiration_heap)
         \/ /\ Len(expiration_heap') = Len(expiration_heap)
            /\ \/ pc[t] = "up" /\ q \in {"down", "callback"}
               \/ pc[t] = "down" /\ q = "callback"
               \/ pc[t] = "callback" /\ q = "check"
  PROVE  Less(LeftOf(t)', LeftOf(t))
<1> DEFINE n == Len(expiration_heap)
           i == index[t]
           m == Len(expiration_heap')
           j == index'[t]
<1>1. n \in Int /\ i \in Int /\ m \in Int /\ j \in Int /\ n - i \in Int /\ m - j \in Int
  BY DEF IndInv, TypeOK
<1>2. LeftOf(t) = Left(pc[t], n, i) /\ LeftOf(t)' = Left(q, m, j)
  BY DEF LeftOf, IndInv, TypeOK
<1> HIDE DEF n, i, m, j
<1>3. CASE Follows(pc[t], q)
  BY <1>1, <1>2, <1>3, StageLess
<1>4. CASE pc[t] = "check" /\ q \in {"up", "callback"} /\ m < n
  BY <1>1, <1>2, <1>4, LeftAt, LessAt
<1>5. CASE m = n /\ pc[t] = "up" /\ q \in {"down", "callback"}
  BY <1>1, <1>2, <1>5, LeftAt, LessAt
<1>6. CASE m = n /\ pc[t] = "down" /\ q = "callback"
  BY <1>1, <1>2, <1>6, LeftAt, LessAt
<1>7. CASE m = n /\ pc[t] = "callback" /\ q = "check"
  BY <1>1, <1>2, <1>7, LeftAt, LessAt
<1> QED
  BY <1>3, <1>4, <1>5, <1>6, <1>7 DEF n, m

(* heapify_up goes towards the first position, heapify_down to the last. *)
LEMMA HeapifyUpLess ==
  ASSUME IndInv, NEW t \in Threads, heapify_up(t) PROVE Less(LeftOf(t)', LeftOf(t))
<1>1. /\ index[t] \in DOMAIN expiration_heap /\ index[t] \in Nat /\ index[t] > 1
      /\ index[t] \div 2 \in DOMAIN expiration_heap /\ Len(expiration_heap) \in Int
  BY HeapPositions DEF heapify_up, IndInv, TypeOK, ThreadInv, HeapifyInv
<1>2. index[t] \div 2 \in Int /\ index[t] \div 2 < index[t]
  BY <1>1
<1>3. Len(expiration_heap') = Len(expiration_heap)
  BY <1>1, SwapKeepsIndex DEF heapify_up, swap_entries, IndInv, TypeOK, IndexOK, GoodHeap
<1>4. /\ LeftOf(t) = <<1, Len(expiration_heap), 3, index[t]>>
      /\ LeftOf(t)' = <<1, Len(expiration_heap), 3, index[t] \div 2>>
  BY <1>3, LeftAt, SMTT(30) DEF heapify_up, LeftOf, IndInv, TypeOK
<1> QED
  BY <1>1, <1>2, <1>4, LessAt

LEMMA HeapifyDownLess ==
  ASSUME IndInv, NEW t \in Threads, heapify_down(t) PROVE Less(LeftOf(t)', LeftOf(t))
<1> DEFINE n == Len(expiration_heap)
           i == index[t]
           s == Smallest(expiration_heap, i)
<1>1. i \in DOMAIN expiration_heap /\ i \in Nat /\ i # 0 /\ n \in Int /\ s # i
  BY HeapPositions DEF heapify_down, IndInv, TypeOK, ThreadInv, HeapifyInv
<1>2. s \in {2 * i, 2 * i + 1}
  BY <1>1 DEF Smallest
<1>3. s \in DOMAIN expiration_heap
  BY <1>1, SmallestIsPosition DEF IndInv, TypeOK
<1>4. Len(expiration_heap') = n
  BY <1>1, <1>3, SwapKeepsIndex DEF heapify_down, swap_entries, IndInv, TypeOK, IndexOK, GoodHeap
<1>5. index'[t] = s /\ pc[t] = "down" /\ pc'[t] = "down"
  BY DEF heapify_down, IndInv, TypeOK
<1>6. LeftOf(t) = <<1, n, 2, n - i>> /\ LeftOf(t)' = <<1, n, 2, n - s>>
  BY <1>4, <1>5, LeftAt DEF LeftOf
<1> HIDE DEF n, i, s
<1>7. n - i \in Int /\ n - s \in Int /\ n - s < n - i
  BY <1>1, <1>2
<1> QED
  BY <1>1, <1>6, <1>7, LessAt

LEMMA SetLess ==
  ASSUME IndInv, IndInv', NEW t \in Threads, set_ttl(t) \/ set_ttl_ms(t)
  PROVE  Less(LeftOf(t)', LeftOf(t))
<1>1. pc[t] = "apply" /\ \E q \in {"relock", "up"} : pc' = [pc EXCEPT ![t] = q]
  BY DEF set_ttl, set_ttl_ms, SetWith, Applying, SetNonPositive, SetUpdate, SetInsert, Heapify, Goto
<1> QED
  BY <1>1, LabelLess DEF Follows

LEMMA ApplyLess ==
  ASSUME IndInv, IndInv', NEW t \in Threads, Apply(t)
  PROVE  Less(LeftOf(t)', LeftOf(t))
<1>1. CASE get_ttl(t) \/ get_ttl_ms(t) \/ has_ttl(t) \/ size(t) \/ get_stats(t) \/ clear(t)
  <2>1. pc[t] = "apply" /\ pc' = [pc EXCEPT ![t] = "unlock"]
    BY <1>1 DEF get_ttl, get_ttl_ms, has_ttl, size, get_stats, clear, Answer, Applying,
                ReturnValue, Goto
  <2> QED
    BY <2>1, LabelLess DEF Follows
<1>2. CASE CheckStart(t)
  <2>1. pc[t] = "apply" /\ pc' = [pc EXCEPT ![t] = "check"]
    BY <1>2 DEF CheckStart, Applying, Goto
  <2> QED
    BY <2>1, LabelLess DEF Follows
<1>3. CASE RemoveMissing(t)
  <2>1. pc[t] = "remove" /\ pc' = [pc EXCEPT ![t] = "unlock"]
    BY <1>3 DEF RemoveMissing, ReturnValue, Goto
  <2> QED
    BY <2>1, LabelLess DEF Follows
<1>4. CASE RemoveFound(t)
  <2>1. pc[t] = "remove" /\ call[t].op = "remove_ttl"
    BY <1>4 DEF RemoveFound, IndInv, ThreadInv, PcInv
  <2>2. \E q \in {"up", "unlock"} : pc' = [pc EXCEPT ![t] = q]
    BY <1>4, <2>1 DEF RemoveFound, remove_from_heap, Heapify, Heapified, ReturnValue, Goto
  <2> QED
    BY <2>1, <2>2, LabelLess DEF Follows
<1> QED
  BY <1>1, <1>2, <1>3, <1>4, SetLess DEF Apply

LEMMA LoopsLess ==
  ASSUME IndInv, IndInv', NEW t \in Threads, Loops(t)
  PROVE  Less(LeftOf(t)', LeftOf(t))
<1>1. CASE UpDone(t)
  <2>1. pc[t] = "up" /\ expiration_heap' = expiration_heap
    BY <1>1 DEF UpDone, store
  <2>2. \E q \in {"down", "callback", "unlock"} : pc' = [pc EXCEPT ![t] = q]
    BY <1>1 DEF UpDone, Heapified, ReturnValue, Goto
  <2> QED
    BY <2>1, <2>2, LabelLess DEF Follows
<1>2. CASE DownDone(t)
  <2>1. pc[t] = "down" /\ expiration_heap' = expiration_heap
    BY <1>2 DEF DownDone, store
  <2>2. \E q \in {"callback", "unlock"} : pc' = [pc EXCEPT ![t] = q]
    BY <1>2 DEF DownDone, Heapified, ReturnValue, Goto
  <2> QED
    BY <2>1, <2>2, LabelLess DEF Follows
<1>3. CASE CheckTop(t)
  <2>1. /\ pc[t] = "check" /\ call[t].op = "check_expirations" /\ remove_from_heap(t, 1)
        /\ 1 \in DOMAIN expiration_heap /\ Len(expiration_heap) \in Nat
    BY <1>3, HeapPositions DEF CheckTop, TopExpired, IndInv, TypeOK, ThreadInv, PcInv
  <2>2. \E q \in {"up", "callback"} : pc' = [pc EXCEPT ![t] = q]
    BY <2>1 DEF remove_from_heap, Heapify, Heapified, Goto
  <2>3. Len(expiration_heap') < Len(expiration_heap)
    BY <2>1, RemovedEntry
  <2> QED
    BY <2>1, <2>2, <2>3, LabelLess
<1>4. CASE Callback(t)
  <2>1. /\ pc[t] = "callback" /\ expiration_heap' = expiration_heap
        /\ pc' = [pc EXCEPT ![t] = "check"]
    BY <1>4 DEF Callback, Goto, store
  <2> QED
    BY <2>1, LabelLess
<1>5. CASE CheckDone(t)
  <2>1. pc[t] = "check" /\ pc' = [pc EXCEPT ![t] = "unlock"]
    BY <1>5 DEF CheckDone, ReturnValue, Goto
  <2> QED
    BY <2>1, LabelLess DEF Follows
<1> QED
  BY <1>1, <1>2, <1>3, <1>4, <1>5, HeapifyUpLess, HeapifyDownLess DEF Loops

(* Every step inside a method of TTLManager lowers the measure, whatever    *)
(* order the heap is in: heapify_up, heapify_down and the loop of           *)
(* check_expirations end, for any number of entries.                        *)
THEOREM EveryLoopEnds == Spec => LoopsEnd
<1>1. ASSUME IndInv, IndInv', NEW t \in Threads, Lock(t) PROVE Less(LeftOf(t)', LeftOf(t))
  <2>1. pc[t] = "lock" /\ \E q \in {"apply", "remove"} : pc' = [pc EXCEPT ![t] = q]
    BY <1>1, LockStepInv
  <2> QED
    BY <1>1, <2>1, LabelLess DEF Follows
<1>2. IndInv /\ IndInv' =>
        [\A t \in Threads :
           (Lock(t) \/ (Body(t) /\ ~Unlock(t))) => Less(LeftOf(t)', LeftOf(t))]_vars
  BY <1>1, ApplyLess, LoopsLess DEF Body
<1> QED
  BY <1>2, Invariance, PTL DEF LoopsEnd
-----------------------------------------------------------------------------
(* TTLManager implements ExpiryMap: a call takes effect at the one step     *)
(* that changes the set of deadlines or fixes its answer, and the swaps of  *)
(* the heapify loops, the second half of a removal and the bookkeeping of a *)
(* check leave the map as it is.                                            *)

(* What the mapping makes of a thread in a call of op that stands at label  *)
(* p, has counted n keys and holds the result r.                            *)
Flies(p, op) == op = "check_expirations" /\ p \in {"up", "down", "callback"}
IsDone(p, op) == p = "unlock" \/ (p \in {"up", "down"} /\ op # "check_expirations")

StatusAt(p, op)   == IF IsDone(p, op) THEN "done" ELSE "pending"
SeenAt(p, op, r)  == IF p = "unlock" THEN r ELSE IF IsDone(p, op) THEN TRUE ELSE Nil
TallyAt(p, op, n) == n + IF Flies(p, op) THEN 1 ELSE 0

LEMMA MappedThread ==
  ASSUME IndInv, NEW t \in Threads, pc[t] # "idle"
  PROVE  /\ status[t] = StatusAt(pc[t], call[t].op)
         /\ seen[t] = SeenAt(pc[t], call[t].op, ret[t])
         /\ tally[t] = TallyAt(pc[t], call[t].op, expired_count[t])
  BY DEF status, seen, tally, Performed, InFlight, Checking, StatusAt, SeenAt, TallyAt,
         IsDone, Flies

(* Only the thread that holds the mutex has a key in flight. *)
LEMMA MappedTotal ==
  ASSUME IndInv, NEW t \in Threads, Inside(t)
  PROVE  total = TallyAt(pc[t], call[t].op, total_expired)
<1>1. \A u \in Threads : u # t => ~InFlight(u)
  BY DEF IndInv, LockInv, InFlight, Inside
<1>2. (\E u \in Threads : InFlight(u)) <=> Flies(pc[t], call[t].op)
  BY <1>1 DEF InFlight, Checking, Flies, Inside
<1> QED
  BY <1>2 DEF total, TallyAt

LEMMA MappedTotalNext ==
  ASSUME IndInv', NEW t \in Threads, Inside(t)'
  PROVE  total' = TallyAt(pc'[t], call'[t].op, total_expired')
<1>1. \A u \in Threads : u # t => ~InFlight(u)'
  BY DEF IndInv, LockInv, InFlight, Inside
<1>2. (\E u \in Threads : InFlight(u)') <=> Flies(pc'[t], call'[t].op)
  BY <1>1 DEF InFlight, Checking, Flies, Inside
<1> QED
  BY <1>2 DEF total, TallyAt

(* A step of a thread inside a call: what the map sees of its new locals.  *)
LEMMA MappedStep ==
  ASSUME IndInv, NEW t \in Threads, pc[t] # "idle", pc'[t] # "idle", OthersSame(t),
         call'[t] = call[t]
  PROVE  /\ status' = [status EXCEPT ![t] = StatusAt(pc'[t], call[t].op)]
         /\ seen' = [seen EXCEPT ![t] = SeenAt(pc'[t], call[t].op, ret'[t])]
         /\ tally' = [tally EXCEPT ![t] = TallyAt(pc'[t], call[t].op, expired_count'[t])]
<1>1. ASSUME NEW u \in Threads
      PROVE  /\ status'[u] = IF u = t THEN StatusAt(pc'[t], call[t].op) ELSE status[u]
             /\ seen'[u] = IF u = t THEN SeenAt(pc'[t], call[t].op, ret'[t]) ELSE seen[u]
             /\ tally'[u] = IF u = t THEN TallyAt(pc'[t], call[t].op, expired_count'[t])
                                     ELSE tally[u]
  <2>1. CASE u = t
    <3>1. status'[t] = StatusAt(pc'[t], call[t].op)
      BY DEF status, Performed, Checking, StatusAt, IsDone
    <3>2. seen'[t] = SeenAt(pc'[t], call[t].op, ret'[t])
      BY DEF seen, Performed, Checking, SeenAt, IsDone
    <3>3. tally'[t] = TallyAt(pc'[t], call[t].op, expired_count'[t])
      BY DEF tally, InFlight, Checking, TallyAt, Flies
    <3> QED
      BY <2>1, <3>1, <3>2, <3>3
  <2>2. CASE u # t
    <3>1. /\ pc'[u] = pc[u] /\ ret'[u] = ret[u] /\ expired_count'[u] = expired_count[u]
          /\ call'[u] = call[u]
      BY <2>2 DEF OthersSame
    <3>2. status'[u] = status[u]
      BY <3>1 DEF status, Performed, Checking
    <3>3. seen'[u] = seen[u]
      BY <3>1 DEF seen, Performed, Checking
    <3>4. tally'[u] = tally[u]
      BY <3>1 DEF tally, InFlight, Checking
    <3> QED
      BY <2>2, <3>2, <3>3, <3>4
  <2> QED
    BY <2>1, <2>2
<1>2. /\ DOMAIN status = Threads /\ DOMAIN seen = Threads /\ DOMAIN tally = Threads
      /\ status' = [u \in Threads |-> status'[u]] /\ seen' = [u \in Threads |-> seen'[u]]
      /\ tally' = [u \in Threads |-> tally'[u]]
  BY DEF status, seen, tally
<1> QED
  BY <1>1, <1>2

LEMMA MappedFunctions ==
  /\ status = [u \in Threads |-> status[u]] /\ seen = [u \in Threads |-> seen[u]]
  /\ tally = [u \in Threads |-> tally[u]]
  BY DEF status, seen, tally

(* A step inside a call that the map does not see. *)
LEMMA QuietStep ==
  ASSUME IndInv, NEW t \in Threads, pc[t] # "idle", pc'[t] # "idle", OthersSame(t),
         call' = call, now' = now, total' = total, deadline' = deadline,
         StatusAt(pc'[t], call[t].op) = StatusAt(pc[t], call[t].op),
         SeenAt(pc'[t], call[t].op, ret'[t]) = SeenAt(pc[t], call[t].op, ret[t]),
         TallyAt(pc'[t], call[t].op, expired_count'[t])
           = TallyAt(pc[t], call[t].op, expired_count[t])
  PROVE  UNCHANGED Promise!vars
<1>1. /\ status[t] = StatusAt(pc[t], call[t].op)
      /\ seen[t] = SeenAt(pc[t], call[t].op, ret[t])
      /\ tally[t] = TallyAt(pc[t], call[t].op, expired_count[t])
  BY MappedThread
<1>2. /\ status' = [status EXCEPT ![t] = StatusAt(pc'[t], call[t].op)]
      /\ seen' = [seen EXCEPT ![t] = SeenAt(pc'[t], call[t].op, ret'[t])]
      /\ tally' = [tally EXCEPT ![t] = TallyAt(pc'[t], call[t].op, expired_count'[t])]
  BY MappedStep
<1>3. status' = status /\ seen' = seen /\ tally' = tally
  BY <1>1, <1>2, MappedFunctions
<1> QED
  BY <1>3 DEF Promise!vars

(* A step at which a call takes effect, with what its caller will see. *)
LEMMA EffectStep ==
  ASSUME IndInv, IndInv', NEW t \in Threads, pc[t] \in {"apply", "remove", "check"},
         NEW ops, call[t].op \in ops, NEW v,
         \/ pc'[t] = "unlock" /\ v = ret'[t]
         \/ pc'[t] = "up" /\ v = TRUE /\ call[t].op # "check_expirations",
         OthersSame(t), UNCHANGED <<total_expired, expired_count, call, now>>
  PROVE  Promise!TakeEffect(t, ops, deadline', v)
<1>1. Inside(t) /\ Inside(t)'
  BY DEF Inside
<1>2. total' = total
  <2>1. total = TallyAt(pc[t], call[t].op, total_expired)
    BY <1>1, MappedTotal
  <2>2. total' = TallyAt(pc'[t], call[t].op, total_expired)
    BY <1>1, MappedTotalNext
  <2> QED
    BY <2>1, <2>2 DEF TallyAt, Flies
<1>3. /\ status' = [status EXCEPT ![t] = StatusAt(pc'[t], call[t].op)]
      /\ seen' = [seen EXCEPT ![t] = SeenAt(pc'[t], call[t].op, ret'[t])]
      /\ tally' = [tally EXCEPT ![t] = TallyAt(pc'[t], call[t].op, expired_count'[t])]
  BY MappedStep
<1>4. status[t] = "pending" /\ StatusAt(pc'[t], call[t].op) = "done"
  BY MappedThread DEF StatusAt, IsDone
<1>5. SeenAt(pc'[t], call[t].op, ret'[t]) = v
  BY DEF SeenAt, IsDone
<1>6. TallyAt(pc'[t], call[t].op, expired_count'[t]) = tally[t]
  BY MappedThread DEF TallyAt, Flies
<1>7. status' = [status EXCEPT ![t] = "done"] /\ seen' = [seen EXCEPT ![t] = v] /\ tally' = tally
  BY <1>3, <1>4, <1>5, <1>6, MappedFunctions
<1> QED
  BY <1>2, <1>4, <1>7 DEF Promise!TakeEffect
-----------------------------------------------------------------------------
(* The keys that have a deadline are the ones the index knows, and there    *)
(* are as many as entries in the heap.                                      *)
LEMMA DeadlineOf ==
  ASSUME IndInv, NEW k \in Keys
  PROVE  /\ deadline[k] = IF key_to_index[k] = 0 THEN Nil
                          ELSE expiration_heap[key_to_index[k]].expire_time
         /\ key_to_index[k] # 0 => deadline[k] \in Nat
         /\ deadline[k] = Nil <=> key_to_index[k] = 0
<1>1. key_to_index[k] # 0 => expiration_heap[key_to_index[k]].expire_time \in Nat
  BY HeapPositions DEF IndInv, TypeOK, IndexOK, Indexes
<1> QED
  BY <1>1, NilAssumption DEF deadline, Deadlines

LEMMA TrackedKeys ==
  ASSUME IndInv
  PROVE  Promise!Tracked = {k \in Keys : key_to_index[k] # 0}
  BY DeadlineOf DEF Promise!Tracked

LEMMA TrackedCount ==
  ASSUME IndInv
  PROVE  Promise!Cardinality(Promise!Tracked) = Len(expiration_heap)
<1> DEFINE n == Len(expiration_heap)
           S == Promise!Tracked
           f == [i \in 1..n |-> expiration_heap[i].key]
<1>1. /\ DOMAIN expiration_heap = 1..n /\ n \in Nat
      /\ \A i \in 1..n : expiration_heap[i].key \in Keys /\ i # 0
  BY HeapPositions DEF IndInv, TypeOK
<1>2. /\ \A i \in 1..n : key_to_index[expiration_heap[i].key] = i
      /\ \A k \in Keys : key_to_index[k] # 0 =>
           key_to_index[k] \in 1..n /\ expiration_heap[key_to_index[k]].key = k
  BY <1>1 DEF IndInv, IndexOK, Indexes
<1>3. S = {k \in Keys : key_to_index[k] # 0}
  BY TrackedKeys
<1> HIDE DEF S, n
<1>4. f \in [1..n -> S]
  BY <1>1, <1>2, <1>3
<1>5. \A i, j \in 1..n : f[i] = f[j] => i = j
  BY <1>2
<1>6. \A k \in S : \E i \in 1..n : f[i] = k
  BY <1>2, <1>3
<1>7. f \in Bijection(1..n, S)
  BY <1>4, <1>5, <1>6 DEF Bijection, Injection, Surjection, IsInjective
<1>8. ExistsBijection(1..n, S)
  BY <1>7 DEF ExistsBijection
<1>9. IsFiniteSet(1..n) /\ Cardinality(1..n) = n
  BY <1>1, FS_Interval, SMTT(30) DEF n
<1>10. Cardinality(S) = n
  BY <1>8, <1>9, FS_Bijection
<1>11. Promise!Cardinality(Promise!Tracked) = Cardinality(Promise!Tracked)
  BY DEF Promise!Cardinality, Cardinality
<1> QED
  BY <1>10, <1>11 DEF S, n
-----------------------------------------------------------------------------
(* A quiet step under the mutex: the total is mapped like the tallies. *)
LEMMA QuietInside ==
  ASSUME IndInv, IndInv', NEW t \in Threads, Inside(t), Inside(t)', OthersSame(t),
         call' = call, now' = now, deadline' = deadline,
         StatusAt(pc'[t], call[t].op) = StatusAt(pc[t], call[t].op),
         SeenAt(pc'[t], call[t].op, ret'[t]) = SeenAt(pc[t], call[t].op, ret[t]),
         TallyAt(pc'[t], call[t].op, expired_count'[t])
           = TallyAt(pc[t], call[t].op, expired_count[t]),
         TallyAt(pc'[t], call[t].op, total_expired') = TallyAt(pc[t], call[t].op, total_expired)
  PROVE  UNCHANGED Promise!vars
<1>1. total' = total
  BY MappedTotal, MappedTotalNext
<1>2. pc[t] # "idle" /\ pc'[t] # "idle"
  BY DEF Inside
<1> QED
  BY <1>1, <1>2, QuietStep

LEMMA InitRefines == Init => Promise!Init
<1> SUFFICES ASSUME Init PROVE Promise!Init
  OBVIOUS
<1>1. deadline = [k \in Keys |-> Nil]
  BY DEF Init, deadline, Deadlines
<1>2. total = 0 /\ tally = [t \in Threads |-> 0]
  BY DEF Init, total, tally, InFlight, Checking
<1>3. status = [t \in Threads |-> "idle"] /\ seen = [t \in Threads |-> Nil]
  BY DEF Init, status, seen, Performed
<1> QED
  BY <1>1, <1>2, <1>3 DEF Init, Promise!Init

LEMMA TickRefines ==
  ASSUME IndInv, Tick PROVE Promise!Tick
<1>1. UNCHANGED <<deadline, total, status, call, tally, seen>> /\ now < MaxTime /\ now' = now + 1
  BY DEF Tick, store, checks, deadline, total, status, tally, seen, InFlight, Performed, Checking
<1> QED
  BY <1>1 DEF Promise!Tick

LEMMA CallRefines ==
  ASSUME IndInv, NEW t \in Threads, Call(t) PROVE Promise!Invoke(t)
<1>1. PICK c \in AllCalls : call' = [call EXCEPT ![t] = c]
  BY DEF Call
<1>2. /\ pc[t] = "idle" /\ pc' = [pc EXCEPT ![t] = "lock"]
      /\ UNCHANGED <<expiration_heap, key_to_index, total_expired, now, expired_count, ret>>
  BY DEF Call, Goto, store, checks
<1>3. /\ pc'[t] = "lock" /\ \A u \in Threads : u # t => pc'[u] = pc[u] /\ call'[u] = call[u]
  BY <1>1, <1>2 DEF IndInv, TypeOK
<1>4. \A u \in Threads : /\ InFlight(u)' <=> InFlight(u)
                         /\ Performed(u)' <=> Performed(u)
  BY <1>2, <1>3 DEF InFlight, Performed, Checking
<1>5. deadline' = deadline /\ now' = now
  BY <1>2 DEF deadline
<1>6. total' = total
  BY <1>2, <1>4 DEF total
<1>7. tally' = tally
  BY <1>2, <1>3 DEF tally, InFlight, Checking
<1>8. status[t] = "idle" /\ status' = [status EXCEPT ![t] = "pending"]
  BY <1>2, <1>3 DEF status, Performed, Checking
<1>9. seen' = seen
  BY <1>2, <1>3 DEF seen, Performed, Checking
<1>10. c \in Promise!AllCalls
  BY DEF AllCalls, SetCalls, KeyCalls, GlobalCalls, SetOps, Promise!AllCalls, Promise!SetCalls,
         Promise!KeyCalls, Promise!GlobalCalls
<1> QED
  BY <1>1, <1>5, <1>6, <1>7, <1>8, <1>9, <1>10 DEF Promise!Invoke

LEMMA UnlockRefines ==
  ASSUME IndInv, IndInv', NEW t \in Threads, Unlock(t) PROVE Promise!Return(t)
<1>1. /\ pc[t] = "unlock" /\ pc' = [pc EXCEPT ![t] = "idle"] /\ call' = [call EXCEPT ![t] = Nil]
      /\ expired_count' = [expired_count EXCEPT ![t] = 0] /\ ret' = [ret EXCEPT ![t] = Nil]
      /\ UNCHANGED <<expiration_heap, key_to_index, total_expired, now>>
  BY DEF Unlock, Goto, store
<1>2. /\ pc'[t] = "idle" /\ expired_count'[t] = 0
      /\ \A u \in Threads : u # t => /\ pc'[u] = pc[u] /\ call'[u] = call[u] /\ ret'[u] = ret[u]
                                     /\ expired_count'[u] = expired_count[u]
  BY <1>1 DEF IndInv, TypeOK
<1>3. \A u \in Threads : ~InFlight(u) /\ ~InFlight(u)'
  BY <1>1, <1>2 DEF IndInv, LockInv, InFlight, Inside
<1>4. deadline' = deadline /\ total' = total
  BY <1>1, <1>3 DEF deadline, total
<1>5. tally' = [tally EXCEPT ![t] = 0]
  <2>1. tally'[t] = 0
    BY <1>2 DEF tally, InFlight
  <2>2. \A u \in Threads : u # t => tally'[u] = tally[u]
    BY <1>2 DEF tally, InFlight, Checking
  <2>3. tally' = [u \in Threads |-> tally'[u]]
    BY DEF tally
  <2> QED
    BY <2>1, <2>2, <2>3, MappedFunctions
<1>6. status[t] = "done" /\ status' = [status EXCEPT ![t] = "idle"]
  BY <1>1, <1>2, ZenonT(30) DEF status, Performed, Checking
<1>7. seen' = [seen EXCEPT ![t] = Nil]
  BY <1>2 DEF seen, Performed, Checking
<1> QED
  BY <1>1, <1>4, <1>5, <1>6, <1>7 DEF Promise!Return

LEMMA LockRefines ==
  ASSUME IndInv, IndInv', NEW t \in Threads, Lock(t) PROVE UNCHANGED Promise!vars
<1>1. /\ pc[t] = "lock"
      /\ pc' = [pc EXCEPT ![t] = IF call[t].op = "remove_ttl" THEN "remove" ELSE "apply"]
  BY LockStepInv
<1>2. /\ owner = NoThread
      /\ UNCHANGED <<expiration_heap, key_to_index, total_expired, now, call, index, from,
                     now_time, expired_key, expired_count, ret>>
  BY DEF Lock, store, heaping, checks
<1>3. pc'[t] \in {"remove", "apply"} /\ OthersSame(t)
  BY <1>1, <1>2 DEF OthersSame, IndInv, TypeOK
<1>4. total' = total
  <2>1. \A u \in Threads : ~InFlight(u)
    BY <1>2, NoThreadAssumption DEF IndInv, LockInv, InFlight, Inside
  <2>2. \A u \in Threads : ~InFlight(u)'
    BY <1>2, <1>3, <2>1 DEF InFlight, Checking, OthersSame
  <2> QED
    BY <1>2, <2>1, <2>2 DEF total
<1>5. deadline' = deadline
  BY <1>2 DEF deadline
<1>6. /\ StatusAt(pc'[t], call[t].op) = StatusAt(pc[t], call[t].op)
      /\ SeenAt(pc'[t], call[t].op, ret[t]) = SeenAt(pc[t], call[t].op, ret[t])
      /\ TallyAt(pc'[t], call[t].op, expired_count[t]) = TallyAt(pc[t], call[t].op, expired_count[t])
  BY <1>1, <1>3 DEF StatusAt, SeenAt, TallyAt, IsDone, Flies
<1> QED
  BY <1>1, <1>2, <1>3, <1>4, <1>5, <1>6, QuietStep
-----------------------------------------------------------------------------
(* The loops: swaps and their ends, and the callback, are not seen. *)
LEMMA HeapifyRefines ==
  ASSUME IndInv, IndInv', NEW t \in Threads, heapify_up(t) \/ heapify_down(t)
  PROVE  UNCHANGED Promise!vars
<1>1. deadline' = deadline
  BY HeapifyUpInv, HeapifyDownInv
<1>2. /\ pc[t] \in {"up", "down"}
      /\ \E i : index' = [index EXCEPT ![t] = i]
      /\ UNCHANGED <<total_expired, now, pc, call, from, now_time, expired_key, expired_count, ret>>
  BY DEF heapify_up, heapify_down, checks
<1>3. OthersSame(t) /\ Inside(t) /\ Inside(t)'
  BY <1>2 DEF OthersSame, Inside, IndInv, TypeOK
<1> QED
  BY <1>1, <1>2, <1>3, QuietInside

LEMMA HeapifiedRefines ==
  ASSUME IndInv, IndInv', NEW t \in Threads, pc[t] \in {"up", "down"}, Heapified(t),
         \E i : index' = [index EXCEPT ![t] = i],
         UNCHANGED <<store, total_expired, owner, now, call, from, checks>>
  PROVE  UNCHANGED Promise!vars
<1>1. /\ UNCHANGED <<now_time, expired_key, expired_count>>
      /\ deadline' = deadline
  BY DEF store, checks, deadline
<1>2. CASE call[t].op = "check_expirations"
  <2>1. pc' = [pc EXCEPT ![t] = "callback"] /\ ret' = ret
    BY <1>2 DEF Heapified, Goto
  <2>2. pc'[t] = "callback" /\ OthersSame(t)
    BY <1>1, <2>1 DEF OthersSame, IndInv, TypeOK
  <2>3. Inside(t) /\ Inside(t)'
    BY <2>2 DEF Inside
  <2>4. /\ StatusAt(pc'[t], call[t].op) = StatusAt(pc[t], call[t].op)
        /\ SeenAt(pc'[t], call[t].op, ret'[t]) = SeenAt(pc[t], call[t].op, ret[t])
        /\ \A n : TallyAt(pc'[t], call[t].op, n) = TallyAt(pc[t], call[t].op, n)
    BY <1>2, <2>1, <2>2 DEF StatusAt, SeenAt, TallyAt, IsDone, Flies
  <2> QED
    BY <1>1, <2>2, <2>3, <2>4, QuietInside
<1>3. CASE call[t].op # "check_expirations"
  <2>1. pc' = [pc EXCEPT ![t] = "unlock"] /\ ret' = [ret EXCEPT ![t] = TRUE]
    BY <1>3 DEF Heapified, Goto, ReturnValue
  <2>2. pc'[t] = "unlock" /\ ret'[t] = TRUE /\ OthersSame(t)
    BY <1>1, <2>1 DEF OthersSame, IndInv, TypeOK
  <2>3. Inside(t) /\ Inside(t)'
    BY <2>2 DEF Inside
  <2>4. /\ StatusAt(pc'[t], call[t].op) = StatusAt(pc[t], call[t].op)
        /\ SeenAt(pc'[t], call[t].op, ret'[t]) = SeenAt(pc[t], call[t].op, ret[t])
        /\ \A n : TallyAt(pc'[t], call[t].op, n) = TallyAt(pc[t], call[t].op, n)
    BY <1>3, <2>2 DEF StatusAt, SeenAt, TallyAt, IsDone, Flies
  <2> QED
    BY <1>1, <2>2, <2>3, <2>4, QuietInside
<1> QED
  BY <1>2, <1>3

LEMMA UpDoneRefines ==
  ASSUME IndInv, IndInv', NEW t \in Threads, UpDone(t) PROVE UNCHANGED Promise!vars
<1>1. /\ pc[t] = "up" /\ index' = [index EXCEPT ![t] = from[t]]
      /\ UNCHANGED <<store, total_expired, owner, now, call, from, checks>>
  BY DEF UpDone
<1>2. CASE from[t] = 0
  BY <1>1, <1>2, HeapifiedRefines DEF UpDone
<1>3. CASE from[t] # 0
  <2>1. /\ pc' = [pc EXCEPT ![t] = "down"] /\ ret' = ret
        /\ UNCHANGED <<now_time, expired_key, expired_count>> /\ deadline' = deadline
    BY <1>1, <1>3 DEF UpDone, Goto, store, checks, deadline
  <2>2. pc'[t] = "down" /\ OthersSame(t)
    BY <1>1, <2>1 DEF OthersSame, IndInv, TypeOK
  <2>3. Inside(t) /\ Inside(t)'
    BY <1>1, <2>2 DEF Inside
  <2>4. /\ StatusAt(pc'[t], call[t].op) = StatusAt(pc[t], call[t].op)
        /\ SeenAt(pc'[t], call[t].op, ret'[t]) = SeenAt(pc[t], call[t].op, ret[t])
        /\ \A n : TallyAt(pc'[t], call[t].op, n) = TallyAt(pc[t], call[t].op, n)
    BY <1>1, <2>1, <2>2 DEF StatusAt, SeenAt, TallyAt, IsDone, Flies
  <2> QED
    BY <1>1, <2>1, <2>2, <2>3, <2>4, QuietInside
<1> QED
  BY <1>2, <1>3

LEMMA DownDoneRefines ==
  ASSUME IndInv, IndInv', NEW t \in Threads, DownDone(t) PROVE UNCHANGED Promise!vars
<1>1. index' = [index EXCEPT ![t] = index[t]]
  BY DEF DownDone, IndInv, TypeOK, heaping
<1> QED
  BY <1>1, HeapifiedRefines DEF DownDone, heaping

LEMMA CheckStartRefines ==
  ASSUME IndInv, IndInv', NEW t \in Threads, CheckStart(t) PROVE UNCHANGED Promise!vars
<1>1. /\ pc[t] = "apply" /\ pc' = [pc EXCEPT ![t] = "check"]
      /\ now_time' = [now_time EXCEPT ![t] = now] /\ deadline' = deadline
      /\ UNCHANGED <<total_expired, now, call, index, from, expired_key, expired_count, ret>>
  BY DEF CheckStart, Applying, Goto, store, heaping, deadline
<1>2. pc'[t] = "check" /\ OthersSame(t)
  BY <1>1 DEF OthersSame, IndInv, TypeOK
<1>3. Inside(t) /\ Inside(t)'
  BY <1>1, <1>2 DEF Inside
<1>4. /\ StatusAt(pc'[t], call[t].op) = StatusAt(pc[t], call[t].op)
      /\ SeenAt(pc'[t], call[t].op, ret'[t]) = SeenAt(pc[t], call[t].op, ret[t])
      /\ \A n : TallyAt(pc'[t], call[t].op, n) = TallyAt(pc[t], call[t].op, n)
  BY <1>1, <1>2 DEF StatusAt, SeenAt, TallyAt, IsDone, Flies
<1> QED
  BY <1>1, <1>2, <1>3, <1>4, QuietInside

(* The callback counts the key that was in flight. *)
LEMMA CallbackRefines ==
  ASSUME IndInv, IndInv', NEW t \in Threads, Callback(t) PROVE UNCHANGED Promise!vars
<1>1. /\ pc[t] = "callback" /\ pc' = [pc EXCEPT ![t] = "check"]
      /\ expired_count' = [expired_count EXCEPT ![t] = expired_count[t] + 1]
      /\ total_expired' = total_expired + 1 /\ deadline' = deadline
      /\ UNCHANGED <<now, call, index, from, now_time, expired_key, ret>>
  BY DEF Callback, Goto, store, heaping, deadline
<1>2. /\ pc'[t] = "check" /\ expired_count'[t] = expired_count[t] + 1 /\ OthersSame(t)
      /\ expired_count[t] \in Nat /\ total_expired \in Nat
  BY <1>1 DEF OthersSame, IndInv, TypeOK
<1>3. Inside(t) /\ Inside(t)'
  BY <1>1, <1>2 DEF Inside
<1>4. call[t].op = "check_expirations"
  BY <1>1 DEF IndInv, ThreadInv, PcInv
<1>5. /\ StatusAt(pc'[t], call[t].op) = StatusAt(pc[t], call[t].op)
      /\ SeenAt(pc'[t], call[t].op, ret'[t]) = SeenAt(pc[t], call[t].op, ret[t])
      /\ \A n \in Nat : TallyAt(pc'[t], call[t].op, n + 1) = TallyAt(pc[t], call[t].op, n)
  BY <1>1, <1>2, <1>4 DEF StatusAt, SeenAt, TallyAt, IsDone, Flies
<1> QED
  BY <1>1, <1>2, <1>3, <1>5, QuietInside
-----------------------------------------------------------------------------
(* The steps at which a call takes effect. *)
LEMMA SetNonPositiveRefines ==
  ASSUME IndInv, IndInv', NEW t \in Threads, pc[t] = "apply", SetNonPositive(t),
         UNCHANGED <<total_expired, owner, now, call, checks>>
  PROVE  UNCHANGED Promise!vars
<1>1. /\ pc' = [pc EXCEPT ![t] = "relock"] /\ deadline' = deadline
      /\ UNCHANGED <<index, from, now_time, expired_key, expired_count, ret>>
  BY DEF SetNonPositive, Goto, store, heaping, checks, deadline
<1>2. pc'[t] = "relock" /\ OthersSame(t)
  BY <1>1 DEF OthersSame, IndInv, TypeOK
<1>3. Inside(t) /\ Inside(t)'
  BY <1>2 DEF Inside
<1>4. /\ StatusAt(pc'[t], call[t].op) = StatusAt(pc[t], call[t].op)
      /\ SeenAt(pc'[t], call[t].op, ret'[t]) = SeenAt(pc[t], call[t].op, ret[t])
      /\ \A n : TallyAt(pc'[t], call[t].op, n) = TallyAt(pc[t], call[t].op, n)
  BY <1>1, <1>2 DEF StatusAt, SeenAt, TallyAt, IsDone, Flies
<1> QED
  BY <1>1, <1>2, <1>3, <1>4, QuietInside

LEMMA SetWithRefines ==
  ASSUME IndInv, IndInv', NEW t \in Threads, NEW op \in SetOps, NEW unit \in Nat \ {0},
         unit = Promise!Unit[op], SetWith(t, op, unit)
  PROVE  Promise!SetDeadline(t) \/ UNCHANGED Promise!vars
<1>1. /\ pc[t] = "apply" /\ call[t].op = op
      /\ UNCHANGED <<total_expired, owner, now, call, checks>>
  BY DEF SetWith, Applying
<1>2. CASE SetNonPositive(t)
  BY <1>1, <1>2, SetNonPositiveRefines
<1>3. CASE SetUpdate(t, unit) \/ SetInsert(t, unit)
  <2>1. /\ call[t].time > 0 /\ pc' = [pc EXCEPT ![t] = "up"] /\ ret' = ret
        /\ deadline' = Without(deadline, call[t].key, now + call[t].time * unit)
    BY <1>1, <1>3, SetUpdateInv, SetInsertInv
  <2>2. \E i, d : index' = [index EXCEPT ![t] = i] /\ from' = [from EXCEPT ![t] = d]
    BY <1>3 DEF SetUpdate, SetInsert, Heapify
  <2>3. UNCHANGED <<now_time, expired_key, expired_count>>
    BY <1>1 DEF checks
  <2>4. pc'[t] = "up" /\ OthersSame(t)
    BY <1>1, <2>1, <2>2, <2>3 DEF OthersSame, IndInv, TypeOK
  <2>5. /\ call[t].op \in {"set_ttl", "set_ttl_ms"} /\ call[t].op # "check_expirations"
        /\ call[t] \in Promise!SetCalls
    BY <1>1, CallFields DEF SetOps, SetCalls, Promise!SetCalls, IndInv, TypeOK
  <2>6. Promise!TakeEffect(t, {"set_ttl", "set_ttl_ms"}, deadline', TRUE)
    BY <1>1, <2>3, <2>4, <2>5, EffectStep
  <2> QED
    BY <1>1, <2>1, <2>5, <2>6 DEF Promise!SetDeadline, Without
<1> QED
  BY <1>2, <1>3 DEF SetWith

LEMMA SetRefines ==
  ASSUME IndInv, IndInv', NEW t \in Threads, set_ttl(t) \/ set_ttl_ms(t)
  PROVE  Promise!SetDeadline(t) \/ UNCHANGED Promise!vars
<1>1. Promise!Unit["set_ttl"] = Second /\ Promise!Unit["set_ttl_ms"] = Millisecond
  BY DEF Promise!Unit
<1> QED
  BY <1>1, SetWithRefines, UnitAssumption DEF set_ttl, set_ttl_ms, SetOps

LEMMA RemoveMissingRefines ==
  ASSUME IndInv, IndInv', NEW t \in Threads, RemoveMissing(t) PROVE Promise!Remove(t)
<1>1. /\ pc[t] = "remove" /\ pc' = [pc EXCEPT ![t] = "unlock"] /\ ret' = [ret EXCEPT ![t] = FALSE]
      /\ key_to_index[call[t].key] = 0
      /\ UNCHANGED <<expiration_heap, key_to_index, total_expired, now, call, index, from,
                     now_time, expired_key, expired_count>>
  BY DEF RemoveMissing, ReturnValue, Goto, store, heaping, checks
<1>2. call[t].op = "remove_ttl" /\ call[t].key \in Keys /\ call[t] \notin Promise!SetCalls
  BY <1>1, CallFields DEF IndInv, TypeOK, ThreadInv, PcInv, Promise!SetCalls
<1>3. pc'[t] = "unlock" /\ ret'[t] = FALSE /\ OthersSame(t)
  BY <1>1 DEF OthersSame, IndInv, TypeOK
<1>4. deadline[call[t].key] = Nil /\ ~(call[t].key \in Promise!Tracked)
  BY <1>1, <1>2, DeadlineOf, TrackedKeys
<1>5. deadline' = [deadline EXCEPT ![call[t].key] = Nil]
  <2>1. deadline' = deadline
    BY <1>1 DEF deadline
  <2> QED
    BY <1>2, <1>4, <2>1 DEF deadline, Deadlines
<1>6. Promise!TakeEffect(t, {"remove_ttl", "set_ttl", "set_ttl_ms"}, deadline', FALSE)
  BY <1>1, <1>2, <1>3, EffectStep
<1>7. (call[t].key \in Promise!Tracked) = FALSE
  BY <1>4
<1> QED
  BY <1>2, <1>5, <1>6, <1>7 DEF Promise!Remove

LEMMA RemoveFoundRefines ==
  ASSUME IndInv, IndInv', NEW t \in Threads, RemoveFound(t) PROVE Promise!Remove(t)
<1>1. /\ pc[t] = "remove" /\ key_to_index[call[t].key] # 0
      /\ remove_from_heap(t, key_to_index[call[t].key])
      /\ UNCHANGED <<total_expired, now, call, now_time, expired_key, expired_count>>
  BY DEF RemoveFound, checks
<1>2. call[t].op = "remove_ttl" /\ call[t].key \in Keys /\ call[t] \notin Promise!SetCalls
  BY <1>1, CallFields DEF IndInv, TypeOK, ThreadInv, PcInv, Promise!SetCalls
<1>3. /\ \/ pc' = [pc EXCEPT ![t] = "up"] /\ ret' = ret
         \/ pc' = [pc EXCEPT ![t] = "unlock"] /\ ret' = [ret EXCEPT ![t] = TRUE]
      /\ \/ \E i, d : index' = [index EXCEPT ![t] = i] /\ from' = [from EXCEPT ![t] = d]
         \/ UNCHANGED <<index, from>>
  BY <1>1, <1>2 DEF remove_from_heap, Heapify, Heapified, ReturnValue, Goto, heaping
<1>4. OthersSame(t) /\ (pc'[t] = "up" \/ (pc'[t] = "unlock" /\ ret'[t] = TRUE))
  BY <1>1, <1>3 DEF OthersSame, IndInv, TypeOK
<1>5. deadline' = [deadline EXCEPT ![call[t].key] = Nil]
  BY RemoveFoundInv DEF Without
<1>6. call[t].key \in Promise!Tracked
  BY <1>1, <1>2, TrackedKeys
<1>7. Promise!TakeEffect(t, {"remove_ttl", "set_ttl", "set_ttl_ms"}, deadline', TRUE)
  BY <1>1, <1>2, <1>4, EffectStep
<1>8. (call[t].key \in Promise!Tracked) = TRUE
  BY <1>6
<1> QED
  BY <1>2, <1>5, <1>7, <1>8 DEF Promise!Remove

(* A call that only reads. *)
LEMMA AnswerRefines ==
  ASSUME IndInv, IndInv', NEW t \in Threads, NEW op, NEW v, Answer(t, op, v), NEW ops, op \in ops
  PROVE  Promise!TakeEffect(t, ops, deadline, v) /\ call[t].op = op /\ call[t] \in AllCalls
<1>1. /\ pc[t] = "apply" /\ call[t].op = op /\ pc' = [pc EXCEPT ![t] = "unlock"]
      /\ ret' = [ret EXCEPT ![t] = v]
      /\ UNCHANGED <<expiration_heap, key_to_index, total_expired, now, call, index, from,
                     now_time, expired_key, expired_count>>
  BY DEF Answer, Applying, ReturnValue, Goto, store, heaping, checks
<1>2. pc'[t] = "unlock" /\ ret'[t] = v /\ OthersSame(t) /\ call[t] \in AllCalls
  BY <1>1 DEF OthersSame, IndInv, TypeOK
<1>3. Promise!TakeEffect(t, ops, deadline', v)
  BY <1>1, <1>2, EffectStep
<1>4. deadline' = deadline
  BY <1>1 DEF deadline
<1> QED
  BY <1>1, <1>2, <1>3, <1>4

LEMMA RemainingMaps ==
  ASSUME IndInv, NEW k \in Keys, NEW unit
  PROVE  Remaining(k, unit) = Promise!Remaining(deadline[k], unit)
  BY DeadlineOf DEF Remaining, Promise!Remaining

LEMMA GetRefines ==
  ASSUME IndInv, IndInv', NEW t \in Threads, get_ttl(t) \/ get_ttl_ms(t) PROVE Promise!Get(t)
<1>1. Promise!Unit["get_ttl"] = Second /\ Promise!Unit["get_ttl_ms"] = Millisecond
  BY DEF Promise!Unit
<1>2. CASE get_ttl(t)
  <2> DEFINE v == Remaining(call[t].key, Second)
  <2>1. /\ Promise!TakeEffect(t, {"get_ttl", "get_ttl_ms"}, deadline, v)
        /\ call[t].op = "get_ttl" /\ call[t].key \in Keys
    BY <1>2, AnswerRefines, CallFields DEF get_ttl
  <2>2. v = Promise!Remaining(deadline[call[t].key], Promise!Unit[call[t].op])
    BY <1>1, <2>1, RemainingMaps
  <2> QED
    BY <2>1, <2>2 DEF Promise!Get
<1>3. CASE get_ttl_ms(t)
  <2> DEFINE v == Remaining(call[t].key, Millisecond)
  <2>1. /\ Promise!TakeEffect(t, {"get_ttl", "get_ttl_ms"}, deadline, v)
        /\ call[t].op = "get_ttl_ms" /\ call[t].key \in Keys
    BY <1>3, AnswerRefines, CallFields DEF get_ttl_ms
  <2>2. v = Promise!Remaining(deadline[call[t].key], Promise!Unit[call[t].op])
    BY <1>1, <2>1, RemainingMaps
  <2> QED
    BY <2>1, <2>2 DEF Promise!Get
<1> QED
  BY <1>2, <1>3

LEMMA HasRefines ==
  ASSUME IndInv, IndInv', NEW t \in Threads, has_ttl(t) PROVE Promise!Has(t)
<1> DEFINE v == (key_to_index[call[t].key] # 0)
<1>1. /\ Promise!TakeEffect(t, {"has_ttl"}, deadline, v)
      /\ call[t].op = "has_ttl" /\ call[t].key \in Keys
  BY AnswerRefines, CallFields DEF has_ttl
<1>2. v = (call[t].key \in Promise!Tracked)
  BY <1>1, TrackedKeys
<1> QED
  BY <1>1, <1>2 DEF Promise!Has

LEMMA CountRefines ==
  ASSUME IndInv, IndInv', NEW t \in Threads, size(t) \/ get_stats(t)
  PROVE  Promise!Size(t) \/ Promise!Stats(t)
<1>1. CASE size(t)
  <2>1. Promise!TakeEffect(t, {"size"}, deadline, Len(expiration_heap))
    BY <1>1, AnswerRefines DEF size
  <2>2. Promise!TakeEffect(t, {"size"}, deadline, Promise!Cardinality(Promise!Tracked))
    BY <2>1, TrackedCount
  <2> QED
    BY <2>2 DEF Promise!Size
<1>2. CASE get_stats(t)
  <2>1. /\ pc[t] = "apply" /\ call[t].op = "get_stats"
        /\ Promise!TakeEffect(t, {"get_stats"}, deadline,
             [entries |-> Len(expiration_heap), expired |-> total_expired])
    BY <1>2, AnswerRefines DEF get_stats, Answer, Applying
  <2>2. total = TallyAt(pc[t], call[t].op, total_expired)
    BY <2>1, MappedTotal DEF Inside
  <2>3. total = total_expired
    BY <2>1, <2>2 DEF TallyAt, Flies, IndInv, TypeOK
  <2>4. Promise!TakeEffect(t, {"get_stats"}, deadline,
          [entries |-> Promise!Cardinality(Promise!Tracked), expired |-> total])
    BY <2>1, <2>3, TrackedCount
  <2> QED
    BY <2>4 DEF Promise!Stats
<1> QED
  BY <1>1, <1>2

LEMMA ClearRefines ==
  ASSUME IndInv, IndInv', NEW t \in Threads, clear(t) PROVE Promise!Clear(t)
<1>1. /\ pc[t] = "apply" /\ call[t].op = "clear" /\ pc' = [pc EXCEPT ![t] = "unlock"]
      /\ ret' = [ret EXCEPT ![t] = Nil]
      /\ UNCHANGED <<total_expired, now, call, index, from, now_time, expired_key, expired_count>>
  BY DEF clear, Applying, ReturnValue, Goto, heaping, checks
<1>2. pc'[t] = "unlock" /\ ret'[t] = Nil /\ OthersSame(t)
  BY <1>1 DEF OthersSame, IndInv, TypeOK
<1>3. Promise!TakeEffect(t, {"clear"}, deadline', Nil)
  BY <1>1, <1>2, EffectStep
<1> QED
  BY <1>3, ClearInv DEF Promise!Clear

LEMMA CheckDoneRefines ==
  ASSUME IndInv, IndInv', NEW t \in Threads, CheckDone(t) PROVE Promise!EndCheck(t)
<1>1. /\ pc[t] = "check" /\ pc' = [pc EXCEPT ![t] = "unlock"]
      /\ ret' = [ret EXCEPT ![t] = expired_count[t]]
      /\ UNCHANGED <<expiration_heap, key_to_index, total_expired, now, call, index, from,
                     now_time, expired_key, expired_count>>
  BY DEF CheckDone, ReturnValue, Goto, store, heaping, checks
<1>2. /\ pc'[t] = "unlock" /\ ret'[t] = expired_count[t] /\ OthersSame(t)
      /\ call[t].op = "check_expirations" /\ expired_count[t] \in Nat
  BY <1>1 DEF OthersSame, IndInv, TypeOK, ThreadInv, PcInv
<1>3. Promise!TakeEffect(t, {"check_expirations"}, deadline', expired_count[t])
  BY <1>1, <1>2, EffectStep
<1>4. deadline' = deadline /\ tally[t] = expired_count[t]
  BY <1>1, <1>2 DEF deadline, tally, InFlight
<1> QED
  BY <1>3, <1>4 DEF Promise!EndCheck

(* The removal of the top entry is what expires its key. *)
LEMMA CheckTopRefines ==
  ASSUME IndInv, IndInv', NEW t \in Threads, CheckTop(t) PROVE Promise!Expire(t)
<1> DEFINE k == expiration_heap[1].key
<1>1. /\ pc[t] = "check" /\ TopExpired(t) /\ remove_from_heap(t, 1)
      /\ expired_key' = [expired_key EXCEPT ![t] = k]
      /\ UNCHANGED <<total_expired, now, call, now_time, expired_count>>
  BY DEF CheckTop
<1>2. call[t].op = "check_expirations" /\ now_time[t] <= now /\ now_time[t] \in Nat /\ now \in Nat
  BY <1>1 DEF IndInv, TypeOK, ThreadInv, PcInv, CheckInv
<1>3. /\ 1 \in DOMAIN expiration_heap /\ k \in Keys /\ expiration_heap[1].expire_time \in Nat
      /\ key_to_index[k] = 1
  BY <1>1, HeapPositions DEF TopExpired, IndInv, TypeOK, IndexOK, Indexes
<1>4. k \in Promise!Tracked /\ deadline[k] <= now
  <2>1. deadline[k] = expiration_heap[1].expire_time
    BY <1>3, DeadlineOf
  <2> QED
    BY <1>1, <1>2, <1>3, <2>1, TrackedKeys DEF TopExpired
<1>5. deadline' = [deadline EXCEPT ![k] = Nil]
  BY CheckTopInv DEF Without
<1>6. /\ pc' = [pc EXCEPT ![t] = "up"] \/ pc' = [pc EXCEPT ![t] = "callback"]
      /\ ret' = ret
      /\ \/ \E i, d : index' = [index EXCEPT ![t] = i] /\ from' = [from EXCEPT ![t] = d]
         \/ UNCHANGED <<index, from>>
  BY <1>1, <1>2 DEF remove_from_heap, Heapify, Heapified, Goto, heaping
<1>7. OthersSame(t) /\ pc'[t] \in {"up", "callback"} /\ Inside(t) /\ Inside(t)'
  BY <1>1, <1>6, SMTT(30) DEF OthersSame, IndInv, TypeOK, Inside
<1>8. total' = total + 1
  <2>1. total = TallyAt(pc[t], call[t].op, total_expired)
    BY <1>7, MappedTotal
  <2>2. total' = TallyAt(pc'[t], call[t].op, total_expired)
    BY <1>1, <1>7, MappedTotalNext
  <2> QED
    BY <1>1, <1>2, <1>7, <2>1, <2>2 DEF TallyAt, Flies, IndInv, TypeOK
<1>9. tally' = [tally EXCEPT ![t] = tally[t] + 1]
  <2>1. tally' = [tally EXCEPT ![t] = TallyAt(pc'[t], call[t].op, expired_count'[t])]
    BY <1>1, <1>7, MappedStep
  <2>2. tally[t] = TallyAt(pc[t], call[t].op, expired_count[t]) /\ expired_count[t] \in Nat
    BY <1>1, MappedThread DEF IndInv, TypeOK
  <2>3. TallyAt(pc'[t], call[t].op, expired_count'[t]) = tally[t] + 1
    BY <1>1, <1>2, <1>7, <2>2 DEF TallyAt, Flies
  <2> QED
    BY <2>1, <2>3
<1>10. status' = status /\ seen' = seen /\ status[t] = "pending"
  <2>1. /\ status[t] = StatusAt(pc[t], call[t].op)
        /\ seen[t] = SeenAt(pc[t], call[t].op, ret[t])
    BY <1>1, MappedThread
  <2>2. /\ status' = [status EXCEPT ![t] = StatusAt(pc'[t], call[t].op)]
        /\ seen' = [seen EXCEPT ![t] = SeenAt(pc'[t], call[t].op, ret'[t])]
    BY <1>1, <1>7, MappedStep
  <2>3. /\ StatusAt(pc'[t], call[t].op) = "pending" /\ StatusAt(pc[t], call[t].op) = "pending"
        /\ SeenAt(pc'[t], call[t].op, ret'[t]) = Nil /\ SeenAt(pc[t], call[t].op, ret[t]) = Nil
    BY <1>1, <1>2, <1>7 DEF StatusAt, SeenAt, IsDone
  <2> QED
    BY <2>1, <2>2, <2>3, MappedFunctions
<1> HIDE DEF k
<1> QED
  BY <1>1, <1>2, <1>4, <1>5, <1>8, <1>9, <1>10 DEF Promise!Expire
-----------------------------------------------------------------------------
LEMMA NextRefines == IndInv /\ IndInv' /\ [Next]_vars => [Promise!Next]_(Promise!vars)
<1> SUFFICES ASSUME IndInv, IndInv', [Next]_vars PROVE [Promise!Next]_(Promise!vars)
  OBVIOUS
<1>1. ASSUME NEW t \in Threads, Apply(t) PROVE Promise!Perform(t) \/ UNCHANGED Promise!vars
  BY <1>1, SetRefines, GetRefines, HasRefines, CountRefines, ClearRefines, CheckStartRefines,
     RemoveMissingRefines, RemoveFoundRefines DEF Apply, Promise!Perform
<1>2. ASSUME NEW t \in Threads, Loops(t) PROVE Promise!Perform(t) \/ UNCHANGED Promise!vars
  BY <1>2, HeapifyRefines, UpDoneRefines, DownDoneRefines, CheckTopRefines, CallbackRefines,
     CheckDoneRefines DEF Loops, Promise!Perform
<1>3. CASE UNCHANGED vars
  <2>1. UNCHANGED <<deadline, now, total, status, call, tally, seen>>
    BY <1>3 DEF vars, deadline, total, status, tally, seen, InFlight, Performed, Checking
  <2> QED
    BY <2>1 DEF Promise!vars
<1>4. CASE Tick
  BY <1>4, TickRefines DEF Promise!Next
<1>5. ASSUME NEW t \in Threads, Call(t) \/ Lock(t) \/ Body(t)
      PROVE  [Promise!Next]_(Promise!vars)
  BY <1>1, <1>2, <1>5, CallRefines, LockRefines, UnlockRefines DEF Body, Promise!Next
<1> QED
  BY <1>3, <1>4, <1>5 DEF Next

(* TTLManager implements ExpiryMap, for every number of threads and keys    *)
(* and every duration: set_ttl, remove_ttl, get_ttl, has_ttl, size, clear   *)
(* and get_stats act on one map from keys to deadlines at one instant each, *)
(* whatever the heapify loops move meanwhile, and check_expirations takes   *)
(* out, counts and reports only keys whose deadline has passed.             *)
THEOREM Refinement == Spec => KeepsPromise
  BY InitRefines, NextRefines, Invariance, PTL DEF Spec, KeepsPromise, Promise!Spec
=============================================================================
