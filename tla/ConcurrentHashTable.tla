------------------------ MODULE ConcurrentHashTable ------------------------
(***************************************************************************)
(* ConcurrentHashTable of src/src/data/hashtable.cpp: threads that call one *)
(* HashTable under a std::shared_mutex.  Each method is a sequence of       *)
(* steps, so that what one thread reads in one step and uses in a later one *)
(* is only right if the lock keeps the others out: a search (node, bucket)  *)
(* and its use, the test of the load factor and the insertion, the moves    *)
(* of resize() one node at a time, and the bucket-by-bucket walk of keys(). *)
(***************************************************************************)
EXTENDS HashTable, FiniteSets

CONSTANTS Threads,    \* the threads that call the table
          Nil,        \* std::nullopt, "no call" and "no result"
          NoThread    \* the mutex has no exclusive owner

ASSUME NilAssumption == Nil \notin Values
ASSUME NoThreadAssumption == NoThread \notin Threads

VARIABLES buckets,      \* buckets_
          size,         \* size_
          new_buckets,  \* the local of resize(), << >> outside it
          writer,       \* the thread that holds mutex_ exclusively
          readers,      \* the threads that hold mutex_ shared
          pc,           \* pc[t]: what t does next
          call,         \* call[t]: the call t is in
          bucket,       \* bucket[t]: the bucket t found, or has reached
          node,         \* node[t]: the position t's search found in it
          ret           \* ret[t]: the value t's call is about to return

vars == <<buckets, size, new_buckets, writer, readers,
          pc, call, bucket, node, ret>>

locals == <<bucket, node, ret>>
table  == <<buckets, size, new_buckets>>
mutex  == <<writer, readers>>

SetCalls    == [op : {"set"}, key : Keys, value : Values]
KeyCalls    == [op : {"get", "del", "exists"}, key : Keys]
KeysCalls   == [op : {"keys"}, match : SUBSET Keys]
GlobalCalls == [op : {"clear", "size"}]
AllCalls    == SetCalls \cup KeyCalls \cup KeysCalls \cup GlobalCalls

(* Mutant of Exclusive: del() takes a shared_lock. *)
ExclusiveButDel == {"set", "clear"}

(* The methods that take a unique_lock; the others take a shared_lock. *)
Exclusive == {"set", "del", "clear"}

(* The first step of each method of HashTable. *)
Entry == [set |-> "check", get |-> "find", del |-> "find", exists |-> "find",
          keys |-> "scan", clear |-> "apply", size |-> "apply"]

Init ==
  /\ buckets = EmptyTable(InitialCapacity)
  /\ size = 0
  /\ new_buckets = <<>>
  /\ writer = NoThread
  /\ readers = {}
  /\ pc     = [t \in Threads |-> "idle"]
  /\ call   = [t \in Threads |-> Nil]
  /\ bucket = [t \in Threads |-> 0]
  /\ node   = [t \in Threads |-> 0]
  /\ ret    = [t \in Threads |-> Nil]
-----------------------------------------------------------------------------
Goto(t, label) == pc' = [pc EXCEPT ![t] = label]

(* The method is done but for the destructor of its lock. *)
ReturnValue(t, value) ==
  /\ ret' = [ret EXCEPT ![t] = value]
  /\ Goto(t, "unlock")

Call(t) ==
  /\ pc[t] = "idle"
  /\ \E c \in AllCalls : call' = [call EXCEPT ![t] = c]
  /\ Goto(t, "lock")
  /\ UNCHANGED <<table, mutex, locals>>

LockExclusive(t) ==
  /\ pc[t] = "lock"
  /\ call[t].op \in Exclusive
  /\ writer = NoThread /\ readers = {}
  /\ writer' = t
  /\ Goto(t, Entry[call[t].op])
  /\ UNCHANGED <<table, readers, call, locals>>

(* Mutant of LockShared: the walk of keys() misses the first bucket. *)
LockSharedFromSecond(t) ==
  /\ pc[t] = "lock"
  /\ call[t].op \notin Exclusive
  /\ writer = NoThread
  /\ readers' = readers \cup {t}
  /\ Goto(t, Entry[call[t].op])
  /\ bucket' = [bucket EXCEPT ![t] = 2]
  /\ ret' = [ret EXCEPT ![t] = IF call[t].op = "keys" THEN {} ELSE Nil]
  /\ UNCHANGED <<table, writer, call, node>>

LockShared(t) ==
  /\ pc[t] = "lock"
  /\ call[t].op \notin Exclusive
  /\ writer = NoThread
  /\ readers' = readers \cup {t}
  /\ Goto(t, Entry[call[t].op])
  /\ bucket' = [bucket EXCEPT ![t] = 1]
  /\ ret' = [ret EXCEPT ![t] = IF call[t].op = "keys" THEN {} ELSE Nil]
  /\ UNCHANGED <<table, writer, call, node>>
-----------------------------------------------------------------------------
(* set() starts with the test of the load factor, before it searches. *)
SkipResize(t) ==
  /\ pc[t] = "check"
  /\ ~Overloaded(size, Len(buckets))
  /\ Goto(t, "find")
  /\ UNCHANGED <<table, mutex, call, locals>>

(* Mutant of StartResize: the new vector is no larger than the old one. *)
StartResizeSame(t) ==
  /\ pc[t] = "check"
  /\ Overloaded(size, Len(buckets))
  /\ new_buckets' = EmptyTable(Len(buckets))
  /\ bucket' = [bucket EXCEPT ![t] = 1]
  /\ Goto(t, "resize")
  /\ UNCHANGED <<buckets, size, mutex, call, node, ret>>

StartResize(t) ==
  /\ pc[t] = "check"
  /\ Overloaded(size, Len(buckets))
  /\ new_buckets' = EmptyTable(2 * Len(buckets))
  /\ bucket' = [bucket EXCEPT ![t] = 1]
  /\ Goto(t, "resize")
  /\ UNCHANGED <<buckets, size, mutex, call, node, ret>>

(* Mutant of MoveNode: the node is rehashed with the old capacity. *)
MoveNodeOldHash(t) ==
  /\ pc[t] = "resize"
  /\ bucket[t] \in DOMAIN buckets
  /\ buckets[bucket[t]] # <<>>
  /\ LET n == Head(buckets[bucket[t]]) IN
       new_buckets' = Prepend(new_buckets, BucketOf(n.key, Len(buckets)), n)
  /\ buckets' = TakeHead(buckets, bucket[t])
  /\ UNCHANGED <<size, mutex, pc, call, locals>>

(* One turn of resize()'s inner loop: the head of the current old bucket   *)
(* becomes the head of its new bucket.                                     *)
MoveNode(t) ==
  /\ pc[t] = "resize"
  /\ bucket[t] \in DOMAIN buckets
  /\ buckets[bucket[t]] # <<>>
  /\ LET n == Head(buckets[bucket[t]]) IN
       new_buckets' = Prepend(new_buckets, BucketOf(n.key, Len(new_buckets)), n)
  /\ buckets' = TakeHead(buckets, bucket[t])
  /\ UNCHANGED <<size, mutex, pc, call, locals>>

(* Mutant of NextBucket: resize()'s outer loop does not advance. *)
NextBucketStays(t) ==
  /\ pc[t] = "resize"
  /\ bucket[t] \in DOMAIN buckets
  /\ buckets[bucket[t]] = <<>>
  /\ UNCHANGED <<table, mutex, pc, call, bucket, node, ret>>

NextBucket(t) ==
  /\ pc[t] = "resize"
  /\ bucket[t] \in DOMAIN buckets
  /\ buckets[bucket[t]] = <<>>
  /\ bucket' = [bucket EXCEPT ![t] = @ + 1]
  /\ UNCHANGED <<table, mutex, pc, call, node, ret>>

FinishResize(t) ==
  /\ pc[t] = "resize"
  /\ bucket[t] \notin DOMAIN buckets
  /\ buckets' = new_buckets
  /\ new_buckets' = <<>>
  /\ Goto(t, "find")
  /\ UNCHANGED <<size, mutex, call, locals>>
-----------------------------------------------------------------------------
(* hash() and find_in_bucket(): set, get, del and exists. *)
Find(t) ==
  /\ pc[t] = "find"
  /\ LET b == BucketOf(call[t].key, Len(buckets)) IN
       /\ bucket' = [bucket EXCEPT ![t] = b]
       /\ node' = [node EXCEPT ![t] = FindInBucket(buckets[b], call[t].key)]
  /\ Goto(t, "apply")
  /\ UNCHANGED <<table, mutex, call, ret>>

Applying(t, op) == pc[t] = "apply" /\ call[t].op = op

SetInsert(t) ==
  /\ Applying(t, "set")
  /\ node[t] = 0
  /\ buckets' = Prepend(buckets, bucket[t],
                        [key |-> call[t].key, value |-> call[t].value])
  /\ size' = size + 1
  /\ ReturnValue(t, TRUE)
  /\ UNCHANGED <<new_buckets, mutex, call, bucket, node>>

SetUpdate(t) ==
  /\ Applying(t, "set")
  /\ node[t] # 0
  /\ buckets' = Update(buckets, bucket[t], node[t], call[t].value)
  /\ ReturnValue(t, FALSE)
  /\ UNCHANGED <<size, new_buckets, mutex, call, bucket, node>>

Get(t) ==
  /\ Applying(t, "get")
  /\ ReturnValue(t, IF node[t] = 0 THEN Nil ELSE buckets[bucket[t]][node[t]].value)
  /\ UNCHANGED <<table, mutex, call, bucket, node>>

DelMissing(t) ==
  /\ Applying(t, "del")
  /\ node[t] = 0
  /\ ReturnValue(t, FALSE)
  /\ UNCHANGED <<table, mutex, call, bucket, node>>

DelFound(t) ==
  /\ Applying(t, "del")
  /\ node[t] # 0
  /\ buckets' = Unlink(buckets, bucket[t], node[t])
  /\ size' = size - 1
  /\ ReturnValue(t, TRUE)
  /\ UNCHANGED <<new_buckets, mutex, call, bucket, node>>

Exists(t) ==
  /\ Applying(t, "exists")
  /\ ReturnValue(t, node[t] # 0)
  /\ UNCHANGED <<table, mutex, call, bucket, node>>

Clear(t) ==
  /\ Applying(t, "clear")
  /\ buckets' = EmptyTable(Len(buckets))
  /\ size' = 0
  /\ ReturnValue(t, Nil)
  /\ UNCHANGED <<new_buckets, mutex, call, bucket, node>>

Size(t) ==
  /\ Applying(t, "size")
  /\ ReturnValue(t, size)
  /\ UNCHANGED <<table, mutex, call, bucket, node>>

(* keys(): one bucket of the walk, and the end of it. *)
ScanBucket(t) ==
  /\ pc[t] = "scan"
  /\ bucket[t] \in DOMAIN buckets
  /\ ret' = [ret EXCEPT ![t] =
               @ \cup (KeysIn(ToSet(buckets[bucket[t]])) \cap call[t].match)]
  /\ bucket' = [bucket EXCEPT ![t] = @ + 1]
  /\ UNCHANGED <<table, mutex, pc, call, node>>

ScanDone(t) ==
  /\ pc[t] = "scan"
  /\ bucket[t] \notin DOMAIN buckets
  /\ Goto(t, "unlock")
  /\ UNCHANGED <<table, mutex, call, locals>>

(* The lock's destructor runs and the caller gets its value. *)
Unlock(t) ==
  /\ pc[t] = "unlock"
  /\ writer' = IF writer = t THEN NoThread ELSE writer
  /\ readers' = readers \ {t}
  /\ Goto(t, "idle")
  /\ call' = [call EXCEPT ![t] = Nil]
  /\ bucket' = [bucket EXCEPT ![t] = 0]
  /\ node' = [node EXCEPT ![t] = 0]
  /\ ret' = [ret EXCEPT ![t] = Nil]
  /\ UNCHANGED table
-----------------------------------------------------------------------------
Lock(t)   == LockExclusive(t) \/ LockShared(t)
Resize(t) == SkipResize(t) \/ StartResize(t) \/ MoveNode(t) \/ NextBucket(t)
               \/ FinishResize(t)
Apply(t)  == SetInsert(t) \/ SetUpdate(t) \/ Get(t) \/ DelMissing(t)
               \/ DelFound(t) \/ Exists(t) \/ Clear(t) \/ Size(t)
Scan(t)   == ScanBucket(t) \/ ScanDone(t)

(* The steps of a method between its lock and the return to its caller. *)
Body(t) == Resize(t) \/ Find(t) \/ Apply(t) \/ Scan(t) \/ Unlock(t)

Next == \E t \in Threads : Call(t) \/ Lock(t) \/ Body(t)

Spec == Init /\ [][Next]_vars

(* A thread inside a method is scheduled again and again; the mutex lets   *)
(* somebody in when nobody is inside.  Which waiter that is, and whether   *)
(* anybody calls at all, is left open: std::shared_mutex promises neither. *)
Fairness == /\ \A t \in Threads : WF_vars(Body(t))
            /\ WF_vars(\E t \in Threads : Lock(t))

FairSpec == Spec /\ Fairness
-----------------------------------------------------------------------------
Pcs == {"idle", "lock", "check", "resize", "find", "apply", "scan", "unlock"}

Holding(t) == pc[t] \notin {"idle", "lock"}

Results == [set |-> BOOLEAN, get |-> Values, del |-> BOOLEAN, exists |-> BOOLEAN,
            keys |-> SUBSET Keys, clear |-> {Nil}, size |-> Nat]

TypeOK ==
  /\ buckets \in Seq(Seq(Node))
  /\ new_buckets \in Seq(Seq(Node))
  /\ size \in Nat
  /\ writer \in Threads \cup {NoThread}
  /\ readers \subseteq Threads
  /\ pc \in [Threads -> Pcs]
  /\ bucket \in [Threads -> Nat]
  /\ node \in [Threads -> Nat]
  /\ DOMAIN call = Threads /\ DOMAIN ret = Threads
  /\ \A t \in Threads :
       IF pc[t] = "idle"
       THEN call[t] = Nil /\ ret[t] = Nil
       ELSE call[t] \in AllCalls /\ ret[t] \in Results[call[t].op] \cup {Nil}

(* A node is in the old vector or in the new one, never in both.           *)
Contents == TableNodes(buckets) \cup TableNodes(new_buckets)

(* StructureOK: whatever the threads do, and in the middle of resize() too, *)
(* each key is stored once, in the bucket a search for it looks at, and     *)
(* size_ counts the keys: what set, get, del, exists and size() rely on.    *)
StructureOK ==
  /\ GoodTable(buckets)
  /\ GoodTable(new_buckets)
  /\ KeysIn(TableNodes(buckets)) \cap KeysIn(TableNodes(new_buckets)) = {}
  /\ size = Cardinality(KeysIn(Contents))

(* The methods that search for a key. *)
Searching == {"set", "get", "del", "exists"}

(* FoundStillThere: the node a search found is still at the place it was    *)
(* found when the method uses it, and a key it did not find is still        *)
(* absent: the node pointer of get, set and del is never stale.             *)
FoundStillThere ==
  \A t \in Threads :
    (pc[t] = "apply" /\ call[t].op \in Searching) =>
      /\ bucket[t] = BucketOf(call[t].key, Len(buckets))
      /\ node[t] = FindInBucket(buckets[bucket[t]], call[t].key)

(* LoadBounded: set() tests the load before it inserts, so the table may    *)
(* exceed MAX_LOAD_FACTOR, by one entry at most, and no two sets in a row   *)
(* add up to more.                                                          *)
LoadBounded == 4 * (size - 1) <= 3 * Len(buckets)

(* CallsEnd: a thread that has the lock gets through its method, a resize() *)
(* or a walk included, and a lock somebody waits for is handed on.          *)
CallsEnd ==
  /\ \A t \in Threads : Holding(t) ~> pc[t] = "idle"
  /\ (\E t \in Threads : pc[t] = "lock") ~> (\E t \in Threads : pc[t] = "unlock")
-----------------------------------------------------------------------------
(* What makes the properties above inductive: who is inside the mutex, and  *)
(* what a thread inside knows of the table at each of its steps.            *)
LockInv ==
  /\ \A t \in Threads : writer = t <=> Holding(t) /\ call[t].op \in Exclusive
  /\ \A t \in Threads : t \in readers <=> Holding(t) /\ call[t].op \notin Exclusive
  /\ writer # NoThread => readers = {}

TableInv ==
  /\ StructureOK
  /\ LoadBounded
  /\ Len(buckets) # 0
  /\ IsFiniteSet(KeysIn(Contents))
  /\ (\A t \in Threads : pc[t] # "resize") => new_buckets = <<>>

PcInv(t) ==
  /\ pc[t] \in {"check", "resize"} => call[t].op = "set"
  /\ pc[t] = "find" => call[t].op \in Searching
  /\ pc[t] = "scan" => call[t].op = "keys"
  /\ pc[t] = "apply" => call[t].op # "keys"

ResizeInv(t) ==
  pc[t] = "resize" =>
    /\ bucket[t] # 0
    /\ Len(new_buckets) = 2 * Len(buckets)
    /\ \A b \in DOMAIN buckets : b < bucket[t] => buckets[b] = <<>>

FoundInv(t) ==
  (pc[t] = "apply" /\ call[t].op \in Searching) =>
    /\ bucket[t] = BucketOf(call[t].key, Len(buckets))
    /\ node[t] = FindInBucket(buckets[bucket[t]], call[t].key)

LoadInv(t) ==
  (pc[t] \in {"find", "apply"} /\ call[t].op = "set") => ~Overloaded(size, Len(buckets))

ScannedKeys(t) == {k \in call[t].match :
  \E b \in DOMAIN buckets : b < bucket[t] /\ k \in KeysIn(ToSet(buckets[b]))}

ScanInv(t) ==
  pc[t] = "scan" => bucket[t] # 0 /\ ret[t] = ScannedKeys(t)

ThreadInv(t) == PcInv(t) /\ ResizeInv(t) /\ FoundInv(t) /\ LoadInv(t) /\ ScanInv(t)

IndInv == TypeOK /\ LockInv /\ TableInv /\ \A t \in Threads : ThreadInv(t)
-----------------------------------------------------------------------------
(* The map a set of nodes represents. *)
MapOf(nodes) ==
  [k \in Keys |-> IF k \in KeysIn(nodes)
                  THEN (CHOOSE n \in nodes : n.key = k).value
                  ELSE Nil]

(* The map the table represents, and how far each call has got. *)
db == MapOf(Contents)

status == [t \in Threads |->
             IF pc[t] = "idle" THEN "idle"
             ELSE IF pc[t] = "unlock" THEN "done" ELSE "pending"]

Map == INSTANCE AtomicMap WITH
         ret <- [t \in Threads |-> IF pc[t] = "unlock" THEN ret[t] ELSE Nil]

(* Linearizable: every call of the concurrent table takes effect at one     *)
(* instant between its invocation and its return, and returns what the      *)
(* map's contents at that instant determine.                                *)
Linearizable == Map!Spec
=============================================================================
