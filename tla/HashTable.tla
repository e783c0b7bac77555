----------------------------- MODULE HashTable -----------------------------
(***************************************************************************)
(* The chained hash table of src/src/data/hashtable.cpp: the representation *)
(* and what its private helpers compute.  A table is the vector buckets_:  *)
(* a sequence of chains, each the sequence of nodes reached from the       *)
(* bucket's head pointer through the next pointers.  Positions count from  *)
(* 1, so bucket b of the code is bucket b + 1 here, and position 0 of a    *)
(* chain stands for nullptr.                                               *)
(***************************************************************************)
EXTENDS Integers, SequencesExt

CONSTANTS Keys,             \* the strings used as keys
          Values,           \* the strings used as values
          Hash,             \* murmur3_32 with the table's seed
          InitialCapacity   \* the capacity the constructor settles on

ASSUME HashAssumption == Hash \in [Keys -> Nat]
ASSUME CapacityAssumption == InitialCapacity \in Nat \ {0}

Node == [key : Keys, value : Values]

(* n empty buckets: what the constructor and resize() allocate. *)
EmptyTable(n) == [b \in 1..n |-> <<>>]

(* HashTable::hash in a table of the given capacity. *)
BucketOf(key, capacity) == (Hash[key] % capacity) + 1

(* find_in_bucket walks the chain from its head and stops at the first     *)
(* node with the key; 0 when there is none.                                *)
FindInBucket(chain, key) == SelectInSeq(chain, LAMBDA n : n.key = key)

(* load_factor() > MAX_LOAD_FACTOR, that is size / capacity > 0.75. *)
Overloaded(size, capacity) == 4 * size > 3 * capacity

(* A node becomes the head of bucket b: set() and resize() both do this. *)
Prepend(table, b, n) == [table EXCEPT ![b] = <<n>> \o @]

(* set() of a key that is there assigns the value of its node, in place. *)
Update(table, b, i, v) ==
  [table EXCEPT ![b] = ReplaceAt(@, i, [key |-> @[i].key, value |-> v])]

(* del() unlinks the i-th node of bucket b. *)
Unlink(table, b, i) == [table EXCEPT ![b] = RemoveAt(@, i)]

(* resize() takes the head node off bucket b of the old vector. *)
TakeHead(table, b) == [table EXCEPT ![b] = Tail(@)]

(* All the nodes of a table, and the keys they hold. *)
TableNodes(table) == UNION {ToSet(table[b]) : b \in DOMAIN table}
KeysIn(nodes)     == {n.key : n \in nodes}

(* The key is where a search looks for it: in the bucket its hash selects. *)
InRightBucket(tab) ==
  \A b \in DOMAIN tab : \A i \in DOMAIN tab[b] : BucketOf(tab[b][i].key, Len(tab)) = b

(* No chain holds a key twice; nothing would find or delete the second.    *)
UniqueKeys(chain) ==
  \A i, j \in DOMAIN chain : chain[i].key = chain[j].key => i = j

NoDuplicate(tab) == \A b \in DOMAIN tab : UniqueKeys(tab[b])

(* What every operation relies on and preserves. *)
GoodTable(tab) ==
  /\ tab \in Seq(Seq(Node))
  /\ InRightBucket(tab)
  /\ NoDuplicate(tab)
=============================================================================
