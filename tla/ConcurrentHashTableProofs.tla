--------------------- MODULE ConcurrentHashTableProofs ---------------------
(***************************************************************************)
(* For any number of threads, keys and values, any hash function and any    *)
(* initial capacity: what the helpers of HashTable do to a table; that      *)
(* ConcurrentHashTable keeps its structure, its load bound and the validity *)
(* of its searches; and that it implements AtomicMap.                       *)
(***************************************************************************)
EXTENDS ConcurrentHashTable, SequenceTheorems, FiniteSetTheorems, TLAPS

-----------------------------------------------------------------------------
(* Chains and tables. *)

(* A chain with a new head: one node longer, the old nodes one further on.  *)
LEMMA NewHead ==
  ASSUME NEW chain \in Seq(Node), NEW n \in Node
  PROVE  /\ <<n>> \o chain \in Seq(Node)
         /\ Len(<<n>> \o chain) = Len(chain) + 1
         /\ (<<n>> \o chain)[1] = n
         /\ \A i \in 1..Len(chain) : (<<n>> \o chain)[i + 1] = chain[i]
<1>1. <<n>> \in Seq(Node) /\ Len(<<n>>) = 1 /\ <<n>>[1] = n
  OBVIOUS
<1>2. Len(chain) \in Nat
  BY LenProperties
<1> QED
  BY <1>1, <1>2, ConcatProperties

(* A chain without its i-th node: the nodes after it move up by one.        *)
LEMMA WithoutNode ==
  ASSUME NEW chain \in Seq(Node), NEW i \in 1..Len(chain)
  PROVE  /\ RemoveAt(chain, i) \in Seq(Node)
         /\ Len(RemoveAt(chain, i)) = Len(chain) - 1
         /\ \A j \in 1..(Len(chain) - 1) :
              RemoveAt(chain, i)[j] = IF j < i THEN chain[j] ELSE chain[j + 1]
<1> DEFINE front == SubSeq(chain, 1, i - 1)
           rest  == SubSeq(chain, i + 1, Len(chain))
<1>1. Len(chain) \in Nat /\ \A j \in 1..Len(chain) : chain[j] \in Node
  BY LenProperties
<1>2. /\ front \in Seq(Node)
      /\ Len(front) = i - 1
      /\ \A j \in 1..(i - 1) : front[j] = chain[j]
  <2>1. \A j \in 1..(i - 1) : chain[j] \in Node
    BY <1>1
  <2>2. 1 \in Int /\ i - 1 \in Int /\ i \in Nat /\ i >= 1
    BY <1>1
  <2>3. /\ SubSeq(chain, 1, i - 1) \in Seq(Node)
        /\ Len(SubSeq(chain, 1, i - 1)) = IF 1 <= i - 1 THEN (i - 1) - 1 + 1 ELSE 0
        /\ \A j \in 1..((i - 1) - 1 + 1) : SubSeq(chain, 1, i - 1)[j] = chain[1 + j - 1]
    BY <2>1, <2>2, SubSeqProperties
  <2> QED
    BY <2>2, <2>3
<1>3. /\ rest \in Seq(Node)
      /\ Len(rest) = Len(chain) - i
      /\ \A j \in 1..(Len(chain) - i) : rest[j] = chain[i + j]
  <2>1. \A j \in (i + 1)..Len(chain) : chain[j] \in Node
    BY <1>1
  <2>2. i + 1 \in Int /\ Len(chain) \in Int /\ i \in Nat /\ i <= Len(chain)
    BY <1>1
  <2>3. /\ SubSeq(chain, i + 1, Len(chain)) \in Seq(Node)
        /\ Len(SubSeq(chain, i + 1, Len(chain)))
             = IF i + 1 <= Len(chain) THEN Len(chain) - (i + 1) + 1 ELSE 0
        /\ \A j \in 1..(Len(chain) - (i + 1) + 1) :
             SubSeq(chain, i + 1, Len(chain))[j] = chain[(i + 1) + j - 1]
    BY <2>1, <2>2, SubSeqProperties
  <2> QED
    BY <2>2, <2>3
<1> HIDE DEF front, rest
<1>4. /\ front \o rest \in Seq(Node)
      /\ Len(front \o rest) = Len(chain) - 1
      /\ \A j \in 1..(Len(chain) - 1) :
           (front \o rest)[j] = IF j <= i - 1 THEN front[j] ELSE rest[j - (i - 1)]
  BY <1>1, <1>2, <1>3, ConcatProperties, SMTT(30)
<1>5. \A j \in 1..(Len(chain) - 1) :
        (front \o rest)[j] = IF j < i THEN chain[j] ELSE chain[j + 1]
  BY <1>1, <1>2, <1>3, <1>4, SMTT(30)
<1>6. RemoveAt(chain, i) = front \o rest
  BY DEF RemoveAt, front, rest
<1> QED
  BY <1>4, <1>5, <1>6

(* A table of n empty buckets is good and holds nothing. *)
LEMMA EmptyTableIsGood ==
  ASSUME NEW n \in Nat
  PROVE  /\ GoodTable(EmptyTable(n))
         /\ Len(EmptyTable(n)) = n
         /\ TableNodes(EmptyTable(n)) = {}
<1>1. /\ EmptyTable(n) \in Seq(Seq(Node))
      /\ Len(EmptyTable(n)) = n
      /\ DOMAIN EmptyTable(n) = 1..n
      /\ \A b \in 1..n : EmptyTable(n)[b] = <<>>
  BY DEF EmptyTable
<1>2. DOMAIN <<>> = {}
  OBVIOUS
<1>3. \A b \in 1..n : DOMAIN EmptyTable(n)[b] = {}
  BY <1>1, <1>2
<1> QED
  BY <1>1, <1>3 DEF GoodTable, InRightBucket, NoDuplicate, UniqueKeys,
                    TableNodes, ToSet

(* A table without buckets is what new_buckets is outside resize(). *)
LEMMA NoTableIsGood ==
  /\ GoodTable(<<>>)
  /\ TableNodes(<<>>) = {}
  BY DEF GoodTable, InRightBucket, NoDuplicate, UniqueKeys,
                    TableNodes, ToSet

(* The bucket a key belongs to exists. *)
LEMMA BucketInRange ==
  ASSUME NEW key \in Keys, NEW capacity \in Nat \ {0}
  PROVE  BucketOf(key, capacity) \in 1..capacity
  BY HashAssumption DEF BucketOf

(* What the buckets of a table are: chains of nodes. *)
LEMMA ChainsOfTable ==
  ASSUME NEW tab \in Seq(Seq(Node))
  PROVE  /\ Len(tab) \in Nat
         /\ DOMAIN tab = 1..Len(tab)
         /\ \A b \in DOMAIN tab :
              /\ tab[b] \in Seq(Node)
              /\ Len(tab[b]) \in Nat
              /\ DOMAIN tab[b] = 1..Len(tab[b])
              /\ \A i \in DOMAIN tab[b] : tab[b][i] \in Node
<1>1. Len(tab) \in Nat /\ DOMAIN tab = 1..Len(tab)
  BY LenProperties
<1>2. \A b \in DOMAIN tab : tab[b] \in Seq(Node)
  BY <1>1, ElementOfSeq
<1> QED
  BY <1>1, <1>2, LenProperties

(* Membership in a table, position by position. *)
LEMMA NodesByPosition ==
  ASSUME NEW tab, NEW n
  PROVE  n \in TableNodes(tab) <=>
           \E b \in DOMAIN tab : \E i \in DOMAIN tab[b] : tab[b][i] = n
  BY DEF TableNodes, ToSet

LEMMA NodesAreNodes ==
  ASSUME NEW tab \in Seq(Seq(Node))
  PROVE  TableNodes(tab) \subseteq Node
  BY ChainsOfTable, NodesByPosition

(* In a good table a key determines its node. *)
LEMMA OneNodePerKey ==
  ASSUME NEW tab, GoodTable(tab),
         NEW m \in TableNodes(tab), NEW n \in TableNodes(tab), m.key = n.key
  PROVE  m = n
<1>1. PICK b \in DOMAIN tab : \E i \in DOMAIN tab[b] : tab[b][i] = m
  BY NodesByPosition
<1>2. PICK i \in DOMAIN tab[b] : tab[b][i] = m
  BY <1>1
<1>3. PICK c \in DOMAIN tab : \E j \in DOMAIN tab[c] : tab[c][j] = n
  BY NodesByPosition
<1>4. PICK j \in DOMAIN tab[c] : tab[c][j] = n
  BY <1>3
<1>5. b = c
  BY <1>2, <1>4 DEF GoodTable, InRightBucket
<1> QED
  BY <1>2, <1>4, <1>5 DEF GoodTable, NoDuplicate, UniqueKeys

(* find_in_bucket in the bucket of the key finds the key's node if the      *)
(* table has one, anywhere.                                                 *)
LEMMA FindIsComplete ==
  ASSUME NEW tab, GoodTable(tab), Len(tab) # 0, NEW key \in Keys,
         NEW b, b = BucketOf(key, Len(tab)),
         NEW i, i = FindInBucket(tab[b], key)
  PROVE  /\ b \in DOMAIN tab
         /\ i \in Nat
         /\ i = 0 => key \notin KeysIn(TableNodes(tab))
         /\ i # 0 => i \in DOMAIN tab[b] /\ tab[b][i].key = key
<1>1. tab \in Seq(Seq(Node))
  BY DEF GoodTable
<1>2. b \in DOMAIN tab
  BY <1>1, ChainsOfTable, BucketInRange
<1>3. tab[b] \in Seq(Node) /\ Len(tab[b]) \in Nat /\ DOMAIN tab[b] = 1..Len(tab[b])
  BY <1>1, <1>2, ChainsOfTable
<1> DEFINE I == {j \in 1..Len(tab[b]) : tab[b][j].key = key}
<1>4. i = IF I # {} THEN Min(I) ELSE 0
  BY DEF FindInBucket, SelectInSeq
<1>5. \A j, k \in I : j = k
  <2>1. \A j, k \in DOMAIN tab[b] : tab[b][j].key = tab[b][k].key => j = k
    BY <1>2 DEF GoodTable, NoDuplicate, UniqueKeys
  <2> QED
    BY <1>3, <2>1
<1>6. CASE I = {}
  <2>1. key \notin KeysIn(TableNodes(tab))
    <3>1. SUFFICES ASSUME NEW n \in TableNodes(tab), n.key = key PROVE FALSE
      BY DEF KeysIn
    <3>2. PICK c \in DOMAIN tab : \E j \in DOMAIN tab[c] : tab[c][j] = n
      BY NodesByPosition
    <3>3. PICK j \in DOMAIN tab[c] : tab[c][j] = n
      BY <3>2
    <3>4. c = b
      BY <3>1, <3>3 DEF GoodTable, InRightBucket
    <3> QED
      BY <1>3, <1>6, <3>1, <3>3, <3>4
  <2> QED
    BY <1>2, <1>4, <1>6, <2>1
<1>7. CASE I # {}
  <2>1. PICK j \in I : TRUE
    BY <1>7
  <2>2. I = {j} /\ j \in Nat /\ j # 0
    BY <1>3, <1>5
  <2>3. Min(I) \in I
    BY <2>2 DEF Min
  <2> QED
    BY <1>2, <1>3, <1>4, <1>7, <2>2, <2>3
<1> QED
  BY <1>6, <1>7

(* The effect of the three chain operations on the nodes of the chain.      *)
LEMMA NewHeadNodes ==
  ASSUME NEW chain \in Seq(Node), NEW n \in Node,
         UniqueKeys(chain), \A m \in ToSet(chain) : m.key # n.key
  PROVE  /\ UniqueKeys(<<n>> \o chain)
         /\ ToSet(<<n>> \o chain) = ToSet(chain) \cup {n}
<1> DEFINE new == <<n>> \o chain
<1>1. Len(chain) \in Nat /\ DOMAIN chain = 1..Len(chain)
  BY LenProperties
<1>2. /\ new \in Seq(Node) /\ Len(new) = Len(chain) + 1 /\ new[1] = n
      /\ \A i \in 1..Len(chain) : new[i + 1] = chain[i]
  BY NewHead
<1>3. DOMAIN new = 1..(Len(chain) + 1)
  BY <1>2, LenProperties
<1> HIDE DEF new
<1>4. \A i \in DOMAIN new : i # 1 => i - 1 \in DOMAIN chain /\ new[i] = chain[i - 1]
  <2>1. SUFFICES ASSUME NEW i \in DOMAIN new, i # 1
                 PROVE  i - 1 \in DOMAIN chain /\ new[i] = chain[i - 1]
    OBVIOUS
  <2>2. i - 1 \in 1..Len(chain) /\ (i - 1) + 1 = i
    BY <1>1, <1>3, <2>1
  <2>3. new[(i - 1) + 1] = chain[i - 1]
    BY <1>2, <2>2
  <2> QED
    BY <1>1, <2>2, <2>3
<1>5. UniqueKeys(new)
  <2>1. SUFFICES ASSUME NEW i \in DOMAIN new, NEW j \in DOMAIN new,
                        new[i].key = new[j].key
                 PROVE  i = j
    BY DEF UniqueKeys
  <2>2. \A k \in DOMAIN new : k # 1 => new[k].key # n.key
    BY <1>4 DEF ToSet
  <2>3. CASE i = 1 \/ j = 1
    BY <1>2, <2>1, <2>2, <2>3
  <2>4. CASE i # 1 /\ j # 1
    <3>1. i - 1 = j - 1
      BY <1>4, <2>1, <2>4 DEF UniqueKeys
    <3> QED
      BY <1>1, <1>3, <3>1
  <2> QED
    BY <2>3, <2>4
<1>6. ToSet(new) \subseteq ToSet(chain) \cup {n}
  BY <1>2, <1>4 DEF ToSet
<1>7. ToSet(chain) \cup {n} \subseteq ToSet(new)
  <2>1. 1 \in DOMAIN new /\ \A i \in DOMAIN chain : i + 1 \in DOMAIN new
    BY <1>1, <1>3
  <2> QED
    BY <1>1, <1>2, <2>1 DEF ToSet
<1> QED
  BY <1>5, <1>6, <1>7 DEF new

LEMMA WithoutNodeNodes ==
  ASSUME NEW chain \in Seq(Node), NEW i \in DOMAIN chain, UniqueKeys(chain)
  PROVE  /\ UniqueKeys(RemoveAt(chain, i))
         /\ ToSet(RemoveAt(chain, i)) = ToSet(chain) \ {chain[i]}
<1> DEFINE new == RemoveAt(chain, i)
           old(j) == IF j < i THEN j ELSE j + 1
<1>1. Len(chain) \in Nat /\ DOMAIN chain = 1..Len(chain)
  BY LenProperties
<1>2. /\ new \in Seq(Node) /\ Len(new) = Len(chain) - 1
      /\ \A j \in 1..(Len(chain) - 1) : new[j] = IF j < i THEN chain[j] ELSE chain[j + 1]
  BY <1>1, WithoutNode
<1>3. DOMAIN new = 1..(Len(chain) - 1)
  BY <1>2, LenProperties
<1> HIDE DEF new
<1>4. \A j \in DOMAIN new : old(j) \in DOMAIN chain /\ old(j) # i /\ new[j] = chain[old(j)]
  BY <1>1, <1>2, <1>3
<1>5. \A j, k \in DOMAIN new : old(j) = old(k) => j = k
  BY <1>1, <1>3
<1>6. \A k \in DOMAIN chain : k # i => \E j \in DOMAIN new : new[j] = chain[k]
  <2>1. SUFFICES ASSUME NEW k \in DOMAIN chain, k # i
                 PROVE  \E j \in DOMAIN new : new[j] = chain[k]
    OBVIOUS
  <2>2. CASE k < i
    BY <1>1, <1>2, <1>3, <2>2
  <2>3. CASE k > i
    <3>1. k - 1 \in DOMAIN new /\ ~(k - 1 < i) /\ (k - 1) + 1 = k
      BY <1>1, <1>3, <2>3
    <3> QED
      BY <1>2, <1>3, <3>1
  <2> QED
    BY <1>1, <2>1, <2>2, <2>3
<1> HIDE DEF old
<1>7. UniqueKeys(new)
  BY <1>4, <1>5 DEF UniqueKeys
<1>8. ToSet(new) = ToSet(chain) \ {chain[i]}
  BY <1>4, <1>6 DEF ToSet, UniqueKeys
<1> QED
  BY <1>7, <1>8 DEF new

LEMMA TailNodes ==
  ASSUME NEW chain \in Seq(Node), chain # <<>>, UniqueKeys(chain)
  PROVE  /\ Tail(chain) \in Seq(Node)
         /\ Head(chain) \in ToSet(chain)
         /\ UniqueKeys(Tail(chain))
         /\ ToSet(Tail(chain)) = ToSet(chain) \ {Head(chain)}
<1>1. Len(chain) \in Nat /\ Len(chain) >= 1 /\ DOMAIN chain = 1..Len(chain)
  BY LenProperties, EmptySeq
<1>2. /\ Tail(chain) \in Seq(Node) /\ Len(Tail(chain)) = Len(chain) - 1
      /\ \A j \in 1..Len(Tail(chain)) : Tail(chain)[j] = chain[j + 1]
  BY HeadTailProperties
<1>3. DOMAIN Tail(chain) = 1..(Len(chain) - 1)
  BY <1>2, LenProperties
<1>4. Head(chain) = chain[1] /\ 1 \in DOMAIN chain
  BY <1>1
<1>5. \A j \in DOMAIN Tail(chain) :
        j + 1 \in DOMAIN chain /\ j + 1 # 1 /\ Tail(chain)[j] = chain[j + 1]
  BY <1>1, <1>2, <1>3
<1>6. \A k \in DOMAIN chain : k # 1 => k - 1 \in DOMAIN Tail(chain) /\ (k - 1) + 1 = k
  BY <1>1, <1>3
<1>7. UniqueKeys(Tail(chain))
  BY <1>1, <1>3, <1>5 DEF UniqueKeys
<1>8. ToSet(Tail(chain)) \subseteq ToSet(chain) \ {Head(chain)}
  BY <1>4, <1>5 DEF ToSet, UniqueKeys
<1>9. ToSet(chain) \ {Head(chain)} \subseteq ToSet(Tail(chain))
  BY <1>4, <1>5, <1>6 DEF ToSet
<1> QED
  BY <1>2, <1>4, <1>7, <1>8, <1>9 DEF ToSet

(* The chain of a bucket holds exactly the nodes that belong there.         *)
LEMMA NodesOfBucket ==
  ASSUME NEW tab, GoodTable(tab), NEW b \in DOMAIN tab
  PROVE  ToSet(tab[b]) = {n \in TableNodes(tab) : BucketOf(n.key, Len(tab)) = b}
<1>1. \A n \in ToSet(tab[b]) : n \in TableNodes(tab) /\ BucketOf(n.key, Len(tab)) = b
  BY NodesByPosition DEF ToSet, GoodTable, InRightBucket
<1>2. ASSUME NEW n \in TableNodes(tab), BucketOf(n.key, Len(tab)) = b
      PROVE  n \in ToSet(tab[b])
  <2>1. PICK c \in DOMAIN tab : \E i \in DOMAIN tab[c] : tab[c][i] = n
    BY NodesByPosition
  <2>2. c = b
    BY <1>2, <2>1 DEF GoodTable, InRightBucket
  <2> QED
    BY <2>1, <2>2 DEF ToSet
<1> QED
  BY <1>1, <1>2

(* A good table in which one chain is replaced by a good chain.             *)
Replaces(new, tab, b, chain) == new = [tab EXCEPT ![b] = chain]

LEMMA ReplacedChain ==
  ASSUME NEW tab, GoodTable(tab), NEW b \in DOMAIN tab,
         NEW chain, chain \in Seq(Node), UniqueKeys(chain),
         \A n \in ToSet(chain) : BucketOf(n.key, Len(tab)) = b,
         NEW new, Replaces(new, tab, b, chain)
  PROVE  /\ GoodTable(new)
         /\ Len(new) = Len(tab)
         /\ TableNodes(new) = (TableNodes(tab) \ ToSet(tab[b])) \cup ToSet(chain)
<1>1. tab \in Seq(Seq(Node)) /\ Len(tab) \in Nat /\ DOMAIN tab = 1..Len(tab)
  BY LenProperties DEF GoodTable
<1>2. /\ new \in Seq(Seq(Node)) /\ Len(new) = Len(tab)
      /\ \A c \in DOMAIN tab : new[c] = IF c = b THEN chain ELSE tab[c]
  BY <1>1, ExceptSeq DEF Replaces
<1>3. DOMAIN new = DOMAIN tab
  BY <1>1, <1>2, LenProperties
<1>4. InRightBucket(new)
  <2>1. \A c \in DOMAIN new : \A i \in DOMAIN new[c] : BucketOf(new[c][i].key, Len(tab)) = c
    BY <1>2, <1>3 DEF GoodTable, InRightBucket, ToSet
  <2> QED
    BY <1>2, <2>1 DEF InRightBucket
<1>5. NoDuplicate(new)
  BY <1>2, <1>3 DEF GoodTable, NoDuplicate
<1>6. GoodTable(new)
  BY <1>2, <1>4, <1>5 DEF GoodTable
<1>7. \A n : n \in TableNodes(new) <=>
             n \in ToSet(chain) \/ (n \in TableNodes(tab) /\ n \notin ToSet(tab[b]))
  <2>1. SUFFICES ASSUME NEW n
                 PROVE n \in TableNodes(new) <=>
                         n \in ToSet(chain) \/ (n \in TableNodes(tab) /\ n \notin ToSet(tab[b]))
    OBVIOUS
  <2>2. n \in TableNodes(new) <=> \E c \in DOMAIN tab : n \in ToSet(new[c])
    BY <1>3 DEF TableNodes
  <2>3. n \in TableNodes(tab) <=> \E c \in DOMAIN tab : n \in ToSet(tab[c])
    BY DEF TableNodes
  <2>4. \A c \in DOMAIN tab : c # b => ToSet(new[c]) = ToSet(tab[c])
    BY <1>2
  <2>5. ToSet(new[b]) = ToSet(chain)
    BY <1>2
  <2>6. \A c \in DOMAIN tab : n \in ToSet(tab[c]) /\ n \in ToSet(tab[b]) => c = b
    BY NodesOfBucket
  <2> QED
    BY <2>2, <2>3, <2>4, <2>5, <2>6
<1> QED
  BY <1>2, <1>6, <1>7

(* Prepend: a node with a new key becomes the head of its bucket.           *)
LEMMA PrependAddsNode ==
  ASSUME NEW tab, GoodTable(tab), NEW n \in Node, Len(tab) # 0,
         n.key \notin KeysIn(TableNodes(tab)),
         NEW b, b = BucketOf(n.key, Len(tab))
  PROVE  /\ GoodTable(Prepend(tab, b, n))
         /\ Len(Prepend(tab, b, n)) = Len(tab)
         /\ TableNodes(Prepend(tab, b, n)) = TableNodes(tab) \cup {n}
<1>1. b \in DOMAIN tab /\ tab[b] \in Seq(Node) /\ UniqueKeys(tab[b])
  BY ChainsOfTable, BucketInRange DEF GoodTable, Node, NoDuplicate
<1>2. /\ ToSet(tab[b]) \subseteq TableNodes(tab)
      /\ \A m \in ToSet(tab[b]) : BucketOf(m.key, Len(tab)) = b
  BY <1>1, NodesOfBucket
<1>3. \A m \in ToSet(tab[b]) : m.key # n.key
  BY <1>2 DEF KeysIn
<1>4. UniqueKeys(<<n>> \o tab[b]) /\ ToSet(<<n>> \o tab[b]) = ToSet(tab[b]) \cup {n}
  BY <1>1, <1>3, NewHeadNodes
<1>5. <<n>> \o tab[b] \in Seq(Node)
  BY <1>1, NewHead
<1>6. Replaces(Prepend(tab, b, n), tab, b, <<n>> \o tab[b])
  BY DEF Prepend, Replaces
<1>7. \A m \in ToSet(<<n>> \o tab[b]) : BucketOf(m.key, Len(tab)) = b
  BY <1>2, <1>4
<1> DEFINE chain == <<n>> \o tab[b]
           new == Prepend(tab, b, n)
<1> HIDE DEF chain, new
<1>8. /\ GoodTable(new) /\ Len(new) = Len(tab)
      /\ TableNodes(new) = (TableNodes(tab) \ ToSet(tab[b])) \cup ToSet(chain)
  <2>1. Replaces(new, tab, b, chain) /\ chain \in Seq(Node) /\ UniqueKeys(chain)
    BY <1>4, <1>5, <1>6 DEF chain, new
  <2>2. \A m \in ToSet(chain) : BucketOf(m.key, Len(tab)) = b
    BY <1>7 DEF chain
  <2> QED
    BY <1>1, <2>1, <2>2, ReplacedChain
<1> QED
  BY <1>2, <1>4, <1>8 DEF chain, new

(* Unlink: exactly the i-th node of bucket b leaves the table.              *)
LEMMA UnlinkRemovesNode ==
  ASSUME NEW tab, GoodTable(tab), NEW b \in DOMAIN tab, NEW i \in DOMAIN tab[b]
  PROVE  /\ GoodTable(Unlink(tab, b, i))
         /\ Len(Unlink(tab, b, i)) = Len(tab)
         /\ TableNodes(Unlink(tab, b, i)) = TableNodes(tab) \ {tab[b][i]}
<1>1. tab[b] \in Seq(Node) /\ UniqueKeys(tab[b]) /\ DOMAIN tab[b] = 1..Len(tab[b])
  BY ChainsOfTable DEF GoodTable, NoDuplicate
<1>2. /\ ToSet(tab[b]) \subseteq TableNodes(tab)
      /\ \A m \in ToSet(tab[b]) : BucketOf(m.key, Len(tab)) = b
      /\ tab[b][i] \in ToSet(tab[b])
  BY <1>1, NodesOfBucket DEF ToSet
<1>3. UniqueKeys(RemoveAt(tab[b], i)) /\ ToSet(RemoveAt(tab[b], i)) = ToSet(tab[b]) \ {tab[b][i]}
  BY <1>1, WithoutNodeNodes
<1>4. RemoveAt(tab[b], i) \in Seq(Node)
  BY <1>1, WithoutNode
<1>5. Replaces(Unlink(tab, b, i), tab, b, RemoveAt(tab[b], i))
  BY DEF Unlink, Replaces
<1>6. \A m \in ToSet(RemoveAt(tab[b], i)) : BucketOf(m.key, Len(tab)) = b
  BY <1>2, <1>3
<1> DEFINE chain == RemoveAt(tab[b], i)
           new == Unlink(tab, b, i)
<1> HIDE DEF chain, new
<1>7. /\ GoodTable(new) /\ Len(new) = Len(tab)
      /\ TableNodes(new) = (TableNodes(tab) \ ToSet(tab[b])) \cup ToSet(chain)
  <2>1. Replaces(new, tab, b, chain) /\ chain \in Seq(Node) /\ UniqueKeys(chain)
    BY <1>3, <1>4, <1>5 DEF chain, new
  <2>2. \A m \in ToSet(chain) : BucketOf(m.key, Len(tab)) = b
    BY <1>6 DEF chain
  <2> QED
    BY <2>1, <2>2, ReplacedChain
<1> QED
  BY <1>2, <1>3, <1>7 DEF chain, new

(* TakeHead: exactly the head of bucket b leaves the table, and no bucket   *)
(* but b changes.                                                           *)
LEMMA TakeHeadRemovesNode ==
  ASSUME NEW tab, GoodTable(tab), NEW b \in DOMAIN tab, tab[b] # <<>>
  PROVE  /\ GoodTable(TakeHead(tab, b))
         /\ Len(TakeHead(tab, b)) = Len(tab)
         /\ \A c \in DOMAIN tab : c # b => TakeHead(tab, b)[c] = tab[c]
         /\ Head(tab[b]) \in TableNodes(tab)
         /\ TableNodes(TakeHead(tab, b)) = TableNodes(tab) \ {Head(tab[b])}
<1>1. tab[b] \in Seq(Node) /\ UniqueKeys(tab[b])
  BY ChainsOfTable DEF GoodTable, NoDuplicate
<1>2. /\ ToSet(tab[b]) \subseteq TableNodes(tab)
      /\ \A m \in ToSet(tab[b]) : BucketOf(m.key, Len(tab)) = b
  BY <1>1, NodesOfBucket
<1>3. /\ Tail(tab[b]) \in Seq(Node) /\ Head(tab[b]) \in ToSet(tab[b])
      /\ UniqueKeys(Tail(tab[b]))
      /\ ToSet(Tail(tab[b])) = ToSet(tab[b]) \ {Head(tab[b])}
  BY <1>1, TailNodes
<1>4. TakeHead(tab, b) = [tab EXCEPT ![b] = Tail(tab[b])]
  BY DEF TakeHead
<1>5. \A m \in ToSet(Tail(tab[b])) : BucketOf(m.key, Len(tab)) = b
  BY <1>2, <1>3
<1> DEFINE chain == Tail(tab[b])
           new == TakeHead(tab, b)
<1> HIDE DEF chain, new
<1>6. /\ GoodTable(new) /\ Len(new) = Len(tab)
      /\ TableNodes(new) = (TableNodes(tab) \ ToSet(tab[b])) \cup ToSet(chain)
  <2>1. Replaces(new, tab, b, chain) /\ chain \in Seq(Node) /\ UniqueKeys(chain)
    BY <1>3, <1>4 DEF chain, new, Replaces
  <2>2. \A m \in ToSet(chain) : BucketOf(m.key, Len(tab)) = b
    BY <1>5 DEF chain
  <2> QED
    BY <2>1, <2>2, ReplacedChain
<1>7. \A c \in DOMAIN tab : c # b => TakeHead(tab, b)[c] = tab[c]
  BY <1>4
<1> QED
  BY <1>2, <1>3, <1>6, <1>7 DEF chain, new

(* Update: the node gets its new value and keeps its key.                  *)
LEMMA UpdateReplacesNode ==
  ASSUME NEW tab, GoodTable(tab), NEW b \in DOMAIN tab, NEW i \in DOMAIN tab[b],
         NEW v \in Values
  PROVE  /\ GoodTable(Update(tab, b, i, v))
         /\ Len(Update(tab, b, i, v)) = Len(tab)
         /\ TableNodes(Update(tab, b, i, v))
              = (TableNodes(tab) \ {tab[b][i]})
                  \cup {[key |-> tab[b][i].key, value |-> v]}
<1> DEFINE n == [key |-> tab[b][i].key, value |-> v]
           chain == [tab[b] EXCEPT ![i] = n]
           new == Update(tab, b, i, v)
<1>1. /\ tab[b] \in Seq(Node) /\ UniqueKeys(tab[b])
      /\ DOMAIN tab[b] = 1..Len(tab[b]) /\ tab[b][i] \in Node
  BY ChainsOfTable DEF GoodTable, NoDuplicate
<1>2. n \in Node /\ n.key = tab[b][i].key
  BY <1>1 DEF Node
<1>3. Replaces(new, tab, b, chain)
  BY DEF Update, ReplaceAt, Replaces
<1> HIDE DEF n, new
<1>4. /\ ToSet(tab[b]) \subseteq TableNodes(tab)
      /\ \A m \in ToSet(tab[b]) : BucketOf(m.key, Len(tab)) = b
      /\ tab[b][i] \in ToSet(tab[b])
  BY <1>1, NodesOfBucket DEF ToSet
<1>5. /\ chain \in Seq(Node) /\ Len(chain) = Len(tab[b])
      /\ \A j \in DOMAIN tab[b] : chain[j] = IF j = i THEN n ELSE tab[b][j]
  BY <1>1, <1>2, ExceptSeq
<1>6. DOMAIN chain = DOMAIN tab[b]
  BY <1>1, <1>5, LenProperties
<1> HIDE DEF chain
<1>7. UniqueKeys(chain)
  BY <1>1, <1>2, <1>5, <1>6 DEF UniqueKeys
<1>8. ToSet(chain) = (ToSet(tab[b]) \ {tab[b][i]}) \cup {n}
  <2>1. \A j \in DOMAIN tab[b] : j # i => tab[b][j] # tab[b][i]
    BY <1>1 DEF UniqueKeys
  <2> QED
    BY <1>5, <1>6, <2>1 DEF ToSet
<1>9. \A m \in ToSet(chain) : BucketOf(m.key, Len(tab)) = b
  BY <1>2, <1>4, <1>8
<1>10. /\ GoodTable(new) /\ Len(new) = Len(tab)
       /\ TableNodes(new) = (TableNodes(tab) \ ToSet(tab[b])) \cup ToSet(chain)
  BY <1>3, <1>5, <1>7, <1>9, ReplacedChain
<1> QED
  BY <1>4, <1>8, <1>10 DEF n, new

-----------------------------------------------------------------------------
(* The invariant, and what follows from it. *)

(* The arguments a call carries. *)
LEMMA CallFields ==
  ASSUME NEW c \in AllCalls
  PROVE  /\ c.op \in Searching \cup {"keys", "clear", "size"}
         /\ c.op = "set" => c.key \in Keys /\ c.value \in Values
         /\ c.op \in {"get", "del", "exists"} => c.key \in Keys
         /\ c.op = "keys" => c.match \subseteq Keys
  BY DEF AllCalls, SetCalls, KeyCalls, KeysCalls, GlobalCalls, Searching

(* The type of what each method returns. *)
LEMMA ResultFields ==
  /\ Results["set"] = BOOLEAN /\ Results["del"] = BOOLEAN /\ Results["exists"] = BOOLEAN
  /\ Results["get"] = Values /\ Results["keys"] = SUBSET Keys
  /\ Results["clear"] = {Nil} /\ Results["size"] = Nat
  BY DEF Results

(* A step of t leaves what another thread u knows true: either t holds the  *)
(* lock exclusively, and u is not inside, or the table does not change.     *)
LEMMA OtherThread ==
  ASSUME IndInv, NEW t \in Threads, NEW u \in Threads, u # t,
         UNCHANGED <<pc[u], call[u], bucket[u], node[u], ret[u]>>,
         UNCHANGED table \/ writer = t
  PROVE  ThreadInv(u)'
<1>1. ThreadInv(u)
  BY DEF IndInv
<1>2. CASE UNCHANGED table
  BY <1>1, <1>2 DEF table, ThreadInv, PcInv, ResizeInv, FoundInv, LoadInv, ScanInv, ScannedKeys
<1>3. CASE writer = t
  <2>1. ~Holding(u)
    BY <1>3, NoThreadAssumption DEF IndInv, LockInv
  <2>2. pc'[u] \in {"idle", "lock"}
    BY <2>1 DEF Holding
  <2> QED
    BY <2>2 DEF ThreadInv, PcInv, ResizeInv, FoundInv, LoadInv, ScanInv
<1> QED
  BY <1>2, <1>3

(* A step of t inside its method leaves the mutex as it is. *)
LEMMA LockKept ==
  ASSUME IndInv, NEW t \in Threads, Holding(t), NEW l \in Pcs \ {"idle", "lock"},
         pc' = [pc EXCEPT ![t] = l], UNCHANGED <<mutex, call>>
  PROVE  LockInv'
<1>1. \A u \in Threads : Holding(u)' <=> Holding(u)
  BY DEF IndInv, TypeOK, Holding
<1> QED
  BY <1>1 DEF IndInv, LockInv, mutex

(* The new_buckets of a thread in resize() is its own. *)
LEMMA OneResizer ==
  ASSUME IndInv, NEW t \in Threads, writer = t, pc[t] # "resize"
  PROVE  new_buckets = <<>>
<1>1. \A u \in Threads : u # t => ~Holding(u)
  BY NoThreadAssumption DEF IndInv, LockInv
<1> QED
  BY <1>1 DEF IndInv, TableInv, Holding
-----------------------------------------------------------------------------
(* The initial table is empty, and nobody is inside. *)
LEMMA InitInv == Init => IndInv
<1> SUFFICES ASSUME Init PROVE IndInv
  OBVIOUS
<1> USE DEF Init
<1>1. InitialCapacity \in Nat /\ InitialCapacity # 0
  BY CapacityAssumption
<1>2. /\ GoodTable(buckets) /\ Len(buckets) = InitialCapacity
      /\ TableNodes(buckets) = {}
  BY <1>1, EmptyTableIsGood
<1>3. GoodTable(new_buckets) /\ TableNodes(new_buckets) = {}
  BY NoTableIsGood
<1>4. Contents = {} /\ KeysIn(Contents) = {}
  BY <1>2, <1>3 DEF Contents, KeysIn
<1>5. TypeOK
  BY <1>2, <1>3 DEF TypeOK, GoodTable, Pcs
<1>6. LockInv
  BY NoThreadAssumption DEF LockInv, Holding
<1>7. TableInv
  <2>1. IsFiniteSet(KeysIn(Contents)) /\ Cardinality(KeysIn(Contents)) = 0
    BY <1>4, FS_EmptySet
  <2>2. KeysIn(TableNodes(buckets)) = {}
    BY <1>2 DEF KeysIn
  <2>3. StructureOK
    BY <1>2, <1>3, <2>1, <2>2 DEF StructureOK
  <2>4. LoadBounded /\ Len(buckets) # 0
    BY <1>1, <1>2 DEF LoadBounded
  <2> QED
    BY <2>1, <2>3, <2>4 DEF TableInv
<1>8. \A t \in Threads : ThreadInv(t)
  BY DEF ThreadInv, PcInv, ResizeInv, FoundInv, LoadInv, ScanInv
<1> QED
  BY <1>5, <1>6, <1>7, <1>8 DEF IndInv

(* The table's own invariant survives a step that does not touch the table  *)
(* and ends no resize().                                                    *)
LEMMA TableKept ==
  ASSUME IndInv, UNCHANGED table,
         \A u \in Threads : pc[u] = "resize" => pc'[u] = "resize"
  PROVE  TableInv'
<1> QED
  BY DEF IndInv, TableInv, StructureOK, LoadBounded, Contents, table

(* The steps into a method. *)
LEMMA CallInv ==
  ASSUME IndInv, NEW t \in Threads, Call(t) PROVE IndInv'
<1> USE DEF Call, Goto
<1>1. PICK c \in AllCalls : call' = [call EXCEPT ![t] = c]
  OBVIOUS
<1>2. TypeOK'
  BY <1>1 DEF IndInv, TypeOK, Pcs, table, mutex, locals
<1>3. LockInv'
  <2>1. \A u \in Threads : Holding(u)' <=> Holding(u)
    BY DEF IndInv, TypeOK, Holding
  <2>2. \A u \in Threads : Holding(u) => call'[u] = call[u]
    BY <1>1 DEF IndInv, TypeOK, Holding
  <2> QED
    BY <2>1, <2>2 DEF IndInv, LockInv, mutex
<1>4. TableInv'
  BY TableKept DEF IndInv, TypeOK
<1>5. ThreadInv(t)'
  BY DEF IndInv, TypeOK, ThreadInv, PcInv, ResizeInv, FoundInv, LoadInv, ScanInv
<1>6. \A u \in Threads : u # t => ThreadInv(u)'
  BY <1>1, OtherThread DEF IndInv, TypeOK, locals
<1> QED
  BY <1>2, <1>3, <1>4, <1>5, <1>6 DEF IndInv

LEMMA LockExclusiveInv ==
  ASSUME IndInv, NEW t \in Threads, LockExclusive(t) PROVE IndInv'
<1> USE DEF LockExclusive, Goto
<1>0. /\ call[t] \in AllCalls /\ call[t].op \in Exclusive
      /\ pc' = [pc EXCEPT ![t] = Entry[call[t].op]]
      /\ Entry[call[t].op] \in {"check", "find", "apply"}
      /\ Entry[call[t].op] = "check" <=> call[t].op = "set"
      /\ Entry[call[t].op] = "find" <=> call[t].op = "del"
  BY DEF IndInv, TypeOK, Entry, Exclusive
<1>1. pc'[t] = Entry[call[t].op] /\ \A u \in Threads : u # t => pc'[u] = pc[u]
  BY <1>0 DEF IndInv, TypeOK
<1>2. TypeOK'
  BY <1>0, <1>1 DEF IndInv, TypeOK, Pcs, table, locals
<1>3. LockInv'
  BY <1>0, <1>1, NoThreadAssumption DEF IndInv, LockInv, Holding
<1>4. TableInv'
  BY <1>1, TableKept
<1>5. ThreadInv(t)'
  BY <1>0, <1>1 DEF ThreadInv, PcInv, ResizeInv, FoundInv, LoadInv, ScanInv, Exclusive, Searching
<1>6. \A u \in Threads : u # t => ThreadInv(u)'
  BY <1>1, OtherThread DEF locals
<1> QED
  BY <1>2, <1>3, <1>4, <1>5, <1>6 DEF IndInv

LEMMA LockSharedInv ==
  ASSUME IndInv, NEW t \in Threads, LockShared(t) PROVE IndInv'
<1> USE DEF LockShared, Goto
<1>0. /\ call[t] \in AllCalls /\ call[t].op \notin Exclusive
      /\ call[t].op \in {"get", "exists", "keys", "size"}
      /\ pc' = [pc EXCEPT ![t] = Entry[call[t].op]]
      /\ Entry[call[t].op] \in {"scan", "find", "apply"}
      /\ Entry[call[t].op] = "scan" <=> call[t].op = "keys"
      /\ Entry[call[t].op] = "find" <=> call[t].op \in {"get", "exists"}
  BY CallFields DEF IndInv, TypeOK, Entry, Exclusive, Searching
<1>1. pc'[t] = Entry[call[t].op] /\ \A u \in Threads : u # t => pc'[u] = pc[u]
  BY <1>0 DEF IndInv, TypeOK
<1>2. TypeOK'
  <2>1. (IF call[t].op = "keys" THEN {} ELSE Nil) \in Results[call[t].op] \cup {Nil}
    BY ResultFields
  <2> QED
    BY <1>0, <1>1, <2>1 DEF IndInv, TypeOK, Pcs, table
<1>3. LockInv'
  BY <1>0, <1>1, NoThreadAssumption DEF IndInv, LockInv, Holding
<1>4. TableInv'
  BY <1>1, TableKept
<1>5. ThreadInv(t)'
  <2>1. pc'[t] = "scan" => ret'[t] = {} /\ bucket'[t] = 1 /\ buckets' = buckets
    BY <1>0, <1>1 DEF IndInv, TypeOK, table
  <2>2. buckets \in Seq(Seq(Node)) /\ DOMAIN buckets = 1..Len(buckets) /\ Len(buckets) \in Nat
    BY ChainsOfTable DEF IndInv, TypeOK
  <2>3. ScanInv(t)'
    BY <2>1, <2>2 DEF ScanInv, ScannedKeys
  <2> QED
    BY <1>0, <1>1, <2>3 DEF ThreadInv, PcInv, ResizeInv, FoundInv, LoadInv, Searching
<1>6. \A u \in Threads : u # t => ThreadInv(u)'
  BY <1>1, OtherThread DEF IndInv, TypeOK
<1> QED
  BY <1>2, <1>3, <1>4, <1>5, <1>6 DEF IndInv
-----------------------------------------------------------------------------
(* What a step of t inside its method does to the local variables: those of *)
(* the others stay, its own keep their types.                               *)
LocalStep(t) ==
  /\ DOMAIN ret' = Threads /\ ret'[t] \in Results[call[t].op] \cup {Nil}
  /\ bucket' \in [Threads -> Nat]
  /\ node' \in [Threads -> Nat]
  /\ \A u \in Threads : u # t => UNCHANGED <<bucket[u], node[u], ret[u]>>

(* The types after a step of t inside its method. *)
LEMMA TypeKept ==
  ASSUME TypeOK, NEW t \in Threads, Holding(t), NEW l \in Pcs \ {"idle", "lock"},
         pc' = [pc EXCEPT ![t] = l], UNCHANGED <<mutex, call>>, LocalStep(t),
         (buckets \in Seq(Seq(Node)))', (new_buckets \in Seq(Seq(Node)))', (size \in Nat)'
  PROVE  TypeOK'
  BY DEF TypeOK, Holding, mutex, LocalStep

(* A step of t inside its method that leaves the table alone needs only     *)
(* its own types and its own knowledge checked.                             *)
LEMMA ReadStep ==
  ASSUME IndInv, NEW t \in Threads, Holding(t),
         NEW l \in Pcs \ {"idle", "lock"}, pc' = [pc EXCEPT ![t] = l],
         pc[t] = "resize" => l = "resize",
         UNCHANGED <<table, mutex, call>>, LocalStep(t), ThreadInv(t)'
  PROVE  IndInv'
<1>1. TypeOK
  BY DEF IndInv
<1>2. TypeOK'
  <2>1. (buckets \in Seq(Seq(Node)))' /\ (new_buckets \in Seq(Seq(Node)))' /\ (size \in Nat)'
    BY <1>1 DEF TypeOK, table
  <2> QED
    BY <1>1, <2>1, TypeKept
<1>3. LockInv'
  BY LockKept
<1>4. TableInv'
  <2>1. \A u \in Threads : pc[u] = "resize" => pc'[u] = "resize"
    BY <1>1 DEF TypeOK
  <2> QED
    BY <2>1, TableKept
<1>5. \A u \in Threads : u # t => ThreadInv(u)'
  <2>1. \A u \in Threads : u # t =>
          UNCHANGED <<pc[u], call[u], bucket[u], node[u], ret[u]>>
    BY <1>1 DEF TypeOK, LocalStep
  <2> QED
    BY <2>1, OtherThread
<1> QED
  BY <1>2, <1>3, <1>4, <1>5 DEF IndInv

LEMMA SkipResizeInv ==
  ASSUME IndInv, NEW t \in Threads, SkipResize(t) PROVE IndInv'
<1> USE DEF SkipResize, Goto
<1>1. /\ pc[t] = "check" /\ Holding(t) /\ call[t].op = "set"
      /\ pc' = [pc EXCEPT ![t] = "find"] /\ pc'[t] = "find"
      /\ UNCHANGED <<table, mutex, call>> /\ ~Overloaded(size, Len(buckets))
  BY DEF IndInv, TypeOK, ThreadInv, PcInv, Holding
<1>2. "find" \in Pcs \ {"idle", "lock"} /\ LocalStep(t)
  BY DEF IndInv, TypeOK, LocalStep, Pcs, locals
<1>3. ThreadInv(t)'
  BY <1>1 DEF ThreadInv, PcInv, ResizeInv, FoundInv, LoadInv, ScanInv, Searching, table
<1> QED
  BY <1>1, <1>2, <1>3, ReadStep

LEMMA FindInv ==
  ASSUME IndInv, NEW t \in Threads, Find(t) PROVE IndInv'
<1> USE DEF Find, Goto
<1> DEFINE b == BucketOf(call[t].key, Len(buckets))
           n == FindInBucket(buckets[b], call[t].key)
<1>1. /\ pc[t] = "find" /\ Holding(t) /\ call[t].op \in Searching
      /\ pc' = [pc EXCEPT ![t] = "apply"] /\ pc'[t] = "apply"
      /\ UNCHANGED <<table, mutex, call>> /\ LoadInv(t)
  BY DEF IndInv, TypeOK, ThreadInv, PcInv, Holding
<1>2. call[t].key \in Keys
  BY <1>1, CallFields DEF IndInv, TypeOK, Searching
<1>3. b \in Nat /\ n \in Nat
  <2>1. GoodTable(buckets) /\ Len(buckets) # 0
    BY DEF IndInv, TableInv, StructureOK
  <2>2. Len(buckets) \in Nat
    BY <2>1, ChainsOfTable DEF GoodTable
  <2> QED
    BY <1>2, <2>1, <2>2, FindIsComplete, BucketInRange
<1>4. bucket' = [bucket EXCEPT ![t] = b] /\ node' = [node EXCEPT ![t] = n] /\ ret' = ret
  OBVIOUS
<1> HIDE DEF b, n
<1>5. "apply" \in Pcs \ {"idle", "lock"} /\ LocalStep(t) /\ bucket'[t] = b /\ node'[t] = n
  BY <1>1, <1>3, <1>4 DEF IndInv, TypeOK, Pcs, LocalStep
<1>6. ThreadInv(t)'
  BY <1>1, <1>5
     DEF ThreadInv, PcInv, ResizeInv, FoundInv, LoadInv, ScanInv, Searching, table, b, n
<1> QED
  BY <1>1, <1>5, <1>6, ReadStep

(* What a search found, when it is used: FindIsComplete with the state's    *)
(* names.                                                                   *)
LEMMA FoundNode ==
  ASSUME IndInv, NEW t \in Threads, pc[t] = "apply", call[t].op \in Searching
  PROVE  /\ call[t].key \in Keys
         /\ bucket[t] \in DOMAIN buckets
         /\ bucket[t] = BucketOf(call[t].key, Len(buckets))
         /\ node[t] = 0 => call[t].key \notin KeysIn(TableNodes(buckets))
         /\ node[t] # 0 => /\ node[t] \in DOMAIN buckets[bucket[t]]
                           /\ buckets[bucket[t]][node[t]].key = call[t].key
                           /\ buckets[bucket[t]][node[t]] \in TableNodes(buckets)
<1>1. call[t].key \in Keys
  BY CallFields DEF IndInv, TypeOK, Searching
<1>2. GoodTable(buckets) /\ Len(buckets) # 0
  BY DEF IndInv, TableInv, StructureOK
<1>3. /\ bucket[t] = BucketOf(call[t].key, Len(buckets))
      /\ node[t] = FindInBucket(buckets[bucket[t]], call[t].key)
  BY DEF IndInv, ThreadInv, FoundInv
<1> DEFINE b == bucket[t]
           i == node[t]
           key == call[t].key
<1> HIDE DEF b, i, key
<1>4. /\ b \in DOMAIN buckets
      /\ i = 0 => key \notin KeysIn(TableNodes(buckets))
      /\ i # 0 => i \in DOMAIN buckets[b] /\ buckets[b][i].key = key
  <2>1. key \in Keys /\ b = BucketOf(key, Len(buckets)) /\ i = FindInBucket(buckets[b], key)
    BY <1>1, <1>3 DEF b, i, key
  <2> QED
    BY <1>2, <2>1, FindIsComplete
<1>5. i # 0 => buckets[b][i] \in TableNodes(buckets)
  BY <1>4, NodesByPosition
<1> QED
  BY <1>1, <1>3, <1>4, <1>5 DEF b, i, key

(* The methods that only read. *)
LEMMA ReturnStep ==
  ASSUME IndInv, NEW t \in Threads, pc[t] \in {"apply", "scan"},
         UNCHANGED <<table, mutex, call, bucket, node>>,
         NEW v \in Results[call[t].op] \cup {Nil}, ReturnValue(t, v)
  PROVE  IndInv'
<1>1. /\ Holding(t) /\ pc[t] # "resize" /\ "unlock" \in Pcs \ {"idle", "lock"}
      /\ pc' = [pc EXCEPT ![t] = "unlock"] /\ pc'[t] = "unlock"
  BY DEF IndInv, TypeOK, ReturnValue, Goto, Holding, Pcs
<1>2. LocalStep(t)
  BY DEF IndInv, TypeOK, LocalStep, ReturnValue
<1>3. ThreadInv(t)'
  BY <1>1 DEF ThreadInv, PcInv, ResizeInv, FoundInv, LoadInv, ScanInv
<1> QED
  BY <1>1, <1>2, <1>3, ReadStep

LEMMA GetInv ==
  ASSUME IndInv, NEW t \in Threads, Get(t) PROVE IndInv'
<1> USE DEF Get, Applying
<1> DEFINE v == IF node[t] = 0 THEN Nil ELSE buckets[bucket[t]][node[t]].value
<1>1. pc[t] = "apply" /\ call[t].op = "get" /\ ReturnValue(t, v)
  OBVIOUS
<1>2. v \in Values \cup {Nil}
  <2>1. TableNodes(buckets) \subseteq Node
    BY NodesAreNodes DEF IndInv, TypeOK
  <2> QED
    BY <1>1, <2>1, FoundNode DEF Node, Searching
<1> HIDE DEF v
<1>3. v \in Results[call[t].op] \cup {Nil}
  BY <1>1, <1>2, ResultFields
<1> QED
  BY <1>1, <1>3, ReturnStep

LEMMA DelMissingInv ==
  ASSUME IndInv, NEW t \in Threads, DelMissing(t) PROVE IndInv'
<1>1. FALSE \in Results[call[t].op] \cup {Nil}
  BY ResultFields DEF DelMissing, Applying
<1> QED
  BY <1>1, ReturnStep DEF DelMissing, Applying

LEMMA ExistsInv ==
  ASSUME IndInv, NEW t \in Threads, Exists(t) PROVE IndInv'
<1> DEFINE v == node[t] # 0
<1>1. v \in BOOLEAN
  OBVIOUS
<1>2. ReturnValue(t, v) /\ pc[t] = "apply" /\ call[t].op = "exists"
  BY DEF Exists, Applying
<1> HIDE DEF v
<1>3. v \in Results[call[t].op] \cup {Nil}
  BY <1>1, <1>2, ResultFields
<1> QED
  BY <1>2, <1>3, ReturnStep DEF Exists

LEMMA SizeInv ==
  ASSUME IndInv, NEW t \in Threads, Size(t) PROVE IndInv'
<1>1. size \in Results[call[t].op] \cup {Nil}
  BY ResultFields DEF Size, Applying, IndInv, TypeOK
<1> QED
  BY <1>1, ReturnStep DEF Size, Applying

LEMMA ScanBucketInv ==
  ASSUME IndInv, NEW t \in Threads, ScanBucket(t) PROVE IndInv'
<1> USE DEF ScanBucket
<1> DEFINE b == bucket[t]
           found == KeysIn(ToSet(buckets[b])) \cap call[t].match
<1>1. /\ pc[t] = "scan" /\ Holding(t) /\ call[t].op = "keys"
      /\ b \in DOMAIN buckets /\ b \in Nat /\ b # 0 /\ ret[t] = ScannedKeys(t)
      /\ UNCHANGED <<table, mutex, call>>
  BY DEF IndInv, TypeOK, ThreadInv, PcInv, ScanInv, Holding
<1>2. pc' = [pc EXCEPT ![t] = "scan"] /\ "scan" \in Pcs \ {"idle", "lock"} /\ pc'[t] = "scan"
  BY <1>1 DEF IndInv, TypeOK, Pcs
<1>3. call[t].match \subseteq Keys
  BY <1>1, CallFields DEF IndInv, TypeOK
<1>4. ret'[t] = ret[t] \cup found /\ bucket'[t] = b + 1
  BY DEF IndInv, TypeOK
<1>5. ret'[t] \subseteq Keys
  BY <1>1, <1>3, <1>4 DEF ScannedKeys
<1>6. LocalStep(t)
  <2>1. ret'[t] \in Results[call[t].op]
    BY <1>1, <1>5, ResultFields
  <2> QED
    BY <1>1, <2>1 DEF IndInv, TypeOK, LocalStep
<1>7. ScannedKeys(t)' = ScannedKeys(t) \cup found
  <2>1. \A c \in DOMAIN buckets : c < b + 1 <=> c < b \/ c = b
    BY <1>1, ChainsOfTable DEF IndInv, TypeOK
  <2>2. buckets' = buckets /\ call' = call
    BY DEF table
  <2> QED
    BY <1>1, <1>4, <2>1, <2>2 DEF ScannedKeys
<1>8. ThreadInv(t)'
  <2>1. ScanInv(t)'
    BY <1>1, <1>4, <1>7 DEF ScanInv
  <2> QED
    BY <1>1, <1>2, <2>1 DEF ThreadInv, PcInv, ResizeInv, FoundInv, LoadInv
<1> QED
  BY <1>1, <1>2, <1>6, <1>8, ReadStep

LEMMA ScanDoneInv ==
  ASSUME IndInv, NEW t \in Threads, ScanDone(t) PROVE IndInv'
<1> USE DEF ScanDone, Goto
<1>1. /\ pc[t] = "scan" /\ Holding(t)
      /\ "unlock" \in Pcs \ {"idle", "lock"}
      /\ pc' = [pc EXCEPT ![t] = "unlock"] /\ pc'[t] = "unlock"
      /\ UNCHANGED <<table, mutex, call>>
  BY DEF IndInv, TypeOK, Holding, Pcs
<1>2. LocalStep(t)
  BY <1>1 DEF IndInv, TypeOK, LocalStep, locals
<1>3. ThreadInv(t)'
  BY <1>1 DEF ThreadInv, PcInv, ResizeInv, FoundInv, LoadInv, ScanInv
<1> QED
  BY <1>1, <1>2, <1>3, ReadStep

LEMMA UnlockInv ==
  ASSUME IndInv, NEW t \in Threads, Unlock(t) PROVE IndInv'
<1> USE DEF Unlock, Goto
<1>1. /\ pc[t] = "unlock" /\ Holding(t) /\ pc'[t] = "idle"
      /\ \A u \in Threads : u # t => pc'[u] = pc[u] /\ call'[u] = call[u]
  BY DEF IndInv, TypeOK, Holding
<1>2. TypeOK'
  BY DEF IndInv, TypeOK, Pcs, table
<1>3. LockInv'
  BY <1>1, NoThreadAssumption DEF IndInv, TypeOK, LockInv, Holding
<1>4. TableInv'
  BY <1>1, TableKept
<1>5. ThreadInv(t)'
  BY <1>1 DEF ThreadInv, PcInv, ResizeInv, FoundInv, LoadInv, ScanInv
<1>6. \A u \in Threads : u # t => ThreadInv(u)'
  BY <1>1, OtherThread DEF IndInv, TypeOK
<1> QED
  BY <1>2, <1>3, <1>4, <1>5, <1>6 DEF IndInv
-----------------------------------------------------------------------------
(* The keys of a set of nodes, and how many there are, when a node comes,   *)
(* goes or is replaced by one with the same key.                            *)
LEMMA NodeAdded ==
  ASSUME NEW S, NEW n, n.key \notin KeysIn(S), IsFiniteSet(KeysIn(S)),
         NEW T, T = S \cup {n}
  PROVE  /\ KeysIn(T) = KeysIn(S) \cup {n.key}
         /\ IsFiniteSet(KeysIn(T))
         /\ Cardinality(KeysIn(T)) = Cardinality(KeysIn(S)) + 1
<1>1. KeysIn(T) = KeysIn(S) \cup {n.key}
  BY DEF KeysIn
<1> QED
  BY <1>1, FS_AddElement, ZenonT(30)

LEMMA NodeRemoved ==
  ASSUME NEW S, NEW n \in S, \A m \in S : m.key = n.key => m = n,
         IsFiniteSet(KeysIn(S)), NEW T, T = S \ {n}
  PROVE  /\ KeysIn(T) = KeysIn(S) \ {n.key}
         /\ IsFiniteSet(KeysIn(T))
         /\ Cardinality(KeysIn(S)) \in Nat
         /\ Cardinality(KeysIn(T)) = Cardinality(KeysIn(S)) - 1
         /\ Cardinality(KeysIn(T)) \in Nat
<1>1. KeysIn(T) = KeysIn(S) \ {n.key} /\ n.key \in KeysIn(S)
  BY DEF KeysIn
<1>2. /\ IsFiniteSet(KeysIn(T))
      /\ Cardinality(KeysIn(T)) = Cardinality(KeysIn(S)) - 1
  BY <1>1, FS_RemoveElement
<1>3. Cardinality(KeysIn(S)) \in Nat /\ Cardinality(KeysIn(T)) \in Nat
  BY <1>2, FS_CardinalityType
<1> QED
  BY <1>1, <1>2, <1>3

LEMMA NodeReplaced ==
  ASSUME NEW S, NEW n, NEW o \in S, o.key = n.key, NEW T, T = (S \ {o}) \cup {n}
  PROVE  KeysIn(T) = KeysIn(S)
  BY DEF KeysIn

(* Outside resize() the contents are the nodes of buckets_. *)
LEMMA WholeContents ==
  ASSUME new_buckets = <<>> PROVE Contents = TableNodes(buckets)
  BY NoTableIsGood DEF Contents

(* A step of the thread that holds the lock exclusively needs only the      *)
(* table, and its own types and knowledge checked.                          *)
LEMMA WriteStep ==
  ASSUME IndInv, NEW t \in Threads, Holding(t), writer = t,
         NEW l \in Pcs \ {"idle", "lock"}, pc' = [pc EXCEPT ![t] = l],
         UNCHANGED <<mutex, call>>, LocalStep(t), (size \in Nat)',
         TableInv', ThreadInv(t)'
  PROVE  IndInv'
<1>1. TypeOK
  BY DEF IndInv
<1>2. TypeOK'
  <2>1. (buckets \in Seq(Seq(Node)))' /\ (new_buckets \in Seq(Seq(Node)))'
    BY DEF TableInv, StructureOK, GoodTable
  <2> QED
    BY <1>1, <2>1, TypeKept
<1>3. LockInv'
  BY LockKept
<1>4. \A u \in Threads : u # t => ThreadInv(u)'
  <2>1. \A u \in Threads : u # t =>
          UNCHANGED <<pc[u], call[u], bucket[u], node[u], ret[u]>>
    BY <1>1 DEF TypeOK, LocalStep
  <2> QED
    BY <2>1, OtherThread
<1> QED
  BY <1>2, <1>3, <1>4 DEF IndInv

(* Clear leaves empty buckets. *)
LEMMA ClearInv ==
  ASSUME IndInv, NEW t \in Threads, Clear(t)
  PROVE  /\ IndInv'
         /\ Contents' = {}
<1> USE DEF Clear, Applying, ReturnValue, Goto
<1>1. /\ pc[t] = "apply" /\ Holding(t) /\ call[t].op = "clear" /\ writer = t
      /\ pc' = [pc EXCEPT ![t] = "unlock"] /\ pc'[t] = "unlock"
      /\ "unlock" \in Pcs \ {"idle", "lock"} /\ UNCHANGED <<mutex, call>>
  BY DEF IndInv, TypeOK, LockInv, Holding, Exclusive, Pcs
<1>2. new_buckets = <<>> /\ new_buckets' = <<>>
  BY <1>1, OneResizer
<1>3. Len(buckets) \in Nat /\ Len(buckets) # 0
  BY ChainsOfTable DEF IndInv, TypeOK, TableInv
<1>4. GoodTable(buckets') /\ Len(buckets') = Len(buckets) /\ TableNodes(buckets') = {}
  BY <1>3, EmptyTableIsGood
<1>5. KeysIn(TableNodes(buckets')) = {} /\ KeysIn(Contents)' = {}
  <2>1. KeysIn({}) = {}
    BY DEF KeysIn
  <2> QED
    BY <1>2, <1>4, <2>1, NoTableIsGood DEF Contents
<1>6. TableInv'
  <2>1. IsFiniteSet(KeysIn(Contents)') /\ Cardinality(KeysIn(Contents)') = 0
    BY <1>5, FS_EmptySet
  <2>2. StructureOK'
    BY <1>2, <1>4, <1>5, <2>1, NoTableIsGood DEF StructureOK
  <2>3. LoadBounded' /\ Len(buckets') # 0
    BY <1>3, <1>4 DEF LoadBounded
  <2> QED
    BY <1>2, <2>1, <2>2, <2>3 DEF TableInv
<1>7. LocalStep(t)
  BY <1>1, ResultFields DEF IndInv, TypeOK, LocalStep
<1>8. ThreadInv(t)'
  BY <1>1 DEF ThreadInv, PcInv, ResizeInv, FoundInv, LoadInv, ScanInv
<1> QED
  <2>1. Contents' = {}
    BY <1>2, <1>4, NoTableIsGood DEF Contents
  <2> QED
    BY <1>1, <1>6, <1>7, <1>8, <2>1, WriteStep

(* SetInsert: the key was nowhere, so the table has one more.               *)
LEMMA SetInsertInv ==
  ASSUME IndInv, NEW t \in Threads, SetInsert(t)
  PROVE  /\ IndInv'
         /\ call[t].key \notin KeysIn(Contents)
         /\ Contents' = Contents \cup {[key |-> call[t].key, value |-> call[t].value]}
<1> DEFINE n == [key |-> call[t].key, value |-> call[t].value]
           b == bucket[t]
<1>1. /\ pc[t] = "apply" /\ Holding(t) /\ call[t].op = "set" /\ writer = t
      /\ pc' = [pc EXCEPT ![t] = "unlock"] /\ pc'[t] = "unlock"
      /\ "unlock" \in Pcs \ {"idle", "lock"} /\ UNCHANGED <<mutex, call>>
      /\ node[t] = 0
  BY DEF SetInsert, Applying, ReturnValue, Goto, IndInv, TypeOK, LockInv, Holding, Exclusive, Pcs
<1>2. new_buckets = <<>> /\ new_buckets' = <<>>
  BY <1>1, OneResizer DEF SetInsert
<1>3. /\ GoodTable(buckets) /\ Len(buckets) \in Nat /\ Len(buckets) # 0 /\ size \in Nat
      /\ IsFiniteSet(KeysIn(Contents)) /\ size = Cardinality(KeysIn(Contents))
      /\ 4 * size <= 3 * Len(buckets)
  BY <1>1, ChainsOfTable
     DEF IndInv, TypeOK, TableInv, StructureOK, ThreadInv, LoadInv, Overloaded
<1>4. n \in Node /\ n.key = call[t].key
  BY <1>1, CallFields DEF IndInv, TypeOK, Node
<1>5. /\ n.key \notin KeysIn(TableNodes(buckets)) /\ b = BucketOf(n.key, Len(buckets))
      /\ buckets' = Prepend(buckets, b, n) /\ size' = size + 1
  BY <1>1, <1>4, FoundNode DEF Searching, SetInsert
<1>6. Contents = TableNodes(buckets) /\ Contents' = TableNodes(buckets')
  BY <1>2, WholeContents, NoTableIsGood DEF Contents
<1> HIDE DEF n, b
<1>7. /\ GoodTable(buckets') /\ Len(buckets') = Len(buckets)
      /\ TableNodes(buckets') = TableNodes(buckets) \cup {n}
  BY <1>3, <1>4, <1>5, PrependAddsNode
<1>8. /\ IsFiniteSet(KeysIn(TableNodes(buckets')))
      /\ Cardinality(KeysIn(TableNodes(buckets'))) = size'
  BY <1>3, <1>5, <1>6, <1>7, NodeAdded
<1>9. TableInv'
  <2>1. StructureOK'
    BY <1>2, <1>6, <1>7, <1>8, NoTableIsGood DEF StructureOK, KeysIn
  <2>2. LoadBounded' /\ Len(buckets') # 0
    BY <1>3, <1>5, <1>7 DEF LoadBounded
  <2> QED
    BY <1>2, <1>6, <1>8, <2>1, <2>2 DEF TableInv
<1>10. LocalStep(t)
  BY <1>1, ResultFields DEF SetInsert, ReturnValue, IndInv, TypeOK, LocalStep
<1>11. ThreadInv(t)' /\ (size \in Nat)'
  BY <1>1, <1>3, <1>5 DEF ThreadInv, PcInv, ResizeInv, FoundInv, LoadInv, ScanInv
<1> QED
  <2>1. IndInv'
    BY <1>1, <1>9, <1>10, <1>11, WriteStep
  <2> QED
    BY <1>4, <1>5, <1>6, <1>7, <2>1 DEF n

(* SetUpdate: the same keys, one of them with a new value.                  *)
LEMMA SetUpdateInv ==
  ASSUME IndInv, NEW t \in Threads, SetUpdate(t)
  PROVE  /\ IndInv'
         /\ \E old \in Contents :
              /\ old.key = call[t].key
              /\ Contents' = (Contents \ {old})
                              \cup {[key |-> call[t].key, value |-> call[t].value]}
<1> DEFINE b == bucket[t]
           i == node[t]
           v == call[t].value
<1>1. /\ pc[t] = "apply" /\ Holding(t) /\ call[t].op = "set" /\ writer = t
      /\ pc' = [pc EXCEPT ![t] = "unlock"] /\ pc'[t] = "unlock"
      /\ "unlock" \in Pcs \ {"idle", "lock"} /\ UNCHANGED <<mutex, call>>
      /\ i # 0
  BY DEF SetUpdate, Applying, ReturnValue, Goto, IndInv, TypeOK, LockInv, Holding, Exclusive, Pcs
<1>2. new_buckets = <<>> /\ new_buckets' = <<>>
  BY <1>1, OneResizer DEF SetUpdate
<1>3. /\ GoodTable(buckets) /\ Len(buckets) \in Nat /\ Len(buckets) # 0 /\ size \in Nat
      /\ IsFiniteSet(KeysIn(Contents)) /\ size = Cardinality(KeysIn(Contents))
      /\ LoadBounded
  BY ChainsOfTable DEF IndInv, TypeOK, TableInv, StructureOK
<1>4. /\ v \in Values /\ b \in DOMAIN buckets /\ i \in DOMAIN buckets[b]
      /\ buckets[b][i] \in TableNodes(buckets)
      /\ buckets' = Update(buckets, b, i, v) /\ size' = size
  BY <1>1, FoundNode, CallFields DEF IndInv, TypeOK, Searching, SetUpdate
<1>5. Contents = TableNodes(buckets) /\ Contents' = TableNodes(buckets')
  BY <1>2, WholeContents, NoTableIsGood DEF Contents
<1> HIDE DEF b, i, v
<1> DEFINE old == buckets[b][i]
           new == [key |-> old.key, value |-> v]
<1>6. /\ GoodTable(buckets') /\ Len(buckets') = Len(buckets)
      /\ TableNodes(buckets') = (TableNodes(buckets) \ {old}) \cup {new}
      /\ old.key = new.key /\ old \in TableNodes(buckets)
  BY <1>3, <1>4, UpdateReplacesNode
<1> HIDE DEF old, new
<1>7. KeysIn(TableNodes(buckets')) = KeysIn(TableNodes(buckets))
  BY <1>6, NodeReplaced
<1>8. TableInv'
  <2>1. StructureOK'
    BY <1>2, <1>3, <1>4, <1>5, <1>6, <1>7, NoTableIsGood DEF StructureOK, KeysIn
  <2>2. LoadBounded' /\ Len(buckets') # 0
    BY <1>3, <1>4, <1>6 DEF LoadBounded
  <2> QED
    BY <1>2, <1>3, <1>5, <1>7, <2>1, <2>2 DEF TableInv
<1>9. LocalStep(t)
  BY <1>1, ResultFields DEF SetUpdate, ReturnValue, IndInv, TypeOK, LocalStep
<1>10. ThreadInv(t)' /\ (size \in Nat)'
  BY <1>1, <1>3, <1>4 DEF ThreadInv, PcInv, ResizeInv, FoundInv, LoadInv, ScanInv
<1> QED
  <2>1. IndInv'
    BY <1>1, <1>8, <1>9, <1>10, WriteStep
  <2>2. old.key = call[t].key
    BY <1>1, FoundNode DEF old, b, i, Searching
  <2> QED
    BY <1>5, <1>6, <2>1, <2>2 DEF new, v

(* DelFound: the key's only node leaves.                                    *)
LEMMA DelFoundInv ==
  ASSUME IndInv, NEW t \in Threads, DelFound(t)
  PROVE  /\ IndInv'
         /\ \E n \in Contents : n.key = call[t].key /\ Contents' = Contents \ {n}
<1> DEFINE b == bucket[t]
           i == node[t]
           n == buckets[b][i]
<1>1. /\ pc[t] = "apply" /\ Holding(t) /\ call[t].op = "del" /\ writer = t
      /\ pc' = [pc EXCEPT ![t] = "unlock"] /\ pc'[t] = "unlock"
      /\ "unlock" \in Pcs \ {"idle", "lock"} /\ UNCHANGED <<mutex, call>>
      /\ i # 0
  BY DEF DelFound, Applying, ReturnValue, Goto, IndInv, TypeOK, LockInv, Holding, Exclusive, Pcs
<1>2. new_buckets = <<>> /\ new_buckets' = <<>>
  BY <1>1, OneResizer DEF DelFound
<1>3. /\ GoodTable(buckets) /\ Len(buckets) \in Nat /\ Len(buckets) # 0 /\ size \in Nat
      /\ IsFiniteSet(KeysIn(Contents)) /\ size = Cardinality(KeysIn(Contents))
      /\ LoadBounded
  BY ChainsOfTable DEF IndInv, TypeOK, TableInv, StructureOK
<1>4. /\ b \in DOMAIN buckets /\ i \in DOMAIN buckets[b] /\ n \in TableNodes(buckets)
      /\ buckets' = Unlink(buckets, b, i) /\ size' = size - 1
  BY <1>1, FoundNode DEF Searching, DelFound
<1>5. Contents = TableNodes(buckets) /\ Contents' = TableNodes(buckets')
  BY <1>2, WholeContents, NoTableIsGood DEF Contents
<1> HIDE DEF b, i
<1>6. /\ GoodTable(buckets') /\ Len(buckets') = Len(buckets)
      /\ TableNodes(buckets') = TableNodes(buckets) \ {n}
  BY <1>3, <1>4, UnlinkRemovesNode
<1> HIDE DEF n
<1>7. \A m \in TableNodes(buckets) : m.key = n.key => m = n
  BY <1>3, <1>4, OneNodePerKey
<1>8. /\ IsFiniteSet(KeysIn(TableNodes(buckets')))
      /\ Cardinality(KeysIn(TableNodes(buckets'))) = size' /\ size' \in Nat
  BY <1>3, <1>4, <1>5, <1>6, <1>7, NodeRemoved
<1>9. TableInv'
  <2>1. StructureOK'
    BY <1>2, <1>5, <1>6, <1>8, NoTableIsGood DEF StructureOK, KeysIn
  <2>2. LoadBounded' /\ Len(buckets') # 0
    BY <1>3, <1>4, <1>6 DEF LoadBounded
  <2> QED
    BY <1>2, <1>5, <1>8, <2>1, <2>2 DEF TableInv
<1>10. LocalStep(t)
  BY <1>1, ResultFields DEF DelFound, ReturnValue, IndInv, TypeOK, LocalStep
<1>11. ThreadInv(t)' /\ (size \in Nat)'
  BY <1>1, <1>8 DEF ThreadInv, PcInv, ResizeInv, FoundInv, LoadInv, ScanInv
<1> QED
  <2>1. IndInv'
    BY <1>1, <1>9, <1>10, <1>11, WriteStep
  <2>2. n.key = call[t].key
    BY <1>1, FoundNode DEF n, b, i, Searching
  <2> QED
    BY <1>4, <1>5, <1>6, <2>1, <2>2
-----------------------------------------------------------------------------
(* resize(): the new vector starts empty, ...                               *)
LEMMA StartResizeInv ==
  ASSUME IndInv, NEW t \in Threads, StartResize(t)
  PROVE  /\ IndInv'
         /\ Contents' = Contents
<1>1. /\ pc[t] = "check" /\ Holding(t) /\ call[t].op = "set" /\ writer = t
      /\ pc' = [pc EXCEPT ![t] = "resize"] /\ pc'[t] = "resize"
      /\ "resize" \in Pcs \ {"idle", "lock"} /\ UNCHANGED <<buckets, size, mutex, call>>
      /\ new_buckets' = EmptyTable(2 * Len(buckets)) /\ bucket'[t] = 1
  BY DEF StartResize, Goto, IndInv, TypeOK, LockInv, ThreadInv, PcInv, Holding, Exclusive, Pcs
<1>2. new_buckets = <<>>
  BY <1>1, OneResizer
<1>3. Len(buckets) \in Nat /\ DOMAIN buckets = 1..Len(buckets)
  BY ChainsOfTable DEF IndInv, TypeOK
<1>4. /\ GoodTable(new_buckets') /\ Len(new_buckets') = 2 * Len(buckets)
      /\ TableNodes(new_buckets') = {}
  BY <1>1, <1>3, EmptyTableIsGood
<1>5. Contents' = Contents /\ KeysIn(TableNodes(new_buckets')) = {}
  BY <1>1, <1>2, <1>4, NoTableIsGood DEF Contents, KeysIn
<1>6. TableInv'
  <2>1. StructureOK'
    BY <1>1, <1>4, <1>5 DEF IndInv, TableInv, StructureOK
  <2> QED
    BY <1>1, <1>5, <2>1 DEF IndInv, TableInv, LoadBounded
<1>7. LocalStep(t)
  BY DEF StartResize, IndInv, TypeOK, LocalStep
<1>8. ThreadInv(t)' /\ (size \in Nat)'
  BY <1>1, <1>3, <1>4
     DEF IndInv, TypeOK, ThreadInv, PcInv, ResizeInv, FoundInv, LoadInv, ScanInv
<1> QED
  BY <1>1, <1>5, <1>6, <1>7, <1>8, WriteStep

(* ... each move takes a node from one vector to the other, ...             *)
LEMMA MoveNodeInv ==
  ASSUME IndInv, NEW t \in Threads, MoveNode(t)
  PROVE  /\ IndInv'
         /\ Contents' = Contents
<1> DEFINE b == bucket[t]
           n == Head(buckets[b])
           c == BucketOf(n.key, Len(new_buckets))
<1>1. /\ pc[t] = "resize" /\ Holding(t) /\ call[t].op = "set" /\ writer = t
      /\ pc' = [pc EXCEPT ![t] = "resize"] /\ pc'[t] = "resize"
      /\ "resize" \in Pcs \ {"idle", "lock"} /\ UNCHANGED <<size, mutex, call>>
  BY DEF MoveNode, IndInv, TypeOK, LockInv, ThreadInv, PcInv, Holding, Exclusive, Pcs
<1>2. /\ b \in DOMAIN buckets /\ buckets[b] # <<>> /\ b \in Nat /\ bucket' = bucket
      /\ buckets' = TakeHead(buckets, b)
      /\ new_buckets' = Prepend(new_buckets, c, n)
  BY DEF MoveNode, locals, IndInv, TypeOK
<1>3. /\ GoodTable(buckets) /\ GoodTable(new_buckets)
      /\ Len(buckets) \in Nat /\ Len(buckets) # 0
      /\ KeysIn(TableNodes(buckets)) \cap KeysIn(TableNodes(new_buckets)) = {}
      /\ IsFiniteSet(KeysIn(Contents)) /\ size = Cardinality(KeysIn(Contents))
      /\ LoadBounded /\ size \in Nat
  BY ChainsOfTable DEF IndInv, TypeOK, TableInv, StructureOK
<1>4. /\ b # 0 /\ Len(new_buckets) = 2 * Len(buckets)
      /\ \A d \in DOMAIN buckets : d < b => buckets[d] = <<>>
  BY <1>1 DEF IndInv, ThreadInv, ResizeInv
<1> HIDE DEF b
<1>5. /\ GoodTable(buckets') /\ Len(buckets') = Len(buckets)
      /\ \A d \in DOMAIN buckets : d # b => buckets'[d] = buckets[d]
      /\ n \in TableNodes(buckets)
      /\ TableNodes(buckets') = TableNodes(buckets) \ {n}
  BY <1>2, <1>3, TakeHeadRemovesNode
<1> HIDE DEF n
<1>6. n \in Node /\ n.key \notin KeysIn(TableNodes(new_buckets))
  <2>1. TableNodes(buckets) \subseteq Node
    BY <1>3, NodesAreNodes DEF GoodTable
  <2> QED
    BY <1>3, <1>5, <2>1 DEF KeysIn
<1>7. /\ GoodTable(new_buckets') /\ Len(new_buckets') = Len(new_buckets)
      /\ TableNodes(new_buckets') = TableNodes(new_buckets) \cup {n}
  <2>1. Len(new_buckets) # 0
    BY <1>3, <1>4
  <2> QED
    BY <1>2, <1>3, <1>6, <2>1, PrependAddsNode
<1>8. Contents' = Contents
  BY <1>5, <1>7 DEF Contents
<1>9. KeysIn(TableNodes(buckets')) \cap KeysIn(TableNodes(new_buckets')) = {}
  <2>1. \A m \in TableNodes(buckets) : m.key = n.key => m = n
    BY <1>3, <1>5, OneNodePerKey
  <2>2. KeysIn(TableNodes(buckets')) = KeysIn(TableNodes(buckets)) \ {n.key}
    BY <1>5, <2>1 DEF KeysIn
  <2>3. KeysIn(TableNodes(new_buckets')) = KeysIn(TableNodes(new_buckets)) \cup {n.key}
    BY <1>7 DEF KeysIn
  <2> QED
    BY <1>3, <2>2, <2>3
<1>10. TableInv'
  <2>1. StructureOK'
    BY <1>1, <1>3, <1>5, <1>7, <1>8, <1>9 DEF StructureOK
  <2>2. LoadBounded' /\ Len(buckets') # 0
    BY <1>1, <1>3, <1>5 DEF LoadBounded
  <2> QED
    BY <1>1, <1>3, <1>8, <2>1, <2>2 DEF TableInv
<1>11. LocalStep(t)
  BY <1>1 DEF MoveNode, IndInv, TypeOK, LocalStep, locals, Holding
<1>12. ResizeInv(t)'
  <2>1. DOMAIN buckets' = DOMAIN buckets
    BY <1>3, <1>5, ChainsOfTable DEF GoodTable
  <2>2. DOMAIN buckets = 1..Len(buckets)
    BY <1>3, ChainsOfTable DEF GoodTable
  <2>3. \A d \in DOMAIN buckets' : d < b => buckets'[d] = <<>>
    BY <1>2, <1>4, <1>5, <2>1, <2>2
  <2> QED
    BY <1>2, <1>4, <1>5, <1>7, <2>3 DEF ResizeInv, b
<1>13. ThreadInv(t)' /\ (size \in Nat)'
  BY <1>1, <1>3, <1>12 DEF ThreadInv, PcInv, FoundInv, LoadInv, ScanInv
<1> QED
  BY <1>1, <1>8, <1>10, <1>11, <1>13, WriteStep

(* ... the loop leaves a bucket when it is empty, ...                       *)
LEMMA NextBucketInv ==
  ASSUME IndInv, NEW t \in Threads, NextBucket(t) PROVE IndInv'
<1> DEFINE b == bucket[t]
<1>1. /\ pc[t] = "resize" /\ Holding(t) /\ call[t].op = "set"
      /\ pc' = [pc EXCEPT ![t] = "resize"] /\ pc'[t] = "resize"
      /\ "resize" \in Pcs \ {"idle", "lock"} /\ UNCHANGED <<table, mutex, call>>
      /\ buckets' = buckets /\ new_buckets' = new_buckets
  BY DEF NextBucket, IndInv, TypeOK, ThreadInv, PcInv, Holding, Pcs, table
<1>2. b \in DOMAIN buckets /\ buckets[b] = <<>> /\ b \in Nat /\ bucket'[t] = b + 1
  BY DEF NextBucket, IndInv, TypeOK
<1>3. /\ b # 0 /\ Len(new_buckets) = 2 * Len(buckets)
      /\ \A d \in DOMAIN buckets : d < b => buckets[d] = <<>>
  BY <1>1 DEF IndInv, ThreadInv, ResizeInv
<1>4. DOMAIN buckets = 1..Len(buckets) /\ Len(buckets) \in Nat
  BY ChainsOfTable DEF IndInv, TypeOK
<1> HIDE DEF b
<1>5. \A d \in DOMAIN buckets : d < b + 1 => buckets[d] = <<>>
  BY <1>2, <1>3, <1>4
<1>6. LocalStep(t)
  BY <1>1, SMTT(30) DEF NextBucket, IndInv, TypeOK, LocalStep, Holding
<1>7. ResizeInv(t)'
  BY <1>1, <1>2, <1>3, <1>5 DEF ResizeInv
<1>8. ThreadInv(t)'
  BY <1>1, <1>7 DEF ThreadInv, PcInv, FoundInv, LoadInv, ScanInv
<1> QED
  BY <1>1, <1>6, <1>8, ReadStep

(* ... and at its end the old vector is empty, so nothing is lost with it.  *)
LEMMA FinishResizeInv ==
  ASSUME IndInv, NEW t \in Threads, FinishResize(t)
  PROVE  /\ IndInv'
         /\ Contents' = Contents
<1>1. /\ pc[t] = "resize" /\ Holding(t) /\ call[t].op = "set" /\ writer = t
      /\ pc' = [pc EXCEPT ![t] = "find"] /\ pc'[t] = "find"
      /\ "find" \in Pcs \ {"idle", "lock"} /\ UNCHANGED <<size, mutex, call>>
      /\ buckets' = new_buckets /\ new_buckets' = <<>> /\ bucket[t] \notin DOMAIN buckets
  BY DEF FinishResize, Goto, IndInv, TypeOK, LockInv, ThreadInv, PcInv, Holding, Exclusive, Pcs
<1>2. /\ bucket[t] # 0 /\ bucket[t] \in Nat /\ Len(new_buckets) = 2 * Len(buckets)
      /\ \A d \in DOMAIN buckets : d < bucket[t] => buckets[d] = <<>>
  BY <1>1 DEF IndInv, TypeOK, ThreadInv, ResizeInv
<1>3. /\ GoodTable(new_buckets) /\ Len(buckets) \in Nat /\ Len(buckets) # 0
      /\ DOMAIN buckets = 1..Len(buckets)
      /\ IsFiniteSet(KeysIn(Contents)) /\ size = Cardinality(KeysIn(Contents))
      /\ LoadBounded /\ size \in Nat
  BY ChainsOfTable DEF IndInv, TypeOK, TableInv, StructureOK
<1>4. \A d \in DOMAIN buckets : buckets[d] = <<>>
  BY <1>1, <1>2, <1>3
<1>5. TableNodes(buckets) = {}
  <2>1. \A d \in DOMAIN buckets : DOMAIN buckets[d] = {}
    BY <1>4
  <2> QED
    BY <2>1, NodesByPosition
<1>6. Contents' = Contents /\ Contents' = TableNodes(buckets')
  BY <1>1, <1>5, NoTableIsGood DEF Contents
<1>7. 4 * size <= 3 * Len(buckets') /\ Len(buckets') # 0 /\ Len(buckets') \in Nat
  BY <1>1, <1>2, <1>3 DEF LoadBounded
<1>8. TableInv'
  <2>1. KeysIn(TableNodes(new_buckets')) = {}
    BY <1>1, NoTableIsGood DEF KeysIn
  <2>2. StructureOK'
    BY <1>1, <1>3, <1>6, <2>1, NoTableIsGood DEF StructureOK
  <2>3. LoadBounded'
    BY <1>1, <1>3, <1>7 DEF LoadBounded
  <2> QED
    BY <1>1, <1>3, <1>6, <1>7, <2>2, <2>3 DEF TableInv
<1>9. LocalStep(t)
  BY <1>1 DEF FinishResize, IndInv, TypeOK, LocalStep, locals, Holding
<1>10. LoadInv(t)'
  BY <1>1, <1>3, <1>7 DEF LoadInv, Overloaded
<1>11. ThreadInv(t)' /\ (size \in Nat)'
  BY <1>1, <1>3, <1>10 DEF ThreadInv, PcInv, ResizeInv, FoundInv, ScanInv, Searching
<1> QED
  BY <1>1, <1>6, <1>8, <1>9, <1>11, WriteStep
-----------------------------------------------------------------------------
(* The invariant is inductive. *)
LEMMA NextInv == IndInv /\ [Next]_vars => IndInv'
<1> SUFFICES ASSUME IndInv, [Next]_vars PROVE IndInv'
  OBVIOUS
<1>1. CASE UNCHANGED vars
  BY <1>1 DEF vars, IndInv, TypeOK, LockInv, TableInv, StructureOK, LoadBounded, Contents,
              ThreadInv, PcInv, ResizeInv, FoundInv, LoadInv, ScanInv, ScannedKeys, Holding
<1>2. CASE Next
  <2>1. PICK t \in Threads : Call(t) \/ Lock(t) \/ Body(t)
    BY <1>2 DEF Next
  <2>2. CASE Call(t)
    BY <2>2, CallInv
  <2>3. CASE Lock(t)
    BY <2>3, LockExclusiveInv, LockSharedInv DEF Lock
  <2>4. CASE Resize(t)
    BY <2>4, SkipResizeInv, StartResizeInv, MoveNodeInv, NextBucketInv, FinishResizeInv
       DEF Resize
  <2>5. CASE Find(t)
    BY <2>5, FindInv
  <2>6. CASE Apply(t)
    BY <2>6, SetInsertInv, SetUpdateInv, GetInv, DelMissingInv, DelFoundInv, ExistsInv,
       ClearInv, SizeInv DEF Apply
  <2>7. CASE Scan(t)
    BY <2>7, ScanBucketInv, ScanDoneInv DEF Scan
  <2>8. CASE Unlock(t)
    BY <2>8, UnlockInv
  <2> QED
    BY <2>1, <2>2, <2>3, <2>4, <2>5, <2>6, <2>7, <2>8 DEF Body
<1> QED
  BY <1>1, <1>2

(* Every reachable state of the concurrent table satisfies the inductive    *)
(* invariant.                                                               *)
THEOREM Invariance == Spec => []IndInv
  BY InitInv, NextInv, PTL DEF Spec

(* The variables of the concurrent table keep their types. *)
THEOREM TypeCorrect == Spec => []TypeOK
<1>1. IndInv => TypeOK
  BY DEF IndInv
<1> QED
  BY <1>1, Invariance, PTL

(* Whatever the threads do, each key is stored once, where a search looks   *)
(* for it, and size_ counts the keys.                                       *)
THEOREM StructureKept == Spec => []StructureOK
<1>1. IndInv => StructureOK
  BY DEF IndInv, TableInv
<1> QED
  BY <1>1, Invariance, PTL

(* The node that a search of set, get, del or exists found, or did not      *)
(* find, is what is there when the method uses it.                          *)
THEOREM SearchesValid == Spec => []FoundStillThere
<1>1. IndInv => FoundStillThere
  BY DEF IndInv, ThreadInv, FoundInv, FoundStillThere
<1> QED
  BY <1>1, Invariance, PTL

(* The table never holds more than one entry above MAX_LOAD_FACTOR.         *)
THEOREM LoadKept == Spec => []LoadBounded
<1>1. IndInv => LoadBounded
  BY DEF IndInv, TableInv
<1> QED
  BY <1>1, Invariance, PTL

-----------------------------------------------------------------------------
(* The refinement: a call takes effect at the one step that sets its        *)
(* result, and every other step inside a method, each move of resize()      *)
(* included, leaves the represented map as it is.                           *)

(* The result AtomicMap sees: none before the call has taken effect. *)
seen == [t \in Threads |-> IF pc[t] = "unlock" THEN ret[t] ELSE Nil]

(* Nodes of which no two share a key represent a map. *)
OnePerKey(nodes) == nodes \subseteq Node /\ \A m, n \in nodes : m.key = n.key => m = n

(* Two nodes of the contents never share a key, whichever vector they are   *)
(* in.                                                                      *)
LEMMA ContentsUnique ==
  ASSUME IndInv PROVE OnePerKey(Contents)
<1>1. /\ GoodTable(buckets) /\ GoodTable(new_buckets)
      /\ KeysIn(TableNodes(buckets)) \cap KeysIn(TableNodes(new_buckets)) = {}
  BY DEF IndInv, TableInv, StructureOK
<1>2. Contents \subseteq Node
  BY NodesAreNodes DEF IndInv, TypeOK, Contents
<1>3. ASSUME NEW m \in Contents, NEW n \in Contents, m.key = n.key PROVE m = n
  <2>1. CASE m \in TableNodes(buckets) /\ n \in TableNodes(buckets)
    BY <1>1, <1>3, <2>1, OneNodePerKey
  <2>2. CASE m \in TableNodes(new_buckets) /\ n \in TableNodes(new_buckets)
    BY <1>1, <1>3, <2>2, OneNodePerKey
  <2> QED
    BY <1>1, <1>3, <2>1, <2>2 DEF Contents, KeysIn
<1> QED
  BY <1>2, <1>3 DEF OnePerKey

(* The represented map, entry by entry. *)
LEMMA MapEntries ==
  ASSUME NEW S, OnePerKey(S)
  PROVE  /\ DOMAIN MapOf(S) = Keys
         /\ \A n \in S : n.key \in Keys /\ MapOf(S)[n.key] = n.value /\ n.value # Nil
         /\ \A k \in Keys : k \notin KeysIn(S) => MapOf(S)[k] = Nil
         /\ {k \in Keys : MapOf(S)[k] # Nil} = KeysIn(S)
<1>1. ASSUME NEW n \in S PROVE n.key \in Keys /\ MapOf(S)[n.key] = n.value /\ n.value # Nil
  <2>1. n.key \in Keys /\ n.value \in Values
    BY DEF OnePerKey, Node
  <2>2. n.key \in KeysIn(S)
    BY DEF KeysIn
  <2>3. \A m \in S : m.key = n.key <=> m = n
    BY DEF OnePerKey
  <2>4. (CHOOSE m \in S : m.key = n.key) = n
    BY <2>3
  <2>5. MapOf(S)[n.key] = (CHOOSE m \in S : m.key = n.key).value
    BY <2>1, <2>2 DEF MapOf
  <2> QED
    BY <2>1, <2>4, <2>5, NilAssumption
<1>2. DOMAIN MapOf(S) = Keys /\ \A k \in Keys : k \notin KeysIn(S) => MapOf(S)[k] = Nil
  BY DEF MapOf
<1>3. {k \in Keys : MapOf(S)[k] # Nil} = KeysIn(S)
  BY <1>1, <1>2 DEF KeysIn
<1> QED
  BY <1>1, <1>2, <1>3

(* Two such maps that agree on every node are equal. *)
LEMMA MapEqual ==
  ASSUME NEW S, OnePerKey(S), NEW f, f = [k \in Keys |-> f[k]],
         \A n \in S : f[n.key] = n.value,
         \A k \in Keys : k \notin KeysIn(S) => f[k] = Nil
  PROVE  MapOf(S) = f
<1>1. \A k \in Keys : MapOf(S)[k] = f[k]
  BY MapEntries DEF KeysIn
<1>2. MapOf(S) = [k \in Keys |-> MapOf(S)[k]]
  BY DEF MapOf
<1> QED
  BY <1>1, <1>2

(* The map after an entry was added, replaced or removed.                   *)
Assign(f, k, v) == [f EXCEPT ![k] = v]

LEMMA MapAssigned ==
  ASSUME NEW S, OnePerKey(S), NEW T, OnePerKey(T), NEW k \in Keys, NEW v,
         \A n \in T : n.key = k => n.value = v,
         k \notin KeysIn(T) => v = Nil,
         \A n : n.key # k => (n \in T <=> n \in S)
  PROVE  MapOf(T) = Assign(MapOf(S), k, v)
<1> DEFINE f == Assign(MapOf(S), k, v)
<1>1. f = [j \in Keys |-> IF j = k THEN v ELSE MapOf(S)[j]]
  <2>1. MapOf(S) = [j \in Keys |-> MapOf(S)[j]]
    BY DEF MapOf
  <2> QED
    BY <2>1 DEF Assign
<1>2. f = [j \in Keys |-> f[j]] /\ f[k] = v /\ \A j \in Keys : j # k => f[j] = MapOf(S)[j]
  BY <1>1
<1> HIDE DEF f
<1>3. /\ \A n \in S : n.key \in Keys /\ MapOf(S)[n.key] = n.value
      /\ \A n \in T : n.key \in Keys
      /\ \A j \in Keys : j \notin KeysIn(S) => MapOf(S)[j] = Nil
  BY MapEntries
<1>4. \A n \in T : f[n.key] = n.value
  BY <1>2, <1>3
<1>5. \A j \in Keys : j \notin KeysIn(T) => f[j] = Nil
  BY <1>2, <1>3 DEF KeysIn
<1> QED
  BY <1>2, <1>4, <1>5, MapEqual DEF f

LEMMA MapWithNode ==
  ASSUME NEW S, OnePerKey(S), NEW k \in Keys, NEW v \in Values,
         NEW T, T = S \cup {[key |-> k, value |-> v]}, k \notin KeysIn(S)
  PROVE  MapOf(T) = Assign(MapOf(S), k, v)
<1> DEFINE new == [key |-> k, value |-> v]
<1>1. new \in Node /\ new.key = k /\ new.value = v
  BY DEF Node
<1> HIDE DEF new
<1>2. T = S \cup {new}
  BY DEF new
<1>3. OnePerKey(T) /\ k \in KeysIn(T) /\ \A n \in T : n.key = k => n.value = v
  BY <1>1, <1>2 DEF OnePerKey, KeysIn
<1>4. \A n : n.key # k => (n \in T <=> n \in S)
  BY <1>1, <1>2
<1> QED
  BY <1>3, <1>4, MapAssigned

LEMMA MapWithValue ==
  ASSUME NEW S, OnePerKey(S), NEW k \in Keys, NEW v \in Values,
         NEW old \in S, old.key = k, NEW T, T = (S \ {old}) \cup {[key |-> k, value |-> v]}
  PROVE  MapOf(T) = Assign(MapOf(S), k, v)
<1> DEFINE new == [key |-> k, value |-> v]
<1>1. new \in Node /\ new.key = k /\ new.value = v
  BY DEF Node
<1> HIDE DEF new
<1>2. T = (S \ {old}) \cup {new}
  BY DEF new
<1>3. OnePerKey(T) /\ k \in KeysIn(T) /\ \A n \in T : n.key = k => n.value = v
  BY <1>1, <1>2 DEF OnePerKey, KeysIn
<1>4. \A n : n.key # k => (n \in T <=> n \in S)
  BY <1>1, <1>2
<1> QED
  BY <1>3, <1>4, MapAssigned

LEMMA MapWithoutKey ==
  ASSUME NEW S, OnePerKey(S), NEW k \in Keys,
         NEW old \in S, old.key = k, NEW T, T = S \ {old}
  PROVE  MapOf(T) = Assign(MapOf(S), k, Nil)
<1>1. OnePerKey(T) /\ \A n \in T : n.key # k
  BY DEF OnePerKey
<1>2. \A n : n.key # k => (n \in T <=> n \in S)
  OBVIOUS
<1> QED
  BY <1>1, <1>2, MapAssigned
-----------------------------------------------------------------------------
(* A step inside a method, before the call takes effect, is invisible.      *)
LEMMA InvisibleStep ==
  ASSUME IndInv, NEW t \in Threads, pc[t] \notin {"idle", "unlock"},
         NEW l \in Pcs \ {"idle", "unlock"}, pc' = [pc EXCEPT ![t] = l],
         UNCHANGED call, \A u \in Threads : u # t => ret'[u] = ret[u],
         Contents' = Contents
  PROVE  UNCHANGED Map!vars
<1>1. db' = db
  BY DEF db
<1>2. status' = status
  BY DEF status, IndInv, TypeOK
<1>3. seen' = seen
  BY DEF seen, IndInv, TypeOK
<1> QED
  BY <1>1, <1>2, <1>3 DEF Map!vars, seen

(* The step that sets the result is the one at which the call takes effect. *)
LEMMA VisibleStep ==
  ASSUME IndInv, NEW t \in Threads, pc[t] \notin {"idle", "unlock"},
         pc' = [pc EXCEPT ![t] = "unlock"], NEW v, ret'[t] = v,
         \A u \in Threads : u # t => ret'[u] = ret[u]
  PROVE  /\ status[t] = "pending"
         /\ status' = [status EXCEPT ![t] = "done"]
         /\ seen' = [seen EXCEPT ![t] = v]
<1>1. status[t] = "pending" /\ status' = [status EXCEPT ![t] = "done"]
  BY DEF status, IndInv, TypeOK
<1>2. seen' = [seen EXCEPT ![t] = v]
  BY DEF seen, IndInv, TypeOK
<1> QED
  BY <1>1, <1>2

(* The presence of a key, and the number of keys. *)
LEMMA PresentKeys ==
  ASSUME IndInv PROVE Map!Present = KeysIn(Contents)
  BY ContentsUnique, MapEntries DEF db, Map!Present

LEMMA InitRefines == Init => Map!Init
<1> SUFFICES ASSUME Init PROVE Map!Init
  OBVIOUS
<1>1. IndInv
  BY InitInv
<1>2. KeysIn(Contents) = {}
  <2>1. TableNodes(buckets) = {} /\ TableNodes(new_buckets) = {}
    BY CapacityAssumption, EmptyTableIsGood, NoTableIsGood DEF Init
  <2> QED
    BY <2>1 DEF Contents, KeysIn
<1>3. db = [k \in Keys |-> Nil]
  BY <1>2 DEF db, MapOf
<1>4. status = [t \in Threads |-> "idle"]
  BY DEF Init, status
<1>5. seen = [t \in Threads |-> Nil]
  BY DEF Init, seen
<1> QED
  BY <1>3, <1>4, <1>5 DEF Init, Map!Init, seen

(* What AtomicMap needs of the steps that change the contents. *)
LEMMA InsertRefines ==
  ASSUME IndInv, NEW t \in Threads, SetInsert(t) PROVE Map!Set(t)
<1> DEFINE k == call[t].key
           v == call[t].value
           new == [key |-> k, value |-> v]
<1>1. /\ pc[t] = "apply" /\ call[t].op = "set" /\ call' = call
      /\ pc' = [pc EXCEPT ![t] = "unlock"]
      /\ ret'[t] = TRUE /\ \A u \in Threads : u # t => ret'[u] = ret[u]
  BY DEF SetInsert, Applying, ReturnValue, Goto, IndInv, TypeOK
<1>2. k \in Keys /\ v \in Values
  BY <1>1, CallFields DEF IndInv, TypeOK
<1>3. k \notin KeysIn(Contents) /\ Contents' = Contents \cup {new}
  BY SetInsertInv
<1> HIDE DEF k, v
<1>4. db' = [db EXCEPT ![k] = v]
  <2>1. MapOf(Contents') = Assign(MapOf(Contents), k, v)
    BY <1>2, <1>3, ContentsUnique, MapWithNode
  <2> QED
    BY <2>1 DEF db, Assign
<1>5. (k \notin Map!Present) = TRUE
  BY <1>3, PresentKeys
<1>6. /\ status[t] = "pending" /\ status' = [status EXCEPT ![t] = "done"]
      /\ seen' = [seen EXCEPT ![t] = TRUE]
  BY <1>1, VisibleStep
<1> QED
  BY <1>1, <1>4, <1>5, <1>6 DEF Map!Set, Map!TakeEffect, seen, k, v

LEMMA UpdateRefines ==
  ASSUME IndInv, NEW t \in Threads, SetUpdate(t) PROVE Map!Set(t)
<1> DEFINE k == call[t].key
           v == call[t].value
           new == [key |-> k, value |-> v]
<1>1. /\ pc[t] = "apply" /\ call[t].op = "set" /\ call' = call
      /\ pc' = [pc EXCEPT ![t] = "unlock"]
      /\ ret'[t] = FALSE /\ \A u \in Threads : u # t => ret'[u] = ret[u]
  BY DEF SetUpdate, Applying, ReturnValue, Goto, IndInv, TypeOK
<1>2. k \in Keys /\ v \in Values
  BY <1>1, CallFields DEF IndInv, TypeOK
<1>3. PICK old \in Contents : old.key = k /\ Contents' = (Contents \ {old}) \cup {new}
  BY SetUpdateInv
<1> HIDE DEF k, v
<1>4. db' = [db EXCEPT ![k] = v]
  <2>1. MapOf(Contents') = Assign(MapOf(Contents), k, v)
    BY <1>2, <1>3, ContentsUnique, MapWithValue
  <2> QED
    BY <2>1 DEF db, Assign
<1>5. (k \notin Map!Present) = FALSE
  BY <1>3, PresentKeys DEF KeysIn
<1>6. /\ status[t] = "pending" /\ status' = [status EXCEPT ![t] = "done"]
      /\ seen' = [seen EXCEPT ![t] = FALSE]
  BY <1>1, VisibleStep
<1> QED
  BY <1>1, <1>4, <1>5, <1>6 DEF Map!Set, Map!TakeEffect, seen, k, v

LEMMA DelFoundRefines ==
  ASSUME IndInv, NEW t \in Threads, DelFound(t) PROVE Map!Del(t)
<1> DEFINE k == call[t].key
<1>1. /\ pc[t] = "apply" /\ call[t].op = "del" /\ call' = call
      /\ pc' = [pc EXCEPT ![t] = "unlock"]
      /\ ret'[t] = TRUE /\ \A u \in Threads : u # t => ret'[u] = ret[u]
  BY DEF DelFound, Applying, ReturnValue, Goto, IndInv, TypeOK
<1>2. k \in Keys
  BY <1>1, CallFields DEF IndInv, TypeOK
<1>3. PICK old \in Contents : old.key = k /\ Contents' = Contents \ {old}
  BY DelFoundInv
<1> HIDE DEF k
<1>4. db' = [db EXCEPT ![k] = Nil]
  <2>1. MapOf(Contents') = Assign(MapOf(Contents), k, Nil)
    BY <1>2, <1>3, ContentsUnique, MapWithoutKey
  <2> QED
    BY <2>1 DEF db, Assign
<1>5. (k \in Map!Present) = TRUE
  BY <1>3, PresentKeys DEF KeysIn
<1>6. /\ status[t] = "pending" /\ status' = [status EXCEPT ![t] = "done"]
      /\ seen' = [seen EXCEPT ![t] = TRUE]
  BY <1>1, VisibleStep
<1> QED
  BY <1>1, <1>4, <1>5, <1>6 DEF Map!Del, Map!TakeEffect, seen, k

LEMMA DelMissingRefines ==
  ASSUME IndInv, NEW t \in Threads, DelMissing(t) PROVE Map!Del(t)
<1> DEFINE k == call[t].key
<1>1. /\ pc[t] = "apply" /\ call[t].op = "del" /\ call' = call /\ node[t] = 0
      /\ pc' = [pc EXCEPT ![t] = "unlock"] /\ UNCHANGED table
      /\ ret'[t] = FALSE /\ \A u \in Threads : u # t => ret'[u] = ret[u]
  BY DEF DelMissing, Applying, ReturnValue, Goto, IndInv, TypeOK
<1>2. k \in Keys /\ k \notin KeysIn(Contents)
  <2>1. writer = t
    BY <1>1 DEF IndInv, LockInv, Holding, Exclusive
  <2>2. Contents = TableNodes(buckets)
    BY <1>1, <2>1, OneResizer, WholeContents
  <2> QED
    BY <1>1, <2>2, FoundNode DEF Searching
<1> HIDE DEF k
<1>3. db' = [db EXCEPT ![k] = Nil]
  <2>1. db' = db
    BY <1>1 DEF db, Contents, table
  <2>2. DOMAIN db = Keys /\ db[k] = Nil /\ db = [j \in Keys |-> db[j]]
    BY <1>2, ContentsUnique, MapEntries DEF db, MapOf
  <2> QED
    BY <2>1, <2>2
<1>4. (k \in Map!Present) = FALSE
  BY <1>2, PresentKeys
<1>5. /\ status[t] = "pending" /\ status' = [status EXCEPT ![t] = "done"]
      /\ seen' = [seen EXCEPT ![t] = FALSE]
  BY <1>1, VisibleStep
<1> QED
  BY <1>1, <1>3, <1>4, <1>5 DEF Map!Del, Map!TakeEffect, seen, k

(* While a thread is inside a method, and not itself in resize(), nobody    *)
(* else is in resize(): all the contents are in buckets_.                   *)
LEMMA InsideSeesAll ==
  ASSUME IndInv, NEW t \in Threads, Holding(t), pc[t] # "resize"
  PROVE  Contents = TableNodes(buckets)
<1>1. ASSUME NEW u \in Threads, pc[u] = "resize" PROVE FALSE
  <2>1. call[u].op \in Exclusive /\ Holding(u)
    BY <1>1 DEF IndInv, ThreadInv, PcInv, Exclusive, Holding
  <2>2. writer = u /\ readers = {} /\ u # t
    BY <1>1, <2>1, NoThreadAssumption DEF IndInv, LockInv
  <2> QED
    BY <2>2 DEF IndInv, LockInv
<1>2. new_buckets = <<>>
  BY <1>1 DEF IndInv, TableInv
<1> QED
  BY <1>2, WholeContents

LEMMA GetRefines ==
  ASSUME IndInv, NEW t \in Threads, Get(t) PROVE Map!Get(t)
<1> DEFINE k == call[t].key
           v == IF node[t] = 0 THEN Nil ELSE buckets[bucket[t]][node[t]].value
<1>1. /\ pc[t] = "apply" /\ call[t].op = "get" /\ call' = call /\ Holding(t)
      /\ pc' = [pc EXCEPT ![t] = "unlock"] /\ UNCHANGED table
      /\ ret'[t] = v /\ \A u \in Threads : u # t => ret'[u] = ret[u]
  BY DEF Get, Applying, ReturnValue, Goto, IndInv, TypeOK, Holding
<1>2. v = db[k]
  <2>1. Contents = TableNodes(buckets)
    BY <1>1, InsideSeesAll
  <2>2. OnePerKey(Contents)
    BY ContentsUnique
  <2>3. CASE node[t] = 0
    <3>1. k \in Keys /\ k \notin KeysIn(Contents)
      BY <1>1, <2>1, <2>3, FoundNode DEF Searching
    <3> QED
      BY <2>2, <2>3, <3>1, MapEntries DEF db
  <2>4. CASE node[t] # 0
    <3> DEFINE n == buckets[bucket[t]][node[t]]
    <3>1. n \in Contents /\ n.key = k
      BY <1>1, <2>1, <2>4, FoundNode DEF Searching
    <3> HIDE DEF n
    <3>2. MapOf(Contents)[n.key] = n.value
      BY <2>2, <3>1, MapEntries
    <3> QED
      BY <2>4, <3>1, <3>2 DEF db, n
  <2> QED
    BY <2>3, <2>4
<1>3. db' = db
  BY <1>1 DEF db, Contents, table
<1> HIDE DEF v
<1>4. /\ status[t] = "pending" /\ status' = [status EXCEPT ![t] = "done"]
      /\ seen' = [seen EXCEPT ![t] = v]
  BY <1>1, VisibleStep
<1> QED
  BY <1>1, <1>2, <1>3, <1>4 DEF Map!Get, Map!TakeEffect, seen

LEMMA ExistsRefines ==
  ASSUME IndInv, NEW t \in Threads, Exists(t) PROVE Map!Exists(t)
<1> DEFINE k == call[t].key
           v == node[t] # 0
<1>1. /\ pc[t] = "apply" /\ call[t].op = "exists" /\ call' = call /\ Holding(t)
      /\ pc' = [pc EXCEPT ![t] = "unlock"] /\ UNCHANGED table
      /\ ret'[t] = v /\ \A u \in Threads : u # t => ret'[u] = ret[u]
  BY DEF Exists, Applying, ReturnValue, Goto, IndInv, TypeOK, Holding
<1>2. v = (k \in Map!Present)
  <2>1. Contents = TableNodes(buckets)
    BY <1>1, InsideSeesAll
  <2>2. v <=> k \in KeysIn(Contents)
    BY <1>1, <2>1, FoundNode DEF Searching, KeysIn
  <2> QED
    BY <2>2, PresentKeys
<1>3. db' = db
  BY <1>1 DEF db, Contents, table
<1> HIDE DEF v
<1>4. /\ status[t] = "pending" /\ status' = [status EXCEPT ![t] = "done"]
      /\ seen' = [seen EXCEPT ![t] = v]
  BY <1>1, VisibleStep
<1> QED
  BY <1>1, <1>2, <1>3, <1>4 DEF Map!Exists, Map!TakeEffect, seen

LEMMA SizeRefines ==
  ASSUME IndInv, NEW t \in Threads, Size(t) PROVE Map!Size(t)
<1>1. /\ pc[t] = "apply" /\ call[t].op = "size" /\ call' = call
      /\ pc' = [pc EXCEPT ![t] = "unlock"] /\ UNCHANGED table
      /\ ret'[t] = size /\ \A u \in Threads : u # t => ret'[u] = ret[u]
  BY DEF Size, Applying, ReturnValue, Goto, IndInv, TypeOK
<1>2. size = Cardinality(Map!Present)
  BY PresentKeys DEF IndInv, TableInv, StructureOK
<1>3. db' = db
  BY <1>1 DEF db, Contents, table
<1>4. /\ status[t] = "pending" /\ status' = [status EXCEPT ![t] = "done"]
      /\ seen' = [seen EXCEPT ![t] = size]
  BY <1>1, VisibleStep
<1>5. Map!Cardinality(Map!Present) = Cardinality(Map!Present)
  BY DEF Map!Cardinality, Cardinality
<1> QED
  BY <1>1, <1>2, <1>3, <1>4, <1>5 DEF Map!Size, Map!TakeEffect, seen

LEMMA ClearRefines ==
  ASSUME IndInv, NEW t \in Threads, Clear(t) PROVE Map!Clear(t)
<1>1. /\ pc[t] = "apply" /\ call[t].op = "clear" /\ call' = call
      /\ pc' = [pc EXCEPT ![t] = "unlock"]
      /\ ret'[t] = Nil /\ \A u \in Threads : u # t => ret'[u] = ret[u]
  BY DEF Clear, Applying, ReturnValue, Goto, IndInv, TypeOK
<1>2. db' = [k \in Keys |-> Nil]
  <2>1. Contents' = {}
    BY ClearInv
  <2> QED
    BY <2>1 DEF db, MapOf, KeysIn
<1>3. /\ status[t] = "pending" /\ status' = [status EXCEPT ![t] = "done"]
      /\ seen' = [seen EXCEPT ![t] = Nil]
  BY <1>1, VisibleStep
<1> QED
  BY <1>1, <1>2, <1>3 DEF Map!Clear, Map!TakeEffect, seen

(* At the end of its walk keys() has seen every bucket, and no bucket has   *)
(* changed since it began.                                                  *)
LEMMA ScanDoneRefines ==
  ASSUME IndInv, NEW t \in Threads, ScanDone(t) PROVE Map!MatchingKeys(t)
<1>1. /\ pc[t] = "scan" /\ call[t].op = "keys" /\ call' = call /\ Holding(t)
      /\ pc' = [pc EXCEPT ![t] = "unlock"] /\ UNCHANGED table /\ ret' = ret
      /\ bucket[t] \notin DOMAIN buckets /\ bucket[t] \in Nat /\ bucket[t] # 0
      /\ ret[t] = ScannedKeys(t)
  BY DEF ScanDone, Goto, IndInv, TypeOK, ThreadInv, PcInv, ScanInv, Holding, locals
<1>2. ret[t] = Map!Present \cap call[t].match
  <2>1. DOMAIN buckets = 1..Len(buckets) /\ Len(buckets) \in Nat
    BY ChainsOfTable DEF IndInv, TypeOK
  <2>2. \A b \in DOMAIN buckets : b < bucket[t]
    BY <1>1, <2>1
  <2>3. \A k : k \in KeysIn(TableNodes(buckets)) <=>
               \E b \in DOMAIN buckets : k \in KeysIn(ToSet(buckets[b]))
    BY DEF KeysIn, TableNodes
  <2>4. ScannedKeys(t) = KeysIn(TableNodes(buckets)) \cap call[t].match
    BY <2>2, <2>3 DEF ScannedKeys
  <2>5. Contents = TableNodes(buckets)
    BY <1>1, InsideSeesAll
  <2> QED
    BY <1>1, <2>4, <2>5, PresentKeys
<1>3. db' = db
  BY <1>1 DEF db, Contents, table
<1>4. /\ status[t] = "pending" /\ status' = [status EXCEPT ![t] = "done"]
      /\ seen' = [seen EXCEPT ![t] = ret[t]]
  BY <1>1, VisibleStep
<1> QED
  BY <1>1, <1>2, <1>3, <1>4 DEF Map!MatchingKeys, Map!TakeEffect, seen

LEMMA CallRefines ==
  ASSUME IndInv, NEW t \in Threads, Call(t) PROVE Map!Invoke(t)
<1>1. /\ pc[t] = "idle" /\ pc' = [pc EXCEPT ![t] = "lock"] /\ ret' = ret /\ UNCHANGED table
      /\ \E c \in AllCalls : call' = [call EXCEPT ![t] = c]
  BY DEF Call, Goto, locals
<1>2. db' = db
  BY <1>1 DEF db, Contents, table
<1>3. status[t] = "idle" /\ status' = [status EXCEPT ![t] = "pending"] /\ seen' = seen
  BY <1>1 DEF status, seen, IndInv, TypeOK
<1>4. Map!AllCalls = AllCalls
  BY DEF Map!AllCalls, AllCalls, Map!SetCalls, SetCalls, Map!KeyCalls, KeyCalls,
         Map!KeysCalls, KeysCalls, Map!GlobalCalls, GlobalCalls
<1> QED
  BY <1>1, <1>2, <1>3, <1>4 DEF Map!Invoke, seen

LEMMA UnlockRefines ==
  ASSUME IndInv, NEW t \in Threads, Unlock(t) PROVE Map!Return(t)
<1>1. /\ pc[t] = "unlock" /\ pc' = [pc EXCEPT ![t] = "idle"] /\ UNCHANGED table
      /\ call' = [call EXCEPT ![t] = Nil] /\ ret' = [ret EXCEPT ![t] = Nil]
  BY DEF Unlock, Goto
<1>2. db' = db
  BY <1>1 DEF db, Contents, table
<1>3. /\ status[t] = "done" /\ status' = [status EXCEPT ![t] = "idle"]
      /\ seen' = [seen EXCEPT ![t] = Nil]
  BY <1>1 DEF status, seen, IndInv, TypeOK
<1> QED
  BY <1>1, <1>2, <1>3 DEF Map!Return, seen
-----------------------------------------------------------------------------
(* The steps of a method before the one that sets its result: taking the    *)
(* lock, testing the load, every step of resize(), the search, and every    *)
(* bucket of the walk but the end of it.                                    *)
LEMMA QuietStep ==
  ASSUME IndInv, NEW t \in Threads, Lock(t) \/ Resize(t) \/ Find(t) \/ ScanBucket(t)
  PROVE  UNCHANGED Map!vars
<1> DEFINE Quiet == /\ pc[t] \notin {"idle", "unlock"}
                    /\ \E l \in Pcs \ {"idle", "unlock"} : pc' = [pc EXCEPT ![t] = l]
                    /\ UNCHANGED call
                    /\ \A u \in Threads : u # t => ret'[u] = ret[u]
                    /\ Contents' = Contents
<1>1. CASE Lock(t)
  <2>1. pc[t] = "lock" /\ call[t] \in AllCalls
    BY <1>1 DEF Lock, LockExclusive, LockShared, IndInv, TypeOK
  <2>2. Entry[call[t].op] \in Pcs \ {"idle", "unlock"}
    BY <2>1 DEF AllCalls, SetCalls, KeyCalls, KeysCalls, GlobalCalls, Entry, Pcs
  <2>3. Quiet
    BY <1>1, <2>1, <2>2 DEF Lock, LockExclusive, LockShared, Goto, IndInv, TypeOK,
                            locals, table, Contents
  <2> QED
    BY <2>3, InvisibleStep
<1>2. CASE SkipResize(t) \/ NextBucket(t) \/ Find(t) \/ ScanBucket(t)
  <2>1. pc = [pc EXCEPT ![t] = pc[t]]
    BY DEF IndInv, TypeOK
  <2>2. Quiet
    BY <1>2, <2>1 DEF SkipResize, NextBucket, Find, ScanBucket, Goto, IndInv, TypeOK,
                      locals, table, Contents, Pcs
  <2> QED
    BY <2>2, InvisibleStep
<1>3. CASE StartResize(t) \/ MoveNode(t) \/ FinishResize(t)
  <2>1. pc = [pc EXCEPT ![t] = pc[t]]
    BY DEF IndInv, TypeOK
  <2>2. Contents' = Contents
    BY <1>3, StartResizeInv, MoveNodeInv, FinishResizeInv
  <2>3. Quiet
    BY <1>3, <2>1, <2>2 DEF StartResize, MoveNode, FinishResize, Goto, IndInv, TypeOK,
                            locals, Pcs
  <2> QED
    BY <2>3, InvisibleStep
<1> QED
  BY <1>1, <1>2, <1>3 DEF Resize

LEMMA NextRefines == IndInv /\ [Next]_vars => [Map!Next]_(Map!vars)
<1> SUFFICES ASSUME IndInv, [Next]_vars PROVE [Map!Next]_(Map!vars)
  OBVIOUS
<1>1. ASSUME NEW t \in Threads, Call(t) PROVE Map!Next
  BY <1>1, CallRefines DEF Map!Next
<1>2. ASSUME NEW t \in Threads, Apply(t) PROVE Map!Next
  <2>1. Map!Perform(t)
    BY <1>2, InsertRefines, UpdateRefines, GetRefines, DelMissingRefines, DelFoundRefines,
       ExistsRefines, ClearRefines, SizeRefines DEF Apply, Map!Perform
  <2> QED
    BY <2>1 DEF Map!Next
<1>3. ASSUME NEW t \in Threads, ScanDone(t) PROVE Map!Next
  BY <1>3, ScanDoneRefines DEF Map!Next, Map!Perform
<1>4. ASSUME NEW t \in Threads, Unlock(t) PROVE Map!Next
  BY <1>4, UnlockRefines DEF Map!Next
<1>5. CASE UNCHANGED vars
  <2>1. db' = db /\ status' = status /\ seen' = seen /\ call' = call
    BY <1>5 DEF vars, db, Contents, status, seen
  <2> QED
    BY <2>1 DEF Map!vars, seen
<1> QED
  BY <1>1, <1>2, <1>3, <1>4, <1>5, QuietStep DEF Next, Body, Scan

(* Refinement: ConcurrentHashTable implements AtomicMap, for every set of   *)
(* threads, keys and values, every hash function and initial capacity.      *)
THEOREM Refinement == Spec => Linearizable
  BY InitRefines, NextRefines, Invariance, PTL DEF Spec, Linearizable, Map!Spec
=============================================================================
