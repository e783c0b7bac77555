----------------------------- MODULE SortedSet -----------------------------
(* The sorted set of data/sorted_set.cpp: an AVL tree of (score, member)    *)
(* entries and a map of scores, changed by threads. Every function takes    *)
(* the set's mutex once and keeps it to its end, so one of those is one     *)
(* step, except: zadd_multi and zrem_multi take it anew for each item, and  *)
(* zrevrank takes it for the rank and then reads size_ without it. size_ is *)
(* written once in each locked region, so an unlocked read sees its value   *)
(* before or after that step.                                               *)
(* Members are numbers in the order of the strings: EmptyString first.      *)
EXTENDS AVLTree, SequencesExt

CONSTANTS Threads,    \* callers of one set
          Members,    \* the members they name, numbers
          Scores,     \* the scores they give, numbers and perhaps NaN
          Items,      \* argument lists of zadd_multi
          MemberLists,\* argument lists of zrem_multi
          MaxString   \* the place of the string "\xff" among the members

ASSUME MembersAreNamed == Members \subseteq Nat /\ MaxString \in Nat
ASSUME ListsAreNotEmpty == <<>> \notin Items \cup MemberLists

EmptyString == 0

NoRank == -2          \* the empty optional

VARIABLES set,    \* the object: tree_, scores_, size_
          call,   \* what a thread is in the middle of
          told    \* members callers were told they added, less those they
                  \* were told they removed and those clear dropped

vars == <<set, call, told>>

-----------------------------------------------------------------------------
(* The functions that run under one hold of the mutex, on the object.       *)
EmptySet == [tree |-> EmptyTree, scores |-> <<>>, size |-> 0]

Has(s, m) == m \in DOMAIN s.scores

EntryOf(s, m) == Entry(s.scores[m], m)

Scored(scores, m, score) ==
  [x \in DOMAIN scores \cup {m} |-> IF x = m THEN score ELSE scores[x]]

\* Mutant: the entry with the old score stays in the tree.
zaddOverOld(s, m, score) ==
  [set |-> [tree   |-> insert(s.tree, Entry(score, m)),
            scores |-> Scored(s.scores, m, score),
            size   |-> s.size + IF Has(s, m) THEN 0 ELSE 1],
   ret |-> IF Has(s, m) THEN 0 ELSE 1]

\* Mutant: an update is reported as an addition.
zaddTellsOne(s, m, score) ==
  [set |-> [tree   |-> insert(IF Has(s, m) THEN remove(s.tree, EntryOf(s, m)) ELSE s.tree,
                              Entry(score, m)),
            scores |-> Scored(s.scores, m, score),
            size   |-> s.size + IF Has(s, m) THEN 0 ELSE 1],
   ret |-> 1]

zadd(s, m, score) ==
  LET cleared == IF Has(s, m) THEN remove(s.tree, EntryOf(s, m)) ELSE s.tree
      new     == IF Has(s, m) THEN 0 ELSE 1
  IN [set |-> [tree   |-> insert(cleared, Entry(score, m)),
               scores |-> Scored(s.scores, m, score),
               size   |-> s.size + new],
      ret |-> new]

zrem(s, m) ==
  IF ~Has(s, m) THEN [set |-> s, ret |-> 0]
  ELSE [set |-> [tree   |-> remove(s.tree, EntryOf(s, m)),
                 scores |-> Restrict(s.scores, DOMAIN s.scores \ {m}),
                 size   |-> s.size - 1],
        ret |-> 1]

zscore(s, m) == IF Has(s, m) THEN {s.scores[m]} ELSE {}

zrank(s, m) == IF Has(s, m) THEN rank(s.tree, EntryOf(s, m)) ELSE NoRank

\* Mutant: index -1 is taken for the last but one.
IndexFromLast(s, index) == IF index < 0 THEN s.size - 1 + index ELSE index

normalize_index(s, index) == IF index < 0 THEN s.size + index ELSE index

(* Results are (member, score) pairs, the scores 0 unless they are asked for.*)
Formatted(entries, withScores) ==
  [i \in DOMAIN entries |->
     <<entries[i].member, IF withScores THEN entries[i].score ELSE 0>>]

zrange(s, from, to, withScores) ==
  LET start == Max({normalize_index(s, from), 0})
      stop  == Min({normalize_index(s, to), s.size - 1})
      all   == inorder(s.tree)
  IN IF s.size = 0 \/ start > stop THEN <<>>
     ELSE Formatted(SubSeq(all, start + 1, Min({stop + 1, Len(all)})), withScores)

zrevrange(s, from, to, withScores) == Reverse(zrange(s, from, to, withScores))

zrangebyscore(s, min, max, withScores) ==
  LET entries == range(s.tree, Entry(min, EmptyString), Entry(max, MaxString))
      Kept(e) == e.score # NaN /\ e.score >= min /\ e.score <= max
  IN Formatted(SelectSeq(entries, Kept), withScores)

zcount(s, min, max) == Len(zrangebyscore(s, min, max, FALSE))

zcard(s) == s.size

(* avg_score is the sum over the count: the record keeps the sum.           *)
get_stats(s) ==
  LET all == inorder(s.tree) IN
  [total_members |-> s.size,
   tree_height   |-> height(s.tree),
   min_score     |-> IF s.size = 0 THEN 0 ELSE all[1].score,
   max_score     |-> IF s.size = 0 THEN 0 ELSE all[Len(all)].score,
   sum           |-> IF s.size = 0 THEN 0
                     ELSE FoldFunction(LAMBDA e, n : e.score + n, 0, all)]

-----------------------------------------------------------------------------
(* The threads.                                                             *)
Idle == [op |-> "idle"]

Init ==
  /\ set = EmptySet
  /\ call = [t \in Threads |-> Idle]
  /\ told = 0

ZAdd(t) ==
  /\ call[t] = Idle
  /\ \E m \in Members, score \in Scores :
       LET r == zadd(set, m, score) IN set' = r.set /\ told' = told + r.ret
  /\ UNCHANGED call

ZRem(t) ==
  /\ call[t] = Idle
  /\ \E m \in Members :
       LET r == zrem(set, m) IN set' = r.set /\ told' = told - r.ret
  /\ UNCHANGED call

Clear(t) ==
  /\ call[t] = Idle
  /\ set' = EmptySet
  /\ told' = told - set.size
  /\ UNCHANGED call

(* zadd_multi and zrem_multi: an item at a time, each under its own lock;   *)
(* the last one is followed by the return. An empty list changes nothing.   *)
InMulti(t, op, todo, count) ==
  call' = [call EXCEPT ![t] = IF todo = <<>> THEN Idle
                              ELSE [op |-> op, todo |-> todo, count |-> count]]

AddItem(t, todo, count) ==
  LET r == zadd(set, Head(todo)[1], Head(todo)[2]) IN
  /\ set' = r.set
  /\ InMulti(t, "zadd_multi", Tail(todo), count + r.ret)
  /\ told' = IF Tail(todo) = <<>> THEN told + count + r.ret ELSE told

RemItem(t, todo, count) ==
  LET r == zrem(set, Head(todo)) IN
  /\ set' = r.set
  /\ InMulti(t, "zrem_multi", Tail(todo), count + r.ret)
  /\ told' = IF Tail(todo) = <<>> THEN told - count - r.ret ELSE told

ZAddMulti(t) == call[t] = Idle /\ \E items \in Items : AddItem(t, items, 0)

ZAddNext(t) == call[t].op = "zadd_multi" /\ AddItem(t, call[t].todo, call[t].count)

ZRemMulti(t) == call[t] = Idle /\ \E members \in MemberLists : RemItem(t, members, 0)

ZRemNext(t) == call[t].op = "zrem_multi" /\ RemItem(t, call[t].todo, call[t].count)

(* zrevrank: the rank under the lock, then size_ without it. For a member   *)
(* that is not there it returns nullopt at once and changes nothing.        *)
ZRevRank(t) ==
  /\ call[t] = Idle
  /\ \E m \in Members :
       /\ zrank(set, m) # NoRank
       /\ call' = [call EXCEPT ![t] = [op |-> "zrevrank", rank |-> zrank(set, m)]]
  /\ UNCHANGED <<set, told>>

RevRank(s, ascending) == s.size - 1 - ascending

ZRevRankReturn(t) ==
  /\ call[t].op = "zrevrank"
  /\ call' = [call EXCEPT ![t] = Idle]   \* returning RevRank(set, call[t].rank)
  /\ UNCHANGED <<set, told>>

Next ==
  \E t \in Threads :
    \/ ZAdd(t) \/ ZRem(t) \/ Clear(t)
    \/ ZAddMulti(t) \/ ZAddNext(t) \/ ZRemMulti(t) \/ ZRemNext(t)
    \/ ZRevRank(t) \/ ZRevRankReturn(t)

Spec == Init /\ [][Next]_vars

-----------------------------------------------------------------------------
(* Properties.                                                              *)
Entries == {EntryOf(set, m) : m \in DOMAIN set.scores}

(* A sequence that holds just the entries of a set, each once, ascending.   *)
Lists(seq, S) ==
  /\ Len(seq) = Cardinality(S)
  /\ Range(seq) = S
  /\ \A i \in 1 .. Len(seq) - 1 : comp(seq[i], seq[i + 1])

Pairs(seq) == [i \in DOMAIN seq |-> Entry(seq[i][2], seq[i][1])]

(* After any sequence of insertions, updates and removals the tree is an    *)
(* AVL tree: every stored height is the height, and siblings differ by at   *)
(* most one. Removal rotates by the children's balance and insertion by the *)
(* key, so each has its own way to get this wrong.                          *)
Balanced ==
  \A node \in Nodes(set.tree.root) :
    /\ node.height = TrueHeight(node)
    /\ TrueHeight(node.left) - TrueHeight(node.right) \in -1 .. 1

(* The two structures and the two counters agree: the tree lists exactly    *)
(* the entries of scores_, in order, with the scores zscore looks up, and   *)
(* tree_.size_ and size_ count them.                                        *)
Indexed ==
  /\ Lists(inorder(set.tree), Entries)
  /\ \A e \in Range(inorder(set.tree)) : zscore(set, e.member) = {e.score}
  /\ set.tree.size = Cardinality(Entries)
  /\ set.size = Cardinality(Entries)

(* zrank is the number of smaller entries, and zrevrank that of the greater *)
(* ones when nobody changes the set between its two reads.                  *)
Ranks ==
  LET entries == Entries IN
  \A e \in entries :
    /\ zrank(set, e.member) = Cardinality({f \in entries : comp(f, e)})
    /\ RevRank(set, zrank(set, e.member)) = Cardinality({f \in entries : comp(e, f)})

(* zrange(start, stop) lists the entries whose rank lies between them, a    *)
(* negative index counting from the end, in order, for indices before, at   *)
(* and after both ends of the set; zrevrange lists the same from the last   *)
(* to the first.                                                            *)
RankRanges ==
  LET entries == Entries
      n == Cardinality(entries)
      position == [e \in entries |-> Cardinality({f \in entries : comp(f, e)})]
      From(i, k) == IF i < 0 THEN k - n >= i ELSE k >= i
      UpTo(i, k) == IF i < 0 THEN k - n <= i ELSE k <= i
  IN \A start, stop \in {-(n + 1), -n, -2, -1, 0, 1, n - 1, n} :
       LET within == {e \in entries : From(start, position[e]) /\ UpTo(stop, position[e])}
       IN  /\ Lists(Pairs(zrange(set, start, stop, TRUE)), within)
           /\ Lists(Reverse(Pairs(zrevrange(set, start, stop, TRUE))), within)

(* zrangebyscore(min, max) lists the members with a score between them, both*)
(* included, and zcount counts them, except for members that sort after the *)
(* string "\xff": the made-up upper bound cuts those off at the score max,  *)
(* and only there, although the header calls both bounds inclusive.         *)
ScoreRanges ==
  \A min, max \in Scores \ {NaN} :
    LET Under(e) == e.score < max \/ (e.score = max /\ e.member <= MaxString)
        within   == {e \in Entries : e.score # NaN /\ min <= e.score /\ Under(e)}
    IN  /\ Lists(Pairs(zrangebyscore(set, min, max, TRUE)), within)
        /\ zcount(set, min, max) = Cardinality(within)

(* get_stats agrees with scores_: the extremes and the sum of the scores.   *)
StatsAgree ==
  LET stats == get_stats(set)
      values == Range(set.scores)
  IN  /\ stats.sum = MapThenSumSet(LAMBDA m : set.scores[m], DOMAIN set.scores)
      /\ values # {} => stats.min_score = Min(values) /\ stats.max_score = Max(values)

(* What the reading functions return by rank, by score and in total is what *)
(* a scan of scores_ would give, after every history, but for the members   *)
(* that score ranges leave out (SortedSet::zrange, zrevrange, zrangebyscore,*)
(* zcount and get_stats): those above "\xff" with the upper bound's score.  *)
Ranges == RankRanges /\ ScoreRanges /\ StatsAgree

(* What callers are told adds up, whoever runs between the items of a multi *)
(* call: additions reported, less removals reported and members dropped by  *)
(* clear, with the counts of unfinished calls, are the members there.       *)
Accounted ==
  LET Running(t) == IF call[t].op = "zadd_multi" THEN call[t].count
                    ELSE IF call[t].op = "zrem_multi" THEN -call[t].count ELSE 0
  IN told + MapThenSumSet(Running, Threads) = set.size
=============================================================================
