------------------------------ MODULE AVLTree ------------------------------
(* The self-balancing search tree of data/avl_tree.hpp, as operators from   *)
(* tree to tree. A node is a record; Nil is the null NodePtr. The tree is   *)
(* AVLTree<SortedSetEntry, bool>, and its only value is the constant true,  *)
(* so nodes carry a key and no value. The code rewrites nodes in place;     *)
(* every node has one parent, so a new record for the node is the same.     *)
(* The operators are RECURSIVE as the functions are: for TLC only.          *)
EXTENDS Integers, Sequences, FiniteSetsExt

CONSTANTS Nil,   \* the null NodePtr
          NaN    \* the score that compares with nothing, itself included

(* SortedSetEntry::operator<: by score, then by member. NaN is neither      *)
(* below nor above any score, and score != other.score holds of two NaNs.   *)
Entry(score, member) == [score |-> score, member |-> member]

Below(s1, s2) == s1 # NaN /\ s2 # NaN /\ s1 < s2

comp(a, b) ==
  IF a.score = NaN \/ b.score = NaN \/ a.score # b.score
  THEN Below(a.score, b.score)
  ELSE a.member < b.member

Node(key) == [key |-> key, height |-> 1, left |-> Nil, right |-> Nil]

-----------------------------------------------------------------------------
(* Heights and rotations.                                                   *)
getHeight(node) == IF node = Nil THEN 0 ELSE node.height

getBalance(node) ==
  IF node = Nil THEN 0 ELSE getHeight(node.left) - getHeight(node.right)

updateHeight(node) ==
  [node EXCEPT !.height = 1 + Max({getHeight(node.left), getHeight(node.right)})]

rotateRight(y) ==
  LET x == y.left IN
  updateHeight([x EXCEPT !.right = updateHeight([y EXCEPT !.left = x.right])])

rotateLeft(x) ==
  LET y == x.right IN
  updateHeight([y EXCEPT !.left = updateHeight([x EXCEPT !.right = y.left])])

-----------------------------------------------------------------------------
(* Insertion: down by comparisons, then each node on the way back gets its  *)
(* height and, out of balance, the rotation its children and key call for.  *)
InsertRotated(node, key) ==
  LET balance == getBalance(node) IN
  CASE balance > 1 /\ comp(key, node.left.key)   -> rotateRight(node)
    [] balance < -1 /\ comp(node.right.key, key) -> rotateLeft(node)
    [] balance > 1 /\ comp(node.left.key, key)   ->
         rotateRight([node EXCEPT !.left = rotateLeft(@)])
    [] balance < -1 /\ comp(key, node.right.key) ->
         rotateLeft([node EXCEPT !.right = rotateRight(@)])
    [] OTHER -> node

RECURSIVE insertNode(_, _)
insertNode(node, key) ==
  CASE node = Nil           -> Node(key)
    [] node # Nil /\ comp(key, node.key) ->
         InsertRotated(updateHeight([node EXCEPT !.left = insertNode(@, key)]), key)
    [] node # Nil /\ comp(node.key, key) ->
         InsertRotated(updateHeight([node EXCEPT !.right = insertNode(@, key)]), key)
    [] OTHER                -> node   \* the key is there: only its value is set

-----------------------------------------------------------------------------
(* Removal: a node with two children takes the least key to its right,      *)
(* which is then removed there; rotations go by the children's balance.     *)
RECURSIVE findMin(_)
findMin(node) == IF node.left = Nil THEN node ELSE findMin(node.left)

\* Mutant: a child that leans the other way is not turned first.
RemoveRotatedOnce(node) ==
  CASE getBalance(node) > 1  -> rotateRight(node)
    [] getBalance(node) < -1 -> rotateLeft(node)
    [] OTHER -> node

RemoveRotated(node) ==
  LET balance == getBalance(node) IN
  CASE balance > 1 /\ getBalance(node.left) >= 0   -> rotateRight(node)
    [] balance > 1 /\ getBalance(node.left) < 0    ->
         rotateRight([node EXCEPT !.left = rotateLeft(@)])
    [] balance < -1 /\ getBalance(node.right) <= 0 -> rotateLeft(node)
    [] balance < -1 /\ getBalance(node.right) > 0  ->
         rotateLeft([node EXCEPT !.right = rotateRight(@)])
    [] OTHER -> node

RECURSIVE removeNode(_, _)
removeNode(node, key) ==
  CASE node = Nil -> Nil
    [] node # Nil /\ comp(key, node.key) ->
         RemoveRotated(updateHeight([node EXCEPT !.left = removeNode(@, key)]))
    [] node # Nil /\ comp(node.key, key) ->
         RemoveRotated(updateHeight([node EXCEPT !.right = removeNode(@, key)]))
    [] OTHER ->
         CASE node.left = Nil -> node.right
           [] node.left # Nil /\ node.right = Nil -> node.left
           [] OTHER ->
                LET next == findMin(node.right).key IN
                RemoveRotated(updateHeight(
                  [node EXCEPT !.key = next, !.right = removeNode(@, next)]))

-----------------------------------------------------------------------------
(* Queries.                                                                 *)
RECURSIVE findNode(_, _)
findNode(node, key) ==
  CASE node = Nil -> Nil
    [] node # Nil /\ comp(key, node.key) -> findNode(node.left, key)
    [] node # Nil /\ comp(node.key, key) -> findNode(node.right, key)
    [] OTHER -> node

RECURSIVE inorderTraversal(_)
inorderTraversal(node) ==
  IF node = Nil THEN <<>>
  ELSE inorderTraversal(node.left) \o <<node.key>> \o inorderTraversal(node.right)

RECURSIVE rangeQuery(_, _, _)
rangeQuery(node, start, end) ==
  CASE node = Nil -> <<>>
    [] node # Nil /\ ~comp(node.key, start) /\ ~comp(end, node.key) ->
         rangeQuery(node.left, start, end) \o <<node.key>>
           \o rangeQuery(node.right, start, end)
    [] node # Nil /\ comp(node.key, start) -> rangeQuery(node.right, start, end)
    [] OTHER -> rangeQuery(node.left, start, end)

RECURSIVE getSubtreeSize(_)
getSubtreeSize(node) ==
  IF node = Nil THEN 0
  ELSE 1 + getSubtreeSize(node.left) + getSubtreeSize(node.right)

\* Mutant: the node itself is not counted among the smaller ones.
RECURSIVE RankWithoutNode(_, _)
RankWithoutNode(node, key) ==
  CASE node = Nil -> -1
    [] node # Nil /\ comp(key, node.key) -> RankWithoutNode(node.left, key)
    [] node # Nil /\ comp(node.key, key) ->
         LET rightRank == RankWithoutNode(node.right, key) IN
         IF rightRank = -1 THEN -1 ELSE getSubtreeSize(node.left) + rightRank
    [] OTHER -> getSubtreeSize(node.left)

RECURSIVE getRank(_, _)
getRank(node, key) ==
  CASE node = Nil -> -1
    [] node # Nil /\ comp(key, node.key) -> getRank(node.left, key)
    [] node # Nil /\ comp(node.key, key) ->
         LET rightRank == getRank(node.right, key) IN
         IF rightRank = -1 THEN -1 ELSE getSubtreeSize(node.left) + 1 + rightRank
    [] OTHER -> getSubtreeSize(node.left)

-----------------------------------------------------------------------------
(* The AVLTree object: its root and its own count of keys. The flags        *)
(* inserted and removed are set where findNode's descent ends: in null, or  *)
(* in a node with the key.                                                  *)
EmptyTree == [root |-> Nil, size |-> 0]

insert(tree, key) ==
  [root |-> insertNode(tree.root, key),
   size |-> tree.size + IF findNode(tree.root, key) = Nil THEN 1 ELSE 0]

remove(tree, key) ==
  [root |-> removeNode(tree.root, key),
   size |-> tree.size - IF findNode(tree.root, key) # Nil THEN 1 ELSE 0]

inorder(tree) == inorderTraversal(tree.root)

range(tree, start, end) == rangeQuery(tree.root, start, end)

rank(tree, key) == getRank(tree.root, key)

height(tree) == getHeight(tree.root)

-----------------------------------------------------------------------------
(* The nodes of a tree, and the height its shape has, for the properties.   *)
RECURSIVE Nodes(_)
Nodes(node) == IF node = Nil THEN {} ELSE {node} \cup Nodes(node.left) \cup Nodes(node.right)

RECURSIVE TrueHeight(_)
TrueHeight(node) ==
  IF node = Nil THEN 0 ELSE 1 + Max({TrueHeight(node.left), TrueHeight(node.right)})
=============================================================================
