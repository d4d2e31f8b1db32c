---------------------------- MODULE SearchTrees ----------------------------
(***************************************************************************)
(* The binary search tree and the AVL tree of data-structures/lab_5, under *)
(* the instructions of BSTPathTest.cpp and AVLPathTest.cpp.  A tree is a   *)
(* value; the nodes in memory are counted, as a destructor deletes the     *)
(* children that are still linked.                                         *)
(***************************************************************************)
EXTENDS Integers, Sequences, FiniteSets

CONSTANT Word   \* ordered: a set of integers stands for the words

VARIABLES
  bst, bstNodes,   \* the tree, and the BinaryNodes that are allocated
  avl, avlNodes    \* the same for AVLNodes

vars == <<bst, bstNodes, avl, avlNodes>>

NULL == [height |-> -1]
Node(left, x, right, h) == [left |-> left, value |-> x, right |-> right, height |-> h]
Leaf(x) == Node(NULL, x, NULL, 0)

RECURSIVE numNodes(_)
numNodes(n) == IF n = NULL THEN 0 ELSE 1 + numNodes(n.left) + numNodes(n.right)

RECURSIVE find(_, _)
find(n, x) ==
  /\ n # NULL
  /\ CASE x < n.value -> find(n.left, x)
       [] x > n.value -> find(n.right, x)
       [] OTHER -> TRUE

RECURSIVE PathIn(_, _)
PathIn(n, x) == CASE x < n.value -> <<n.value>> \o PathIn(n.left, x)
                  [] x > n.value -> <<n.value>> \o PathIn(n.right, x)
                  [] OTHER -> <<n.value>>

pathTo(root, x) == IF find(root, x) THEN PathIn(root, x) ELSE << >>

\* min, of a tree that is not empty
RECURSIVE Least(_)
Least(n) == IF n.left = NULL THEN n.value ELSE Least(n.left)

-----------------------------------------------------------------------------
(* BinarySearchTree.cpp: its nodes have no height, which stays 0. *)

RECURSIVE InsertBelow(_, _)
InsertBelow(n, x) ==
  CASE x < n.value -> [n EXCEPT !.left = IF @ = NULL THEN Leaf(x) ELSE InsertBelow(@, x)]
    [] x > n.value -> [n EXCEPT !.right = IF @ = NULL THEN Leaf(x) ELSE InsertBelow(@, x)]
    [] OTHER -> n

BstInsert(root, x) == IF root = NULL THEN Leaf(x) ELSE InsertBelow(root, x)

\* Mutant of Deleted: the pointer is not cleared.
DeletedBelow(n) == numNodes(n)

\* delete n, when it is replaced by what hangs below it: how many nodes go.  The pointer
\* to the only child is cleared first, so that the child is spared.
Deleted(n) == numNodes(Node(NULL, n.value, NULL, 0))

\* remove: the tree that is left, and how many nodes were deleted
RECURSIVE BstRemove(_, _)
BstRemove(n, x) ==
  LET On(side, y) == LET r == BstRemove(n[side], y) IN <<[n EXCEPT ![side] = r[1]], r[2]>>
  IN CASE n = NULL -> <<NULL, 0>>
       [] n # NULL /\ x = n.value ->
            IF n.left = NULL THEN <<n.right, Deleted(n)>>
            ELSE IF n.right = NULL THEN <<n.left, Deleted(n)>>
            ELSE LET least == Least(n.right)
                     r == BstRemove(n.right, least)
                 IN <<[n EXCEPT !.value = least, !.right = r[1]], r[2]>>
       [] n # NULL /\ x < n.value -> On("left", x)
       [] n # NULL /\ x > n.value -> On("right", x)

-----------------------------------------------------------------------------
(* AVLTree.cpp *)

WithHeight(n) ==
  [n EXCEPT !.height = 1 + (IF n.left.height > n.right.height THEN n.left.height ELSE n.right.height)]

rotateLeft(n) == LET child == n.right IN
  WithHeight([child EXCEPT !.left = WithHeight([n EXCEPT !.right = child.left])])
rotateRight(n) == LET child == n.left IN
  WithHeight([child EXCEPT !.right = WithHeight([n EXCEPT !.left = child.right])])

Factor(n) == n.right.height - n.left.height

\* Mutant of balance: a child that leans the other way is not rotated first.
balanceOnce(n) == CASE Factor(n) = 2 -> rotateLeft(n)
                    [] Factor(n) = -2 -> rotateRight(n)
                    [] OTHER -> n

balance(n) ==
  CASE Factor(n) = 2 -> rotateLeft(IF Factor(n.right) < 0 THEN [n EXCEPT !.right = rotateRight(@)] ELSE n)
    [] Factor(n) = -2 -> rotateRight(IF Factor(n.left) > 0 THEN [n EXCEPT !.left = rotateLeft(@)] ELSE n)
    [] OTHER -> n

RECURSIVE AvlInsertBelow(_, _)
AvlInsertBelow(n, x) ==
  balance(WithHeight(
    IF x < n.value
    THEN [n EXCEPT !.left = IF @ = NULL THEN Leaf(x) ELSE AvlInsertBelow(@, x)]
    ELSE [n EXCEPT !.right = IF @ = NULL THEN Leaf(x) ELSE AvlInsertBelow(@, x)]))

AvlInsert(root, x) == CASE root = NULL -> Leaf(x)
                        [] root # NULL /\ find(root, x) -> root
                        [] OTHER -> AvlInsertBelow(root, x)

RECURSIVE AvlRemove(_, _)
AvlRemove(n, x) ==
  LET Balanced(m, r) == <<balance(WithHeight(m)), r[2]>>
      On(side, y) == LET r == AvlRemove(n[side], y) IN Balanced([n EXCEPT ![side] = r[1]], r)
  IN CASE n = NULL -> <<NULL, 0>>
       [] n # NULL /\ x = n.value ->
            IF n.left = NULL THEN <<n.right, Deleted(n)>>
            ELSE IF n.right = NULL THEN <<n.left, Deleted(n)>>
            ELSE LET least == Least(n.right)
                     r == AvlRemove(n.right, least)
                 IN Balanced([n EXCEPT !.value = least, !.right = r[1]], r)
       [] n # NULL /\ x < n.value -> On("left", x)
       [] n # NULL /\ x > n.value -> On("right", x)

-----------------------------------------------------------------------------
(* The instructions I and R; L prints pathTo, which changes nothing. *)

Insert(x) ==
  /\ bst' = BstInsert(bst, x)
  /\ bstNodes' = bstNodes + (IF find(bst, x) THEN 0 ELSE 1)
  /\ avl' = AvlInsert(avl, x)
  /\ avlNodes' = avlNodes + (IF find(avl, x) THEN 0 ELSE 1)

Remove(x) ==
  /\ bst' = BstRemove(bst, x)[1] /\ bstNodes' = bstNodes - BstRemove(bst, x)[2]
  /\ avl' = AvlRemove(avl, x)[1] /\ avlNodes' = avlNodes - AvlRemove(avl, x)[2]

Init == bst = NULL /\ bstNodes = 0 /\ avl = NULL /\ avlNodes = 0

Next == \E x \in Word : Insert(x) \/ Remove(x)

-----------------------------------------------------------------------------
(* Properties *)

RECURSIVE InOrder(_)
InOrder(n) == IF n = NULL THEN << >> ELSE InOrder(n.left) \o <<n.value>> \o InOrder(n.right)

Ordered(n) == LET s == InOrder(n) IN \A i \in 1 .. Len(s) - 1 : s[i] < s[i + 1]

RECURSIVE Depth(_)
Depth(n) == IF n = NULL THEN -1
            ELSE 1 + (IF Depth(n.left) > Depth(n.right) THEN Depth(n.left) ELSE Depth(n.right))

RECURSIVE Balanced(_)
Balanced(n) == n # NULL => /\ Balanced(n.left) /\ Balanced(n.right)
                           /\ Depth(n.right) - Depth(n.left) \in -1 .. 1
                           /\ n.height = Depth(n)

\* Both trees are search trees with every allocated node in them, and in the AVL tree the
\* heights are right and differ by at most one between siblings.
TreesSound ==
  /\ Ordered(bst) /\ Ordered(avl) /\ Balanced(avl)
  /\ bstNodes = numNodes(bst) /\ avlNodes = numNodes(avl)

\* The words of a tree, and the set that Insert and Remove are about
Words(n) == {x \in Word : find(n, x)}
Stored == INSTANCE OrderedSet WITH members <- Words(bst)
StoredBalanced == INSTANCE OrderedSet WITH members <- Words(avl)

\* A path leads from the root to its word, or is empty for a word that is not there.
PathsRight ==
  \A n \in {bst, avl}, x \in Word :
    LET path == pathTo(n, x) IN
    IF \E i \in DOMAIN InOrder(n) : InOrder(n)[i] = x
    THEN path[1] = n.value /\ path[Len(path)] = x /\ Len(path) <= Depth(n) + 1
    ELSE path = << >>
=============================================================================
