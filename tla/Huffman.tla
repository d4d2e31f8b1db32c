------------------------------ MODULE Huffman ------------------------------
(***************************************************************************)
(* data-structures/lab_10: huffmanenc.cpp with its heap, and               *)
(* huffmandec.cpp given what the encoder printed.  The letters go into the *)
(* heap in the order of an unordered_map, which may be any.                *)
(***************************************************************************)
EXTENDS Integers, Sequences, FiniteSets, SequencesExt

CONSTANTS
  Symbol,      \* printable letters; others are passed over by the encoder
  MaxText

VARIABLES
  text,     \* the printable letters of the file
  toInsert, \* letters whose frequency is not in the heap yet
  array,    \* the heap, from index 1: sequence of trees
  huffCodeLookup,    \* huffCodeLookup: letter -> code
  encoding     \* "inserting", "building" or "encoded"

vars == <<text, toInsert, array, huffCodeLookup, encoding>>

NoCode == <<2>>

\* A node: its letter ("-" for an inner one), frequency and children (NULL for a leaf)
NULL == [frequency |-> 0]
Leaf(s, f) == [value |-> s, frequency |-> f, left |-> NULL, right |-> NULL]
isLeaf(n) == n.left = NULL /\ n.right = NULL

Frequency(s) == Cardinality({i \in DOMAIN text : text[i] = s})

-----------------------------------------------------------------------------
(* heap.cpp *)

RECURSIVE percolateUp(_, _, _)
percolateUp(a, hole, toMove) ==
  IF hole > 1 /\ toMove.frequency < a[hole \div 2].frequency
  THEN percolateUp([a EXCEPT ![hole] = a[hole \div 2]], hole \div 2, toMove)
  ELSE [a EXCEPT ![hole] = toMove]

insert(a, node) == percolateUp(Append(a, node), Len(a) + 1, node)

LesserChild(a, hole) ==
  LET left == hole * 2
  IN IF left + 1 <= Len(a) /\ a[left + 1].frequency < a[left].frequency THEN left + 1 ELSE left

RECURSIVE percolateDown(_, _, _)
percolateDown(a, hole, toMove) ==
  LET child == LesserChild(a, hole)
  IN IF hole * 2 <= Len(a) /\ toMove.frequency > a[child].frequency
     THEN percolateDown([a EXCEPT ![hole] = a[child]], child, toMove)
     ELSE [a EXCEPT ![hole] = toMove]

\* deleteMin: the node is a[1], and this is what is left.
Without(a) == LET rest == Front([a EXCEPT ![1] = Last(a)])
              IN IF rest = << >> THEN rest ELSE percolateDown(rest, 1, rest[1])

-----------------------------------------------------------------------------
(* huffmanenc.cpp *)

InsertLetter(s) ==
  /\ encoding = "inserting" /\ s \in toInsert
  /\ array' = insert(array, Leaf(s, Frequency(s)))
  /\ toInsert' = toInsert \ {s}
  /\ encoding' = IF toInsert' = {} THEN "building" ELSE encoding
  /\ UNCHANGED <<text, huffCodeLookup>>

\* One turn of buildHuffmanTree: the first that is taken goes right.
Combine ==
  /\ encoding = "building" /\ Len(array) > 1
  /\ LET a == array[1]
         b == Without(array)[1]
         dummy == [value |-> "-", frequency |-> a.frequency + b.frequency, left |-> b, right |-> a]
     IN array' = insert(Without(Without(array)), dummy)
  /\ UNCHANGED <<text, toInsert, huffCodeLookup, encoding>>

\* writeCodes: the path to the leaf of a letter
RECURSIVE Path(_, _, _)
Path(n, s, path) ==
  IF isLeaf(n) THEN IF n.value = s THEN path ELSE NoCode
  ELSE LET right == Path(n.right, s, Append(path, 1))
       IN IF right # NoCode THEN right ELSE Path(n.left, s, Append(path, 0))

WriteCodes ==
  /\ encoding = "building" /\ Len(array) = 1
  /\ huffCodeLookup' = [s \in Range(text) |-> Path(array[1], s, << >>)]
  /\ array' = Without(array)
  /\ encoding' = "encoded"
  /\ UNCHANGED <<text, toInsert>>

Start(t) ==
  /\ text = t /\ toInsert = Range(t)
  /\ array = << >> /\ huffCodeLookup = [s \in {} |-> NoCode] /\ encoding = "inserting"

Init == \E t \in BoundedSeq(Symbol, MaxText) \ {<< >>} : Start(t)

Next == (\E s \in Symbol : InsertLetter(s)) \/ Combine \/ WriteCodes

-----------------------------------------------------------------------------
(* huffmandec.cpp *)

Bits == FlattenSeq([i \in DOMAIN text |-> huffCodeLookup[text[i]]])

\* createTree for each code gives a tree whose nodes are the prefixes of the codes; the
\* node of a whole code holds its letter.
TreeNodes == UNION {{SubSeq(huffCodeLookup[s], 1, n) : n \in 0 .. Len(huffCodeLookup[s])} : s \in DOMAIN huffCodeLookup}
IsLeafNode(p) == Append(p, 0) \notin TreeNodes /\ Append(p, 1) \notin TreeNodes
Letter(p) == CHOOSE s \in DOMAIN huffCodeLookup : huffCodeLookup[s] = p

\* decodeMessage, from the node p
RECURSIVE decodeMessage(_, _)
decodeMessage(bits, p) ==
  IF bits = << >> THEN << >>
  ELSE LET node == Append(p, Head(bits))
       IN IF IsLeafNode(node) THEN <<Letter(node)>> \o decodeMessage(Tail(bits), << >>)
          ELSE decodeMessage(Tail(bits), node)

-----------------------------------------------------------------------------
(* Properties *)

RECURSIVE Leaves(_)
Leaves(n) == IF isLeaf(n) THEN <<n.value>> ELSE Leaves(n.left) \o Leaves(n.right)

\* The heap is ordered, and every letter of the text is in one tree or still to come.
HeapSound ==
  /\ \A i \in 2 .. Len(array) : array[i \div 2].frequency <= array[i].frequency
  /\ encoding # "encoded" =>
       LET all == FlattenSeq([i \in DOMAIN array |-> Leaves(array[i])])
       IN Range(all) = Range(text) \ toInsert /\ Len(all) = Cardinality(Range(all))

\* The least number of bits for a bag of frequencies, over every tree there is
RECURSIVE LeastCost(_)
LeastCost(fs) ==
  IF Len(fs) < 2 THEN 0
  ELSE LET Merge(i, j) == fs[i] + fs[j]
             + LeastCost(<<fs[i] + fs[j]>> \o [k \in 1 .. Len(fs) - 2 |->
                 fs[CHOOSE m \in DOMAIN fs \ {i, j} :
                      Cardinality({l \in DOMAIN fs \ {i, j} : l <= m}) = k]])
           costs == {Merge(p[1], p[2]) : p \in {q \in (DOMAIN fs) \X (DOMAIN fs) : q[1] < q[2]}}
       IN CHOOSE c \in costs : \A d \in costs : c <= d

\* The decoder gives the text back, and no code is shorter.  A text of one letter has an
\* empty code and cannot be told from another: there must be two.
CodesRight ==
  encoding = "encoded" /\ Cardinality(Range(text)) > 1 =>
    /\ decodeMessage(Bits, << >>) = text
    /\ Len(Bits) = LeastCost([i \in 1 .. Cardinality(Range(text)) |->
                                Frequency(SetToSeq(Range(text))[i])])
=============================================================================
