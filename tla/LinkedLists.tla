---------------------------- MODULE LinkedLists ----------------------------
(***************************************************************************)
(* The two doubly linked lists of data-structures, each with a next-state  *)
(* relation of its own.                                                    *)
(***************************************************************************)
EXTENDS Integers, Sequences, FiniteSets, SequencesExt

(***************************************************************************)
(* The doubly linked list of data-structures/lab_2 (List, ListItr and      *)
(* ListNode, with a dummy node at each end), node by node, under the menu  *)
(* of ListTest.cpp.                                                        *)
(*                                                                         *)
(* `heap` holds the nodes that are allocated.  The user of the menu types  *)
(* numbers where it asks for numbers (for anything else it changes         *)
(* nothing), and does not use an iterator whose node was deleted: what     *)
(* that does is undefined, and the menu does not prevent it.  What it      *)
(* shows changes no state: retrieve, size and printList are operators.     *)
(***************************************************************************)

CONSTANTS
  Value,
  MaxLength,  \* of a list
  MaxNodes    \* that may be allocated at a time

VARIABLES
  heap,     \* address -> [value, next, previous]
  list,     \* [head, tail, count]; head 0 is no list
  itr       \* the address of a node; 0 is no iterator, or one that dangles

NULL == 0
NoList == [head |-> NULL, tail |-> NULL, count |-> 0]

Unused(h) == CHOOSE a \in (1 .. MaxNodes) \ DOMAIN h :
               \A b \in (1 .. MaxNodes) \ DOMAIN h : a <= b
Delete(h, a) == [b \in DOMAIN h \ {a} |-> h[b]]

\* new ListNode(x), with its links set
NewNode(h, x, behind, front) ==
  [a \in DOMAIN h \cup {Unused(h)} |->
     IF a \in DOMAIN h THEN h[a] ELSE [value |-> x, next |-> front, previous |-> behind]]

isPastEnd(h, a) == h[a].next = NULL
isPastBeginning(h, a) == h[a].previous = NULL

\* The nodes an iterator passes: forward from a, and backward from a
RECURSIVE Forward(_, _)
Forward(h, a) == IF isPastEnd(h, a) THEN << >> ELSE <<a>> \o Forward(h, h[a].next)

RECURSIVE Backward(_, _)
Backward(h, a) == IF isPastBeginning(h, a) THEN << >> ELSE <<a>> \o Backward(h, h[a].previous)

Values(h, nodes) == [i \in DOMAIN nodes |-> h[nodes[i]].value]

\* printList, forward and backward
PrintedForward(s) == Values(s.heap, Forward(s.heap, s.heap[s.list.head].next))
PrintedBackward(s) == Values(s.heap, Backward(s.heap, s.heap[s.list.tail].previous))

-----------------------------------------------------------------------------
(* List.cpp.  A list with its heap is s = [heap, list]. *)

List(h) ==
  LET head == Unused(h)
      one == NewNode(h, 0, NULL, NULL)
      tail == Unused(one)
  IN [heap |-> [NewNode(one, 0, head, NULL) EXCEPT ![head].next = tail],
      list |-> [head |-> head, tail |-> tail, count |-> 0]]

\* insertAfter, insertBefore and insertAtTail: x comes between two neighbours.
InsertBetween(s, x, behind, front) ==
  LET node == Unused(s.heap) IN
  [heap |-> [NewNode(s.heap, x, behind, front)
               EXCEPT ![behind].next = node, ![front].previous = node],
   list |-> [s.list EXCEPT !.count = @ + 1]]

insertAtTail(s, x) == InsertBetween(s, x, s.heap[s.list.tail].previous, s.list.tail)

Unlink(s, a) ==
  [heap |-> Delete([s.heap EXCEPT ![s.heap[a].previous].next = s.heap[a].next,
                                  ![s.heap[a].next].previous = s.heap[a].previous], a),
   list |-> [s.list EXCEPT !.count = @ - 1]]

RECURSIVE makeEmpty(_)
makeEmpty(s) == IF s.heap[s.list.head].next = s.list.tail THEN s
                ELSE makeEmpty(Unlink(s, s.heap[s.list.head].next))

\* ~List
Destroyed(s) == LET empty == makeEmpty(s)
                IN Delete(Delete(empty.heap, empty.list.head), empty.list.tail)

\* List(source), and the body of operator=, for a list that is empty
CopyOf(s, source) == FoldLeft(insertAtTail, s, PrintedForward(source))

\* find: the first node with the value, or the tail
find(s, x) ==
  LET nodes == Forward(s.heap, s.heap[s.list.head].next)
      i == SelectInSeq(nodes, LAMBDA a : s.heap[a].value = x)
  IN IF i = 0 THEN s.list.tail ELSE nodes[i]

-----------------------------------------------------------------------------
(* The menu of ListTest.cpp *)

Current == [heap |-> heap, list |-> list]
HaveList == list # NoList
HaveItr == itr # NULL
Becomes(s) == heap' = s.heap /\ list' = s.list

\* The elements that the menu then asks for go in as InsertAtTail has them.
NewList == Becomes(List(IF HaveList THEN Destroyed(Current) ELSE heap)) /\ itr' = NULL

\* first(), find() and last()
SetItr ==
  /\ HaveList
  /\ itr' \in {heap[list.head].next, heap[list.tail].previous} \cup {find(Current, x) : x \in Value}
  /\ UNCHANGED <<heap, list>>

MoveItr ==
  /\ HaveItr
  /\ itr' \in {heap[itr].next, heap[itr].previous} \ {NULL}
  /\ UNCHANGED <<heap, list>>

HasRoom == list.count < MaxLength

InsertBefore(x) ==
  /\ HaveList /\ HaveItr /\ ~isPastBeginning(heap, itr) /\ HasRoom
  /\ Becomes(InsertBetween(Current, x, heap[itr].previous, itr))
  /\ UNCHANGED itr

InsertAfter(x) ==
  /\ HaveList /\ HaveItr /\ ~isPastEnd(heap, itr) /\ HasRoom
  /\ Becomes(InsertBetween(Current, x, itr, heap[itr].next))
  /\ UNCHANGED itr

InsertAtTail(x) ==
  /\ HaveList /\ HasRoom
  /\ Becomes(insertAtTail(Current, x))
  /\ UNCHANGED itr

RemoveElement(x) ==
  /\ HaveList
  /\ IF find(Current, x) = list.tail THEN UNCHANGED <<heap, list>>
     ELSE Becomes(Unlink(Current, find(Current, x)))
  /\ itr' = IF itr \in DOMAIN heap' THEN itr ELSE NULL

\* The copy constructor and operator= do the same to a list that is new: the old list is
\* emptied when its copy is made, and deleted.
CopyList ==
  /\ HaveList /\ 2 * (list.count + 2) <= MaxNodes
  /\ LET copy == CopyOf(List(heap), Current)
         emptied == makeEmpty([heap |-> copy.heap, list |-> list])
     IN Becomes([heap |-> Destroyed(emptied), list |-> copy.list])
  /\ itr' = NULL

MakeListEmpty ==
  /\ HaveList
  /\ Becomes(makeEmpty(Current)) /\ itr' = NULL

Quit == HaveList /\ Becomes([heap |-> Destroyed(Current), list |-> NoList])
        /\ itr' = NULL

Init == heap = [a \in {} |-> NULL] /\ list = NoList /\ itr = NULL

Next ==
  \/ NewList \/ SetItr \/ MoveItr
  \/ \E x \in Value : InsertBefore(x) \/ InsertAfter(x) \/ InsertAtTail(x) \/ RemoveElement(x)
  \/ CopyList \/ MakeListEmpty \/ Quit

-----------------------------------------------------------------------------
(* Properties *)

Nodes == IF HaveList THEN Forward(heap, heap[list.head].next) ELSE << >>

\* The list is well linked: what is printed backward is the forward print reversed, over
\* the same nodes, size is its length, and every node that is allocated is in it.
WellLinked ==
  IF HaveList
  THEN /\ Reverse(Nodes) = Backward(heap, heap[list.tail].previous)
       /\ Reverse(PrintedForward(Current)) = PrintedBackward(Current)
       /\ list.count = Len(Nodes)
       /\ DOMAIN heap = {list.head, list.tail} \cup {Nodes[i] : i \in DOMAIN Nodes}
  ELSE DOMAIN heap = {}

Edited == INSTANCE EditedSequences WITH
            items <- Values(heap, Nodes),
            cursor <- IF ~HaveItr THEN -1
                      ELSE IF itr = list.head THEN 0
                      ELSE IF itr = list.tail THEN Len(Nodes) + 1
                      ELSE SelectInSeq(Nodes, LAMBDA a : a = itr)

-----------------------------------------------------------------------------
(***************************************************************************)
(* data-structures/lab_9/inlab/linkedlist.c: a doubly linked list whose    *)
(* ends are marked by NULL, and the commands that edit it.  `length` is    *)
(* left out: it is never set to begin with, and never read.                *)
(***************************************************************************)

CONSTANTS
  MaxItems   \* list items that may be allocated at a time

VARIABLES
  item,          \* address -> [value, next, prev]
  linkedList,    \* [head, tail]
  reading        \* the command loop has not come to its end

UnusedItem == CHOOSE a \in (1 .. MaxItems) \ DOMAIN item :
            \A b \in (1 .. MaxItems) \ DOMAIN item : a <= b
HasItemRoom == Cardinality(DOMAIN item) < MaxItems

\* The items of i with a new one, and without one
With(i, node) == [a \in DOMAIN i \cup {UnusedItem} |-> IF a \in DOMAIN i THEN i[a] ELSE node]
Free(i, a) == [b \in DOMAIN i \ {a} |-> i[b]]

RECURSIVE From(_)
From(a) == IF a = NULL THEN << >> ELSE <<a>> \o From(item[a].next)

\* What the command p goes through
Items == From(linkedList.head)

-----------------------------------------------------------------------------

PushFront(x) ==
  LET oldHead == linkedList.head
      node == [value |-> x, next |-> oldHead, prev |-> NULL]
  IN /\ reading /\ HasItemRoom
     /\ IF oldHead = NULL
        THEN item' = With(item, node) /\ linkedList' = [head |-> UnusedItem, tail |-> UnusedItem]
        ELSE /\ item' = With([item EXCEPT ![oldHead].prev = UnusedItem], node)
             /\ linkedList' = [linkedList EXCEPT !.head = UnusedItem]
     /\ UNCHANGED reading

PushBack(x) ==
  LET oldTail == linkedList.tail
      node == [value |-> x, next |-> NULL, prev |-> oldTail]
  IN /\ reading /\ HasItemRoom
     /\ IF oldTail = NULL
        THEN item' = With(item, node) /\ linkedList' = [head |-> UnusedItem, tail |-> UnusedItem]
        ELSE /\ item' = With([item EXCEPT ![oldTail].next = UnusedItem], node)
             /\ linkedList' = [linkedList EXCEPT !.tail = UnusedItem]
     /\ UNCHANGED reading

\* Nothing is done to a list that is empty.
PopFront ==
  LET toDelete == linkedList.head
      newHead == item[toDelete].next
  IN /\ reading /\ toDelete # NULL
     /\ IF newHead = NULL
        THEN item' = Free(item, toDelete) /\ linkedList' = [head |-> NULL, tail |-> NULL]
        ELSE /\ item' = Free([item EXCEPT ![newHead].prev = NULL], toDelete)
             /\ linkedList' = [linkedList EXCEPT !.head = newHead]
     /\ UNCHANGED reading

PopBack ==
  LET toDelete == linkedList.tail
      newTail == item[toDelete].prev
  IN /\ reading /\ toDelete # NULL
     /\ IF newTail = NULL
        THEN item' = Free(item, toDelete) /\ linkedList' = [head |-> NULL, tail |-> NULL]
        ELSE /\ item' = Free([item EXCEPT ![newTail].next = NULL], toDelete)
             /\ linkedList' = [linkedList EXCEPT !.tail = newTail]
     /\ UNCHANGED reading

\* The loop after the commands frees every item.
QuitItems == /\ reading /\ reading' = FALSE
        /\ item' = [a \in DOMAIN item \ {Items[i] : i \in DOMAIN Items} |-> item[a]]
        /\ linkedList' = [head |-> NULL, tail |-> NULL]

ItemsInit == /\ item = [a \in {} |-> NULL]
        /\ linkedList = [head |-> NULL, tail |-> NULL]
        /\ reading = TRUE

ItemsNext == \/ \E x \in Value : PushFront(x) \/ PushBack(x)
        \/ PopFront \/ PopBack \/ QuitItems

-----------------------------------------------------------------------------
(* Properties *)

\* Each item of the list leads back to the one before it, the tail is the last, and the
\* items that are allocated are those of the list: none at the end.
ItemsLinked ==
  /\ DOMAIN item = {Items[i] : i \in DOMAIN Items}
  /\ \A i \in DOMAIN Items : item[Items[i]].prev = IF i = 1 THEN NULL ELSE Items[i - 1]
  /\ linkedList.tail = IF Items = << >> THEN NULL ELSE Last(Items)

EditedItems == INSTANCE EditedSequences WITH
            items <- [i \in DOMAIN Items |-> item[Items[i]].value],
            cursor <- -1
=============================================================================
