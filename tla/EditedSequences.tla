-------------------------- MODULE EditedSequences --------------------------
(***************************************************************************)
(* What a list promises: a sequence that is edited at its ends, at a       *)
(* cursor and by value, and a cursor that stays at its element.            *)
(***************************************************************************)
EXTENDS Integers, Sequences, SequencesExt

CONSTANT Value

VARIABLES
  items,
  cursor    \* 0 is before the first element, Len + 1 after the last, -1 nowhere

vars == <<items, cursor>>

Init == items = << >> /\ cursor = -1

Insert(i) ==
  /\ \E x \in Value : items' = InsertAt(items, i, x)
  /\ cursor' = IF cursor >= i THEN cursor + 1 ELSE cursor

Delete(i) ==
  /\ items' = RemoveAt(items, i)
  /\ cursor' = IF cursor = i THEN -1 ELSE IF cursor > i THEN cursor - 1 ELSE cursor

\* At either end, and before or after the cursor
Add == \E i \in {1, Len(items) + 1, cursor, cursor + 1} :
         i \in 1 .. Len(items) + 1 /\ Insert(i)

\* At either end, or the first occurrence of a value
Withdraw == \E i \in DOMAIN items :
            /\ \/ i \in {1, Len(items)}
               \/ \A j \in 1 .. i - 1 : items[j] # items[i]
            /\ Delete(i)

\* The whole sequence makes way for an empty one or for its copy, and the cursor has no
\* element any more.
Replace == items' \in {<< >>, items} /\ cursor' = -1

Place ==
  /\ \/ cursor' \in {1, Len(items), Len(items) + 1}
     \/ cursor' \in DOMAIN items /\ \A j \in 1 .. cursor' - 1 : items[j] # items[cursor']
     \/ cursor >= 0 /\ cursor' \in {cursor - 1, cursor + 1} \cap (0 .. Len(items) + 1)
  /\ UNCHANGED items

Next == Add \/ Withdraw \/ Replace \/ Place

Spec == Init /\ [][Next]_vars
=============================================================================
