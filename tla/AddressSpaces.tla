--------------------------- MODULE AddressSpaces ---------------------------
(***************************************************************************)
(* What the memory of xv6 promises to its processes: each has words of its *)
(* own at some addresses, which nobody else changes; a call that fails     *)
(* changes none of them, and one that succeeds changes them all at once.   *)
(***************************************************************************)
EXTENDS Integers

CONSTANTS
  Process,
  Word,
  Edge,      \* the addresses at which pages begin and end
  Loaded     \* the contents that programs start with, as functions of addresses

VARIABLE space   \* process -> (address -> word); no address if there is no process

Nothing == [a \in {} |-> "zero"]

Init == \E p \in Process, e \in Edge \ {0} :
          space = [q \in Process |->
                     IF q = p THEN [a \in 0 .. e - 1 |-> "text"] ELSE Nothing]

Store(p) == \E a \in DOMAIN space[p], w \in Word : space' = [space EXCEPT ![p][a] = w]

\* sbrk(n): new pages are zero, and no word moves.
Grow(p) ==
  \E from, to \in Edge :
    LET old == space[p]
        new == from .. to - 1
    IN /\ new # {} /\ \A a \in DOMAIN old : a < from
       /\ space' = [space EXCEPT ![p] =
            [a \in DOMAIN old \cup new |-> IF a \in new THEN "zero" ELSE old[a]]]

\* sbrk(-n): words are lost from some page on.
Shrink(p) ==
  \E to \in Edge :
    space' = [space EXCEPT ![p] = [a \in {b \in DOMAIN @ : b < to} |-> @[a]]]

Fork(p, child) == space[child] = Nothing /\ space' = [space EXCEPT ![child] = space[p]]

Exec(p) == \E start \in Loaded : space' = [space EXCEPT ![p] = start]

Exit(p) == space' = [space EXCEPT ![p] = Nothing]

Next == \E p \in Process :
          \/ Store(p) \/ Grow(p) \/ Shrink(p) \/ Exec(p) \/ Exit(p)
          \/ \E child \in Process \ {p} : Fork(p, child)

Spec == Init /\ [][Next]_space
=============================================================================
