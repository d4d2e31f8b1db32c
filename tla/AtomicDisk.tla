------------------------------ MODULE AtomicDisk ------------------------------
(***************************************************************************)
(* What xv6's log promises the file system: the writes of the calls in     *)
(* progress reach the disk together, when none is in progress, or, if the  *)
(* machine stops before that, not at all.                                  *)
(***************************************************************************)
EXTENDS Naturals

CONSTANTS Blocks, Values, Blank

VARIABLES stable,   \* what a restart finds in the blocks
          current,  \* what the calls read and write
          open      \* the number of calls in progress

vars == <<stable, current, open>>

Init == /\ stable = [b \in Blocks |-> Blank]
        /\ current = stable
        /\ open = 0

Begin == open' = open + 1 /\ UNCHANGED <<stable, current>>

Write(b, v) == /\ open > 0
               /\ current' = [current EXCEPT ![b] = v]
               /\ UNCHANGED <<stable, open>>

End == open > 0 /\ open' = open - 1 /\ UNCHANGED <<stable, current>>

Commit == open = 0 /\ stable' = current /\ UNCHANGED <<current, open>>

Stop == current' = stable /\ open' = 0 /\ UNCHANGED stable

Next == \/ Begin \/ End \/ Commit \/ Stop
        \/ \E b \in Blocks, v \in Values : Write(b, v)

Spec == Init /\ [][Next]_vars
=============================================================================
