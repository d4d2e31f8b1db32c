---------------------------- MODULE OrderedSet -----------------------------
(***************************************************************************)
(* What a search tree or a hash table promises: a set, to and from which   *)
(* one word at a time is added and taken.                                  *)
(***************************************************************************)
CONSTANT Word

VARIABLE members

Init == members = {}

Add(x) == members' = members \cup {x}
Take(x) == members' = members \ {x}

Next == \E x \in Word : Add(x) \/ Take(x)

Spec == Init /\ [][Next]_members
=============================================================================
