------------------------------ MODULE AtomicLog ------------------------------
(***************************************************************************)
(* What the two-phase-commit nodes need of their persistent log: one entry *)
(* that a set_last_entry replaces as a whole or not at all, whatever       *)
(* happens to the process in between.                                      *)
(***************************************************************************)
CONSTANTS Entries,  \* the entries a node may log
          NoEntry   \* what get_last_entry returns for a new log

VARIABLES stored,   \* the entry a node that restarts now will read
          pending   \* the entry being set, or NoEntry

vars == <<stored, pending>>

Init == stored = NoEntry /\ pending = NoEntry

Begin(e) == pending = NoEntry /\ pending' = e /\ UNCHANGED stored

Commit == pending # NoEntry /\ stored' = pending /\ pending' = NoEntry

Lose == pending # NoEntry /\ pending' = NoEntry /\ UNCHANGED stored

Next == (\E e \in Entries : Begin(e)) \/ Commit \/ Lose

Spec == Init /\ [][Next]_vars
=============================================================================
