--------------------------- MODULE ReplicatedValue ---------------------------
(***************************************************************************)
(* What two-phase commit promises the readers of the workers: one value,   *)
(* that each worker either shows or says is unavailable.  The value changes *)
(* only while no worker shows it, so two readers never see two values.     *)
(***************************************************************************)
CONSTANTS Worker, Values, None, Hidden

VARIABLES value,  \* the value the workers hold
          view    \* what GetCommitted answers at each worker, or Hidden

vars == <<value, view>>

Init == /\ value = None
        /\ view = [w \in Worker |-> None]

Hide(w) == /\ view' = [view EXCEPT ![w] = Hidden]
           /\ UNCHANGED value

Change(v) == /\ \A w \in Worker : view[w] = Hidden
             /\ value' = v
             /\ UNCHANGED view

Show(w) == /\ view' = [view EXCEPT ![w] = value]
           /\ UNCHANGED value

Next == \/ \E w \in Worker : Hide(w) \/ Show(w)
        \/ \E v \in Values : Change(v)

Spec == Init /\ [][Next]_vars

OneValue == \A w \in Worker : view[w] \in {value, Hidden}
=============================================================================
