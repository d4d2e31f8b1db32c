----------------------------- MODULE TaskService -----------------------------
(***************************************************************************)
(* What pool.h promises the users of a thread pool: tasks are started in   *)
(* the order they were submitted in, each once, and WaitForTask returns    *)
(* only after its task has completed.                                      *)
(***************************************************************************)
EXTENDS Sequences

CONSTANT Tasks

VARIABLES status,  \* of each task, in the order of TaskStatus
          waiting  \* the submitted tasks that nobody has started yet

vars == <<status, waiting>>

TaskStatus == {"new", "queued", "running", "completed", "returned"}

Init == /\ status = [t \in Tasks |-> "new"]
        /\ waiting = << >>

Moves(t, from, to) == status[t] = from /\ status' = [status EXCEPT ![t] = to]

Submit(t) == Moves(t, "new", "queued") /\ waiting' = Append(waiting, t)

Start == /\ waiting # << >>
         /\ Moves(Head(waiting), "queued", "running")
         /\ waiting' = Tail(waiting)

Complete(t) == Moves(t, "running", "completed") /\ UNCHANGED waiting

Return(t) == Moves(t, "completed", "returned") /\ UNCHANGED waiting

Next == Start \/ \E t \in Tasks : Submit(t) \/ Complete(t) \/ Return(t)

Spec == Init /\ [][Next]_vars
=============================================================================
