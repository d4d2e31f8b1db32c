---------------------------- MODULE ThreadsProofs ----------------------------
(***************************************************************************)
(* The two programs with POSIX threads.                                    *)
(*                                                                         *)
(* The pool, for any number of threads and tasks: nothing it still uses    *)
(* has been deleted, no map::at throws, and it implements the service.     *)
(*                                                                         *)
(* The parallel simulation, for a board of any size and any number of      *)
(* threads and steps: the bands partition the rows, no two threads race,   *)
(* and each passage of the barrier shows the next generation.              *)
(***************************************************************************)
EXTENDS ThreadPool, ParallelLife, FiniteSetTheorems, TLAPS

-----------------------------------------------------------------------------
\* The inductive invariant: each task is in one place.

\* A worker has a task exactly while it runs it, a caller while it waits for it.
Held == /\ \A w \in Workers : worker[w] = "running" <=> job[w] # NoTask
        /\ \A c \in Callers : at[c] # "out" <=> target[c] # NoTask

\* Tasks in the map were submitted, and stay there until somebody waits for them.
Mapped == /\ ToSet(queue) \subseteq lookup
          /\ lookup \subseteq ToSet(submitted)
          /\ claimed \subseteq ToSet(submitted)
          /\ ToSet(submitted) \ claimed \subseteq lookup

Started(t) == t \notin ToSet(queue)
Idle(t) == \A w \in Workers : job[w] # t

OnceIn(q) == \A i, j \in DOMAIN q : q[i] = q[j] => i = j

\* A task is queued once, and started by one worker.
Once == /\ OnceIn(queue)
        /\ \A w \in Workers :
             job[w] # NoTask => /\ job[w] \in lookup
                                /\ Started(job[w])
                                /\ \A v \in Workers : job[v] = job[w] => v = w

\* A task is waited for by one caller.
Claims == \A c \in Callers :
            target[c] # NoTask => /\ target[c] \in lookup \cap claimed
                                  /\ \A d \in Callers : target[d] = target[c] => d = c

\* What was posted as complete, and what a caller has seen complete, runs no more.
Ended == /\ \A t \in Tasks : completed[t] > 0 => t \in ToSet(submitted) /\ Started(t) /\ Idle(t)
         /\ \A c \in Callers : at[c] \in {"assigned", "cleanup"} => Started(target[c]) /\ Idle(target[c])

IInv == PoolTypeOK /\ Held /\ Mapped /\ Once /\ Claims /\ Ended /\ ~thrown

-----------------------------------------------------------------------------
\* What the two ends of a queue hold.

LEMMA Appended ==
  ASSUME NEW S, NEW s \in Seq(S), NEW e \in S
  PROVE  /\ Append(s, e) \in Seq(S)
         /\ ToSet(Append(s, e)) = ToSet(s) \cup {e}
         /\ OnceIn(s) /\ e \notin ToSet(s) => OnceIn(Append(s, e))
<1>1. /\ Append(s, e) \in Seq(S)
      /\ Len(Append(s, e)) = Len(s) + 1
      /\ \A i \in 1 .. Len(s) : Append(s, e)[i] = s[i]
      /\ Append(s, e)[Len(s) + 1] = e
  OBVIOUS
<1>2. /\ DOMAIN s = 1 .. Len(s)
      /\ DOMAIN Append(s, e) = 1 .. Len(s) + 1
      /\ Len(s) \in Nat
  BY <1>1
<1>3. ToSet(Append(s, e)) = ToSet(s) \cup {e}
  BY <1>1, <1>2 DEF ToSet
<1>4. OnceIn(s) /\ e \notin ToSet(s) => OnceIn(Append(s, e))
  BY <1>1, <1>2 DEF ToSet, OnceIn
<1> QED  BY <1>1, <1>3, <1>4

LEMMA Taken ==
  ASSUME NEW S, NEW s \in Seq(S), s # << >>
  PROVE  /\ Head(s) \in S /\ Tail(s) \in Seq(S)
         /\ ToSet(s) = {Head(s)} \cup ToSet(Tail(s))
         /\ OnceIn(s) => Head(s) \notin ToSet(Tail(s)) /\ OnceIn(Tail(s))
<1>1. /\ Len(s) \in Nat \ {0} /\ DOMAIN s = 1 .. Len(s)
      /\ Head(s) = s[1] /\ Head(s) \in S
      /\ Tail(s) \in Seq(S) /\ Len(Tail(s)) = Len(s) - 1
      /\ DOMAIN Tail(s) = 1 .. Len(s) - 1
      /\ \A i \in 1 .. Len(s) - 1 : Tail(s)[i] = s[i + 1]
  OBVIOUS
<1>2. ToSet(s) = {Head(s)} \cup ToSet(Tail(s))
  <2>1. \A i \in DOMAIN s : i = 1 \/ (i - 1 \in DOMAIN Tail(s) /\ Tail(s)[i - 1] = s[i])
    BY <1>1
  <2>2. \A i \in DOMAIN Tail(s) : i + 1 \in DOMAIN s /\ Tail(s)[i] = s[i + 1]
    BY <1>1
  <2>3. 1 \in DOMAIN s
    BY <1>1
  <2>4. \A x \in ToSet(s) : x = Head(s) \/ x \in ToSet(Tail(s))
    <3> SUFFICES ASSUME NEW i \in DOMAIN s PROVE s[i] = Head(s) \/ s[i] \in ToSet(Tail(s))
      BY DEF ToSet
    <3>1. i = 1 => s[i] = Head(s)
      BY <1>1
    <3>2. i - 1 \in DOMAIN Tail(s) /\ Tail(s)[i - 1] = s[i] => s[i] \in ToSet(Tail(s))
      BY Zenon DEF ToSet
    <3> QED  BY <2>1, <3>1, <3>2
  <2>5. \A x \in ToSet(Tail(s)) : x \in ToSet(s)
    BY <2>2 DEF ToSet
  <2>6. Head(s) \in ToSet(s)
    BY <1>1, <2>3 DEF ToSet
  <2> QED  BY <2>4, <2>5, <2>6
<1>3. OnceIn(s) => Head(s) \notin ToSet(Tail(s)) /\ OnceIn(Tail(s))
  BY <1>1 DEF ToSet, OnceIn
<1> QED  BY <1>1, <1>2, <1>3

LEMMA Distinct == NoTask \notin Tasks /\ Workers \subseteq Callers /\ 1 \in Workers
BY PoolAssumption DEF Workers, Callers

-----------------------------------------------------------------------------
\* The invariant holds at first, and every step keeps it.

LEMMA InitInv == PoolInit => IInv
<1> SUFFICES ASSUME PoolInit PROVE IInv
  OBVIOUS
<1> USE DEF PoolInit
<1>1. ToSet(queue) = {} /\ ToSet(submitted) = {} /\ DOMAIN queue = {}
  BY DEF ToSet
<1>2. PoolTypeOK
  BY Distinct, << >> \in Seq(Tasks) DEF PoolTypeOK
<1>3. Held /\ Mapped /\ Once /\ Claims /\ Ended
  BY <1>1 DEF Held, Mapped, Once, Claims, Ended, OnceIn
<1> QED  BY <1>2, <1>3 DEF IInv

LEMMA SubmitInv ==
  ASSUME IInv, NEW c \in Callers, NEW t \in Tasks, SubmitTask(c, t)
  PROVE  IInv'
<1> USE DEF IInv
<1>1. /\ queue' \in Seq(Tasks) /\ ToSet(queue') = ToSet(queue) \cup {t}
      /\ submitted' \in Seq(Tasks) /\ ToSet(submitted') = ToSet(submitted) \cup {t}
  BY Appended DEF SubmitTask, PoolTypeOK
<1>2. t \notin ToSet(submitted) /\ t \notin lookup /\ t \notin ToSet(queue) /\ t \notin claimed
  BY DEF SubmitTask, MaySubmit, Mapped
<1>3. OnceIn(queue')
  <2>1. OnceIn(queue) /\ queue' = Append(queue, t) /\ queue \in Seq(Tasks)
    BY DEF Once, SubmitTask, PoolTypeOK
  <2> QED  BY <1>2, <2>1, Appended
<1>4. \A w \in Workers : job[w] # t
  BY <1>2, Distinct DEF Once
<1>5. \A c1 \in Callers : target[c1] # t
  BY <1>2, Distinct DEF Claims
<1>6. PoolTypeOK'
  BY <1>1 DEF PoolTypeOK, SubmitTask, Broadcast, shared, threads, calls, stops
<1>7. Held'
  BY DEF PoolTypeOK, Held, SubmitTask, Broadcast, calls
<1>8. Mapped'
  BY <1>1 DEF Mapped, SubmitTask
<1>9. Once'
  BY <1>1, <1>3, <1>4 DEF Once, OnceIn, SubmitTask, Started
<1>10. Claims'
  BY DEF Claims, SubmitTask, calls
<1>11. Ended'
  BY <1>1, <1>2, <1>4, <1>5 DEF Ended, SubmitTask, calls, Started, Idle, Held, PoolTypeOK
<1>12. ~thrown'
  BY DEF SubmitTask
<1> QED  BY <1>6, <1>7, <1>8, <1>9, <1>10, <1>11, <1>12

LEMMA TakeInv ==
  ASSUME IInv, NEW w \in Workers, Take(w)
  PROVE  IInv'
<1> USE DEF IInv
<1> DEFINE t == Head(queue)
<1>1. /\ t \in Tasks /\ queue' \in Seq(Tasks)
      /\ ToSet(queue) = {t} \cup ToSet(queue')
      /\ t \notin ToSet(queue') /\ OnceIn(queue')
  BY Taken DEF Take, PoolTypeOK, Once, OnceIn
<1>2. t \in lookup /\ t \in ToSet(queue)
  BY <1>1 DEF Mapped
<1>3. job' = [job EXCEPT ![w] = t] /\ worker' = [worker EXCEPT ![w] = "running"]
  BY DEF Take
<1>4. completed[t] = 0
  BY <1>1, <1>2 DEF Ended, Started, PoolTypeOK
<1>5. \A v \in Workers : job[v] # t
  BY <1>1, <1>2, Distinct DEF Once, Started
<1>6. PoolTypeOK'
  BY <1>1, <1>3 DEF PoolTypeOK, Take, calls, stops
<1> HIDE DEF t
<1>7. Held'
  BY <1>1, <1>3, Distinct DEF PoolTypeOK, Held, Take, calls
<1>8. Mapped'
  BY <1>1 DEF Mapped, Take
<1>9. Once'
  BY <1>1, <1>2, <1>3, <1>5 DEF Once, OnceIn, Take, Started, PoolTypeOK
<1>10. Claims'
  BY DEF Claims, Take, calls
<1>11. Ended'
  BY <1>1, <1>2, <1>3, <1>4 DEF Ended, Take, calls, Started, Idle, PoolTypeOK
<1>12. ~thrown'
  BY <1>2 DEF Take, t
<1> QED  BY <1>6, <1>7, <1>8, <1>9, <1>10, <1>11, <1>12

LEMMA CompleteInv ==
  ASSUME IInv, NEW w \in Workers, Complete(w)
  PROVE  IInv'
<1> USE DEF IInv
<1>1. /\ job[w] \in Tasks /\ job[w] # NoTask
      /\ job[w] \in ToSet(submitted) /\ Started(job[w])
  BY DEF Complete, Held, Once, Mapped, PoolTypeOK
<1>2. \A v \in Workers : job'[v] # job[w] /\ (job'[v] = job[v] \/ job'[v] = NoTask)
  BY <1>1 DEF Complete, Once, PoolTypeOK
<1>3. PoolTypeOK'
  BY <1>1 DEF PoolTypeOK, Complete, calls, stops
<1>4. Held'
  BY DEF PoolTypeOK, Held, Complete, calls
<1>5. Mapped' /\ Claims'
  BY DEF Mapped, Claims, Complete, calls
<1>6. Once'
  BY <1>2 DEF Once, Complete, Started
<1>7. Ended'
  BY <1>1, <1>2, Distinct DEF Ended, Complete, calls, Started, Idle, PoolTypeOK, Held
<1> QED  BY <1>3, <1>4, <1>5, <1>6, <1>7 DEF Complete

LEMMA WaitForTaskInv ==
  ASSUME IInv, NEW c \in Callers, NEW t \in Tasks, WaitForTask(c, t)
  PROVE  IInv'
<1> USE DEF IInv
<1>1. t \in lookup /\ t \notin claimed /\ t \in ToSet(submitted)
  BY DEF WaitForTask, MayWaitFor, Mapped
<1>2. PoolTypeOK'
  BY DEF PoolTypeOK, WaitForTask, shared, threads, stops
<1>3. Held'
  BY Distinct DEF PoolTypeOK, Held, WaitForTask, threads
<1>4. Mapped' /\ Once'
  BY <1>1 DEF Mapped, Once, Started, WaitForTask, shared, threads
<1>5. Claims'
  BY <1>1 DEF Claims, WaitForTask, shared, PoolTypeOK
<1>6. Ended'
  BY DEF Ended, WaitForTask, shared, threads, Started, Idle, PoolTypeOK
<1>7. ~thrown'
  BY <1>1 DEF WaitForTask
<1> QED  BY <1>2, <1>3, <1>4, <1>5, <1>6, <1>7

LEMMA CallStepInv ==
  ASSUME IInv, NEW c \in Callers, CallStep(c)
  PROVE  IInv'
<1> USE DEF IInv
<1>1. target[c] \in Tasks /\ target[c] \in lookup /\ target[c] \in claimed
  BY DEF CallStep, AwaitCompleted, AwaitAssigned, Cleanup, Held, Claims, PoolTypeOK
<1>2. CASE AwaitCompleted(c)
  <2>1. Started(target[c]) /\ Idle(target[c])
    BY <1>1, <1>2 DEF AwaitCompleted, Ended
  <2>2. PoolTypeOK'
    BY <1>1, <1>2 DEF PoolTypeOK, AwaitCompleted, threads, stops
  <2>3. Held' /\ Mapped' /\ Once' /\ Claims'
    BY <1>2 DEF PoolTypeOK, Held, Mapped, Once, Claims, Started, AwaitCompleted, threads
  <2>4. \A t \in Tasks : completed'[t] > 0 => completed[t] > 0
    BY <1>1, <1>2 DEF AwaitCompleted, PoolTypeOK
  <2>5. Ended'
    BY <1>2, <2>1, <2>4 DEF Ended, Started, Idle, AwaitCompleted, threads, PoolTypeOK
  <2> QED  BY <1>2, <2>2, <2>3, <2>5 DEF AwaitCompleted
<1>3. CASE AwaitAssigned(c)
  <2>1. PoolTypeOK'
    BY <1>3 DEF PoolTypeOK, AwaitAssigned, threads, stops
  <2>2. Held' /\ Mapped' /\ Once' /\ Claims'
    BY <1>3 DEF PoolTypeOK, Held, Mapped, Once, Claims, Started, AwaitAssigned, threads
  <2>3. Ended'
    BY <1>3 DEF Ended, Started, Idle, AwaitAssigned, threads, PoolTypeOK
  <2> QED  BY <1>3, <2>1, <2>2, <2>3 DEF AwaitAssigned
<1>4. CASE Cleanup(c)
  <2>1. Started(target[c]) /\ Idle(target[c])
    BY <1>4 DEF Cleanup, Ended
  <2>2. PoolTypeOK'
    BY <1>4 DEF PoolTypeOK, Cleanup, threads, stops
  <2>3. Held'
    BY <1>4 DEF PoolTypeOK, Held, Cleanup, threads
  <2>4. Mapped' /\ Once'
    BY <1>1, <1>4, <2>1 DEF Mapped, Once, Started, Idle, Cleanup, threads
  <2>5. Claims' /\ Ended'
    BY <1>1, <1>4 DEF PoolTypeOK, Claims, Ended, Started, Idle, Cleanup, threads
  <2> QED  BY <1>4, <2>2, <2>3, <2>4, <2>5 DEF Cleanup
<1> QED  BY <1>2, <1>3, <1>4 DEF CallStep

\* The other steps of the threads and of Stop leave queue, map and tasks alone.
LEMMA LoopInv ==
  ASSUME IInv, NEW w \in Workers, CondWait(w) \/ GoOn(w) \/ Exit(w) \/ WakeSpuriously(w)
  PROVE  IInv'
<1> USE DEF IInv, CondWait, GoOn, Exit, WakeSpuriously
<1>1. PoolTypeOK'
  BY DEF PoolTypeOK, shared, calls, stops
<1>2. Held'
  BY DEF PoolTypeOK, Held, calls
<1>3. Mapped' /\ Once' /\ Claims' /\ Ended'
  BY DEF Mapped, Once, Claims, Ended, Started, Idle, shared, calls
<1> QED  BY <1>1, <1>2, <1>3

LEMMA StopInv ==
  ASSUME IInv, CallStop \/ StopStep
  PROVE  IInv'
<1> USE DEF IInv
<1>1. CASE CallStop
  <2>1. PoolTypeOK'
    BY <1>1 DEF PoolTypeOK, CallStop, threads, calls
  <2>2. Held' /\ Mapped' /\ Once' /\ Claims' /\ Ended'
    BY <1>1 DEF Held, Mapped, Once, Claims, Ended, Started, Idle, CallStop, threads, calls
  <2> QED  BY <1>1, <2>1, <2>2 DEF CallStop
<1>2. CASE Mark
  <2>1. PoolTypeOK'
    BY <1>2 DEF PoolTypeOK, Mark, Broadcast, shared, calls
  <2>2. Held'
    BY <1>2 DEF PoolTypeOK, Held, Mark, Broadcast, calls
  <2>3. Mapped' /\ Once' /\ Claims' /\ Ended'
    BY <1>2 DEF Mapped, Once, Claims, Ended, Started, Idle, Mark, shared, calls
  <2> QED  BY <1>2, <2>1, <2>2, <2>3 DEF Mark
<1>3. CASE JoinWorker
  <2>1. PoolTypeOK'
    BY <1>3, PoolAssumption DEF PoolTypeOK, JoinWorker, Workers, shared, threads, calls
  <2>2. Held' /\ Mapped' /\ Once' /\ Claims' /\ Ended'
    BY <1>3 DEF Held, Mapped, Once, Claims, Ended, Started, Idle, JoinWorker, shared, threads, calls
  <2> QED  BY <1>3, <2>1, <2>2 DEF JoinWorker
<1> QED  BY <1>1, <1>2, <1>3 DEF StopStep

LEMMA NextInv == IInv /\ [PoolNext]_poolVars => IInv'
<1> SUFFICES ASSUME IInv, [PoolNext]_poolVars PROVE IInv'
  OBVIOUS
<1>1. CASE UNCHANGED poolVars
  BY <1>1 DEF IInv, PoolTypeOK, Held, Mapped, Once, Claims, Ended, Started, Idle,
              poolVars, shared, threads, calls, stops
<1>2. ASSUME NEW w \in Workers, WorkerStep(w) \/ WakeSpuriously(w)
      PROVE  IInv'
  BY <1>2, LoopInv, TakeInv, CompleteInv DEF WorkerStep
<1>3. ASSUME NEW c \in Callers, NEW t \in Tasks, SubmitTask(c, t) \/ WaitForTask(c, t)
      PROVE  IInv'
  BY <1>3, SubmitInv, WaitForTaskInv
<1>4. ASSUME NEW c \in Callers, CallStep(c)
      PROVE  IInv'
  BY <1>4, CallStepInv
<1>5. CASE CallStop \/ StopStep
  BY <1>5, StopInv
<1> QED  BY <1>1, <1>2, <1>3, <1>4, <1>5 DEF PoolNext, Gone

LEMMA InvHolds == PoolSpec => []IInv
BY InitInv, NextInv, PTL DEF PoolSpec

-----------------------------------------------------------------------------
\* Every variable of the pool keeps the type that pool.cc gives it.
THEOREM PoolTypeCorrect == PoolSpec => []PoolTypeOK
<1>1. IInv => PoolTypeOK
  BY DEF IInv
<1> QED  BY <1>1, InvHolds, PTL

\* A worker or a waiter that goes to the map or to its task finds it there: WaitForTask
\* deletes a task only when nothing in the pool refers to it any more.
THEOREM NoUseAfterDeleteHolds == PoolSpec => []NoUseAfterDelete
<1>1. IInv => NoUseAfterDelete
  BY Distinct DEF IInv, NoUseAfterDelete, Held, Mapped, Once, Claims
<1> QED  BY <1>1, InvHolds, PTL

\* task_lookup.at, which is called with the lock held, finds its name, in worker_thread and
\* in WaitForTask: no exception leaves the lock taken.
THEOREM LockReleasedHolds == PoolSpec => []LockReleased
<1>1. IInv => LockReleased
  BY DEF IInv, LockReleased
<1> QED  BY <1>1, InvHolds, PTL
-----------------------------------------------------------------------------
\* The steps of the pool are steps of the service, or change nothing in it.

\* A step that changes the status of one task alone moves it.
LEMMA StatusMoves ==
  ASSUME NEW t \in Tasks, NEW from, NEW to,
         Status(t) = from, Status(t)' = to,
         \A u \in Tasks \ {t} : Status(u)' = Status(u)
  PROVE  Service!Moves(t, from, to)
<1> DEFINE statuses == [u \in Tasks |-> Status(u)]
<1>1. statuses[t] = from /\ statuses' = [statuses EXCEPT ![t] = to]
  <2> HIDE DEF Status
  <2> QED  OBVIOUS
<1> QED  BY <1>1 DEF Service!Moves

LEMMA InitRefines == PoolInit => Service!Init
<1> SUFFICES ASSUME PoolInit PROVE Service!Init
  OBVIOUS
<1>1. ToSet(submitted) = {}
  BY DEF ToSet, PoolInit
<1> QED  BY <1>1 DEF PoolInit, Service!Init, Status

LEMMA SubmitRefines ==
  ASSUME IInv, NEW c \in Callers, NEW t \in Tasks, SubmitTask(c, t)
  PROVE  Service!Submit(t)
<1> USE DEF IInv
<1>1. /\ ToSet(queue') = ToSet(queue) \cup {t}
      /\ ToSet(submitted') = ToSet(submitted) \cup {t}
      /\ lookup' = lookup \cup {t} /\ job' = job
  BY Appended DEF SubmitTask, PoolTypeOK
<1>2. t \notin ToSet(submitted)
  BY DEF SubmitTask, MaySubmit
<1>3. Status(t) = "new" /\ Status(t)' = "queued"
  BY <1>1, <1>2 DEF Status
<1>4. \A u \in Tasks \ {t} : Status(u)' = Status(u)
  BY <1>1 DEF Status
<1> QED  BY <1>3, <1>4, StatusMoves DEF Service!Submit, SubmitTask

LEMMA TakeRefines ==
  ASSUME IInv, NEW w \in Workers, Take(w)
  PROVE  Service!Start
<1> USE DEF IInv
<1>0. PICK t : t = Head(queue)
  OBVIOUS
<1>1. /\ t \in Tasks /\ queue # << >> /\ queue' = Tail(queue)
      /\ ToSet(queue) = {t} \cup ToSet(queue')
      /\ t \notin ToSet(queue')
  BY <1>0, Taken DEF Take, PoolTypeOK, Once, OnceIn
<1>2. /\ job' = [job EXCEPT ![w] = t] /\ job[w] = NoTask /\ job \in [Workers -> Tasks \cup {NoTask}]
      /\ lookup' = lookup /\ submitted' = submitted
  BY <1>0 DEF Take, Held, PoolTypeOK
<1>3. t \in lookup /\ t \in ToSet(submitted)
  BY <1>1 DEF Mapped
<1>4. Status(t) = "queued" /\ Status(t)' = "running"
  <2>1. t \in ToSet(queue) /\ job'[w] = t
    BY <1>1, <1>2
  <2> QED  BY <1>1, <1>2, <1>3, <2>1 DEF Status
<1>5. \A u \in Tasks \ {t} : Status(u)' = Status(u)
  BY <1>1, <1>2, Distinct DEF Status
<1>6. Service!Moves(t, "queued", "running")
  BY <1>1, <1>4, <1>5, StatusMoves
<1> QED  BY <1>0, <1>1, <1>6 DEF Service!Start

LEMMA CompleteRefines ==
  ASSUME IInv, NEW w \in Workers, Complete(w)
  PROVE  \E t \in Tasks : Service!Complete(t)
<1> USE DEF IInv
<1>0. PICK t : t = job[w]
  OBVIOUS
<1>1. /\ t \in Tasks /\ t # NoTask /\ t \in lookup
      /\ t \in ToSet(submitted) /\ t \notin ToSet(queue)
  BY <1>0 DEF Complete, Held, Once, Mapped, PoolTypeOK, Started
<1>2. /\ job' = [job EXCEPT ![w] = NoTask] /\ job \in [Workers -> Tasks \cup {NoTask}]
      /\ lookup' = lookup /\ submitted' = submitted /\ queue' = queue
  BY DEF Complete, PoolTypeOK
<1>3. Status(t) = "running" /\ Status(t)' = "completed"
  <2>1. \A v \in Workers : job'[v] # t
    BY <1>0, <1>1, <1>2 DEF Once
  <2>2. \E v \in Workers : job[v] = t
    BY <1>0
  <2> QED  BY <1>1, <1>2, <2>1, <2>2 DEF Status
<1>4. \A u \in Tasks \ {t} : Status(u)' = Status(u)
  BY <1>0, <1>1, <1>2, Distinct DEF Status
<1>5. Service!Moves(t, "running", "completed")
  BY <1>1, <1>3, <1>4, StatusMoves
<1> QED  BY <1>1, <1>2, <1>5 DEF Service!Complete

LEMMA CleanupRefines ==
  ASSUME IInv, NEW c \in Callers, Cleanup(c)
  PROVE  \E t \in Tasks : Service!Return(t)
<1> USE DEF IInv
<1>0. PICK t : t = target[c]
  OBVIOUS
<1>1. /\ t \in Tasks /\ t \in lookup /\ t \in ToSet(submitted)
      /\ t \notin ToSet(queue) /\ Idle(t)
  BY <1>0 DEF Cleanup, Held, Claims, Mapped, Ended, PoolTypeOK, Started
<1>2. /\ job' = job /\ submitted' = submitted /\ queue' = queue
      /\ lookup' = lookup \ {t}
  BY <1>0 DEF Cleanup, threads
<1>3. Status(t) = "completed" /\ Status(t)' = "returned"
  <2>1. ~\E v \in Workers : job[v] = t
    BY <1>1 DEF Idle
  <2> QED  BY <1>1, <1>2, <2>1 DEF Status
<1>4. \A u \in Tasks \ {t} : Status(u)' = Status(u)
  BY <1>2 DEF Status
<1>5. Service!Moves(t, "completed", "returned")
  BY <1>1, <1>3, <1>4, StatusMoves
<1> QED  BY <1>1, <1>2, <1>5 DEF Service!Return

LEMMA StuttersRefine ==
  ASSUME UNCHANGED <<queue, lookup, job>>, ToSet(submitted)' = ToSet(submitted)
  PROVE  UNCHANGED Service!vars
BY DEF Status, Service!vars

LEMMA NextRefines == IInv /\ [PoolNext]_poolVars => [Service!Next]_(Service!vars)
<1> SUFFICES ASSUME IInv, [PoolNext]_poolVars PROVE [Service!Next]_(Service!vars)
  OBVIOUS
<1> USE DEF Service!Next
<1>1. ASSUME NEW w \in Workers, WorkerStep(w) \/ WakeSpuriously(w)
      PROVE  [Service!Next]_(Service!vars)
  <2>1. CASE Take(w)
    BY <2>1, TakeRefines
  <2>2. CASE Complete(w)
    BY <2>2, CompleteRefines
  <2>3. CASE CondWait(w) \/ GoOn(w) \/ Exit(w) \/ WakeSpuriously(w)
    BY <2>3, StuttersRefine DEF CondWait, GoOn, Exit, WakeSpuriously, shared
  <2> QED  BY <1>1, <2>1, <2>2, <2>3 DEF WorkerStep
<1>2. ASSUME NEW c \in Callers, NEW t \in Tasks, SubmitTask(c, t) \/ WaitForTask(c, t)
      PROVE  [Service!Next]_(Service!vars)
  <2>1. CASE SubmitTask(c, t)
    BY <2>1, SubmitRefines
  <2>2. CASE WaitForTask(c, t)
    BY <2>2, StuttersRefine DEF WaitForTask, shared, threads
  <2> QED  BY <1>2, <2>1, <2>2
<1>3. ASSUME NEW c \in Callers, CallStep(c)
      PROVE  [Service!Next]_(Service!vars)
  <2>1. CASE Cleanup(c)
    BY <2>1, CleanupRefines
  <2>2. CASE AwaitCompleted(c) \/ AwaitAssigned(c)
    BY <2>2, StuttersRefine DEF AwaitCompleted, AwaitAssigned, threads
  <2> QED  BY <1>3, <2>1, <2>2 DEF CallStep
<1>4. CASE CallStop \/ StopStep \/ UNCHANGED poolVars
  BY <1>4, StuttersRefine
  DEF CallStop, StopStep, Mark, JoinWorker, poolVars, shared, threads, stops
<1> QED  BY <1>1, <1>2, <1>3, <1>4 DEF PoolNext, Gone

\* Whatever clients and running tasks call, and in whichever order the threads run, tasks
\* are started in the order of SubmitTask, each once, and WaitForTask returns only after
\* the task it waits for has completed.
THEOREM PoolIsService == PoolSpec => ImplementsService
<1>1. PoolInit => Service!Init
  BY InitRefines
<1>2. IInv /\ [PoolNext]_poolVars => [Service!Next]_(Service!vars)
  BY NextRefines
<1> QED  BY <1>1, <1>2, InvHolds, PTL DEF PoolSpec, ImplementsService, Service!Spec

-----------------------------------------------------------------------------
\* The bands.

LEMMA Monotone == \A a, b, c \in Nat : a <= b => a * c <= b * c
OBVIOUS

\* The number of bands and their length, as the loop over cutoffs leaves them.
LEMMA BandFacts ==
  ASSUME asked \in 1 .. MaxThreads
  PROVE  /\ Band \in Nat /\ Band >= 2
         /\ Count \in 1 .. asked
         /\ (Count - 1) * Band <= Height
<1>1. Height \div asked \in Nat
  BY ParallelAssumption
<1>2. Band \in Nat /\ Band >= 2
  BY <1>1 DEF Band, RowsPerThread, Larger
<1> DEFINE q == Height \div Band
<1>3. q \in Nat /\ q * Band <= Height
  BY <1>2, ParallelAssumption
<1>4. Count \in 1 .. asked /\ Count - 1 <= q
  BY <1>3, ParallelAssumption DEF Count, Smaller
<1>5. (Count - 1) * Band <= q * Band
  BY <1>2, <1>3, <1>4, Monotone, Count - 1 \in Nat
<1>6. (Count - 1) * Band \in Nat
  BY <1>2, <1>4
<1> QED BY <1>2, <1>3, <1>4, <1>5, <1>6, ParallelAssumption

\* Each band lies in the board, though the last one may be empty.
LEMMA BandInBoard ==
  ASSUME asked \in 1 .. MaxThreads, NEW t \in Threads
  PROVE  /\ Lower(t) \in 0 .. Height
         /\ Upper(t) \in -1 .. Height - 1
         /\ Lower(t) <= Upper(t) + 1
<1>1. Band \in Nat /\ Band >= 2 /\ Count \in 1 .. asked /\ (Count - 1) * Band <= Height
  BY BandFacts
<1>2. t \in Nat /\ t <= Count - 1 /\ Count - 1 \in Nat
  BY <1>1, ParallelAssumption DEF Threads
<1>3. t * Band \in Nat /\ (Count - 1) * Band \in Nat
  BY <1>1, <1>2
<1>4. t * Band <= (Count - 1) * Band
  BY <1>1, <1>2, Monotone
<1>5. ASSUME t # Count - 1 PROVE t * Band + Band <= Height
  <2>1. (t + 1) * Band <= (Count - 1) * Band
    BY <1>1, <1>2, <1>5, Monotone, t + 1 \in Nat
  <2>2. (t + 1) * Band = t * Band + Band
    BY <1>1, <1>2
  <2> QED BY <1>1, <1>3, <2>1, <2>2, ParallelAssumption
<1> QED BY <1>1, <1>3, <1>4, <1>5, ParallelAssumption DEF Lower, Upper

\* No row is in two bands.
LEMMA BandsDisjoint ==
  ASSUME asked \in 1 .. MaxThreads, NEW t \in Threads, NEW u \in Threads, t < u
  PROVE  Upper(t) < Lower(u)
<1>1. Band \in Nat /\ Band >= 2 /\ Count \in 1 .. asked
  BY BandFacts
<1>2. t \in Nat /\ u \in Nat /\ t + 1 <= u /\ t # Count - 1
  BY <1>1, ParallelAssumption DEF Threads
<1>3. (t + 1) * Band <= u * Band
  BY <1>1, <1>2, Monotone, t + 1 \in Nat
<1>4. (t + 1) * Band = t * Band + Band
  BY <1>1, <1>2
<1>5. t * Band \in Nat /\ u * Band \in Nat
  BY <1>1, <1>2
<1> QED BY <1>1, <1>2, <1>3, <1>4, <1>5 DEF Lower, Upper

\* Every row is in a band.
LEMMA BandsCover ==
  ASSUME asked \in 1 .. MaxThreads, NEW y \in 0 .. Height - 1
  PROVE  \E t \in Threads : Lower(t) <= y /\ y <= Upper(t)
<1>1. Band \in Nat /\ Band >= 2 /\ Count \in 1 .. asked /\ (Count - 1) * Band <= Height
  BY BandFacts
<1> DEFINE q == y \div Band
<1>2. q \in Nat /\ q * Band <= y /\ y < q * Band + Band
  BY <1>1, ParallelAssumption
<1>3. CASE q < Count - 1
  <2>1. q \in Threads /\ q # Count - 1
    BY <1>1, <1>2, <1>3, ParallelAssumption DEF Threads
  <2>2. q * Band \in Nat
    BY <1>1, <1>2
  <2> QED BY <1>1, <1>2, <2>1, <2>2, ParallelAssumption DEF Lower, Upper
<1>4. CASE q >= Count - 1
  <2>1. Count - 1 \in Threads /\ Count - 1 \in Nat
    BY <1>1, ParallelAssumption DEF Threads
  <2>2. (Count - 1) * Band <= q * Band
    BY <1>1, <1>2, <1>4, <2>1, Monotone
  <2>3. (Count - 1) * Band \in Nat /\ q * Band \in Nat
    BY <1>1, <1>2, <2>1
  <2> QED BY <1>2, <2>1, <2>2, <2>3, ParallelAssumption DEF Lower, Upper
<1> QED BY <1>1, <1>2, <1>3, <1>4, ParallelAssumption

\* The bands stay as they are.
LEMMA SameBands ==
  ASSUME asked' = asked
  PROVE  /\ Count' = Count /\ Threads' = Threads /\ BarrierCount' = BarrierCount
         /\ \A t : Lower(t)' = Lower(t) /\ Upper(t)' = Upper(t)
BY DEF Count, Threads, BarrierCount, Lower, Upper, Band, RowsPerThread

-----------------------------------------------------------------------------
\* The invariant.

\* The board that is read, which the caller has seen complete, and the other one.
Current == IF mainStep % 2 = 0 THEN even ELSE odd
Other == IF mainStep % 2 = 0 THEN odd ELSE even

Participants == Threads \cup {Main}

\* Nobody is a step ahead, and who waits is at the barrier.
Together ==
  /\ \A t \in Threads : step[t] = mainStep
  /\ waiting = {t \in Threads : pc[t] = "barrier"} \cup {p \in {Main} : main = "barrier"}
  /\ main \in {"join", "done"} => mainStep = Steps

\* A thread is inside its band, and at the end of it at the barrier.
InBand ==
  \A t \in Threads : /\ row[t] <= Upper(t) + 1
                     /\ pc[t] = "step" => row[t] >= Lower(t)
                     /\ pc[t] = "barrier" => row[t] > Upper(t)

\* The rows a thread has passed are those of the next generation.
Written ==
  \A t \in Threads : \A y \in 0 .. Height - 1 :
    (Lower(t) <= y /\ y < row[t]) => Other[y] = Life!NextRow(Current, Life!DeadRow, y)

\* The threads are created one after the other.
InOrder ==
  main = "create" => \E n \in 0 .. Count : \A t \in Threads : pc[t] # "not created" <=> t < n

StepInv == TypeOK /\ Together /\ InBand /\ InOrder

LEMMA ParticipantsCounted ==
  ASSUME asked \in 1 .. MaxThreads
  PROVE  /\ IsFiniteSet(Participants) /\ Cardinality(Participants) = BarrierCount
         /\ Main \notin Threads /\ Threads \subseteq AllThreads
<1>1. Count \in 1 .. asked
  BY BandFacts
<1>2. Main \notin Threads /\ Threads \subseteq AllThreads
  BY <1>1, ParallelAssumption DEF Main, Threads, AllThreads
<1>3. IsFiniteSet(Threads) /\ Cardinality(Threads) = Count
  BY <1>1, FS_Interval, ParallelAssumption DEF Threads
<1> QED BY <1>1, <1>2, <1>3, FS_AddElement, ParallelAssumption DEF Participants, BarrierCount

\* The barrier opens for the last participant only.
LEMMA LastArrives ==
  ASSUME StepInv, NEW p \in Participants, p \notin waiting,
         ~(Cardinality(waiting) + 1 < BarrierCount)
  PROVE  waiting \cup {p} = Participants
<1>1. asked \in 1 .. MaxThreads
  BY DEF StepInv, TypeOK
<1>2. waiting \subseteq Participants
  BY DEF StepInv, Together, Participants
<1>3. IsFiniteSet(Participants) /\ Cardinality(Participants) = BarrierCount
  BY <1>1, ParticipantsCounted
<1>4. IsFiniteSet(waiting) /\ Cardinality(waiting) \in Nat
  BY <1>2, <1>3, FS_Subset, FS_CardinalityType
<1>5. /\ IsFiniteSet(waiting \cup {p})
      /\ Cardinality(waiting \cup {p}) = Cardinality(waiting) + 1
  BY <1>4, FS_AddElement
<1>6. waiting \cup {p} \in SUBSET Participants
  BY <1>2
<1>7. Cardinality(waiting \cup {p}) <= Cardinality(Participants)
  BY <1>3, <1>6, FS_Subset
<1>8. BarrierCount \in Int
  BY <1>3, FS_CardinalityType
<1>9. Cardinality(Participants) = Cardinality(waiting \cup {p})
  BY <1>3, <1>4, <1>5, <1>7, <1>8
<1> QED BY <1>3, <1>6, <1>9, FS_Subset

LEMMA Sizes == Width \in Nat /\ Height \in Nat /\ Height > 0 /\ Steps \in Nat /\ MaxThreads \in Nat
BY ParallelAssumption

LEMMA InitStepInv == Init => StepInv
<1> SUFFICES ASSUME Init PROVE StepInv
  OBVIOUS
<1>1. asked \in 1 .. MaxThreads /\ start \in Life!Boards
  BY ParallelAssumption DEF Init, Life!Boards, Life!Rows, Life!Columns
<1>2. Threads \subseteq AllThreads /\ Main \notin Threads
  BY <1>1, ParticipantsCounted
<1>3. TypeOK
  <2>1. 0 \in 0 .. Steps /\ 0 \in 0 .. Height /\ 0 \in 0 .. MaxThreads
    BY ParallelAssumption
  <2> QED BY <1>1, <2>1 DEF Init, TypeOK
<1>4. Together
  BY <1>2 DEF Init, Together
<1>5. InBand
  <2> SUFFICES ASSUME NEW t \in Threads
               PROVE  row[t] <= Upper(t) + 1 /\ pc[t] = "not created"
    BY DEF InBand
  <2>1. Upper(t) \in -1 .. Height - 1
    BY <1>1, BandInBoard
  <2>2. row[t] = 0 /\ pc[t] = "not created"
    BY <1>2 DEF Init
  <2>3. 0 <= Upper(t) + 1
    BY <2>1, Sizes
  <2> QED BY <2>2, <2>3
<1>6. InOrder
  <2>1. 0 \in 0 .. Count
    BY <1>1, BandFacts
  <2>2. \A t \in Threads : pc[t] = "not created"
    BY <1>2 DEF Init
  <2>3. \A t \in Threads : t \in Nat
    BY <1>2, Sizes DEF AllThreads
  <2>4. \A t \in Threads : ~(t < 0)
    BY <2>3
  <2>5. \A t \in Threads : pc[t] # "not created" <=> t < 0
    BY <2>2, <2>4
  <2> QED BY <2>1, <2>5 DEF InOrder
<1> QED BY <1>3, <1>4, <1>5, <1>6 DEF StepInv

\* What is computed for a row is a row.
LEMMA RowType ==
  ASSUME NEW b, NEW was \in [Life!Columns -> BOOLEAN], NEW y
  PROVE  Life!NextRow(b, was, y) \in [Life!Columns -> BOOLEAN]
BY DEF Life!NextRow, Life!Lives

\* A thread computes its row from Current into Other.
LEMMA ComputedBoards ==
  ASSUME TypeOK, Together, NEW t \in Threads, ComputeRow(t)
  PROVE  /\ even' \in Life!Boards /\ odd' \in Life!Boards
         /\ Current' = Current
         /\ Other' = IF row[t] \in 1 .. Height - 2
                     THEN [Other EXCEPT ![row[t]] = Life!NextRow(Current, Other[row[t]], row[t])]
                     ELSE Other
<1>1. step[t] = mainStep /\ mainStep' = mainStep
  BY DEF ComputeRow, Together, caller
<1>2. even \in Life!Boards /\ odd \in Life!Boards
  BY DEF TypeOK
<1>3. WritesOdd(step[t]) <=> mainStep % 2 = 0
  BY <1>1 DEF WritesOdd
<1>4. ASSUME NEW b \in Life!Boards, NEW c, NEW y \in 1 .. Height - 2
      PROVE  [b EXCEPT ![y] = Life!NextRow(c, b[y], y)] \in Life!Boards
  <2>1. y \in Life!Rows
    BY Sizes DEF Life!Rows
  <2> QED BY <2>1, RowType DEF Life!Boards
<1>5. CASE row[t] \in 1 .. Height - 2
  <2>1. CASE mainStep % 2 = 0
    <3>1. even' = even /\ odd' = [odd EXCEPT ![row[t]] = Life!NextRow(even, odd[row[t]], row[t])]
      BY <1>3, <1>5, <2>1 DEF ComputeRow, ReadFrom
    <3> QED BY <1>1, <1>2, <1>4, <1>5, <2>1, <3>1 DEF Current, Other
  <2>2. CASE mainStep % 2 # 0
    <3>1. odd' = odd /\ even' = [even EXCEPT ![row[t]] = Life!NextRow(odd, even[row[t]], row[t])]
      BY <1>3, <1>5, <2>2 DEF ComputeRow, ReadFrom
    <3> QED BY <1>1, <1>2, <1>4, <1>5, <2>2, <3>1 DEF Current, Other
  <2> QED BY <2>1, <2>2
<1>6. CASE row[t] \notin 1 .. Height - 2
  BY <1>1, <1>2, <1>6 DEF ComputeRow, boards, Current, Other
<1> QED BY <1>5, <1>6

\* Arriving at the barrier, of a participant that is not there.
LEMMA WaitStepInv ==
  ASSUME StepInv, NEW p \in Participants, p \notin waiting, Wait(p), mainStep < Steps,
         p = Main => main = "step",
         p # Main => pc[p] = "step" /\ row[p] > Upper(p),
         UNCHANGED <<arguments, state, joined>>,
         even' \in Life!Boards, odd' \in Life!Boards
  PROVE  StepInv'
<1> USE DEF StepInv
<1>1. asked \in 1 .. MaxThreads /\ asked' = asked
  BY DEF TypeOK, arguments
<1>2. Main \notin Threads /\ Threads \subseteq AllThreads
  BY <1>1, ParticipantsCounted
<1>3. Main \notin AllThreads
  BY ParallelAssumption DEF Main, AllThreads
<1>4. Threads' = Threads /\ \A t : Lower(t)' = Lower(t) /\ Upper(t)' = Upper(t)
  BY <1>1, SameBands
<1>5. CASE Cardinality(waiting) + 1 < BarrierCount
  <2>1. /\ waiting' = waiting \cup {p}
        /\ pc' = [t \in AllThreads |-> IF t = p THEN "barrier" ELSE pc[t]]
        /\ main' = IF p = Main THEN "barrier" ELSE main
        /\ UNCHANGED <<step, row, mainStep>>
    BY <1>5 DEF Wait
  <2>2. TypeOK'
    BY <1>2, <2>1 DEF TypeOK, Participants, arguments
  <2>3. Together'
    BY <1>2, <1>3, <1>4, <2>1 DEF Together, Participants, TypeOK
  <2>4. InBand'
    BY <1>2, <1>4, <2>1 DEF InBand, TypeOK
  <2>5. InOrder'
    BY <1>1, <1>2, <1>3, <1>4, <2>1, SameBands DEF InOrder, TypeOK, Participants
  <2> QED BY <2>2, <2>3, <2>4, <2>5
<1>6. CASE ~(Cardinality(waiting) + 1 < BarrierCount)
  <2>1. waiting \cup {p} = Participants
    BY <1>6, LastArrives
  <2>2. /\ waiting' = {}
        /\ pc' = [t \in AllThreads |-> IF t \in Participants THEN "step" ELSE pc[t]]
        /\ step' = [t \in AllThreads |-> IF t \in Participants THEN step[t] + 1 ELSE step[t]]
        /\ row' = [t \in AllThreads |-> IF t \in Participants THEN Lower(t) ELSE row[t]]
        /\ main' = "step" /\ mainStep' = mainStep + 1
    BY <1>6, <2>1 DEF Wait, Participants
  <2>3. \A t \in AllThreads : t \in Participants <=> t \in Threads
    BY <1>3 DEF Participants
  <2>4. \A t \in Threads : /\ step'[t] = mainStep + 1 /\ row'[t] = Lower(t)
                          /\ pc'[t] = "step"
    BY <1>2, <2>2, <2>3 DEF Together
  <2>5. \A t \in Threads : Lower(t) \in 0 .. Height /\ Lower(t) <= Upper(t) + 1 /\ Upper(t) \in Int
    BY <1>1, BandInBoard, ParallelAssumption
  <2>6. mainStep + 1 \in 0 .. Steps
    <3>1. mainStep \in 0 .. Steps
      BY DEF TypeOK
    <3> QED BY <3>1, Sizes
  <2>7. TypeOK'
    <3>1. pc' \in [AllThreads -> {"not created", "step", "barrier", "returned"}]
      BY <2>2 DEF TypeOK
    <3>2. step' \in [AllThreads -> 0 .. Steps]
      BY <2>2, <2>3, <2>6 DEF TypeOK, Together
    <3>3. row' \in [AllThreads -> 0 .. Height]
      BY <2>2, <2>3, <2>5 DEF TypeOK
    <3> QED BY <2>2, <2>6, <3>1, <3>2, <3>3 DEF TypeOK, arguments
  <2>8. Together'
    BY <1>4, <2>2, <2>4 DEF Together
  <2>9. InBand'
    BY <1>4, <2>4, <2>5 DEF InBand
  <2>10. InOrder'
    BY <2>2 DEF InOrder
  <2> QED BY <2>7, <2>8, <2>9, <2>10
<1> QED BY <1>5, <1>6

LEMMA StepInvKept == StepInv /\ [Next]_vars => StepInv'
<1> SUFFICES ASSUME StepInv, [Next]_vars PROVE StepInv'
  OBVIOUS
<1>1. asked \in 1 .. MaxThreads /\ asked' = asked
  BY DEF StepInv, TypeOK, Next, vars, arguments, ThreadStep, MainStep, ComputeRow, FinishStep,
         Return, Monitor, Copy, Join, Create, Finished
<1>2. Main \notin Threads /\ Threads \subseteq AllThreads /\ Main \notin AllThreads
  BY <1>1, ParticipantsCounted DEF Main, AllThreads
<1>3. Threads' = Threads /\ \A t : Lower(t)' = Lower(t) /\ Upper(t)' = Upper(t)
  BY <1>1, SameBands
<1>4. \A t \in Threads : /\ Lower(t) \in 0 .. Height /\ Upper(t) \in -1 .. Height - 1
                        /\ Lower(t) <= Upper(t) + 1
  BY <1>1, BandInBoard
<1>5. ASSUME NEW t \in Threads, ComputeRow(t) PROVE StepInv'
  <2>1. /\ row' = [row EXCEPT ![t] = row[t] + 1] /\ row[t] <= Upper(t) /\ pc[t] = "step"
        /\ UNCHANGED <<arguments, state, pc, step, waiting, caller>>
    BY <1>5 DEF ComputeRow
  <2>2. row[t] \in 0 .. Height
    BY <1>2 DEF StepInv, TypeOK
  <2>3. even' \in Life!Boards /\ odd' \in Life!Boards
    BY <1>5, ComputedBoards DEF StepInv
  <2>4. row[t] + 1 \in 0 .. Height /\ row[t] + 1 <= Upper(t) + 1
    BY <1>4, <2>1, <2>2, Sizes
  <2>5. TypeOK'
    BY <1>2, <2>1, <2>3, <2>4 DEF StepInv, TypeOK, arguments, caller
  <2>6. Together'
    BY <1>3, <2>1 DEF StepInv, Together, caller
  <2>7. InBand'
    <3> SUFFICES ASSUME NEW u \in Threads
                 PROVE  /\ row'[u] <= Upper(u) + 1
                        /\ pc[u] = "step" => row'[u] >= Lower(u)
                        /\ pc[u] = "barrier" => row'[u] > Upper(u)
      BY <1>3, <2>1 DEF InBand
    <3>1. CASE u = t
      <4>1. row'[u] = row[t] + 1
        BY <1>2, <2>1, <3>1 DEF StepInv, TypeOK
      <4>2. row[t] >= Lower(t) /\ pc[u] = "step"
        BY <2>1, <3>1 DEF StepInv, InBand
      <4>3. Lower(t) \in Int /\ Upper(t) \in Int
        BY <1>4, Sizes
      <4> QED BY <2>2, <2>4, <3>1, <4>1, <4>2, <4>3
    <3>2. CASE u # t
      BY <1>2, <2>1, <3>2 DEF StepInv, TypeOK, InBand
    <3> QED BY <3>1, <3>2
  <2>8. InOrder'
    BY <1>1, <1>3, <2>1, SameBands DEF InOrder, StepInv, caller
  <2> QED BY <2>5, <2>6, <2>7, <2>8 DEF StepInv
<1>6. ASSUME NEW t \in Threads, FinishStep(t) PROVE StepInv'
  <2>1. /\ pc[t] = "step" /\ row[t] > Upper(t) /\ Wait(t) /\ mainStep < Steps
        /\ UNCHANGED <<arguments, state, boards, joined>>
    BY <1>6 DEF FinishStep, StepInv, Together
  <2>2. t \in Participants /\ t # Main /\ t \notin waiting
    BY <1>2, <2>1 DEF Participants, StepInv, Together
  <2>3. even' \in Life!Boards /\ odd' \in Life!Boards
    BY <2>1 DEF boards, StepInv, TypeOK
  <2> QED BY <2>1, <2>2, <2>3, WaitStepInv
<1>7. ASSUME NEW t \in Threads, Return(t) PROVE StepInv'
  <2>1. TypeOK'
    BY <1>7 DEF Return, StepInv, TypeOK, arguments, boards, caller
  <2>2. Together'
    BY <1>2, <1>3, <1>7 DEF Return, StepInv, TypeOK, Together, caller
  <2>3. InBand'
    BY <1>2, <1>3, <1>7 DEF Return, StepInv, TypeOK, InBand
  <2>4. InOrder'
    BY <1>1, <1>2, <1>3, <1>7, SameBands DEF Return, StepInv, TypeOK, InOrder, caller
  <2> QED BY <2>1, <2>2, <2>3, <2>4 DEF StepInv
<1>8. ASSUME NEW t \in Threads, Create(t) PROVE StepInv'
  <2>1. /\ main = "create" /\ t = Cardinality(Created)
        /\ pc' = [pc EXCEPT ![t] = "step"] /\ row' = [row EXCEPT ![t] = Lower(t)]
        /\ main' = IF t = Count - 1 THEN "step" ELSE main
        /\ UNCHANGED <<arguments, state, boards, step, waiting, mainStep, joined>>
    BY <1>8 DEF Create
  <2>2. PICK n \in 0 .. Count : \A u \in Threads : pc[u] # "not created" <=> u < n
    BY <2>1 DEF StepInv, InOrder
  <2>3. Count \in Nat /\ Threads = 0 .. Count - 1 /\ n \in Nat /\ n <= Count
    <3>1. Count \in Nat
      BY <1>1, BandFacts, Sizes
    <3> QED BY <3>1 DEF Threads
  <2>4. Created = 0 .. n - 1
    <3>1. \A u \in Threads : u \in Created <=> u < n
      BY <2>2 DEF Created
    <3>2. Created \subseteq Threads
      BY DEF Created
    <3>3. \A u : u \in Created <=> u \in 0 .. n - 1
      <4> TAKE u
      <4>1. CASE u \in Threads
        BY <2>3, <3>1, <4>1
      <4>2. CASE u \notin Threads
        <5>1. 0 .. n - 1 \subseteq 0 .. Count - 1
          BY <2>3
        <5> QED BY <2>3, <3>2, <4>2, <5>1
      <4> QED BY <4>1, <4>2
    <3> QED BY <3>3
  <2>5. t = n
    BY <2>1, <2>3, <2>4, FS_Interval, 0 \in Int, n - 1 \in Int
  <2>6. pc[t] = "not created"
    <3>1. ~(t < n)
      BY <2>3, <2>5
    <3> QED BY <2>2, <3>1
  <2>7. TypeOK'
    BY <1>2, <1>4, <2>1 DEF StepInv, TypeOK, arguments, boards
  <2>8. Together'
    BY <1>2, <1>3, <2>1, <2>6 DEF StepInv, TypeOK, Together
  <2>9. InBand'
    <3> SUFFICES ASSUME NEW u \in Threads
                 PROVE  /\ row'[u] <= Upper(u) + 1
                        /\ pc'[u] = "step" => row'[u] >= Lower(u)
                        /\ pc'[u] = "barrier" => row'[u] > Upper(u)
      BY <1>3 DEF InBand
    <3>1. CASE u = t
      <4>1. row'[u] = Lower(u) /\ pc'[u] = "step"
        BY <1>2, <2>1, <3>1 DEF StepInv, TypeOK
      <4>2. Lower(u) \in Int /\ Lower(u) <= Upper(u) + 1
        BY <1>4
      <4> QED BY <4>1, <4>2
    <3>2. CASE u # t
      BY <1>2, <2>1, <3>2 DEF StepInv, TypeOK, InBand
    <3> QED BY <3>1, <3>2
  <2>10. InOrder'
    <3> SUFFICES ASSUME t # Count - 1
                 PROVE  \E k \in 0 .. Count : \A u \in Threads : pc'[u] # "not created" <=> u < k
      BY <1>1, <1>3, <2>1, SameBands DEF InOrder
    <3>1. n + 1 \in 0 .. Count
      BY <2>3, <2>5
    <3>2. ASSUME NEW u \in Threads PROVE pc'[u] # "not created" <=> u < n + 1
      <4>1. u \in Nat
        BY <2>3
      <4>2. pc'[u] = IF u = n THEN "step" ELSE pc[u]
        BY <1>2, <2>1, <2>5 DEF StepInv, TypeOK
      <4>3. pc[u] # "not created" <=> u < n
        BY <2>2
      <4>4. CASE u = n
        BY <2>3, <4>2, <4>4
      <4>5. CASE u # n
        <5>1. u < n + 1 <=> u < n
          BY <2>3, <4>1, <4>5
        <5> QED BY <4>2, <4>3, <4>5, <5>1
      <4> QED BY <4>4, <4>5
    <3> QED BY <3>1, <3>2
  <2> QED BY <2>7, <2>8, <2>9, <2>10 DEF StepInv
<1>9. CASE Monitor
  <2>1. /\ main = "step" /\ mainStep < Steps /\ Wait(Main)
        /\ UNCHANGED <<arguments, state, boards, joined>>
    BY <1>9 DEF Monitor
  <2>2. Main \in Participants /\ Main \notin waiting
    BY <1>2, <2>1 DEF Participants, StepInv, Together
  <2>3. even' \in Life!Boards /\ odd' \in Life!Boards
    BY <2>1 DEF boards, StepInv, TypeOK
  <2> QED BY <2>1, <2>2, <2>3, WaitStepInv
<1>10. CASE Copy
  BY <1>3, <1>10 DEF Copy, StepInv, TypeOK, Together, InBand, InOrder, arguments, boards, thread
<1>11. CASE Join
  <2>1. joined' \in 0 .. MaxThreads
    BY <1>1, <1>2, <1>11, Sizes DEF Join, AllThreads
  <2> QED BY <1>3, <1>11, <2>1 DEF Join, StepInv, TypeOK, Together, InBand, InOrder, arguments, boards, thread
<1>12. CASE UNCHANGED vars
  BY <1>1, <1>3, <1>12, SameBands
     DEF vars, arguments, boards, thread, caller, StepInv, TypeOK, Together, InBand, InOrder
<1> QED BY <1>5, <1>6, <1>7, <1>8, <1>9, <1>10, <1>11, <1>12
        DEF Next, ThreadStep, MainStep, Finished

\* Nobody leaves the barrier before all have come to it.
THEOREM StepInvariant == Spec => []StepInv
BY InitStepInv, StepInvKept, PTL DEF Spec

\* Every variable of the threads and of the caller keeps its type.
THEOREM LifeTypeCorrect == Spec => []TypeOK
<1>1. StepInv => TypeOK
  BY DEF StepInv
<1> QED BY <1>1, StepInvariant, PTL

\* No row is written by two threads, nor read or copied while it is written: all
\* that compute are at the same step, each inside its own band.
THEOREM NoRaceHolds == Spec => []NoRace
<1>1. StepInv => NoRace
  <2> SUFFICES ASSUME StepInv, NEW t \in Threads, Computes(t)
               PROVE  /\ ~(main = "step" /\ mainStep = Steps) /\ main \notin {"join", "done"}
                      /\ \A u \in Threads \ {t} : Computes(u) =>
                           (WritesOdd(step[t]) = WritesOdd(step[u]) /\ row[t] # row[u])
    BY DEF NoRace
  <2>1. asked \in 1 .. MaxThreads
    BY DEF StepInv, TypeOK
  <2>2. step[t] = mainStep /\ mainStep < Steps
    BY DEF StepInv, Together, Computes
  <2>3. ~(main = "step" /\ mainStep = Steps) /\ main \notin {"join", "done"}
    BY <2>2, Sizes DEF StepInv, Together
  <2>4. ASSUME NEW u \in Threads \ {t}, Computes(u)
        PROVE  WritesOdd(step[t]) = WritesOdd(step[u]) /\ row[t] # row[u]
    <3>1. step[u] = step[t]
      BY <2>2 DEF StepInv, Together
    <3>2. /\ Lower(t) <= row[t] /\ row[t] <= Upper(t) /\ row[t] \in Int
          /\ Lower(u) <= row[u] /\ row[u] <= Upper(u) /\ row[u] \in Int
      BY <2>4 DEF Computes, StepInv, InBand
    <3>3. /\ Lower(t) \in Int /\ Upper(t) \in Int
          /\ Lower(u) \in Int /\ Upper(u) \in Int
      BY <2>1, BandInBoard, Sizes
    <3>4. t \in Int /\ u \in Int /\ t # u
      BY <2>1, <2>4, ParticipantsCounted, Sizes DEF AllThreads
    <3>5. CASE t < u
      BY <2>1, <3>1, <3>2, <3>3, <3>5, BandsDisjoint
    <3>6. CASE u < t
      BY <2>1, <3>1, <3>2, <3>3, <3>6, BandsDisjoint
    <3> QED BY <3>4, <3>5, <3>6
  <2> QED BY <2>3, <2>4
<1> QED BY <1>1, StepInvariant, PTL

-----------------------------------------------------------------------------
\* Generation after generation.

DeadEdgesInv == Life!DeadEdges(even) /\ Life!DeadEdges(odd)

LifeInv == StepInv /\ DeadEdgesInv /\ Written

\* On a board with dead edges a row written over another is the row that
\* GameOfLife has.
LEMMA RowOverDeadEdges ==
  ASSUME NEW b, NEW was \in Life!Boards, Life!DeadEdges(was), NEW y \in Life!Rows
  PROVE  Life!NextRow(b, was[y], y) = Life!NextRow(b, Life!DeadRow, y)
<1> SUFFICES ASSUME NEW x \in Life!Columns, ~Life!Interior(x, y)
             PROVE  was[y][x] = FALSE
  BY DEF Life!NextRow, Life!DeadRow
<1>1. was[y][x] \in BOOLEAN
  BY DEF Life!Boards
<1> QED BY <1>1 DEF Life!DeadEdges

\* A computed row has dead edges.
LEMMA NextRowDeadEdges ==
  ASSUME NEW b, NEW y \in Life!Rows, NEW x \in Life!Columns,
         Life!NextRow(b, Life!DeadRow, y)[x]
  PROVE  Life!Interior(x, y)
BY DEF Life!NextRow, Life!DeadRow

LEMMA TwoBoards ==
  /\ DeadEdgesInv <=> (Life!DeadEdges(Current) /\ Life!DeadEdges(Other))
  /\ TypeOK => Current \in Life!Boards /\ Other \in Life!Boards
BY DEF DeadEdgesInv, Current, Other, TypeOK

LEMMA ComputeRowLife ==
  ASSUME LifeInv, NEW t \in Threads, ComputeRow(t)
  PROVE  DeadEdgesInv' /\ Written' /\ UNCHANGED <<Current, mainStep>>
<1> DEFINE y == row[t]
<1>1. asked \in 1 .. MaxThreads /\ asked' = asked
  BY DEF LifeInv, StepInv, TypeOK, ComputeRow, arguments
<1>2. Threads' = Threads /\ \A u : Lower(u)' = Lower(u) /\ Upper(u)' = Upper(u)
  BY <1>1, SameBands
<1>3. Threads \subseteq AllThreads
  BY <1>1, ParticipantsCounted
<1>4. \A u \in Threads : row[u] \in 0 .. Height /\ Lower(u) \in Int /\ Upper(u) \in -1 .. Height - 1
  <2> TAKE u \in Threads
  <2>1. row[u] \in 0 .. Height
    BY <1>3 DEF LifeInv, StepInv, TypeOK
  <2>2. Lower(u) \in 0 .. Height /\ Upper(u) \in -1 .. Height - 1
    BY <1>1, BandInBoard
  <2> QED BY <2>1, <2>2, Sizes
<1>5. Lower(t) <= y /\ y <= Upper(t) /\ y \in Life!Rows
  <2>1. Lower(t) <= y /\ y <= Upper(t)
    BY DEF LifeInv, StepInv, InBand, ComputeRow
  <2> QED BY <1>4, <2>1, Sizes DEF Life!Rows
<1>6. mainStep' = mainStep /\ Current' = Current
  BY ComputedBoards DEF LifeInv, StepInv, ComputeRow, caller
<1>7. Current \in Life!Boards /\ Other \in Life!Boards /\ Life!DeadEdges(Current) /\ Life!DeadEdges(Other)
  BY TwoBoards DEF LifeInv, StepInv
<1> DEFINE new == Life!NextRow(Current, Life!DeadRow, y)
<1>8. Other' = [Other EXCEPT ![y] = new]
  <2>1. Life!NextRow(Current, Other[y], y) = new
    BY <1>5, <1>7, RowOverDeadEdges
  <2>2. CASE y \in 1 .. Height - 2
    BY <2>1, <2>2, ComputedBoards DEF LifeInv, StepInv
  <2>3. CASE y \notin 1 .. Height - 2
    <3>1. Other' = Other
      BY <2>3, ComputedBoards DEF LifeInv, StepInv
    <3>2. \A x \in Life!Columns : ~Life!Interior(x, y)
      BY <2>3 DEF Life!Interior
    <3>3. Other[y] \in [Life!Columns -> BOOLEAN]
      BY <1>5, <1>7 DEF Life!Boards
    <3>4. Life!NextRow(Current, Other[y], y) = Other[y]
      BY <3>2, <3>3 DEF Life!NextRow
    <3> QED BY <1>7, <2>1, <3>1, <3>4 DEF Life!Boards
  <2> QED BY <2>2, <2>3
<1>9. Life!DeadEdges(Other')
  <2> SUFFICES ASSUME NEW z \in Life!Rows, NEW x \in Life!Columns, Other'[z][x]
               PROVE  Life!Interior(x, z)
    BY DEF Life!DeadEdges
  <2>1. CASE z = y
    BY <1>5, <1>7, <1>8, <2>1, NextRowDeadEdges DEF Life!Boards
  <2>2. CASE z # y
    BY <1>7, <1>8, <2>2 DEF Life!DeadEdges, Life!Boards
  <2> QED BY <2>1, <2>2
<1>10. DeadEdgesInv'
  BY <1>6, <1>7, <1>9, TwoBoards DEF DeadEdgesInv, Current, Other
<1>11. Written'
  <2> SUFFICES ASSUME NEW u \in Threads, NEW z \in 0 .. Height - 1,
                      Lower(u) <= z, z < row'[u]
               PROVE  Other'[z] = Life!NextRow(Current, Life!DeadRow, z)
    BY <1>2, <1>6 DEF Written
  <2>1. row' = [row EXCEPT ![t] = y + 1]
    BY DEF ComputeRow
  <2>2. CASE z = y
    BY <1>5, <1>7, <1>8, <2>2 DEF Life!Boards
  <2>3. CASE z # y
    <3>1. z < row[u]
      <4>1. CASE u = t
        <5>1. row'[u] = y + 1
          BY <1>3, <2>1, <4>1 DEF LifeInv, StepInv, TypeOK
        <5> QED BY <1>4, <2>3, <4>1, <5>1, Sizes
      <4>2. CASE u # t
        BY <1>3, <2>1, <4>2 DEF LifeInv, StepInv, TypeOK
      <4> QED BY <4>1, <4>2
    <3>2. Other[z] = Life!NextRow(Current, Life!DeadRow, z)
      BY <3>1 DEF LifeInv, Written
    <3> QED BY <1>7, <1>8, <2>3, <3>2 DEF Life!Boards
  <2> QED BY <2>2, <2>3
<1> QED BY <1>6, <1>10, <1>11

\* A passage of the barrier exchanges the boards, and the other one is complete:
\* every row is in the band of a thread that has passed it.
LEMMA WaitLife ==
  ASSUME LifeInv, NEW p \in Participants, p \notin waiting, Wait(p), mainStep < Steps,
         p # Main => row[p] > Upper(p),
         UNCHANGED <<arguments, boards>>
  PROVE  DeadEdgesInv' /\ Written' /\ (Life!Next \/ UNCHANGED <<Current, mainStep>>)
<1>1. asked \in 1 .. MaxThreads /\ asked' = asked
  BY DEF LifeInv, StepInv, TypeOK, arguments
<1>2. Main \notin Threads /\ Threads \subseteq AllThreads
  BY <1>1, ParticipantsCounted
<1>3. Threads' = Threads /\ \A t : Lower(t)' = Lower(t) /\ Upper(t)' = Upper(t)
  BY <1>1, SameBands
<1>4. DeadEdgesInv' /\ even' = even /\ odd' = odd
  BY DEF LifeInv, DeadEdgesInv, boards
<1>5. CASE Cardinality(waiting) + 1 < BarrierCount
  <2>1. row' = row /\ mainStep' = mainStep
    BY <1>5 DEF Wait
  <2>2. Current' = Current /\ Other' = Other
    BY <1>4, <2>1 DEF Current, Other
  <2>3. Written'
    BY <1>3, <2>1, <2>2 DEF LifeInv, Written
  <2> QED BY <1>4, <2>1, <2>2, <2>3
<1>6. CASE ~(Cardinality(waiting) + 1 < BarrierCount)
  <2>1. waiting \cup {p} = Participants
    BY <1>6, LastArrives DEF LifeInv
  <2>2. \A t \in Threads : row'[t] = Lower(t)
    BY <1>2, <1>6, <2>1 DEF Wait, Participants
  <2>3. mainStep' = mainStep + 1 /\ mainStep \in Nat
    <3>1. mainStep \in 0 .. Steps
      BY DEF LifeInv, StepInv, TypeOK
    <3>2. mainStep' = mainStep + 1
      BY <1>6, <2>1 DEF Wait, Participants
    <3> QED BY <3>1, <3>2, Sizes
  <2>4. Current' = Other /\ Other' = Current
    <3>1. mainStep' % 2 = 0 <=> mainStep % 2 # 0
      BY <2>3
    <3> QED BY <1>4, <3>1 DEF Current, Other
  <2>5. Written'
    <3>1. \A t \in Threads : Lower(t) \in Int
      BY <1>1, BandInBoard, Sizes
    <3> QED BY <1>3, <2>2, <3>1 DEF Written
  <2>6. ASSUME NEW y \in Life!Rows
        PROVE  Other[y] = Life!NextRow(Current, Life!DeadRow, y)
    <3>1. y \in 0 .. Height - 1
      BY DEF Life!Rows
    <3>2. PICK t \in Threads : Lower(t) <= y /\ y <= Upper(t)
      BY <1>1, <3>1, BandsCover
    <3>3. row[t] > Upper(t)
      <4>1. CASE t = p
        BY <1>2, <4>1
      <4>2. CASE t # p
        <5>1. t \in waiting
          BY <2>1, <4>2 DEF Participants
        <5>2. pc[t] = "barrier"
          BY <1>2, <5>1 DEF LifeInv, StepInv, Together
        <5> QED BY <5>2 DEF LifeInv, StepInv, InBand
      <4> QED BY <4>1, <4>2
    <3>4. row[t] \in Int /\ Upper(t) \in Int
      <4>1. row[t] \in 0 .. Height
        BY <1>2 DEF LifeInv, StepInv, TypeOK
      <4>2. Upper(t) \in -1 .. Height - 1
        BY <1>1, BandInBoard
      <4> QED BY <4>1, <4>2, Sizes
    <3>5. y < row[t]
      BY <3>1, <3>2, <3>3, <3>4
    <3> QED BY <3>1, <3>2, <3>5 DEF LifeInv, Written
  <2>7. Other = [y \in Life!Rows |-> Life!NextRow(Current, Life!DeadRow, y)]
    <3>1. Other \in Life!Boards
      BY TwoBoards DEF LifeInv, StepInv
    <3> QED BY <2>6, <3>1 DEF Life!Boards
  <2>8. Life!Next
    BY <2>3, <2>4, <2>7 DEF Life!Next, Current
  <2> QED BY <1>4, <2>5, <2>8
<1> QED BY <1>5, <1>6

LEMMA LifeInvKept ==
  LifeInv /\ [Next]_vars => DeadEdgesInv' /\ Written' /\ (Life!Next \/ UNCHANGED <<Current, mainStep>>)
<1> SUFFICES ASSUME LifeInv, [Next]_vars
             PROVE  DeadEdgesInv' /\ Written' /\ (Life!Next \/ UNCHANGED <<Current, mainStep>>)
  OBVIOUS
<1>1. asked \in 1 .. MaxThreads
  BY DEF LifeInv, StepInv, TypeOK
<1>2. Main \notin Threads /\ Threads \subseteq AllThreads
  BY <1>1, ParticipantsCounted
<1>3. ASSUME UNCHANGED <<asked, even, odd, row, mainStep>>
      PROVE  DeadEdgesInv' /\ Written' /\ UNCHANGED <<Current, mainStep>>
  <2>1. Threads' = Threads /\ \A t : Lower(t)' = Lower(t) /\ Upper(t)' = Upper(t)
    BY <1>3, SameBands
  <2> QED BY <1>3, <2>1 DEF LifeInv, DeadEdgesInv, Written, Current, Other
<1>4. ASSUME NEW t \in Threads, ComputeRow(t) PROVE DeadEdgesInv' /\ Written' /\ UNCHANGED <<Current, mainStep>>
  BY <1>4, ComputeRowLife
<1>5. ASSUME NEW t \in Threads, FinishStep(t)
      PROVE  DeadEdgesInv' /\ Written' /\ (Life!Next \/ UNCHANGED <<Current, mainStep>>)
  <2>1. /\ pc[t] = "step" /\ row[t] > Upper(t) /\ Wait(t) /\ mainStep < Steps
        /\ UNCHANGED <<arguments, boards>>
    BY <1>5 DEF FinishStep, LifeInv, StepInv, Together
  <2>2. t \in Participants /\ t # Main /\ t \notin waiting
    BY <1>2, <2>1 DEF Participants, LifeInv, StepInv, Together
  <2> QED BY <2>1, <2>2, WaitLife
<1>6. ASSUME NEW t \in Threads, Return(t) PROVE DeadEdgesInv' /\ Written' /\ UNCHANGED <<Current, mainStep>>
  BY <1>3, <1>6 DEF Return, arguments, boards, caller
<1>7. ASSUME NEW t \in Threads, Create(t) PROVE DeadEdgesInv' /\ Written' /\ UNCHANGED <<Current, mainStep>>
  <2>1. /\ row' = [row EXCEPT ![t] = Lower(t)]
        /\ UNCHANGED <<asked, even, odd, mainStep>>
    BY <1>7 DEF Create, arguments, boards
  <2>2. Threads' = Threads /\ \A u : Lower(u)' = Lower(u) /\ Upper(u)' = Upper(u)
    BY <2>1, SameBands
  <2>3. Current' = Current /\ Other' = Other /\ DeadEdgesInv'
    BY <2>1 DEF LifeInv, DeadEdgesInv, Current, Other
  <2>4. Written'
    <3> SUFFICES ASSUME NEW u \in Threads, NEW z \in 0 .. Height - 1, Lower(u) <= z, z < row'[u]
                 PROVE  Other[z] = Life!NextRow(Current, Life!DeadRow, z)
      BY <2>2, <2>3 DEF Written
    <3>1. CASE u = t
      <4>1. row'[u] = Lower(u)
        BY <1>2, <2>1, <3>1 DEF LifeInv, StepInv, TypeOK
      <4>2. Lower(u) \in Int
        BY <1>1, BandInBoard, Sizes
      <4> QED BY <4>1, <4>2
    <3>2. CASE u # t
      <4>1. row'[u] = row[u]
        BY <1>2, <2>1, <3>2 DEF LifeInv, StepInv, TypeOK
      <4> QED BY <4>1 DEF LifeInv, Written
    <3> QED BY <3>1, <3>2
  <2> QED BY <2>1, <2>3, <2>4
<1>8. CASE Monitor
  <2>1. main = "step" /\ mainStep < Steps /\ Wait(Main) /\ UNCHANGED <<arguments, boards>>
    BY <1>8 DEF Monitor
  <2>2. Main \in Participants /\ Main \notin waiting
    BY <1>2, <2>1 DEF Participants, LifeInv, StepInv, Together
  <2> QED BY <2>1, <2>2, WaitLife
<1>9. CASE Copy \/ Join \/ UNCHANGED vars
  BY <1>3, <1>9 DEF Copy, Join, vars, arguments, boards, thread, caller
<1> QED BY <1>4, <1>5, <1>6, <1>7, <1>8, <1>9 DEF Next, ThreadStep, MainStep, Finished

\* The threads compute the generations that GameOfLife computes, one at each
\* passage of the barrier, for any board with dead edges.
THEOREM ParallelIsLife ==
  ASSUME \A b \in Starts : Life!DeadEdges(b)
  PROVE  Spec => ImplementsLife
<1>1. Init => LifeInv /\ Life!Init
  <2> SUFFICES ASSUME Init PROVE LifeInv /\ Life!Init
    OBVIOUS
  <2>1. StepInv
    BY InitStepInv
  <2>2. mainStep = 0 /\ even = start /\ odd = start /\ Life!DeadEdges(start)
    BY DEF Init
  <2>3. Written
    <3>1. asked \in 1 .. MaxThreads /\ Threads \subseteq AllThreads
      BY <2>1, ParticipantsCounted DEF StepInv, TypeOK
    <3>2. \A t \in Threads : row[t] = 0 /\ Lower(t) \in Nat
      <4> TAKE t \in Threads
      <4>1. row[t] = 0
        BY <3>1 DEF Init
      <4>2. Lower(t) \in 0 .. Height
        BY <3>1, BandInBoard
      <4> QED BY <4>1, <4>2
    <3> QED BY <3>2 DEF Written
  <2>4. Life!Init
    BY <2>1, <2>2 DEF Life!Init, StepInv, TypeOK
  <2> QED BY <2>1, <2>2, <2>3, <2>4 DEF LifeInv, DeadEdgesInv
<1>2. LifeInv /\ [Next]_vars => LifeInv' /\ [Life!Next]_(Life!vars)
  BY StepInvKept, LifeInvKept DEF LifeInv, Life!vars, Current
<1> QED BY <1>1, <1>2, PTL DEF Spec, ImplementsLife, Life!Spec
==============================================================================
