------------------------------ MODULE ThreadPool ------------------------------
(***************************************************************************)
(* The thread pool of pool/pool.cc: N worker threads, and callers that     *)
(* submit tasks, wait for them and stop the pool.  Between lock and unlock *)
(* of shared_data_lock a thread is alone, so such a section is one step;   *)
(* Run and the semaphore operations outside it are steps of their own.     *)
(*                                                                         *)
(* Callers keep to pool.h: a name is submitted once and waited for once.   *)
(* A task waits for a task submitted before it, or for a later one as long *)
(* as this leaves a worker to run it, as the tasks of pool-test.cc do.     *)
(***************************************************************************)
EXTENDS Integers, FiniteSets, SequencesExt

CONSTANTS N,         \* num_threads
          Clients,   \* the threads that use the pool from outside
          Tasks,     \* the tasks, each with a name of its own
          NoTask     \* NULL

ASSUME PoolAssumption == /\ N \in Nat \ {0}
                         /\ Clients \cap (1 .. N) = {}
                         /\ NoTask \notin Tasks

Workers == 1 .. N
Callers == Clients \cup Workers  \* a task's Run calls from its worker thread

VARIABLES
  queue,      \* task_queue
  lookup,     \* the tasks in task_lookup; one that has left it is deleted
  assigned,   \* tasks_have_been_assigned_sem
  completed,  \* task_has_completed_sem of each task
  worker,     \* where each worker is: see PoolTypeOK
  job,        \* task, in each worker
  terminate,  \* thread_args->terminate of each worker
  at,         \* where each caller is in WaitForTask, or "out"
  target,     \* the task it waits for
  stop,       \* where Stop is, or "no"
  stopping,   \* the worker its loop is at
  thrown,     \* has map::at thrown, with the lock held?
  submitted,  \* history: the tasks in the order of their submission
  claimed     \* history: the tasks WaitForTask was called for

shared == <<queue, lookup, assigned, completed>>
threads == <<worker, job, terminate>>
calls == <<at, target>>
stops == <<stop, stopping>>
poolVars == <<shared, threads, calls, stops, thrown, submitted, claimed>>

PoolInit == /\ queue = << >> /\ lookup = {}
            /\ assigned = 1
            /\ completed = [t \in Tasks |-> 0]
            /\ worker = [w \in Workers |-> "top"]
            /\ job = [w \in Workers |-> NoTask]
            /\ terminate = [w \in Workers |-> FALSE]
            /\ at = [c \in Callers |-> "out"]
            /\ target = [c \in Callers |-> NoTask]
            /\ stop = "no" /\ stopping = 1
            /\ thrown = FALSE
            /\ submitted = << >> /\ claimed = {}

\* A section under shared_data_lock can be entered, and broadcast in it wakes
\* the workers that wait.
Locks == ~thrown
Broadcast == [w \in Workers |-> IF worker[w] = "waiting" THEN "top" ELSE worker[w]]

-----------------------------------------------------------------------------
\* worker_thread

\* The top of the loop, where there is no task.
CondWait(w) == /\ Locks /\ worker[w] = "top"
               /\ queue = << >> /\ ~terminate[w]
               /\ worker' = [worker EXCEPT ![w] = "waiting"]
               /\ UNCHANGED <<shared, job, terminate, calls, stops, thrown, submitted, claimed>>

\* pthread_cond_wait may return without a broadcast.
WakeSpuriously(w) ==
  /\ worker[w] = "waiting"
  /\ worker' = [worker EXCEPT ![w] = "top"]
  /\ UNCHANGED <<shared, job, terminate, calls, stops, thrown, submitted, claimed>>

\* Mutant of Take: the task submitted last is started first.
TakeLast(w) == /\ Locks /\ worker[w] = "top" /\ queue # << >>
               /\ job' = [job EXCEPT ![w] = Last(queue)]
               /\ queue' = Front(queue)
               /\ assigned' = assigned + 1
               /\ worker' = [worker EXCEPT ![w] = "running"]
               /\ UNCHANGED <<lookup, completed, terminate, calls, stops, thrown, submitted, claimed>>

\* Mutant of Take: tasks_have_been_assigned_sem is not posted.
TakeUnposted(w) == /\ Locks /\ worker[w] = "top" /\ queue # << >>
                   /\ job' = [job EXCEPT ![w] = Head(queue)]
                   /\ queue' = Tail(queue)
                   /\ worker' = [worker EXCEPT ![w] = "running"]
                   /\ UNCHANGED <<lookup, assigned, completed, terminate, calls, stops, thrown,
                                  submitted, claimed>>

\* The top of the loop, where there is one; it is started.
Take(w) == /\ Locks /\ worker[w] = "top" /\ queue # << >>
           /\ thrown' = (Head(queue) \notin lookup)
           /\ job' = [job EXCEPT ![w] = Head(queue)]
           /\ queue' = Tail(queue)
           /\ assigned' = assigned + 1
           /\ worker' = [worker EXCEPT ![w] = "running"]
           /\ UNCHANGED <<lookup, completed, terminate, calls, stops, submitted, claimed>>

\* Run returns and completion is posted.
Complete(w) == /\ worker[w] = "running" /\ at[w] = "out"
               /\ completed' = [completed EXCEPT ![job[w]] = @ + 1]
               /\ job' = [job EXCEPT ![w] = NoTask]
               /\ worker' = [worker EXCEPT ![w] = "ran"]
               /\ UNCHANGED <<queue, lookup, assigned, terminate, calls, stops, thrown,
                              submitted, claimed>>

GoOn(w) == /\ Locks /\ worker[w] = "ran"
           /\ worker' = [worker EXCEPT ![w] = IF terminate[w] THEN "exited" ELSE "top"]
           /\ UNCHANGED <<shared, job, terminate, calls, stops, thrown, submitted, claimed>>

Exit(w) == /\ Locks /\ worker[w] = "top"
           /\ queue = << >> /\ terminate[w]
           /\ worker' = [worker EXCEPT ![w] = "exited"]
           /\ UNCHANGED <<shared, job, terminate, calls, stops, thrown, submitted, claimed>>

-----------------------------------------------------------------------------
\* SubmitTask and WaitForTask, called by a client or by a task that runs.

MayCall(c) == /\ at[c] = "out"
              /\ IF c \in Workers THEN worker[c] = "running" ELSE stop = "no"

\* Not after Stop, and each name once.
MaySubmit(c, t) == MayCall(c) /\ stop = "no" /\ t \notin ToSet(submitted)

\* Mutant of SubmitTask: the waiting workers are not told.
SubmitSilently(c, t) ==
  /\ Locks /\ MaySubmit(c, t)
  /\ queue' = Append(queue, t)
  /\ lookup' = lookup \cup {t}
  /\ submitted' = Append(submitted, t)
  /\ UNCHANGED <<assigned, completed, threads, calls, stops, thrown, claimed>>

SubmitTask(c, t) ==
  /\ Locks /\ MaySubmit(c, t)
  /\ queue' = Append(queue, t)
  /\ lookup' = lookup \cup {t}
  /\ worker' = Broadcast
  /\ submitted' = Append(submitted, t)
  /\ UNCHANGED <<assigned, completed, job, terminate, calls, stops, thrown, claimed>>

Waiting == {w \in Workers : at[w] # "out"}

Before(t, u) ==
  \E i, j \in DOMAIN submitted : i < j /\ submitted[i] = t /\ submitted[j] = u

\* A client waits for any task.  Tasks wait for earlier ones, on as many workers as they
\* like; or for any, but on all workers but one, and none for a task that waits.
MayWaitFor(c, t) ==
  /\ t \in ToSet(submitted) \ claimed
  /\ c \in Workers =>
       \/ Before(t, job[c]) /\ \A w \in Waiting : Before(target[w], job[w])
       \/ /\ Cardinality(Waiting) < N - 1
          /\ t # job[c] /\ \A w \in Waiting : t # job[w] /\ job[c] # target[w]

\* Mutant of WaitForTask: it does not wait for the task to complete.
WaitForTaskStarted(c, t) ==
  /\ Locks /\ MayCall(c) /\ MayWaitFor(c, t)
  /\ at' = [at EXCEPT ![c] = "assigned"]
  /\ target' = [target EXCEPT ![c] = t]
  /\ claimed' = claimed \cup {t}
  /\ UNCHANGED <<shared, threads, stops, thrown, submitted>>

WaitForTask(c, t) ==
  /\ Locks /\ MayCall(c) /\ MayWaitFor(c, t)
  /\ thrown' = (t \notin lookup)
  /\ at' = [at EXCEPT ![c] = "completed"]
  /\ target' = [target EXCEPT ![c] = t]
  /\ claimed' = claimed \cup {t}
  /\ UNCHANGED <<shared, threads, stops, submitted>>

\* sem_wait on the task, then on the pool.
AwaitCompleted(c) ==
  /\ at[c] = "completed" /\ completed[target[c]] > 0
  /\ completed' = [completed EXCEPT ![target[c]] = @ - 1]
  /\ at' = [at EXCEPT ![c] = "assigned"]
  /\ UNCHANGED <<queue, lookup, assigned, threads, target, stops, thrown, submitted, claimed>>

AwaitAssigned(c) ==
  /\ at[c] = "assigned" /\ assigned > 0
  /\ assigned' = assigned - 1
  /\ at' = [at EXCEPT ![c] = "cleanup"]
  /\ UNCHANGED <<queue, lookup, completed, threads, target, stops, thrown, submitted, claimed>>

\* The task is deleted, and WaitForTask returns.
Cleanup(c) ==
  /\ Locks /\ at[c] = "cleanup"
  /\ lookup' = lookup \ {target[c]}
  /\ at' = [at EXCEPT ![c] = "out"]
  /\ target' = [target EXCEPT ![c] = NoTask]
  /\ UNCHANGED <<queue, assigned, completed, threads, stops, thrown, submitted, claimed>>

-----------------------------------------------------------------------------
\* Stop: every task has been waited for.
CallStop ==
  /\ stop = "no"
  /\ lookup = {}
  /\ \A c \in Clients : at[c] = "out"
  /\ assigned > 0
  /\ assigned' = assigned - 1
  /\ stop' = "mark"
  /\ UNCHANGED <<queue, lookup, completed, threads, calls, stopping, thrown, submitted, claimed>>

\* Mutant of Mark: the waiting workers are not told.
MarkSilently ==
  /\ Locks /\ stop = "mark"
  /\ terminate' = [terminate EXCEPT ![stopping] = TRUE]
  /\ stop' = "join"
  /\ UNCHANGED <<shared, worker, job, calls, stopping, thrown, submitted, claimed>>

Mark ==
  /\ Locks /\ stop = "mark"
  /\ terminate' = [terminate EXCEPT ![stopping] = TRUE]
  /\ worker' = Broadcast
  /\ stop' = "join"
  /\ UNCHANGED <<shared, job, calls, stopping, thrown, submitted, claimed>>

\* pthread_join returns; after the last one the pool is taken down.
JoinWorker ==
  /\ stop = "join" /\ worker[stopping] = "exited"
  /\ stop' = IF stopping = N THEN "done" ELSE "mark"
  /\ stopping' = IF stopping = N THEN N ELSE stopping + 1
  /\ UNCHANGED <<shared, threads, calls, thrown, submitted, claimed>>

\* The program goes on without the pool.
Gone == stop = "done" /\ UNCHANGED poolVars

-----------------------------------------------------------------------------
WorkerStep(w) == CondWait(w) \/ Take(w) \/ Complete(w) \/ GoOn(w) \/ Exit(w)
CallStep(c) == AwaitCompleted(c) \/ AwaitAssigned(c) \/ Cleanup(c)
StopStep == Mark \/ JoinWorker

PoolNext == \/ \E w \in Workers : WorkerStep(w) \/ WakeSpuriously(w)
            \/ \E c \in Callers : \/ CallStep(c)
                                  \/ \E t \in Tasks : SubmitTask(c, t) \/ WaitForTask(c, t)
            \/ CallStop
            \/ StopStep
            \/ Gone

PoolSpec == PoolInit /\ [][PoolNext]_poolVars

\* The scheduler runs every thread that can run, and Run returns.
Fairness == /\ \A w \in Workers : WF_poolVars(WorkerStep(w))
            /\ \A c \in Callers : WF_poolVars(CallStep(c))
            /\ WF_poolVars(StopStep)

PoolFairSpec == PoolSpec /\ Fairness

-----------------------------------------------------------------------------
PoolTypeOK ==
  /\ queue \in Seq(Tasks) /\ lookup \subseteq Tasks
  /\ assigned \in Nat /\ completed \in [Tasks -> Nat]
  /\ worker \in [Workers -> {"top", "waiting", "running", "ran", "exited"}]
  /\ job \in [Workers -> Tasks \cup {NoTask}]
  /\ terminate \in [Workers -> BOOLEAN]
  /\ at \in [Callers -> {"out", "completed", "assigned", "cleanup"}]
  /\ target \in [Callers -> Tasks \cup {NoTask}]
  /\ stop \in {"no", "mark", "join", "done"} /\ stopping \in Workers
  /\ thrown \in BOOLEAN
  /\ submitted \in Seq(Tasks) /\ claimed \subseteq Tasks

\* A task that is queued, runs, or is being waited for has not been deleted.
NoUseAfterDelete ==
  /\ ToSet(queue) \subseteq lookup
  /\ \A w \in Workers : worker[w] = "running" => job[w] \in lookup
  /\ \A c \in Callers : at[c] # "out" => target[c] \in lookup

\* No map::at throws and leaves the lock taken for ever.
LockReleased == ~thrown

\* The pool implements the service.
Status(t) == IF t \notin ToSet(submitted) THEN "new"
             ELSE IF t \notin lookup THEN "returned"
             ELSE IF t \in ToSet(queue) THEN "queued"
             ELSE IF \E w \in Workers : job[w] = t THEN "running"
             ELSE "completed"
Service == INSTANCE TaskService WITH
             status  <- [t \in Tasks |-> Status(t)],
             waiting <- queue
ImplementsService == Service!Spec

\* Every submitted task completes, though tasks wait for others while they hold
\* a worker each.
EveryTaskCompletes ==
  \A t \in Tasks : (t \in ToSet(submitted)) ~> (Status(t) \in {"completed", "returned"})

\* Every WaitForTask returns, though semaphores are posted and deleted by others
\* meanwhile; and so does Stop, though workers may be about to wait when it broadcasts.
EveryCallReturns == /\ \A c \in Callers : (at[c] # "out") ~> (at[c] = "out")
                    /\ (stop # "no") ~> (stop = "done")
=============================================================================
