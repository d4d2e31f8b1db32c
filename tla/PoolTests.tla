------------------------------ MODULE PoolTests ------------------------------
(***************************************************************************)
(* The tests of operating-systems/pool, pool-test.cc, on what the pool     *)
(* promises (TaskService), with as many workers as the test asks for.      *)
(*                                                                         *)
(* A thread is the test itself or a task; what it has still to do is a     *)
(* sequence of <<operation, task>>.  A test complains when a check fails,  *)
(* or when a name is waited for that the pool does not know.               *)
(***************************************************************************)
EXTENDS TaskService, Integers, FiniteSets, SequencesExt

CONSTANT Test       \* [name, threads, count, barrier, reverse]

VARIABLES
  group,            \* the test that runs
  todo,             \* of each thread
  arrived,          \* threads that are at the barrier
  barrier_check_count, counter,
  result,           \* what each task has stored: task_result, wait_results
  complaint

poolTestVars == <<status, waiting, group, todo, arrived, barrier_check_count, counter, result, complaint>>

\* A task is <<label, index>>.
Labels(label, n) == [i \in 1 .. n |-> <<label, i - 1>>]
Main == <<"main", 0>>
Threads == Tasks \cup {Main}

-----------------------------------------------------------------------------
(* Tasks *)

\* Run: BarrierTask, WaitForTaskTask, SubmitTaskTask, the tasks that count, and those that
\* do nothing
Run(t) ==
  CASE t[1] = "barrier" -> <<<<"arrive", t>>, <<"pass", t>>, <<"check in", t>>>>
    [] t[1] = "wait"    -> <<<<"wait", <<"empty", t[2]>>>>, <<"done", t>>>>
    [] t[1] = "submit"  -> <<<<"submit", <<"incr", t[2]>>>>>>
    [] t[1] = "empty"   -> << >>
    [] OTHER            -> <<<<"count", t>>>>

Each(op, ts) == [i \in DOMAIN ts |-> <<op, ts[i]>>]
Barrier(g) == Labels("barrier", g.threads)

\* submit_barrier_set, then the barrier itself, then cleanup_barrier_set, around the calls
\* that are made before the tasks at the barrier go on, and after
Around(g, before, after) ==
  Each("submit", Barrier(g)) \o before \o <<<<"arrive", Main>>, <<"pass", Main>>>>
    \o after \o Each("wait", Barrier(g))

\* Mutant of test_wait_for_from_future_tasks: the tasks at the barrier are not waited on.
WaitsWithoutBarrier(g) ==
  Each("submit", Labels("wait", g.threads - 1)) \o Each("submit", Labels("empty", g.threads - 1))
    \o Each("wait", Labels("wait", g.threads - 1))

test_run_in_order(g) ==
  LET tasks == Labels("inc", g.count)
      waits == Each("wait", IF g.reverse THEN Reverse(tasks) ELSE tasks)
  IN IF g.barrier THEN Around(g, Each("submit", tasks), waits) ELSE Each("submit", tasks) \o waits

test_wait_for_from_future_tasks(g) ==
  LET waits == Labels("wait", g.threads - 1) IN
  Around(g, Each("submit", waits) \o Each("submit", Labels("empty", g.threads - 1)), Each("wait", waits))

test_submit_many(g) ==
  LET pairs == [i \in 1 .. 2 * g.count |->
                  <<"wait", <<IF i % 2 = 1 THEN "submit" ELSE "incr", g.count - ((i + 1) \div 2)>>>>]
  IN Around(g, Each("submit", Labels("submit", g.count)), pairs)

test_submit_then_wait_then_submit(g) ==
  LET first == Labels("first", g.count)
      second == Labels("second", g.count)
  IN Each("submit", first) \o Each("wait", first) \o Each("submit", second) \o Each("wait", second)

Script(g) ==
  CASE g.name = "in order"    -> test_run_in_order(g)
    [] g.name = "future"      -> test_wait_for_from_future_tasks(g)
    [] g.name = "submit many" -> test_submit_many(g)
    [] OTHER                  -> test_submit_then_wait_then_submit(g)

-----------------------------------------------------------------------------
(* What the tests check when everything has been waited for *)

Results(ts) == {result[ts[i]] : i \in DOMAIN ts}
OneEach(ts) == counter = Len(ts) /\ \A i \in 0 .. Len(ts) - 1 : i \in Results(ts)
Deleted(ts) == \A i \in DOMAIN ts : status[ts[i]] = "returned"

run_in_order_checks(g) ==
  LET tasks == Labels("inc", g.count)
      wave == IF g.threads < g.count THEN g.threads ELSE g.count
  IN /\ OneEach(tasks) /\ Deleted(tasks)
     /\ g.threads = 1 => \A i \in DOMAIN tasks : result[tasks[i]] = i - 1
     /\ 0 \in Results(SubSeq(tasks, 1, wave))

Checks(g) ==
  /\ g.barrier => barrier_check_count = g.threads
  /\ g.name = "in order" => run_in_order_checks(g)
  /\ g.name = "future" => LET n == g.threads - 1 IN
       /\ Deleted(Labels("empty", n))
       /\ \A i \in 0 .. n - 1 : result[<<"wait", i>>] = 1
  /\ g.name = "submit many" => OneEach(Labels("incr", g.count))
  /\ g.name = "again" => OneEach(Labels("first", g.count) \o Labels("second", g.count))

-----------------------------------------------------------------------------
(* Steps *)

Starts(g) ==
  /\ Init
  /\ group = g
  /\ todo = [a \in Threads |-> IF a = Main THEN Script(g) \o <<<<"stop", Main>>>> ELSE Run(a)]
  /\ arrived = 0 /\ barrier_check_count = 0 /\ counter = 0
  /\ result = [t \in Tasks |-> -1]
  /\ complaint = FALSE

PoolTestsInit == \E g \in Test : Starts(g)

\* What a thread that runs does next
Does(a, op) ==
  /\ IF a = Main THEN TRUE ELSE status[a] = "running"
  /\ todo[a] # << >> /\ Head(todo[a])[1] = op
Subject(a) == Head(todo[a])[2]
Goes(a) == todo' = [todo EXCEPT ![a] = Tail(@)] /\ UNCHANGED group

Running == {t \in Tasks : status[t] = "running"}

\* Mutant of Begin: workers are not counted.
BeginUncounted ==
  /\ Start
  /\ UNCHANGED <<group, todo, arrived, barrier_check_count, counter, result, complaint>>

\* One of the workers that are free takes the next task.
Begin ==
  /\ Cardinality(Running) < group.threads
  /\ Start
  /\ UNCHANGED <<group, todo, arrived, barrier_check_count, counter, result, complaint>>

Ends(t) ==
  /\ todo[t] = << >>
  /\ Complete(t)
  /\ UNCHANGED <<group, todo, arrived, barrier_check_count, counter, result, complaint>>

Submits(a) ==
  /\ Does(a, "submit") /\ Goes(a)
  /\ Submit(Subject(a))
  /\ UNCHANGED <<arrived, barrier_check_count, counter, result, complaint>>

\* The name of a task that was not submitted, or was waited for, is not found.
Waits(a) ==
  /\ Does(a, "wait") /\ Goes(a)
  /\ IF status[Subject(a)] \in {"new", "returned"}
     THEN complaint' = TRUE /\ UNCHANGED <<status, waiting>>
     ELSE Return(Subject(a)) /\ UNCHANGED complaint
  /\ UNCHANGED <<arrived, barrier_check_count, counter, result>>

Arrives(a) ==
  /\ Does(a, "arrive") /\ Goes(a)
  /\ arrived' = arrived + 1
  /\ UNCHANGED <<status, waiting, barrier_check_count, counter, result, complaint>>

\* The barrier is for the workers and the test itself.
Passes(a) ==
  /\ Does(a, "pass") /\ Goes(a)
  /\ arrived >= group.threads + 1
  /\ UNCHANGED <<status, waiting, arrived, barrier_check_count, counter, result, complaint>>

ChecksIn(a) ==
  /\ Does(a, "check in") /\ Goes(a)
  /\ barrier_check_count' = barrier_check_count + 1
  /\ UNCHANGED <<status, waiting, arrived, counter, result, complaint>>

Counts(a) ==
  /\ Does(a, "count") /\ Goes(a)
  /\ result' = [result EXCEPT ![a] = counter]
  /\ counter' = counter + 1
  /\ UNCHANGED <<status, waiting, arrived, barrier_check_count, complaint>>

Notes(a) ==
  /\ Does(a, "done") /\ Goes(a)
  /\ result' = [result EXCEPT ![a] = 1]
  /\ UNCHANGED <<status, waiting, arrived, barrier_check_count, counter, complaint>>

\* Stop, which all tasks must have been waited for before, and the checks
Finishes(a) ==
  /\ Does(a, "stop") /\ Goes(a)
  /\ complaint' = (complaint \/ \E t \in Tasks : status[t] \notin {"new", "returned"} \/ ~Checks(group))
  /\ UNCHANGED <<status, waiting, arrived, barrier_check_count, counter, result>>

Steps(a) ==
  Submits(a) \/ Waits(a) \/ Arrives(a) \/ Passes(a) \/ ChecksIn(a) \/ Counts(a) \/ Notes(a) \/ Finishes(a)

PoolTestsNext == Begin \/ (\E t \in Tasks : Ends(t)) \/ (\E a \in Threads : Steps(a))

-----------------------------------------------------------------------------

\* Whatever the order in which workers and the test go on, its checks hold, no name is
\* waited for that is not there, and the test comes to its end: nobody waits for a task
\* that cannot begin, nor at the barrier for one that does not come.
PoolTestsPass ==
  /\ ~complaint
  /\ todo[Main] # << >> => ENABLED PoolTestsNext
=============================================================================
