------------------------------- MODULE TwoPhase -------------------------------
(***************************************************************************)
(* The coordinator of twophase/coordinator.py and its N workers: requests, *)
(* elections and their resolution as sequences of remote calls, any of     *)
(* which may fail, with the recovery each process does from its log.       *)
(*                                                                         *)
(* The coordinator's server has one thread, which is in Brain while phase  *)
(* is "serving" (a client's SetValue) or "recovering" (__init__).  A       *)
(* remote call that raises ends Brain: in __init__ the process with it.    *)
(*                                                                         *)
(* A worker's server has one thread, so a handler of twophase/worker.py is *)
(* one step; it maps a worker to the set of its possible outcomes          *)
(* [to |-> worker afterwards, reply |-> answer to the caller], more than   *)
(* one where set_last_entry may raise and the server goes on.              *)
(***************************************************************************)
EXTENDS Integers, FiniteSets

-----------------------------------------------------------------------------
\* A worker: its memory, its log, and what its handlers do to them

CONSTANTS Values,    \* the values clients set
          None,      \* Python's None
          LogErrors  \* the handlers whose set_last_entry may raise

ASSUME WorkerAssumption == None \notin Values

WorkerState == {"INIT", "AGREED-TO-COMMIT"}
Tid == Int

\* new is None where the entry has no 'new_value' key.
LogEntry == [state : WorkerState, value : Values \cup {None},
             new : Values \cup {None}, tid : Tid]

WorkerType == [up : BOOLEAN, state : WorkerState, value : Values \cup {None},
               next : Values \cup {None}, tid : Tid, log : LogEntry]

Reply == [content : {"COMMIT", "ABORT", "empty", "error"}, tid : Tid]
Empty == [content |-> "empty", tid |-> 0]
Error == [content |-> "error", tid |-> 0]

\* A new log is recovered from exactly as this entry would be.
NewLog == [state |-> "INIT", value |-> None, new |-> None, tid |-> -1]

NewWorker == [up |-> TRUE, state |-> "INIT", value |-> None, next |-> None,
              tid |-> -1, log |-> NewLog]

\* __init__ reads log_entry['new_value'] and raises where there is none.
CanRecover(w) == w.log.state = "INIT" \/ w.log.new # None

Recovered(w) == [up |-> TRUE, state |-> w.log.state, value |-> w.log.value,
                 next |-> w.log.new, tid |-> w.log.tid, log |-> w.log]

Crashed(w) == [NewWorker EXCEPT !.up = FALSE, !.log = w.log]

-----------------------------------------------------------------------------
\* A handler has brought the worker to before and calls set_last_entry(entry):
\* it goes on to after, or raises before or after the entry is stored.
Logs(op, before, entry, after, reply) ==
  {[to |-> [after EXCEPT !.log = entry], reply |-> reply]} \cup
  (IF op \in LogErrors
   THEN {[to |-> before, reply |-> Error],
         [to |-> [before EXCEPT !.log = entry], reply |-> Error]}
   ELSE {})

Refuses(w, t) == w.state # "INIT" \/ t < w.tid

\* Mutant of CastVote: the vote is answered without being logged.
CastVoteUnlogged(w, v, t) ==
  IF Refuses(w, t)
  THEN {[to |-> w, reply |-> [content |-> "ABORT", tid |-> w.tid]]}
  ELSE {[to |-> [w EXCEPT !.next = v, !.tid = t, !.state = "AGREED-TO-COMMIT"],
         reply |-> [content |-> "COMMIT", tid |-> t]]}

CastVote(w, v, t) ==
  IF Refuses(w, t)
  THEN {[to |-> w, reply |-> [content |-> "ABORT", tid |-> w.tid]]}
  ELSE LET voting == [w EXCEPT !.next = v, !.tid = t]
       IN Logs("CastVote", voting,
               [state |-> "AGREED-TO-COMMIT", value |-> w.value, new |-> v, tid |-> t],
               [voting EXCEPT !.state = "AGREED-TO-COMMIT"],
               [content |-> "COMMIT", tid |-> t])

Commit(w) ==
  LET done == [w EXCEPT !.value = w.next, !.next = None]
  IN Logs("Commit", done,
          [state |-> "INIT", value |-> w.next, new |-> None, tid |-> w.tid],
          [done EXCEPT !.state = "INIT"], Empty)

\* The transaction of the request is not looked at.
SetValue(w) == IF w.next = None THEN {[to |-> w, reply |-> Empty]} ELSE Commit(w)

\* Mutant of Abort: the transactions are compared the wrong way round.
AbortSwapped(w, t) ==
  LET dropped == [w EXCEPT !.next = None]
  IN Logs("Abort", dropped,
          [state |-> IF t = w.tid THEN "AGREED-TO-COMMIT" ELSE "INIT",
           value |-> w.value, new |-> None, tid |-> w.tid],
          [dropped EXCEPT !.state = "INIT"], Empty)

\* The entry of an Abort of another transaction has no 'new_value'.
Abort(w, t) ==
  LET dropped == [w EXCEPT !.next = None]
  IN Logs("Abort", dropped,
          [state |-> IF t = w.tid THEN "INIT" ELSE "AGREED-TO-COMMIT",
           value |-> w.value, new |-> None, tid |-> w.tid],
          [dropped EXCEPT !.state = "INIT"], Empty)

\* Mutant of Available: GetCommitted answers in the middle of a transaction.
AvailableAlways(w) == w.up

\* What GetCommitted answers with available = True.
Available(w) == w.up /\ w.state = "INIT"

-----------------------------------------------------------------------------
\* The coordinator


CONSTANTS N,                \* the number of workers
          MaxTransactions,  \* bound on the transactions a coordinator starts
          MaxFaults,        \* bound on crashes, failed calls and log errors
          MaxDelayed,       \* bound on the calls the network keeps
          Delayable         \* the calls it may keep and deliver later

ASSUME TwoPhaseAssumption ==
  /\ N \in Nat \ {0}
  /\ MaxTransactions \in Nat
  /\ MaxFaults \in Nat
  /\ MaxDelayed \in Nat
  /\ Delayable \subseteq {"CastVote", "SetValue", "Abort"}

Worker == 1 .. N
Message == [op : {"CastVote", "SetValue", "Abort"}, to : Worker,
            value : Values \cup {None}, tid : Tid]
CoordinatorState == {"INIT", "WAITING", "COMMIT", "ABORT"}
CoordinatorEntry == [state : CoordinatorState, counter : Nat, tid : Int,
                     value : Values \cup {None}]

VARIABLES
  phase,      \* "down", "ready", "serving" or "recovering"
  state,      \* self._state
  counter,    \* self._counter
  tid,        \* self._cur_transaction_id
  newValue,   \* self._new_value
  next,       \* the worker whose stub the loop over the stubs is at
  yes,        \* c, the COMMIT ballots of this transaction
  log,        \* the coordinator's last log entry
  worker,     \* the workers
  delayed,    \* the calls the network has kept, for ever: they may repeat
  committed,  \* history: the value of the last COMMIT entry logged
  faults      \* the faults so far

memory == <<state, counter, tid, newValue>>
vars == <<phase, state, counter, tid, newValue, next, yes, log, worker,
          delayed, committed, faults>>

\* A new log is recovered from exactly as this entry would be.
NewCoordinatorLog ==
  [state |-> "INIT", counter |-> 0, tid |-> -1, value |-> None]

Init == /\ phase = "ready"
        /\ state = "INIT"
        /\ counter = 0
        /\ tid = -1
        /\ newValue = None
        /\ next = 1
        /\ yes = 0
        /\ log = NewCoordinatorLog
        /\ worker = [w \in Worker |-> NewWorker]
        /\ delayed = {}
        /\ committed = None
        /\ faults = 0

Fault == faults < MaxFaults /\ faults' = faults + 1

InBrain == phase \in {"serving", "recovering"}

\* An exception leaves Brain, with the memory as it is.
Raise == phase' = IF phase = "recovering" THEN "down" ELSE "ready"

-----------------------------------------------------------------------------
\* The coordinator's own steps.

\* SetValue where the coordinator is idle, then HandleRequest.  Where it is
\* not, SetValue answers the client and does nothing else.
Request(v) ==
  /\ phase = "ready" /\ state = "INIT"
  /\ counter < MaxTransactions
  /\ counter' = counter + 1
  /\ tid' = counter + 1
  /\ newValue' = v
  /\ LET entry == [state |-> "WAITING", counter |-> counter + 1,
                   tid |-> counter + 1, value |-> v]
     IN \/ /\ log' = entry
           /\ state' = "WAITING"
           /\ phase' = "serving"
           /\ next' = 1 /\ yes' = 0
           /\ UNCHANGED faults
        \/ /\ "Coordinator" \in LogErrors /\ Fault
           /\ log' \in {log, entry}
           /\ UNCHANGED <<phase, state, next, yes>>
  /\ UNCHANGED <<worker, delayed, committed>>

\* Mutant of Decide: the decision is acted on without being logged.
DecideUnlogged ==
  /\ InBrain /\ state = "WAITING" /\ next > N
  /\ state' = IF yes = N THEN "COMMIT" ELSE "ABORT"
  /\ next' = 1
  /\ UNCHANGED <<phase, faults, counter, tid, newValue, yes, log, worker,
                 delayed, committed>>

\* The end of ConductElection: the decision is the one entry that is logged.
Decide ==
  /\ InBrain /\ state = "WAITING" /\ next > N
  /\ LET decision == IF yes = N THEN "COMMIT" ELSE "ABORT"
         entry == [state |-> decision, counter |-> counter, tid |-> tid, value |-> newValue]
         logged == IF decision = "COMMIT" THEN newValue ELSE committed
     IN \/ /\ log' = entry
           /\ committed' = logged
           /\ state' = decision
           /\ next' = 1
           /\ UNCHANGED <<phase, faults>>
        \/ /\ "Coordinator" \in LogErrors /\ Fault
           /\ \/ UNCHANGED <<log, committed>>
              \/ log' = entry /\ committed' = logged
           /\ Raise
           /\ UNCHANGED <<state, next>>
  /\ UNCHANGED <<counter, tid, newValue, yes, worker, delayed>>

\* The end of ResolveElection, which ends Brain.
Finish ==
  /\ InBrain /\ state \in {"COMMIT", "ABORT"} /\ next > N
  /\ LET entry == [state |-> "INIT", counter |-> counter, tid |-> -1, value |-> None]
     IN \/ /\ log' = entry
           /\ state' = "INIT"
           /\ phase' = "ready"
           /\ UNCHANGED faults
        \/ /\ "Coordinator" \in LogErrors /\ Fault
           /\ log' \in {log, entry}
           /\ Raise
           /\ UNCHANGED state
  /\ UNCHANGED <<counter, tid, newValue, next, yes, worker, delayed, committed>>

\* What the mutants of Start leave as it is.
StartsUp == /\ phase = "down"
            /\ tid' = log.tid /\ newValue' = log.value /\ yes' = 0
            /\ UNCHANGED <<log, worker, delayed, committed, faults>>
Resumes == phase' = IF log.state = "INIT" THEN "ready" ELSE "recovering"

\* Mutants of Start: every unfinished transaction is voted on again, ...
StartReElects == /\ StartsUp /\ Resumes /\ counter' = log.counter /\ next' = 1
                 /\ state' = IF log.state = "INIT" THEN "INIT" ELSE "WAITING"

\* ... the state is recovered, but Brain is not entered.
StartWithoutBrain == /\ StartsUp /\ phase' = "ready" /\ next' = 1
                     /\ state' = log.state /\ counter' = log.counter

\* __init__: an entry other than INIT puts the coordinator back into Brain.
Start ==
  /\ phase = "down"
  /\ phase' = IF log.state = "INIT" THEN "ready" ELSE "recovering"
  /\ state' = log.state
  /\ counter' = log.counter
  /\ tid' = log.tid
  /\ newValue' = IF log.state = "ABORT" THEN None ELSE log.value
  /\ next' = 1
  /\ yes' = 0
  /\ UNCHANGED <<log, worker, delayed, committed, faults>>

GoesDown ==
  /\ phase' = "down"
  /\ state' = "INIT" /\ counter' = 0 /\ tid' = -1 /\ newValue' = None
  /\ next' = 1 /\ yes' = 0
  /\ UNCHANGED <<log, worker, delayed, committed>>

Crash == /\ phase # "down" /\ Fault
         /\ GoesDown

\* The operator restarts a coordinator that a failed call has left in the
\* middle of a transaction (recover_coordinator in test_util.py).
StopToRecover == /\ phase = "ready" /\ state # "INIT"
                 /\ GoesDown
                 /\ UNCHANGED faults

-----------------------------------------------------------------------------
\* Remote calls.

\* Worker m.to runs the handler m asks for.
Handled(m) ==
  CASE m.op = "CastVote" -> CastVote(worker[m.to], m.value, m.tid)
    [] m.op = "SetValue" -> SetValue(worker[m.to])
    [] m.op = "Abort"    -> Abort(worker[m.to], m.tid)

\* What the loops do with a reply: ConductElection counts, ResolveElection not.
Counted(reply) ==
  IF reply.content = "COMMIT" /\ reply.tid = tid THEN yes + 1 ELSE yes

\* The call the loop of the coordinator's state is at.
Pending ==
  [op    |-> CASE state = "WAITING" -> "CastVote"
               [] state = "COMMIT"  -> "SetValue"
               [] OTHER             -> "Abort",
   to    |-> next, value |-> newValue, tid |-> tid]

Calling == InBrain /\ next <= N /\ state # "INIT"

\* The call is made and answered; an error in the handler is one here too.
CallAnswered ==
  /\ Calling /\ worker[next].up
  /\ \E outcome \in Handled(Pending) :
       /\ worker' = [worker EXCEPT ![next] = outcome.to]
       /\ \/ /\ outcome.reply # Error
             /\ next' = next + 1
             /\ yes' = Counted(outcome.reply)
             /\ UNCHANGED <<phase, faults>>
          \/ /\ outcome.reply = Error
             /\ Fault /\ Raise
             /\ UNCHANGED <<next, yes>>
  /\ UNCHANGED <<memory, log, delayed, committed>>

\* The call fails: its worker is down, or the request, or the answer, is lost.
CallLost ==
  /\ Calling
  /\ Raise
  /\ \/ ~worker[next].up /\ UNCHANGED <<worker, faults>>
     \/ worker[next].up /\ Fault /\ UNCHANGED worker
     \/ /\ worker[next].up /\ Fault
        /\ \E outcome \in Handled(Pending) :
             worker' = [worker EXCEPT ![next] = outcome.to]
  /\ UNCHANGED <<memory, next, yes, log, delayed, committed>>

\* The call fails here, but the network keeps the request.
CallDelayed ==
  /\ Calling /\ Pending.op \in Delayable
  /\ Cardinality(delayed) < MaxDelayed
  /\ Fault /\ Raise
  /\ delayed' = delayed \cup {Pending}
  /\ UNCHANGED <<memory, next, yes, log, worker, committed>>

\* A request kept earlier reaches its worker, now or again.
Replay(m) ==
  /\ worker[m.to].up
  /\ \E outcome \in Handled(m) :
       worker' = [worker EXCEPT ![m.to] = outcome.to]
  /\ UNCHANGED <<phase, memory, next, yes, log, delayed, committed, faults>>

-----------------------------------------------------------------------------
\* Workers stop and come back.

WorkerCrash(w) ==
  /\ worker[w].up /\ Fault
  /\ worker' = [worker EXCEPT ![w] = Crashed(worker[w])]
  /\ UNCHANGED <<phase, memory, next, yes, log, delayed, committed>>

WorkerStart(w) ==
  /\ ~worker[w].up /\ CanRecover(worker[w])
  /\ worker' = [worker EXCEPT ![w] = Recovered(worker[w])]
  /\ UNCHANGED <<phase, memory, next, yes, log, delayed, committed, faults>>

Next == \/ \E v \in Values : Request(v)
        \/ Decide
        \/ Finish
        \/ Start
        \/ Crash
        \/ StopToRecover
        \/ CallAnswered
        \/ CallLost
        \/ CallDelayed
        \/ \E m \in delayed : Replay(m)
        \/ \E w \in Worker : WorkerCrash(w) \/ WorkerStart(w)

Spec == Init /\ [][Next]_vars

-----------------------------------------------------------------------------
TypeOK == /\ phase \in {"down", "ready", "serving", "recovering"}
          /\ state \in CoordinatorState
          /\ counter \in Nat
          /\ tid \in Int
          /\ newValue \in Values \cup {None}
          /\ next \in 1 .. N + 1
          /\ yes \in Nat
          /\ log \in CoordinatorEntry
          /\ worker \in [Worker -> WorkerType]
          /\ delayed \subseteq Message
          /\ committed \in Values \cup {None}
          /\ faults \in 0 .. MaxFaults

\* Two workers that both answer GetCommitted answer the same value, at every
\* moment: what TransitionChecker and check_values of test_util.py assert.
Agreement ==
  \A w1, w2 \in Worker :
    Available(worker[w1]) /\ Available(worker[w2]) => worker[w1].value = worker[w2].value

\* While the coordinator's log says COMMIT, every worker has that transaction
\* in its own log, agreed to or carried out: no crash can take a vote back.
CommitIsDurable ==
  log.state = "COMMIT" =>
    \A w \in Worker :
      LET entry == worker[w].log
      IN /\ entry.tid = log.tid
         /\ log.value = IF entry.state = "INIT" THEN entry.value ELSE entry.new

\* An idle coordinator has left nothing behind: every worker, up or down, has
\* the value of the last committed transaction in its log and is not blocked.
IdleMeansSettled ==
  phase = "ready" /\ state = "INIT" =>
    \A w \in Worker : worker[w].log.state = "INIT" /\ worker[w].log.value = committed

\* A worker that stops can be started again from its log.
Recoverable == \A w \in Worker : CanRecover(worker[w])

\* A logged decision is never taken again: a COMMIT or ABORT entry is only
\* ever followed by the INIT entry that ends its transaction.
DecisionFinal ==
  [][log.state \in {"COMMIT", "ABORT"} /\ log' # log => log'.state = "INIT"]_vars

\* A worker that has promised to commit gives the promise up only for what
\* the coordinator has logged about that same transaction.
VoteHonoured ==
  [][\A w \in Worker :
       LET old == worker[w].log  new == worker'[w].log
       IN old.state = "AGREED-TO-COMMIT" /\ new # old =>
            /\ log.tid = old.tid
            /\ \/ log.state = "COMMIT" /\ new.state = "INIT" /\ new.value = old.new
               \/ log.state = "ABORT" /\ new.state = "INIT" /\ new.value = old.value]_vars

\* A new transaction has a number no worker and no call on the network has
\* seen, whatever has crashed and recovered since the first.
FreshTransaction ==
  [][\A v \in Values : Request(v) =>
       /\ \A w \in Worker : worker[w].tid < tid' /\ worker[w].log.tid < tid'
       /\ \A m \in delayed : m.tid < tid']_vars

\* Readers of the workers see one value that changes while none of them shows it.
OneValue == INSTANCE ReplicatedValue WITH
              Hidden <- "unavailable",
              value  <- committed,
              view   <- [w \in Worker |-> IF Available(worker[w]) THEN worker[w].value
                                          ELSE "unavailable"]
ShowsOneValue == OneValue!Spec

-----------------------------------------------------------------------------
\* The code's own scheduling: a process that is up runs, one that is down is
\* started again.  A stuck coordinator is up, and nothing restarts it.
CodeFairness ==
  /\ WF_vars(CallAnswered \/ CallLost \/ Decide \/ Finish)
  /\ WF_vars(Start)
  /\ \A w \in Worker : WF_vars(WorkerStart(w))

CodeSpec == Spec /\ CodeFairness

\* With an operator who restarts the coordinator after a failed call, as each
\* scenario of failure_test.py does.
OperatedSpec == CodeSpec /\ WF_vars(StopToRecover)

\* Where the network keeps no call back (one that comes after its transaction
\* may leave a vote nobody resolves): a worker that has voted is not left
\* blocked, it becomes available again.
NoWorkerBlocked ==
  \A w \in Worker :
    (worker[w].state = "AGREED-TO-COMMIT") ~> (Available(worker[w]) \/ delayed # {})

\* There, too, a decision to commit reaches every worker's reader (or is
\* overtaken by a later one).
CommitReachesAll ==
  \A w \in Worker :
    (log.state = "COMMIT")
      ~> ((Available(worker[w]) /\ worker[w].value = committed) \/ delayed # {})
=============================================================================
