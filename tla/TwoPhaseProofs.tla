---------------------------- MODULE TwoPhaseProofs ----------------------------
(***************************************************************************)
(* Proofs about two-phase commit, for every number of workers, every set   *)
(* of values and every bound.                                              *)
(***************************************************************************)
EXTENDS TwoPhase, TLAPS

-----------------------------------------------------------------------------
\* The inductive invariant: what the coordinator's last log entry e says of a worker k,
\* where c is the last committed value.  It is inductive where the network keeps no call
\* and Commit's set_last_entry does not raise.

\* k is idle on the committed value, in its log and, if it is up, in memory.
Settled(k, c) == /\ k.log.state = "INIT" /\ k.log.value = c /\ k.log.new = None
                 /\ k.up => k.state = "INIT" /\ k.value = c

\* k has logged its promise to carry out the transaction of e.
PromiseLogged(k, e, c) ==
  /\ k.log.state = "AGREED-TO-COMMIT" /\ k.log.value = c
  /\ k.log.new = e.value /\ k.log.tid = e.tid

Promised(k, e, c) ==
  /\ PromiseLogged(k, e, c)
  /\ k.up => /\ k.state = "AGREED-TO-COMMIT" /\ k.value = c
             /\ k.next = e.value /\ k.tid = e.tid

\* While e says WAITING, k is still on the old value, with or without a
\* promise; its handler may have raised between memory and log.
Undecided(k, e, c) ==
  /\ \/ PromiseLogged(k, e, c)
     \/ k.log.state = "INIT" /\ k.log.value = c /\ k.log.new = None /\ k.log.tid < e.tid
  /\ k.up => \/ k.state = "INIT" /\ k.value = c
             \/ Promised(k, e, c)

\* While e says COMMIT, k has promised the new value or is on it.
Agreed(k, e) ==
  /\ k.log.state = "AGREED-TO-COMMIT" /\ k.log.new = e.value /\ k.log.tid = e.tid
  /\ k.up => k.state = "AGREED-TO-COMMIT" /\ k.next = e.value /\ k.tid = e.tid

Done(k, e) ==
  /\ k.log.state = "INIT" /\ k.log.value = e.value /\ k.log.new = None /\ k.log.tid = e.tid
  /\ k.up => k.state = "INIT" /\ k.value = e.value /\ k.next = None /\ k.tid = e.tid

\* While e says ABORT, k is on the old value and knows the transaction.
Withdrawn(k, e, c) ==
  /\ k.log.value = c /\ k.log.tid = e.tid
  /\ k.log.new = IF k.log.state = "INIT" THEN None ELSE e.value
  /\ k.up => k.value = c /\ k.tid = e.tid

Follows(k, e, c) ==
  /\ e.state = "INIT"    => Settled(k, c)
  /\ e.state = "WAITING" => Undecided(k, e, c)
  /\ e.state = "COMMIT"  => Agreed(k, e) \/ Done(k, e)
  /\ e.state = "ABORT"   => Withdrawn(k, e, c)

\* What Brain has brought a worker to that its loop has passed.
Passed(k, e, c) ==
  /\ e.state = "WAITING" => Promised(k, e, c)
  /\ e.state = "COMMIT"  => Done(k, e)
  /\ e.state = "ABORT"   => Withdrawn(k, e, c) /\ Settled(k, c)

NothingDelayed == delayed = {}

LogShape == /\ log.state # "INIT" => log.tid = log.counter /\ log.value \in Values
            /\ log.state = "COMMIT" => committed = log.value

\* In Brain the memory is that of the last log entry.
BrainMatchesLog == InBrain => /\ state # "INIT" /\ state = log.state
                              /\ counter = log.counter /\ tid = log.tid
                              /\ state # "ABORT" => newValue = log.value

NumbersGrow == /\ phase # "down" => counter >= log.counter
               /\ \A w \in Worker : /\ worker[w].tid <= log.counter
                                    /\ worker[w].log.tid <= log.counter

WorkersFollow == \A w \in Worker : Follows(worker[w], log, committed)

PassedWorkers == InBrain => \A w \in Worker : w < next => Passed(worker[w], log, committed)

IdleSettled == phase = "ready" /\ state = "INIT" =>
                 /\ log.state \in {"INIT", "WAITING"}
                 /\ \A w \in Worker : Settled(worker[w], committed)

\* What the coordinator's last log entry says of the workers (its states are
\* the cases of Follows), of its own memory and of the transaction numbers.
IInv == /\ TypeOK
        /\ NothingDelayed
        /\ LogShape
        /\ BrainMatchesLog
        /\ NumbersGrow
        /\ WorkersFollow
        /\ PassedWorkers
        /\ IdleSettled

-----------------------------------------------------------------------------

\* What each handler may leave a worker as, whatever its memory and log held:
\* the cases the later proofs split on.
LEMMA CastVoteOutcomes ==
  ASSUME NEW k \in WorkerType, NEW v \in Values, NEW t \in Int, NEW o \in CastVote(k, v, t)
  PROVE  \/ k.state # "INIT" /\ o.to = k /\ o.reply # Error
         \/ t < k.tid /\ o.to = k /\ o.reply # Error
         \/ /\ k.state = "INIT" /\ t >= k.tid
            /\ o.to.up = k.up /\ o.to.value = k.value /\ o.to.next = v /\ o.to.tid = t
            /\ \/ o.to.state = "AGREED-TO-COMMIT"
               \/ o.to.state = k.state /\ o.reply = Error
            /\ \/ o.to.log = [state |-> "AGREED-TO-COMMIT", value |-> k.value, new |-> v, tid |-> t]
               \/ o.to.log = k.log /\ o.reply = Error /\ o.to.state = k.state
<1>1. CASE Refuses(k, t)
  BY <1>1 DEF CastVote, Refuses, Error, WorkerType, Tid
<1>2. CASE ~Refuses(k, t)
  <2> DEFINE voting == [k EXCEPT !.next = v, !.tid = t]
             entry  == [state |-> "AGREED-TO-COMMIT", value |-> k.value, new |-> v, tid |-> t]
             agreed == [voting EXCEPT !.state = "AGREED-TO-COMMIT"]
  <2>0. k.state = "INIT" /\ t >= k.tid
    BY <1>2 DEF Refuses, WorkerType, Tid
  <2>1. \/ o = [to |-> [agreed EXCEPT !.log = entry], reply |-> [content |-> "COMMIT", tid |-> t]]
        \/ o = [to |-> voting, reply |-> Error]
        \/ o = [to |-> [voting EXCEPT !.log = entry], reply |-> Error]
    BY <1>2 DEF CastVote, Logs
  <2>2. CASE o = [to |-> [agreed EXCEPT !.log = entry], reply |-> [content |-> "COMMIT", tid |-> t]]
    <3>1. /\ o.to.up = k.up /\ o.to.value = k.value /\ o.to.next = v /\ o.to.tid = t
          /\ o.to.state = "AGREED-TO-COMMIT"
      BY <2>2 DEF WorkerType
    <3>2. o.to.log = entry
      BY <2>2 DEF WorkerType
    <3> QED BY <2>0, <3>1, <3>2
  <2>3. CASE o = [to |-> voting, reply |-> Error]
    <3>1. /\ o.to.up = k.up /\ o.to.value = k.value /\ o.to.next = v /\ o.to.tid = t
          /\ o.to.state = k.state /\ o.to.log = k.log /\ o.reply = Error
      BY <2>3 DEF WorkerType
    <3> QED BY <2>0, <3>1
  <2>4. CASE o = [to |-> [voting EXCEPT !.log = entry], reply |-> Error]
    <3>1. /\ o.to.up = k.up /\ o.to.value = k.value /\ o.to.next = v /\ o.to.tid = t
          /\ o.to.state = k.state /\ o.reply = Error
      BY <2>4 DEF WorkerType
    <3>2. o.to.log = entry
      BY <2>4 DEF WorkerType
    <3> QED BY <2>0, <3>1, <3>2
  <2> QED BY <2>1, <2>2, <2>3, <2>4
<1> QED BY <1>1, <1>2

\* set_last_entry leaves a worker, whether it raises or not.
LEMMA LogsTypes ==
  ASSUME NEW op, NEW before \in WorkerType, NEW entry \in LogEntry,
         NEW after \in WorkerType, NEW reply \in Reply
  PROVE  \A o \in Logs(op, before, entry, after, reply) : o.to \in WorkerType /\ o.reply \in Reply
<1>1. [after EXCEPT !.log = entry] \in WorkerType /\ [before EXCEPT !.log = entry] \in WorkerType
  BY DEF WorkerType
<1>2. Error \in Reply
  BY DEF Error, Reply, Tid
<1> TAKE o \in Logs(op, before, entry, after, reply)
<1>3. \/ o = [to |-> [after EXCEPT !.log = entry], reply |-> reply]
      \/ o = [to |-> before, reply |-> Error]
      \/ o = [to |-> [before EXCEPT !.log = entry], reply |-> Error]
  BY DEF Logs
<1>4. \/ o.to = [after EXCEPT !.log = entry] /\ o.reply = reply
      \/ o.to = before /\ o.reply = Error
      \/ o.to = [before EXCEPT !.log = entry] /\ o.reply = Error
  BY <1>3
<1> QED BY <1>1, <1>2, <1>4

\* A handler leaves a worker, and answers a reply.
LEMMA HandlerTypes ==
  ASSUME NEW k \in WorkerType, NEW v \in Values \cup {None}, NEW t \in Int
  PROVE  /\ \A o \in CastVote(k, v, t) : o.to \in WorkerType /\ o.reply \in Reply
         /\ \A o \in SetValue(k) : o.to \in WorkerType /\ o.reply \in Reply
         /\ \A o \in Abort(k, t) : o.to \in WorkerType /\ o.reply \in Reply
<1>1. \A o \in CastVote(k, v, t) : o.to \in WorkerType /\ o.reply \in Reply
  <2>1. CASE Refuses(k, t)
    <3>1. k.tid \in Int
      BY DEF WorkerType, Tid
    <3>2. [content |-> "ABORT", tid |-> k.tid] \in Reply
      BY <3>1 DEF Reply, Tid
    <3> QED BY <2>1, <3>2 DEF CastVote
  <2>2. CASE ~Refuses(k, t)
    <3> DEFINE voting == [k EXCEPT !.next = v, !.tid = t]
               entry  == [state |-> "AGREED-TO-COMMIT", value |-> k.value, new |-> v, tid |-> t]
               agreed == [voting EXCEPT !.state = "AGREED-TO-COMMIT"]
               reply  == [content |-> "COMMIT", tid |-> t]
    <3>1. voting \in WorkerType
      BY DEF WorkerType, Tid
    <3>2. agreed \in WorkerType
      BY <3>1 DEF WorkerType, WorkerState
    <3>3. entry \in LogEntry /\ reply \in Reply
      BY DEF WorkerType, LogEntry, WorkerState, Reply, Tid
    <3>4. CastVote(k, v, t) = Logs("CastVote", voting, entry, agreed, reply)
      BY <2>2 DEF CastVote
    <3> HIDE DEF voting, entry, agreed, reply
    <3> QED BY <3>1, <3>2, <3>3, <3>4, LogsTypes
  <2> QED BY <2>1, <2>2
<1>2. Empty \in Reply
  BY DEF Empty, Reply, Tid
<1>3. \A o \in SetValue(k) : o.to \in WorkerType /\ o.reply \in Reply
  <2>1. CASE k.next = None
    BY <2>1, <1>2 DEF SetValue
  <2>2. CASE k.next # None
    <3> DEFINE done  == [k EXCEPT !.value = k.next, !.next = None]
               entry == [state |-> "INIT", value |-> k.next, new |-> None, tid |-> k.tid]
               after == [done EXCEPT !.state = "INIT"]
    <3>1. done \in WorkerType
      BY DEF WorkerType
    <3>2. after \in WorkerType
      BY <3>1 DEF WorkerType, WorkerState
    <3>3. entry \in LogEntry
      BY DEF WorkerType, LogEntry, WorkerState
    <3>4. SetValue(k) = Logs("Commit", done, entry, after, Empty)
      BY <2>2 DEF SetValue, Commit
    <3> HIDE DEF done, entry, after
    <3> QED BY <1>2, <3>1, <3>2, <3>3, <3>4, LogsTypes
  <2> QED BY <2>1, <2>2
<1>4. \A o \in Abort(k, t) : o.to \in WorkerType /\ o.reply \in Reply
  <2> DEFINE dropped == [k EXCEPT !.next = None]
             entry   == [state |-> IF t = k.tid THEN "INIT" ELSE "AGREED-TO-COMMIT",
                         value |-> k.value, new |-> None, tid |-> k.tid]
             after   == [dropped EXCEPT !.state = "INIT"]
  <2>1. dropped \in WorkerType
    BY DEF WorkerType
  <2>2. after \in WorkerType
    BY <2>1 DEF WorkerType, WorkerState
  <2>3. entry \in LogEntry
    BY DEF WorkerType, LogEntry, WorkerState
  <2>4. Abort(k, t) = Logs("Abort", dropped, entry, after, Empty)
    BY DEF Abort
  <2> HIDE DEF dropped, entry, after
  <2> QED BY <1>2, <2>1, <2>2, <2>3, <2>4, LogsTypes
<1> QED BY <1>1, <1>3, <1>4

LEMMA RestartTypes ==
  ASSUME NEW k \in WorkerType
  PROVE  Crashed(k) \in WorkerType /\ Recovered(k) \in WorkerType /\ NewWorker \in WorkerType
<1>1. NewLog \in LogEntry
  BY DEF NewLog, LogEntry, WorkerState, Tid
<1>2. NewWorker \in WorkerType
  BY <1>1 DEF NewWorker, WorkerType, WorkerState, Tid
<1>3. k.log \in LogEntry
  BY DEF WorkerType
<1>4. Crashed(k) \in WorkerType
  BY <1>2, <1>3 DEF Crashed, WorkerType
<1>5. Recovered(k) \in WorkerType
  BY <1>3 DEF Recovered, WorkerType, LogEntry
<1> QED BY <1>2, <1>4, <1>5

-----------------------------------------------------------------------------
(* Type correctness. *)

LEMMA PendingType ==
  ASSUME TypeOK, Calling
  PROVE  Pending \in Message /\ next \in Worker /\ Pending.to = next
<1>1. next \in Worker
  BY TwoPhaseAssumption DEF TypeOK, Calling, Worker
<1> QED BY <1>1 DEF TypeOK, Pending, Message, Tid

LEMMA HandledTypes ==
  ASSUME TypeOK, NEW m \in Message
  PROVE  \A o \in Handled(m) : o.to \in WorkerType /\ o.reply \in Reply
<1>1. /\ worker[m.to] \in WorkerType /\ m.value \in Values \cup {None} /\ m.tid \in Int
      /\ m.op \in {"CastVote", "SetValue", "Abort"}
  BY DEF TypeOK, Message, Tid
<1> QED BY <1>1, HandlerTypes DEF Handled

LEMMA InitTypes == Init => TypeOK
<1> SUFFICES ASSUME Init PROVE TypeOK
  OBVIOUS
<1>1. NewWorker \in WorkerType
  BY DEF NewWorker, NewLog, WorkerType, LogEntry, WorkerState, Tid
<1>2. NewCoordinatorLog \in CoordinatorEntry
  BY DEF NewCoordinatorLog, CoordinatorEntry, CoordinatorState
<1> QED BY <1>1, <1>2, TwoPhaseAssumption DEF Init, TypeOK, CoordinatorState

LEMMA NextTypes == TypeOK /\ [Next]_vars => TypeOK'
<1> SUFFICES ASSUME TypeOK, [Next]_vars PROVE TypeOK'
  OBVIOUS
<1> USE TwoPhaseAssumption
<1>1. ASSUME NEW v \in Values, Request(v) PROVE TypeOK'
  <2>1. [state |-> "WAITING", counter |-> counter + 1, tid |-> counter + 1, value |-> v]
          \in CoordinatorEntry
    BY DEF TypeOK, CoordinatorEntry, CoordinatorState
  <2> QED BY <1>1, <2>1 DEF Request, TypeOK, CoordinatorState, Fault
<1>2. CASE Decide
  <2>1. \A d \in CoordinatorState :
          [state |-> d, counter |-> counter, tid |-> tid, value |-> newValue] \in CoordinatorEntry
    BY DEF TypeOK, CoordinatorEntry
  <2> QED BY <1>2, <2>1 DEF Decide, TypeOK, CoordinatorState, Fault, Raise
<1>3. CASE Finish
  <2>1. [state |-> "INIT", counter |-> counter, tid |-> -1, value |-> None] \in CoordinatorEntry
    BY DEF TypeOK, CoordinatorEntry, CoordinatorState
  <2> QED BY <1>3, <2>1 DEF Finish, TypeOK, CoordinatorState, Fault, Raise
<1>4. CASE Start
  BY <1>4 DEF Start, TypeOK, CoordinatorEntry
<1>5. CASE Crash
  BY <1>5 DEF Crash, GoesDown, TypeOK, CoordinatorState, Fault
<1>6. CASE StopToRecover
  BY <1>6 DEF StopToRecover, GoesDown, TypeOK, CoordinatorState
<1>7. CASE CallAnswered
  <2>1. Pending \in Message /\ next \in Worker
    BY <1>7, PendingType DEF CallAnswered
  <2>2. PICK o \in Handled(Pending) :
          /\ worker' = [worker EXCEPT ![next] = o.to]
          /\ \/ next' = next + 1 /\ yes' = Counted(o.reply) /\ UNCHANGED <<phase, faults>>
             \/ Fault /\ Raise /\ UNCHANGED <<next, yes>>
    BY <1>7 DEF CallAnswered
  <2>3. worker' \in [Worker -> WorkerType]
    BY <2>1, <2>2, HandledTypes DEF TypeOK
  <2>4. next' \in 1 .. N + 1 /\ yes' \in Nat
    BY <2>2, <1>7 DEF TypeOK, Counted, CallAnswered, Calling
  <2> QED BY <1>7, <2>2, <2>3, <2>4 DEF CallAnswered, TypeOK, memory, Fault, Raise
<1>8. CASE CallLost
  <2>1. Pending \in Message /\ next \in Worker
    BY <1>8, PendingType DEF CallLost
  <2>2. worker' \in [Worker -> WorkerType]
    BY <1>8, <2>1, HandledTypes DEF CallLost, TypeOK
  <2> QED BY <1>8, <2>2 DEF CallLost, TypeOK, memory, Fault, Raise
<1>9. CASE CallDelayed
  <2>1. Pending \in Message
    BY <1>9, PendingType DEF CallDelayed
  <2> QED BY <1>9, <2>1 DEF CallDelayed, TypeOK, memory, Fault, Raise
<1>10. ASSUME NEW m \in delayed, Replay(m) PROVE TypeOK'
  <2>1. m \in Message /\ m.to \in Worker
    BY DEF TypeOK, Message
  <2>2. worker' \in [Worker -> WorkerType]
    BY <1>10, <2>1, HandledTypes DEF Replay, TypeOK
  <2> QED BY <1>10, <2>2 DEF Replay, TypeOK, memory
<1>11. ASSUME NEW w \in Worker, WorkerCrash(w) \/ WorkerStart(w) PROVE TypeOK'
  <2>1. worker[w] \in WorkerType
    BY DEF TypeOK
  <2>2. worker' \in [Worker -> WorkerType]
    BY <1>11, <2>1, RestartTypes DEF WorkerCrash, WorkerStart, TypeOK
  <2> QED BY <1>11, <2>2 DEF WorkerCrash, WorkerStart, TypeOK, memory, Fault
<1>12. CASE UNCHANGED vars
  BY <1>12 DEF vars, memory, TypeOK
<1> QED BY <1>1, <1>2, <1>3, <1>4, <1>5, <1>6, <1>7, <1>8, <1>9, <1>10, <1>11, <1>12 DEF Next

\* Every variable keeps its type, whatever fails: the handlers and the
\* recoveries build no ill-formed memory, log entry or call.
THEOREM TypeCorrect == Spec => []TypeOK
BY InitTypes, NextTypes, PTL DEF Spec

-----------------------------------------------------------------------------
(* What the handlers do to a worker that follows the coordinator's log     *)
(* entry e, where c is the committed value.                                *)

LEMMA SetValueOutcomes ==
  ASSUME NEW k \in WorkerType, "Commit" \notin LogErrors, NEW o \in SetValue(k)
  PROVE  \/ k.next = None /\ o.to = k
         \/ /\ k.next # None
            /\ o.to.up = k.up /\ o.to.state = "INIT" /\ o.to.value = k.next
            /\ o.to.next = None /\ o.to.tid = k.tid
            /\ o.to.log = [state |-> "INIT", value |-> k.next, new |-> None, tid |-> k.tid]
<1>1. CASE k.next = None
  BY <1>1 DEF SetValue
<1>2. CASE k.next # None
  <2> DEFINE done  == [k EXCEPT !.value = k.next, !.next = None]
             entry == [state |-> "INIT", value |-> k.next, new |-> None, tid |-> k.tid]
  <2>1. o = [to |-> [[done EXCEPT !.state = "INIT"] EXCEPT !.log = entry], reply |-> Empty]
    BY <1>2 DEF SetValue, Commit, Logs
  <2>2. /\ o.to.up = k.up /\ o.to.state = "INIT" /\ o.to.value = k.next
        /\ o.to.next = None /\ o.to.tid = k.tid
    BY <2>1 DEF WorkerType
  <2>3. o.to.log = entry
    BY <2>1 DEF WorkerType
  <2> QED BY <1>2, <2>2, <2>3
<1> QED BY <1>1, <1>2

LEMMA AbortOutcomes ==
  ASSUME NEW k \in WorkerType, NEW o \in Abort(k, k.tid)
  PROVE  /\ o.to.up = k.up /\ o.to.value = k.value /\ o.to.tid = k.tid
         /\ \/ o.to.state = "INIT"
            \/ o.to.state = k.state /\ o.reply = Error
         /\ \/ o.to.log = [state |-> "INIT", value |-> k.value, new |-> None, tid |-> k.tid]
            \/ o.to.log = k.log /\ o.reply = Error
<1> DEFINE dropped == [k EXCEPT !.next = None]
           entry   == [state |-> "INIT", value |-> k.value, new |-> None, tid |-> k.tid]
<1>1. \/ o = [to |-> [[dropped EXCEPT !.state = "INIT"] EXCEPT !.log = entry], reply |-> Empty]
      \/ o = [to |-> dropped, reply |-> Error]
      \/ o = [to |-> [dropped EXCEPT !.log = entry], reply |-> Error]
  BY DEF Abort, Logs
<1>2. CASE o = [to |-> [[dropped EXCEPT !.state = "INIT"] EXCEPT !.log = entry], reply |-> Empty]
  <2>1. /\ o.to.up = k.up /\ o.to.value = k.value /\ o.to.tid = k.tid /\ o.to.state = "INIT"
    BY <1>2 DEF WorkerType
  <2>2. o.to.log = entry
    BY <1>2 DEF WorkerType
  <2> QED BY <2>1, <2>2
<1>3. CASE o = [to |-> dropped, reply |-> Error]
  BY <1>3 DEF WorkerType
<1>4. CASE o = [to |-> [dropped EXCEPT !.log = entry], reply |-> Error]
  <2>1. /\ o.to.up = k.up /\ o.to.value = k.value /\ o.to.tid = k.tid /\ o.to.state = k.state
        /\ o.reply = Error
    BY <1>4 DEF WorkerType
  <2>2. o.to.log = entry
    BY <1>4 DEF WorkerType
  <2> QED BY <2>1, <2>2
<1> QED BY <1>1, <1>2, <1>3, <1>4

\* An election leaves a worker undecided, and promised once it has answered:
\* one that refuses has promised this transaction before.
LEMMA CastVoteKeeps ==
  ASSUME NEW k \in WorkerType, NEW e \in CoordinatorEntry, NEW c,
         e.state = "WAITING", e.value \in Values, k.up, k.tid <= e.tid, k.log.tid <= e.tid,
         Undecided(k, e, c), NEW o \in CastVote(k, e.value, e.tid)
  PROVE  /\ Undecided(o.to, e, c)
         /\ o.reply # Error => Promised(o.to, e, c)
         /\ o.to.tid <= e.tid /\ o.to.log.tid <= e.tid
<1>0. e.tid \in Int /\ k.tid \in Int /\ k.log.tid \in Int
  BY DEF CoordinatorEntry, WorkerType, LogEntry, Tid
<1>1. CASE k.state # "INIT" /\ o.to = k /\ o.reply # Error
  BY <1>1 DEF Undecided, Promised
<1>2. CASE e.tid < k.tid
  BY <1>2, <1>0
<1>3. CASE /\ k.state = "INIT" /\ e.tid >= k.tid
           /\ o.to.up = k.up /\ o.to.value = k.value /\ o.to.next = e.value /\ o.to.tid = e.tid
           /\ \/ o.to.state = "AGREED-TO-COMMIT"
              \/ o.to.state = k.state /\ o.reply = Error
           /\ \/ o.to.log = [state |-> "AGREED-TO-COMMIT", value |-> k.value,
                             new |-> e.value, tid |-> e.tid]
              \/ o.to.log = k.log /\ o.reply = Error /\ o.to.state = k.state
  <2>1. k.value = c
    BY <1>3 DEF Undecided, Promised
  <2>2. CASE o.to.log = k.log /\ o.reply = Error /\ o.to.state = k.state
    BY <1>0, <1>3, <2>1, <2>2 DEF Undecided, PromiseLogged
  <2>3. CASE o.to.log = [state |-> "AGREED-TO-COMMIT", value |-> k.value,
                         new |-> e.value, tid |-> e.tid]
    <3>1. PromiseLogged(o.to, e, c) /\ o.to.log.tid = e.tid
      BY <2>1, <2>3 DEF PromiseLogged
    <3> QED BY <1>0, <1>3, <2>1, <3>1 DEF Undecided, Promised
  <2> QED BY <1>3, <2>2, <2>3
<1>4. \/ k.state # "INIT" /\ o.to = k /\ o.reply # Error
      \/ e.tid < k.tid
      \/ /\ k.state = "INIT" /\ e.tid >= k.tid
         /\ o.to.up = k.up /\ o.to.value = k.value /\ o.to.next = e.value /\ o.to.tid = e.tid
         /\ \/ o.to.state = "AGREED-TO-COMMIT"
            \/ o.to.state = k.state /\ o.reply = Error
         /\ \/ o.to.log = [state |-> "AGREED-TO-COMMIT", value |-> k.value,
                           new |-> e.value, tid |-> e.tid]
            \/ o.to.log = k.log /\ o.reply = Error /\ o.to.state = k.state
  BY <1>0, CastVoteOutcomes
<1> QED BY <1>1, <1>2, <1>3, <1>4

\* A commit brings a promised worker to the new value, and leaves one that is
\* there alone.
LEMMA SetValueKeeps ==
  ASSUME NEW k \in WorkerType, NEW e \in CoordinatorEntry, "Commit" \notin LogErrors,
         e.value \in Values, k.up, Agreed(k, e) \/ Done(k, e), NEW o \in SetValue(k)
  PROVE  Done(o.to, e) /\ o.to.tid = e.tid /\ o.to.log.tid = e.tid
<1>1. CASE k.next = None
  BY <1>1, SetValueOutcomes, WorkerAssumption DEF Agreed, Done
<1>2. CASE k.next # None
  <2>1. Agreed(k, e)
    BY <1>2 DEF Done
  <2>2. /\ o.to.up = k.up /\ o.to.state = "INIT" /\ o.to.value = k.next
        /\ o.to.next = None /\ o.to.tid = k.tid
        /\ o.to.log = [state |-> "INIT", value |-> k.next, new |-> None, tid |-> k.tid]
    BY <1>2, SetValueOutcomes
  <2> QED BY <2>1, <2>2 DEF Agreed, Done
<1> QED BY <1>1, <1>2

\* An abort leaves a worker on the old value, and settled once it has answered.
LEMMA AbortKeeps ==
  ASSUME NEW k \in WorkerType, NEW e \in CoordinatorEntry, NEW c, k.up,
         Withdrawn(k, e, c), NEW o \in Abort(k, e.tid)
  PROVE  /\ Withdrawn(o.to, e, c)
         /\ o.reply # Error => Settled(o.to, c)
         /\ o.to.tid = e.tid /\ o.to.log.tid = e.tid
<1>1. k.tid = e.tid /\ k.value = c
  BY DEF Withdrawn
<1>2. /\ o.to.up = k.up /\ o.to.value = k.value /\ o.to.tid = k.tid
      /\ \/ o.to.state = "INIT"
         \/ o.to.state = k.state /\ o.reply = Error
      /\ \/ o.to.log = [state |-> "INIT", value |-> k.value, new |-> None, tid |-> k.tid]
         \/ o.to.log = k.log /\ o.reply = Error
  BY <1>1, AbortOutcomes
<1>3. CASE o.to.log = k.log /\ o.reply = Error
  BY <1>1, <1>2, <1>3 DEF Withdrawn
<1>4. CASE o.to.log = [state |-> "INIT", value |-> k.value, new |-> None, tid |-> k.tid]
  BY <1>1, <1>2, <1>4 DEF Withdrawn, Settled
<1> QED BY <1>2, <1>3, <1>4

\* A crash and a recovery keep what the log says of a worker.
LEMMA RestartKeeps ==
  ASSUME NEW k \in WorkerType, NEW e \in CoordinatorEntry, NEW c
  PROVE  /\ Settled(k, c) => Settled(Crashed(k), c) /\ Settled(Recovered(k), c)
         /\ Follows(k, e, c) => Follows(Crashed(k), e, c) /\ Follows(Recovered(k), e, c)
         /\ Passed(k, e, c) => Passed(Crashed(k), e, c) /\ Passed(Recovered(k), e, c)
         /\ Crashed(k).tid = -1 /\ Recovered(k).tid = k.log.tid
         /\ Crashed(k).log = k.log /\ Recovered(k).log = k.log
<1>1. Crashed(k).up = FALSE /\ Crashed(k).tid = -1 /\ Crashed(k).log = k.log
  BY DEF Crashed, NewWorker
<1>2. /\ Recovered(k).up = TRUE /\ Recovered(k).state = k.log.state
      /\ Recovered(k).value = k.log.value /\ Recovered(k).next = k.log.new
      /\ Recovered(k).tid = k.log.tid /\ Recovered(k).log = k.log
  BY DEF Recovered
<1>3. k.log.state \in {"INIT", "AGREED-TO-COMMIT"}
  BY DEF WorkerType, LogEntry, WorkerState
<1> HIDE DEF Crashed, Recovered
<1>4. Settled(k, c) => Settled(Crashed(k), c) /\ Settled(Recovered(k), c)
  BY <1>1, <1>2 DEF Settled
<1>5. Promised(k, e, c) => Promised(Crashed(k), e, c) /\ Promised(Recovered(k), e, c)
  BY <1>1, <1>2 DEF Promised, PromiseLogged
<1>6. Undecided(k, e, c) => Undecided(Crashed(k), e, c) /\ Undecided(Recovered(k), e, c)
  BY <1>1, <1>2 DEF Undecided, Promised, PromiseLogged
<1>7. Agreed(k, e) => Agreed(Crashed(k), e) /\ Agreed(Recovered(k), e)
  BY <1>1, <1>2 DEF Agreed
<1>8. Done(k, e) => Done(Crashed(k), e) /\ Done(Recovered(k), e)
  BY <1>1, <1>2 DEF Done
<1>9. Withdrawn(k, e, c) => Withdrawn(Crashed(k), e, c) /\ Withdrawn(Recovered(k), e, c)
  BY <1>1, <1>2 DEF Withdrawn
<1>10. Follows(k, e, c) => Follows(Crashed(k), e, c) /\ Follows(Recovered(k), e, c)
  BY <1>4, <1>6, <1>7, <1>8, <1>9 DEF Follows
<1>11. Passed(k, e, c) => Passed(Crashed(k), e, c) /\ Passed(Recovered(k), e, c)
  BY <1>4, <1>5, <1>8, <1>9 DEF Passed
<1> QED BY <1>1, <1>2, <1>4, <1>10, <1>11

\* The call Brain is at, whatever comes of it, keeps its worker in line with
\* the coordinator's log; one that is answered brings it where Brain counts on.
LEMMA CallKeeps ==
  ASSUME IInv, "Commit" \notin LogErrors, Calling, worker[next].up,
         NEW o \in Handled(Pending)
  PROVE  /\ next \in Worker /\ o.to \in WorkerType
         /\ Follows(o.to, log, committed)
         /\ o.reply # Error => Passed(o.to, log, committed)
         /\ o.to.tid <= log.counter /\ o.to.log.tid <= log.counter
<1> DEFINE k == worker[next]
<1>1. /\ next \in Worker /\ Pending \in Message /\ Pending.to = next
      /\ Pending.value = newValue /\ Pending.tid = tid
  BY PendingType DEF IInv, Pending
<1>2. k \in WorkerType /\ o.to \in WorkerType
  BY <1>1, HandledTypes DEF IInv, TypeOK
<1>3. /\ state # "INIT" /\ state = log.state /\ tid = log.tid
      /\ log.tid = log.counter /\ log.value \in Values
      /\ state # "ABORT" => newValue = log.value
  BY DEF IInv, Calling, BrainMatchesLog, LogShape
<1>4. /\ log \in CoordinatorEntry /\ state \in CoordinatorState
      /\ Follows(k, log, committed) /\ k.tid <= log.tid /\ k.log.tid <= log.tid
  BY <1>1, <1>3 DEF IInv, TypeOK, WorkersFollow, NumbersGrow
<1>5. CASE state = "WAITING"
  <2>1. o \in CastVote(k, log.value, log.tid)
    BY <1>1, <1>3, <1>5 DEF Handled, Pending
  <2>2. Undecided(k, log, committed)
    BY <1>3, <1>4, <1>5 DEF Follows
  <2>3. /\ Undecided(o.to, log, committed)
        /\ o.reply # Error => Promised(o.to, log, committed)
        /\ o.to.tid <= log.tid /\ o.to.log.tid <= log.tid
    BY <1>2, <1>3, <1>4, <1>5, <2>1, <2>2, CastVoteKeeps
  <2> QED BY <1>1, <1>2, <1>3, <1>5, <2>3 DEF Follows, Passed
<1>6. CASE state = "COMMIT"
  <2>1. o \in SetValue(k)
    BY <1>1, <1>6 DEF Handled, Pending
  <2>2. Agreed(k, log) \/ Done(k, log)
    BY <1>3, <1>4, <1>6 DEF Follows
  <2>3. Done(o.to, log) /\ o.to.tid = log.tid /\ o.to.log.tid = log.tid
    BY <1>2, <1>3, <1>4, <2>1, <2>2, SetValueKeeps
  <2> QED BY <1>1, <1>2, <1>3, <1>6, <2>3 DEF Follows, Passed, IInv, TypeOK, CoordinatorEntry
<1>7. CASE state = "ABORT"
  <2>1. o \in Abort(k, log.tid)
    BY <1>1, <1>3, <1>7 DEF Handled, Pending
  <2>2. Withdrawn(k, log, committed)
    BY <1>3, <1>4, <1>7 DEF Follows
  <2>3. /\ Withdrawn(o.to, log, committed)
        /\ o.reply # Error => Settled(o.to, committed)
        /\ o.to.tid = log.tid /\ o.to.log.tid = log.tid
    BY <1>2, <1>4, <2>1, <2>2, AbortKeeps
  <2> QED BY <1>1, <1>2, <1>3, <1>7, <2>3 DEF Follows, Passed, IInv, TypeOK, CoordinatorEntry
<1> QED BY <1>3, <1>4, <1>5, <1>6, <1>7 DEF CoordinatorState

-----------------------------------------------------------------------------
(* The inductive invariant. *)

LEMMA InitInv == Init => IInv
<1> SUFFICES ASSUME Init PROVE IInv
  OBVIOUS
<1>1. TypeOK
  BY InitTypes
<1>2. \A w \in Worker : worker[w] = NewWorker
  BY DEF Init
<1>3. Settled(NewWorker, None) /\ NewWorker.tid = -1 /\ NewWorker.log.tid = -1
  BY DEF NewWorker, NewLog, Settled
<1>4. log.state = "INIT" /\ log.counter = 0 /\ committed = None /\ counter = 0
  BY DEF Init, NewCoordinatorLog
<1> HIDE DEF NewWorker
<1>5. NothingDelayed /\ LogShape /\ BrainMatchesLog /\ PassedWorkers
  BY <1>4 DEF Init, NothingDelayed, LogShape, BrainMatchesLog, PassedWorkers, InBrain
<1>6. NumbersGrow
  BY <1>2, <1>3, <1>4 DEF NumbersGrow
<1>7. WorkersFollow /\ IdleSettled
  BY <1>2, <1>3, <1>4 DEF WorkersFollow, Follows, IdleSettled
<1> QED BY <1>1, <1>5, <1>6, <1>7 DEF IInv

\* Where the coordinator starts a transaction every worker is settled, and
\* none has seen its number.
LEMMA RequestInv ==
  ASSUME IInv, TypeOK', NEW v \in Values, Request(v)
  PROVE  IInv'
<1> DEFINE entry == [state |-> "WAITING", counter |-> counter + 1,
                     tid |-> counter + 1, value |-> v]
<1>1. /\ phase = "ready" /\ state = "INIT" /\ counter' = counter + 1 /\ tid' = counter + 1
      /\ newValue' = v
      /\ \/ log' = entry /\ state' = "WAITING" /\ phase' = "serving" /\ next' = 1
         \/ log' \in {log, entry} /\ phase' = "ready" /\ state' = "INIT"
      /\ worker' = worker /\ delayed' = delayed /\ committed' = committed
  BY DEF Request
<1>2. /\ \A w \in Worker : Settled(worker[w], committed)
      /\ \A w \in Worker : worker[w].tid <= log.counter /\ worker[w].log.tid <= log.counter
      /\ counter >= log.counter /\ counter \in Nat /\ log.counter \in Nat
      /\ \A w \in Worker : worker[w].tid \in Int /\ worker[w].log.tid \in Int
  BY <1>1 DEF IInv, IdleSettled, NumbersGrow, TypeOK, CoordinatorEntry, WorkerType, LogEntry, Tid
<1>3. /\ entry.state = "WAITING" /\ entry.counter = counter + 1
      /\ entry.tid = counter + 1 /\ entry.value = v
  OBVIOUS
<1> HIDE DEF entry
<1>4. \A w \in Worker : Follows(worker[w], entry, committed)
  BY <1>2, <1>3 DEF Follows, Settled, Undecided
<1>5. NothingDelayed'
  BY <1>1 DEF IInv, NothingDelayed
<1>6. LogShape'
  BY <1>1, <1>3 DEF IInv, LogShape
<1>7. BrainMatchesLog'
  BY <1>1, <1>3 DEF BrainMatchesLog, InBrain
<1>8. NumbersGrow'
  BY <1>1, <1>2, <1>3 DEF NumbersGrow
<1>9. WorkersFollow'
  BY <1>1, <1>4 DEF IInv, WorkersFollow
<1>10. PassedWorkers'
  BY <1>1 DEF PassedWorkers, InBrain, Worker
<1>11. IdleSettled'
  BY <1>1, <1>2, <1>3 DEF IInv, IdleSettled
<1> QED BY <1>5, <1>6, <1>7, <1>8, <1>9, <1>10, <1>11 DEF IInv

\* Every worker has promised when the decision is logged.
LEMMA DecideInv ==
  ASSUME IInv, TypeOK', Decide
  PROVE  IInv'
<1> DEFINE decision == IF yes = N THEN "COMMIT" ELSE "ABORT"
           entry == [state |-> decision, counter |-> counter, tid |-> tid, value |-> newValue]
           decided == IF decision = "COMMIT" THEN newValue ELSE committed
<1>1. /\ InBrain /\ state = "WAITING" /\ next > N
      /\ \/ log' = entry /\ committed' = decided /\ state' = decision /\ phase' = phase /\ next' = 1
         \/ /\ \/ log' = log /\ committed' = committed
               \/ log' = entry /\ committed' = decided
            /\ phase' \in {"down", "ready"} /\ state' = state
      /\ counter' = counter /\ tid' = tid /\ newValue' = newValue
      /\ worker' = worker /\ delayed' = delayed
  BY DEF Decide, Raise
<1>2. /\ log.state = "WAITING" /\ tid = log.tid /\ counter = log.counter
      /\ newValue = log.value /\ log.tid = log.counter /\ log.value \in Values
  BY <1>1 DEF IInv, BrainMatchesLog, LogShape
<1>3. \A w \in Worker : Promised(worker[w], log, committed)
  <2>1. \A w \in Worker : w < next
    BY <1>1, TwoPhaseAssumption DEF IInv, TypeOK, Worker
  <2> QED BY <1>1, <1>2, <2>1 DEF IInv, PassedWorkers, Passed
<1>4. /\ entry.state = decision /\ entry.counter = log.counter
      /\ entry.tid = log.tid /\ entry.value = log.value
  BY <1>2
<1>5. decision \in {"COMMIT", "ABORT"} /\ (decision = "COMMIT" => decided = log.value)
      /\ (decision = "ABORT" => decided = committed)
  BY <1>2
<1> HIDE DEF entry, decision, decided
<1>6. \A w \in Worker : Follows(worker[w], entry, decided)
  <2> TAKE w \in Worker
  <2>1. Promised(worker[w], log, committed)
    BY <1>3
  <2>2. CASE decision = "COMMIT"
    <3>1. Agreed(worker[w], entry)
      BY <1>4, <2>1 DEF Promised, PromiseLogged, Agreed
    <3> QED BY <1>4, <2>2, <3>1 DEF Follows
  <2>3. CASE decision = "ABORT"
    <3>1. Withdrawn(worker[w], entry, decided)
      BY <1>4, <1>5, <2>1, <2>3 DEF Promised, PromiseLogged, Withdrawn
    <3> QED BY <1>4, <2>3, <3>1 DEF Follows
  <2> QED BY <1>5, <2>2, <2>3
<1>7. NothingDelayed'
  BY <1>1 DEF IInv, NothingDelayed
<1>8. LogShape'
  BY <1>1, <1>2, <1>4, <1>5 DEF LogShape
<1>9. BrainMatchesLog'
  BY <1>1, <1>2, <1>4, <1>5 DEF BrainMatchesLog, InBrain
<1>10. NumbersGrow'
  <2>1. log'.counter = log.counter
    BY <1>1, <1>4
  <2> QED BY <1>1, <1>2, <2>1 DEF IInv, NumbersGrow, InBrain
<1>11. WorkersFollow'
  BY <1>1, <1>6 DEF IInv, WorkersFollow
<1>12. PassedWorkers'
  BY <1>1 DEF PassedWorkers, InBrain, Worker
<1>13. IdleSettled'
  BY <1>1, <1>5 DEF IdleSettled, InBrain
<1> QED BY <1>7, <1>8, <1>9, <1>10, <1>11, <1>12, <1>13 DEF IInv

\* Every worker is settled when the coordinator logs the end of a transaction.
LEMMA FinishInv ==
  ASSUME IInv, TypeOK', Finish
  PROVE  IInv'
<1> DEFINE entry == [state |-> "INIT", counter |-> counter, tid |-> -1, value |-> None]
<1>1. /\ InBrain /\ state \in {"COMMIT", "ABORT"} /\ next > N
      /\ \/ log' = entry /\ state' = "INIT" /\ phase' = "ready"
         \/ log' \in {log, entry} /\ phase' \in {"down", "ready"} /\ state' = state
      /\ counter' = counter /\ worker' = worker /\ delayed' = delayed /\ committed' = committed
  BY DEF Finish, Raise
<1>2. /\ log.state = state /\ counter = log.counter
      /\ log.state = "COMMIT" => committed = log.value
  BY <1>1 DEF IInv, BrainMatchesLog, LogShape
<1>3. \A w \in Worker : Settled(worker[w], committed)
  <2>1. \A w \in Worker : w < next
    BY <1>1, TwoPhaseAssumption DEF IInv, TypeOK, Worker
  <2>2. \A w \in Worker : Passed(worker[w], log, committed)
    BY <1>1, <2>1 DEF IInv, PassedWorkers
  <2> QED BY <1>1, <1>2, <2>2 DEF Passed, Done, Settled
<1>4. entry.state = "INIT" /\ entry.counter = log.counter
  BY <1>2
<1> HIDE DEF entry
<1>5. \A w \in Worker : Follows(worker[w], entry, committed)
  BY <1>3, <1>4 DEF Follows
<1>6. NothingDelayed' /\ LogShape'
  BY <1>1, <1>4 DEF IInv, NothingDelayed, LogShape
<1>7. BrainMatchesLog' /\ PassedWorkers'
  BY <1>1 DEF BrainMatchesLog, PassedWorkers, InBrain
<1>8. NumbersGrow'
  <2>1. log'.counter = log.counter
    BY <1>1, <1>4
  <2> QED BY <1>1, <2>1 DEF IInv, NumbersGrow, InBrain
<1>9. WorkersFollow'
  BY <1>1, <1>5 DEF IInv, WorkersFollow
<1>10. IdleSettled'
  BY <1>1, <1>3, <1>4 DEF IdleSettled
<1> QED BY <1>6, <1>7, <1>8, <1>9, <1>10 DEF IInv

\* Recovery puts Brain before the first worker, with the logged transaction.
LEMMA StartInv ==
  ASSUME IInv, TypeOK', Start
  PROVE  IInv'
<1>1. /\ phase = "down" /\ phase' = (IF log.state = "INIT" THEN "ready" ELSE "recovering")
      /\ state' = log.state /\ counter' = log.counter /\ tid' = log.tid /\ next' = 1
      /\ newValue' = (IF log.state = "ABORT" THEN None ELSE log.value)
      /\ log' = log /\ worker' = worker /\ delayed' = delayed /\ committed' = committed
  BY DEF Start
<1>2. log.counter \in Nat
  BY DEF IInv, TypeOK, CoordinatorEntry
<1>3. NothingDelayed' /\ LogShape' /\ WorkersFollow'
  BY <1>1 DEF IInv, NothingDelayed, LogShape, WorkersFollow
<1>4. BrainMatchesLog'
  BY <1>1 DEF BrainMatchesLog, InBrain
<1>5. NumbersGrow'
  BY <1>1, <1>2 DEF IInv, NumbersGrow
<1>6. PassedWorkers'
  BY <1>1 DEF PassedWorkers, Worker
<1>7. IdleSettled'
  BY <1>1 DEF IInv, WorkersFollow, Follows, IdleSettled
<1> QED BY <1>3, <1>4, <1>5, <1>6, <1>7 DEF IInv

\* A coordinator that stops leaves its log and the workers as they are.
LEMMA GoesDownInv ==
  ASSUME IInv, TypeOK', GoesDown
  PROVE  IInv'
<1>1. /\ phase' = "down" /\ log' = log /\ worker' = worker /\ delayed' = delayed
      /\ committed' = committed
  BY DEF GoesDown
<1> QED BY <1>1 DEF IInv, NothingDelayed, LogShape, BrainMatchesLog, NumbersGrow,
                    WorkersFollow, PassedWorkers, IdleSettled, InBrain

\* What a call, a crash or a recovery does to one worker, the coordinator's
\* log as it is.
LEMMA OneWorkerMoves ==
  ASSUME IInv, NEW x \in Worker, NEW k \in WorkerType,
         worker' = [worker EXCEPT ![x] = k], UNCHANGED <<counter, log, delayed, committed>>,
         Follows(k, log, committed), k.tid <= log.counter, k.log.tid <= log.counter,
         phase' # "down" => phase # "down"
  PROVE  NothingDelayed' /\ LogShape' /\ NumbersGrow' /\ WorkersFollow'
<1>1. worker \in [Worker -> WorkerType]
  BY DEF IInv, TypeOK
<1>2. \A w \in Worker : worker'[w] = IF w = x THEN k ELSE worker[w]
  BY <1>1
<1>3. NothingDelayed' /\ LogShape'
  BY DEF IInv, NothingDelayed, LogShape
<1>4. WorkersFollow'
  BY <1>2 DEF IInv, WorkersFollow
<1>5. NumbersGrow'
  BY <1>2 DEF IInv, NumbersGrow
<1> QED BY <1>3, <1>4, <1>5

LEMMA CallAnsweredInv ==
  ASSUME IInv, TypeOK', CallAnswered, "Commit" \notin LogErrors
  PROVE  IInv'
<1>1. /\ Calling /\ InBrain /\ state # "INIT" /\ worker[next].up
      /\ UNCHANGED <<state, counter, tid, newValue, log, delayed, committed>>
  BY DEF CallAnswered, Calling, memory
<1>2. PICK o \in Handled(Pending) :
        /\ worker' = [worker EXCEPT ![next] = o.to]
        /\ \/ o.reply # Error /\ next' = next + 1 /\ phase' = phase
           \/ phase' \in {"down", "ready"}
  BY DEF CallAnswered, Raise
<1>3. /\ next \in Worker /\ o.to \in WorkerType
      /\ Follows(o.to, log, committed)
      /\ o.reply # Error => Passed(o.to, log, committed)
      /\ o.to.tid <= log.counter /\ o.to.log.tid <= log.counter
  BY <1>1, CallKeeps
<1>4. NothingDelayed' /\ LogShape' /\ NumbersGrow' /\ WorkersFollow'
  BY <1>1, <1>2, <1>3, OneWorkerMoves DEF InBrain
<1>5. BrainMatchesLog'
  BY <1>1, <1>2 DEF IInv, BrainMatchesLog, InBrain
<1>6. PassedWorkers'
  <2>1. CASE o.reply # Error /\ next' = next + 1 /\ phase' = phase
    <3>1. worker \in [Worker -> WorkerType] /\ next \in Nat
      BY TwoPhaseAssumption DEF IInv, TypeOK
    <3>2. \A w \in Worker : w < next' =>
            Passed(worker'[w], log, committed)
      BY <1>1, <1>2, <1>3, <2>1, <3>1 DEF IInv, PassedWorkers, Worker
    <3> QED BY <1>1, <3>2 DEF PassedWorkers
  <2>2. CASE phase' \in {"down", "ready"}
    BY <2>2 DEF PassedWorkers, InBrain
  <2> QED BY <1>2, <2>1, <2>2
<1>7. IdleSettled'
  BY <1>1 DEF IdleSettled
<1> QED BY <1>4, <1>5, <1>6, <1>7 DEF IInv

LEMMA CallLostInv ==
  ASSUME IInv, TypeOK', CallLost, "Commit" \notin LogErrors
  PROVE  IInv'
<1>1. /\ Calling /\ InBrain /\ state # "INIT" /\ phase' \in {"down", "ready"}
      /\ UNCHANGED <<state, counter, log, delayed, committed>>
  BY DEF CallLost, Calling, memory, Raise
<1>2. BrainMatchesLog' /\ PassedWorkers' /\ IdleSettled'
  BY <1>1 DEF BrainMatchesLog, PassedWorkers, IdleSettled, InBrain
<1>3. CASE worker' = worker
  BY <1>1, <1>2, <1>3 DEF IInv, NothingDelayed, LogShape, NumbersGrow, WorkersFollow, InBrain
<1>4. ASSUME worker[next].up, NEW o \in Handled(Pending),
             worker' = [worker EXCEPT ![next] = o.to]
      PROVE  IInv'
  <2>1. /\ next \in Worker /\ o.to \in WorkerType
        /\ Follows(o.to, log, committed)
        /\ o.to.tid <= log.counter /\ o.to.log.tid <= log.counter
    BY <1>1, <1>4, CallKeeps
  <2>2. NothingDelayed' /\ LogShape' /\ NumbersGrow' /\ WorkersFollow'
    BY <1>1, <1>4, <2>1, OneWorkerMoves DEF InBrain
  <2> QED BY <1>2, <2>2 DEF IInv
<1> QED BY <1>3, <1>4 DEF CallLost

LEMMA RestartInv ==
  ASSUME IInv, TypeOK', NEW x \in Worker, WorkerCrash(x) \/ WorkerStart(x)
  PROVE  IInv'
<1> DEFINE k == worker[x]
<1>1. /\ worker' = [worker EXCEPT ![x] = Crashed(k)] \/ worker' = [worker EXCEPT ![x] = Recovered(k)]
      /\ UNCHANGED <<phase, state, counter, tid, newValue, next, log, delayed, committed>>
  BY DEF WorkerCrash, WorkerStart, memory
<1>2. /\ k \in WorkerType /\ log \in CoordinatorEntry /\ worker \in [Worker -> WorkerType]
      /\ Follows(k, log, committed) /\ k.log.tid <= log.counter /\ log.counter \in Nat
  BY DEF IInv, TypeOK, WorkersFollow, NumbersGrow, CoordinatorEntry
<1>3. PICK r \in {Crashed(k), Recovered(k)} : worker' = [worker EXCEPT ![x] = r]
  BY <1>1
<1>4. /\ r \in WorkerType /\ Follows(r, log, committed)
      /\ Settled(k, committed) => Settled(r, committed)
      /\ Passed(k, log, committed) => Passed(r, log, committed)
      /\ r.tid <= log.counter /\ r.log.tid <= log.counter
  BY <1>2, RestartKeeps, RestartTypes
<1>5. NothingDelayed' /\ LogShape' /\ NumbersGrow' /\ WorkersFollow'
  BY <1>1, <1>3, <1>4, OneWorkerMoves
<1>6. \A w \in Worker : worker'[w] = IF w = x THEN r ELSE worker[w]
  BY <1>2, <1>3
<1>7. BrainMatchesLog'
  BY <1>1 DEF IInv, BrainMatchesLog, InBrain
<1>8. PassedWorkers'
  BY <1>1, <1>4, <1>6 DEF IInv, PassedWorkers, InBrain
<1>9. IdleSettled'
  BY <1>1, <1>4, <1>6 DEF IInv, IdleSettled
<1> QED BY <1>5, <1>7, <1>8, <1>9 DEF IInv

LEMMA NextInv ==
  ASSUME Delayable = {}, "Commit" \notin LogErrors
  PROVE  IInv /\ [Next]_vars => IInv'
<1> SUFFICES ASSUME IInv, [Next]_vars PROVE IInv'
  OBVIOUS
<1>0. TypeOK'
  BY NextTypes DEF IInv
<1>1. ASSUME NEW v \in Values, Request(v) PROVE IInv'
  BY <1>0, <1>1, RequestInv
<1>2. CASE Decide
  BY <1>0, <1>2, DecideInv
<1>3. CASE Finish
  BY <1>0, <1>3, FinishInv
<1>4. CASE Start
  BY <1>0, <1>4, StartInv
<1>5. CASE Crash \/ StopToRecover
  BY <1>0, <1>5, GoesDownInv DEF Crash, StopToRecover
<1>6. CASE CallAnswered
  BY <1>0, <1>6, CallAnsweredInv
<1>7. CASE CallLost
  BY <1>0, <1>7, CallLostInv
<1>8. CASE CallDelayed
  BY <1>8 DEF CallDelayed
<1>9. ASSUME NEW m \in delayed, Replay(m) PROVE IInv'
  BY <1>9 DEF IInv, NothingDelayed
<1>10. ASSUME NEW w \in Worker, WorkerCrash(w) \/ WorkerStart(w) PROVE IInv'
  BY <1>0, <1>10, RestartInv
<1>11. CASE UNCHANGED vars
  BY <1>0, <1>11 DEF vars, memory, IInv, NothingDelayed, LogShape, BrainMatchesLog,
       NumbersGrow, WorkersFollow, PassedWorkers, IdleSettled, InBrain
<1> QED BY <1>1, <1>2, <1>3, <1>4, <1>5, <1>6, <1>7, <1>8, <1>9, <1>10, <1>11 DEF Next

\* IInv holds in every reachable state where the network keeps no call and
\* Commit's set_last_entry does not raise.
THEOREM InductiveInvariant ==
  ASSUME Delayable = {}, "Commit" \notin LogErrors
  PROVE  Spec => []IInv
BY InitInv, NextInv, PTL DEF Spec

-----------------------------------------------------------------------------
(* What follows from it. *)

\* An available worker is on the committed value.
LEMMA AvailableIsCommitted ==
  IInv => \A w \in Worker : Available(worker[w]) => worker[w].value = committed
<1> SUFFICES ASSUME IInv, NEW w \in Worker, Available(worker[w])
             PROVE  worker[w].value = committed
  OBVIOUS
<1>1. Follows(worker[w], log, committed) /\ log.state \in CoordinatorState
  BY DEF IInv, TypeOK, WorkersFollow, CoordinatorEntry
<1>2. log.state = "COMMIT" => committed = log.value
  BY DEF IInv, LogShape
<1> QED BY <1>1, <1>2 DEF Available, Follows, CoordinatorState, Settled, Undecided,
             Promised, Agreed, Done, Withdrawn

\* Readers never see two values: whatever crashes, is lost or is answered with
\* an error, two available workers hold the same one.
THEOREM AgreementHolds ==
  ASSUME Delayable = {}, "Commit" \notin LogErrors
  PROVE  Spec => []Agreement
<1>1. IInv => Agreement
  BY AvailableIsCommitted DEF Agreement
<1> QED BY <1>1, InductiveInvariant, PTL

\* A COMMIT entry is backed by the logs of all workers.
THEOREM CommitIsDurableHolds ==
  ASSUME Delayable = {}, "Commit" \notin LogErrors
  PROVE  Spec => []CommitIsDurable
<1>1. IInv => CommitIsDurable
  BY DEF IInv, WorkersFollow, Follows, Agreed, Done, CommitIsDurable
<1> QED BY <1>1, InductiveInvariant, PTL

\* An idle coordinator has left every worker unblocked, on the committed value.
THEOREM IdleMeansSettledHolds ==
  ASSUME Delayable = {}, "Commit" \notin LogErrors
  PROVE  Spec => []IdleMeansSettled
<1>1. IInv => IdleMeansSettled
  BY DEF IInv, IdleSettled, Settled, IdleMeansSettled
<1> QED BY <1>1, InductiveInvariant, PTL

\* A worker can always be restarted from its log.
THEOREM RecoverableHolds ==
  ASSUME Delayable = {}, "Commit" \notin LogErrors
  PROVE  Spec => []Recoverable
<1>1. ASSUME IInv PROVE Recoverable
  <2> SUFFICES ASSUME NEW w \in Worker PROVE CanRecover(worker[w])
    BY DEF Recoverable
  <2>1. Follows(worker[w], log, committed) /\ log.state \in CoordinatorState
    BY <1>1 DEF IInv, TypeOK, WorkersFollow, CoordinatorEntry
  <2>2. log.state # "INIT" => log.value # None
    BY <1>1, WorkerAssumption DEF IInv, LogShape
  <2> QED BY <2>1, <2>2 DEF Follows, CoordinatorState, Settled, Undecided, Promised,
               PromiseLogged, Agreed, Done, Withdrawn, CanRecover
<1> QED BY <1>1, InductiveInvariant, PTL

\* A logged decision is never taken again, also by a coordinator that crashed
\* between the decision and its resolution.
THEOREM DecisionFinalHolds ==
  ASSUME Delayable = {}, "Commit" \notin LogErrors
  PROVE  Spec => DecisionFinal
<1>1. ASSUME IInv, [Next]_vars, log.state \in {"COMMIT", "ABORT"}, log' # log
      PROVE  log'.state = "INIT"
  <2>1. /\ InBrain => state = log.state
        /\ ~(phase = "ready" /\ state = "INIT")
    BY <1>1 DEF IInv, BrainMatchesLog, IdleSettled
  <2>2. \A v \in Values : ~Request(v)
    BY <2>1 DEF Request
  <2>3. ~Decide
    BY <1>1, <2>1 DEF Decide
  <2>4. CASE Finish
    BY <1>1, <2>4 DEF Finish
  <2> QED BY <1>1, <2>2, <2>3, <2>4 DEF Next, vars, Start, Crash, StopToRecover,
               GoesDown, CallAnswered, CallLost, CallDelayed, Replay, WorkerCrash, WorkerStart
<1>2. IInv /\ [Next]_vars =>
        [log.state \in {"COMMIT", "ABORT"} /\ log' # log => log'.state = "INIT"]_vars
  BY <1>1
<1> QED BY <1>2, InductiveInvariant, PTL DEF Spec, DecisionFinal

\* The worker's step of a call it can only have made for the logged decision.
LEMMA PromiseKept ==
  ASSUME IInv, Calling, NEW o \in Handled(Pending), worker[next].up,
         worker[next].log.state = "AGREED-TO-COMMIT", o.to.log # worker[next].log,
         "Commit" \notin LogErrors
  PROVE  /\ log.tid = worker[next].log.tid
         /\ \/ /\ log.state = "COMMIT" /\ o.to.log.state = "INIT"
               /\ o.to.log.value = worker[next].log.new
            \/ /\ log.state = "ABORT" /\ o.to.log.state = "INIT"
               /\ o.to.log.value = worker[next].log.value
<1> DEFINE k == worker[next]
<1>1. /\ next \in Worker /\ Pending.to = next /\ Pending.value = newValue /\ Pending.tid = tid
  BY PendingType DEF IInv, Pending
<1>2. /\ k \in WorkerType /\ log \in CoordinatorEntry /\ state \in CoordinatorState
      /\ state # "INIT" /\ state = log.state /\ tid = log.tid
      /\ Follows(k, log, committed)
      /\ Follows(o.to, log, committed)
      /\ (log.value \in Values /\ newValue = log.value) \/ state = "ABORT"
  BY <1>1, CallKeeps DEF IInv, TypeOK, Calling, BrainMatchesLog, LogShape, WorkersFollow
<1>3. CASE state = "WAITING"
  <2>1. o \in CastVote(k, log.value, log.tid) /\ log.tid \in Int /\ log.value \in Values
    BY <1>1, <1>2, <1>3 DEF Handled, Pending, CoordinatorEntry
  <2>2. Undecided(k, log, committed) /\ Undecided(o.to, log, committed)
    BY <1>2, <1>3 DEF Follows
  <2>3. /\ k.log = [state |-> "AGREED-TO-COMMIT", value |-> committed,
                    new |-> log.value, tid |-> log.tid]
    BY <1>2, <2>2 DEF Undecided, PromiseLogged, WorkerType, LogEntry
  <2>4. k.up => k.value = committed
    BY <2>2 DEF Undecided, Promised
  <2>5. \/ o.to = k
        \/ o.to.log = [state |-> "AGREED-TO-COMMIT", value |-> k.value,
                       new |-> log.value, tid |-> log.tid]
        \/ o.to.log = k.log
    BY <1>2, <2>1, CastVoteOutcomes
  <2> QED BY <2>3, <2>4, <2>5
<1>4. CASE state = "COMMIT"
  <2>1. o \in SetValue(k) /\ Agreed(k, log)
    BY <1>1, <1>2, <1>4 DEF Handled, Pending, Follows, Done
  <2>2. k.next = log.value /\ k.log.new = log.value /\ k.log.tid = log.tid
    BY <2>1 DEF Agreed
  <2>3. \/ o.to = k
        \/ o.to.log = [state |-> "INIT", value |-> k.next, new |-> None, tid |-> k.tid]
    BY <1>2, <2>1, SetValueOutcomes
  <2> QED BY <1>2, <1>4, <2>2, <2>3
<1>5. CASE state = "ABORT"
  <2>1. o \in Abort(k, log.tid) /\ Withdrawn(k, log, committed)
    BY <1>1, <1>2, <1>5 DEF Handled, Pending, Follows
  <2>2. k.tid = log.tid /\ k.value = committed /\ k.log.value = committed /\ k.log.tid = log.tid
    BY <2>1 DEF Withdrawn
  <2>3. \/ o.to.log = [state |-> "INIT", value |-> k.value, new |-> None, tid |-> k.tid]
        \/ o.to.log = k.log
    BY <1>2, <2>1, <2>2, AbortOutcomes
  <2> QED BY <1>2, <1>5, <2>2, <2>3
<1> QED BY <1>2, <1>3, <1>4, <1>5 DEF CoordinatorState

\* A promise in a worker's log is given up only for the decision the
\* coordinator has logged on that transaction.
THEOREM VoteHonouredHolds ==
  ASSUME Delayable = {}, "Commit" \notin LogErrors
  PROVE  Spec => VoteHonoured
<1> DEFINE Honours(w) ==
      worker[w].log.state = "AGREED-TO-COMMIT" /\ worker'[w].log # worker[w].log =>
        /\ log.tid = worker[w].log.tid
        /\ \/ /\ log.state = "COMMIT" /\ worker'[w].log.state = "INIT"
              /\ worker'[w].log.value = worker[w].log.new
           \/ /\ log.state = "ABORT" /\ worker'[w].log.state = "INIT"
              /\ worker'[w].log.value = worker[w].log.value
<1>1. ASSUME IInv, [Next]_vars, NEW w \in Worker PROVE Honours(w)
  <2>1. worker \in [Worker -> WorkerType] /\ delayed = {}
    BY <1>1 DEF IInv, TypeOK, NothingDelayed
  <2>2. ASSUME Calling, worker[next].up, NEW o \in Handled(Pending),
               worker' = [worker EXCEPT ![next] = o.to]
        PROVE  Honours(w)
    <3>1. CASE w = next
      <4>1. worker'[w] = o.to
        BY <2>1, <2>2, <3>1
      <4> QED BY <1>1, <2>2, <3>1, <4>1, PromiseKept
    <3>2. CASE w # next
      BY <2>1, <2>2, <3>2
    <3> QED BY <3>1, <3>2
  <2>3. CASE CallAnswered
    BY <2>2, <2>3 DEF CallAnswered
  <2>4. CASE CallLost
    BY <2>2, <2>4 DEF CallLost
  <2>5. ASSUME NEW x \in Worker, WorkerCrash(x) \/ WorkerStart(x) PROVE Honours(w)
    <3>1. Crashed(worker[x]).log = worker[x].log /\ Recovered(worker[x]).log = worker[x].log
      BY DEF Crashed, Recovered, NewWorker
    <3> HIDE DEF Crashed, Recovered
    <3> QED BY <2>1, <2>5, <3>1 DEF WorkerCrash, WorkerStart
  <2>6. CASE worker' = worker
    BY <2>6
  <2> QED BY <1>1, <2>1, <2>3, <2>4, <2>5, <2>6 DEF Next, vars, Request, Decide,
               Finish, Start, Crash, StopToRecover, GoesDown, CallDelayed
<1>2. IInv /\ [Next]_vars =>
        [\A w \in Worker :
           LET old == worker[w].log  new == worker'[w].log
           IN old.state = "AGREED-TO-COMMIT" /\ new # old =>
                /\ log.tid = old.tid
                /\ \/ log.state = "COMMIT" /\ new.state = "INIT" /\ new.value = old.new
                   \/ log.state = "ABORT" /\ new.state = "INIT" /\ new.value = old.value]_vars
  BY <1>1
<1> QED BY <1>2, InductiveInvariant, PTL DEF Spec, VoteHonoured

\* A new transaction has a number no worker has seen.
THEOREM FreshTransactionHolds ==
  ASSUME Delayable = {}, "Commit" \notin LogErrors
  PROVE  Spec => FreshTransaction
<1>1. ASSUME IInv, NEW v \in Values, Request(v)
      PROVE  /\ \A w \in Worker : worker[w].tid < tid' /\ worker[w].log.tid < tid'
             /\ \A m \in delayed : m.tid < tid'
  <2>1. /\ tid' = counter + 1 /\ counter >= log.counter /\ delayed = {}
        /\ counter \in Nat /\ log.counter \in Nat
        /\ \A w \in Worker : worker[w].tid \in Int /\ worker[w].log.tid \in Int
    BY <1>1 DEF Request, IInv, TypeOK, NumbersGrow, NothingDelayed, CoordinatorEntry,
         WorkerType, LogEntry, Tid
  <2> QED BY <1>1, <2>1 DEF IInv, NumbersGrow
<1>2. IInv /\ [Next]_vars =>
        [\A v \in Values : Request(v) =>
           /\ \A w \in Worker : worker[w].tid < tid' /\ worker[w].log.tid < tid'
           /\ \A m \in delayed : m.tid < tid']_vars
  BY <1>1
<1> QED BY <1>2, InductiveInvariant, PTL DEF Spec, FreshTransaction

\* Each step of two-phase commit shows the readers a step of the one
\* replicated value, or nothing: only Decide changes the value, and then no
\* worker shows it; every other step hides or shows it at one worker.
THEOREM ImplementsReplicatedValue ==
  ASSUME Delayable = {}, "Commit" \notin LogErrors
  PROVE  Spec => ShowsOneValue
<1> DEFINE View(k) == IF Available(k) THEN k.value ELSE "unavailable"
           view == [w \in Worker |-> View(worker[w])]
<1>1. Init => OneValue!Init
  <2> SUFFICES ASSUME Init PROVE OneValue!Init
    OBVIOUS
  <2>1. \A w \in Worker : Available(worker[w]) /\ worker[w].value = None
    BY DEF Init, NewWorker, Available
  <2> QED BY <2>1 DEF Init, OneValue!Init
<1>2. ASSUME IInv, IInv', [Next]_vars PROVE [OneValue!Next]_(OneValue!vars)
  <2>0. worker \in [Worker -> WorkerType] /\ worker' \in [Worker -> WorkerType] /\ delayed = {}
    BY <1>2 DEF IInv, TypeOK, NothingDelayed
  <2>1. ASSUME NEW x \in Worker, NEW k, worker' = [worker EXCEPT ![x] = k],
               committed' = committed
        PROVE  [OneValue!Next]_(OneValue!vars)
    <3>1. \A w \in Worker : worker'[w] = IF w = x THEN k ELSE worker[w]
      BY <2>0, <2>1
    <3>2. Available(k) => k.value = committed
      <4>1. (\A w \in Worker : Available(worker[w]) => worker[w].value = committed)'
        BY <1>2, AvailableIsCommitted, PTL
      <4> QED BY <2>1, <3>1, <4>1
    <3>3. view' = [view EXCEPT ![x] = View(k)]
      BY <3>1
    <3> QED BY <2>1, <3>2, <3>3 DEF OneValue!Next, OneValue!Hide, OneValue!Show
  <2>2. CASE worker' = worker /\ committed' = committed
    BY <2>2 DEF OneValue!vars
  <2>3. CASE worker' = worker /\ Decide
    <3>1. CASE committed' = committed
      BY <2>2, <2>3, <3>1
    <3>2. CASE committed' # committed
      <4>1. InBrain /\ state = "WAITING" /\ next > N /\ committed' = newValue
        BY <2>3, <3>2 DEF Decide
      <4>2. /\ log.state = "WAITING" /\ newValue \in Values
            /\ \A w \in Worker : w < next
        BY <1>2, <4>1, TwoPhaseAssumption DEF IInv, BrainMatchesLog, LogShape, TypeOK, Worker
      <4>3. \A w \in Worker : ~Available(worker[w])
        BY <1>2, <4>1, <4>2 DEF IInv, PassedWorkers, Passed, Promised, Available
      <4>4. OneValue!Change(newValue)
        BY <2>3, <4>1, <4>3 DEF OneValue!Change
      <4> QED BY <4>2, <4>4 DEF OneValue!Next
    <3> QED BY <3>1, <3>2
  <2>4. CASE CallAnswered \/ CallLost
    <3>1. next \in Worker
      BY <1>2, <2>4, PendingType DEF IInv, CallAnswered, CallLost
    <3>2. committed' = committed
      BY <2>4 DEF CallAnswered, CallLost
    <3>3. worker' = worker \/ \E k : worker' = [worker EXCEPT ![next] = k]
      BY <2>4 DEF CallAnswered, CallLost
    <3> QED BY <2>1, <2>2, <3>1, <3>2, <3>3
  <2>5. ASSUME NEW x \in Worker, WorkerCrash(x) \/ WorkerStart(x)
        PROVE  [OneValue!Next]_(OneValue!vars)
    BY <2>1, <2>5 DEF WorkerCrash, WorkerStart
  <2> QED BY <1>2, <2>0, <2>2, <2>3, <2>4, <2>5 DEF Next, vars, Request, Decide,
               Finish, Start, Crash, StopToRecover, GoesDown, CallDelayed
<1> QED BY <1>1, <1>2, InductiveInvariant, PTL DEF Spec, ShowsOneValue, OneValue!Spec
=============================================================================
