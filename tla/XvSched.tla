------------------------------ MODULE XvSched ------------------------------
(***************************************************************************)
(* Spin locks, interrupts and the scheduler of xv6 on several processors   *)
(* (spinlock.c, proc.c, trap.c, main.c), down to single reads and writes:  *)
(* what XvProc, XvPipe and the others rely on when a critical section is   *)
(* one step of theirs.                                                     *)
(*                                                                         *)
(* A thread is a process or the scheduler of a processor.  Its code is a   *)
(* stack: what is left to do in the interrupt handler, the system call and *)
(* the program, as sequences of instructions <<name, argument>>.  What     *)
(* becomes of the table is said with the operators of XvProc.              *)
(* The clock stands for every interrupt: the others take a lock of their   *)
(* driver and wake somebody up too.  kill is left to XvProc.               *)
(***************************************************************************)
EXTENDS Integers, FiniteSets, Sequences

CONSTANTS
  NCPU, NPROC,
  Program(_), \* the calls of each: of "sleep", "uptime", "yield", "fork", "exit", "wait"
  TickWrap    \* ticks is counted modulo this: 2^32

VARIABLES
  cpus,       \* of each processor: IF (of its eflags), ncli, intena, started
  on,         \* the process that a processor runs, or None in its scheduler
  code,       \* of each thread
  locks,      \* ptable.lock and tickslock: locked and cpu
  ptable,     \* as proc in XvProc; a process that runs is RUNNING
  ticks,
  ticks0,     \* of each process in sys_sleep
  panicked    \* the message of a panic, or ""

schedVars == <<cpus, on, code, locks, ptable, ticks, ticks0, panicked>>

None == 0
Procs == 1 .. NPROC
Boot == 0
Cpus == 1 - NCPU .. Boot         \* numbered down, to differ from the processes
Threads == Cpus \cup Procs
TicksChan == NPROC + 1           \* &ticks

Calls == {"sleep", "uptime", "yield", "fork", "exit", "wait"}

\* A machine that the source can be built for, and programs that make its calls
Configured ==
  /\ NCPU \in Nat \ {0} /\ NPROC \in Nat \ {0} /\ TickWrap \in Nat \ {0}
  /\ \A p \in Procs : Program(p) \subseteq Calls

Table == INSTANCE XvProc WITH
           proc <- ptable, Killable <- {}, MaxPid <- NPROC, MaxKills <- 0,
           nextpid <- 0, pc <- 0, np <- 0, kills <- 0

-----------------------------------------------------------------------------
(* Code *)

Acquire(l) == << <<"pushcli", l>>, <<"xchg", l>>, <<"record", l>> >>
Release(l) == << <<"forget", l>>, <<"unlock", l>>, <<"popcli", l>> >>

\* sleep(chan, lk).  Mutant: lk is released before ptable.lock is held.
SleepLate(chan, l) ==
  IF l = "ptable" THEN << <<"doze", chan>>, <<"sched", 0>> >>
  ELSE Release(l) \o Acquire("ptable") \o << <<"doze", chan>>, <<"sched", 0>> >>
       \o Release("ptable") \o Acquire(l)

SleepOn(chan, l) ==
  IF l = "ptable" THEN << <<"doze", chan>>, <<"sched", 0>> >>
  ELSE Acquire("ptable") \o Release(l) \o << <<"doze", chan>>, <<"sched", 0>> >>
       \o Release("ptable") \o Acquire(l)

Yield == Acquire("ptable") \o << <<"give", 0>>, <<"sched", 0>> >> \o Release("ptable")
Wakeup(chan) == Acquire("ptable") \o << <<"wakeup1", chan>> >> \o Release("ptable")

\* A system call, and then back to user space
SysCall(call) ==
  CASE call = "sleep" -> Acquire("time") \o << <<"ticks0", 0>>, <<"slept", 1>> >> \o Release("time")
    [] call = "uptime" -> Acquire("time") \o Release("time")
    [] call = "yield" -> Yield
    [] call = "fork" -> Acquire("ptable") \o << <<"allocproc", 0>> >> \o Release("ptable")
    [] call = "exit" -> Acquire("ptable") \o << <<"exit", 0>>, <<"sched", 0>>, <<"panic", "zombie exit">> >>
    [] call = "wait" -> Acquire("ptable") \o << <<"wait", 0>> >> \o Release("ptable")

\* The clock of the boot processor counts.
Trap(c) ==
  (IF c = Boot THEN Acquire("time") \o << <<"tick", 0>> >> \o Wakeup(TicksChan) \o Release("time") ELSE << >>)
  \o << <<"slice", 0>>, <<"iret", 0>> >>

ForkRet == Release("ptable") \o << <<"iret", 0>> >>
Scheduler == << <<"sti", 0>> >>
MpMain == << <<"started", 0>> >> \o Scheduler

\* The others are started one by one, and then there is a first process.
UserInit == Acquire("ptable") \o << <<"allocproc", 0>> >> \o Release("ptable")
StartOthers == [k \in 1 .. 2 * (NCPU - 1) |->
                  IF k % 2 = 1 THEN <<"startap", -((k + 1) \div 2)>> ELSE <<"await", -(k \div 2)>>]
Main == StartOthers \o UserInit \o MpMain

SchedInit ==
  /\ cpus = [c \in Cpus |-> [IF |-> FALSE, ncli |-> 0, intena |-> FALSE, started |-> FALSE]]
  /\ on = [c \in Cpus |-> None]
  /\ code = [t \in Threads |-> IF t = Boot THEN <<Main>> ELSE << << >> >>]
  /\ locks = [l \in {"ptable", "time"} |-> [locked |-> FALSE, cpu |-> 1]]
  /\ ptable = [p \in Procs |-> Table!Free]
  /\ ticks = 0 /\ ticks0 = [p \in Procs |-> 0]
  /\ panicked = "no"

-----------------------------------------------------------------------------

Nobody == 1                      \* no processor has this number
myproc(c) == on[c]
Thread(c) == IF on[c] = None THEN c ELSE on[c]
Top(c) == code[Thread(c)][1]

\* The processor's next instruction is op, and its argument
At(c, op) == panicked = "no" /\ Top(c) # << >> /\ Head(Top(c))[1] = op
Arg(c) == Head(Top(c))[2]

\* The code with s in place of this instruction
Become(c, s) == [code EXCEPT ![Thread(c)][1] = s \o Tail(@)]
Done(c) == code' = Become(c, << >>)
Panic(message) == panicked' = message

holding(c, l) == locks[l].locked /\ locks[l].cpu = c

-----------------------------------------------------------------------------
(* spinlock.c *)

Pushed(c) == [cpus EXCEPT ![c].IF = FALSE, ![c].ncli = @ + 1,
                          ![c].intena = IF cpus[c].ncli = 0 THEN cpus[c].IF ELSE @]

\* Mutant of Pushcli: interrupts stay on.
PushcliOpen(c) ==
  /\ At(c, "pushcli")
  /\ cpus' = [Pushed(c) EXCEPT ![c].IF = cpus[c].IF]
  /\ IF holding(c, Arg(c)) THEN Panic("acquire") /\ UNCHANGED code ELSE Done(c) /\ UNCHANGED panicked
  /\ UNCHANGED <<on, locks, ptable, ticks, ticks0>>

\* The start of acquire
Pushcli(c) ==
  /\ At(c, "pushcli")
  /\ cpus' = Pushed(c)
  /\ IF holding(c, Arg(c)) THEN Panic("acquire") /\ UNCHANGED code ELSE Done(c) /\ UNCHANGED panicked
  /\ UNCHANGED <<on, locks, ptable, ticks, ticks0>>

\* The processor spins while the lock is locked.
Xchg(c) ==
  /\ At(c, "xchg") /\ ~locks[Arg(c)].locked
  /\ locks' = [locks EXCEPT ![Arg(c)].locked = TRUE]
  /\ Done(c)
  /\ UNCHANGED <<cpus, on, ptable, ticks, ticks0, panicked>>

Record(c) ==
  /\ At(c, "record")
  /\ locks' = [locks EXCEPT ![Arg(c)].cpu = c]
  /\ Done(c)
  /\ UNCHANGED <<cpus, on, ptable, ticks, ticks0, panicked>>

\* The start of release
Forget(c) ==
  /\ At(c, "forget")
  /\ IF ~holding(c, Arg(c)) THEN Panic("release") /\ UNCHANGED <<locks, code>>
     ELSE locks' = [locks EXCEPT ![Arg(c)].cpu = Nobody] /\ Done(c) /\ UNCHANGED panicked
  /\ UNCHANGED <<cpus, on, ptable, ticks, ticks0>>

Unlock(c) ==
  /\ At(c, "unlock")
  /\ locks' = [locks EXCEPT ![Arg(c)].locked = FALSE]
  /\ Done(c)
  /\ UNCHANGED <<cpus, on, ptable, ticks, ticks0, panicked>>

Popcli(c) ==
  /\ At(c, "popcli")
  /\ IF cpus[c].IF THEN Panic("popcli - interruptible") /\ UNCHANGED <<cpus, code>>
     ELSE IF cpus[c].ncli = 0 THEN Panic("popcli") /\ UNCHANGED <<cpus, code>>
     ELSE /\ cpus' = [cpus EXCEPT ![c].ncli = @ - 1, ![c].IF = cpus[c].ncli = 1 /\ cpus[c].intena]
          /\ Done(c) /\ UNCHANGED panicked
  /\ UNCHANGED <<on, locks, ptable, ticks, ticks0>>

-----------------------------------------------------------------------------
(* scheduler, sched *)

\* The top of the scheduler's loop
Sti(c) ==
  /\ At(c, "sti")
  /\ cpus' = [cpus EXCEPT ![c].IF = TRUE]
  /\ code' = Become(c, Acquire("ptable") \o << <<"scan", 1>> >> \o Release("ptable") \o Scheduler)
  /\ UNCHANGED <<on, locks, ptable, ticks, ticks0, panicked>>

\* The next process of the table that can run goes on where it stopped.
Scan(c) ==
  /\ At(c, "scan")
  /\ LET ready == {p \in Procs : p >= Arg(c) /\ ptable[p].state = "RUNNABLE"}
         p == CHOOSE first \in ready : \A other \in ready : first <= other
     IN IF ready = {} THEN Done(c) /\ UNCHANGED <<on, ptable>>
        ELSE /\ on' = [on EXCEPT ![c] = p]
             /\ ptable' = [ptable EXCEPT ![p].state = "RUNNING"]
             /\ code' = Become(c, << <<"scan", p + 1>> >>)
  /\ UNCHANGED <<cpus, locks, ticks, ticks0, panicked>>

SchedFault(c) ==
  IF ~holding(c, "ptable") THEN "sched ptable.lock"
  ELSE IF cpus[c].ncli # 1 THEN "sched locks"
  ELSE IF ptable[on[c]].state = "RUNNING" THEN "sched running"
  ELSE IF cpus[c].IF THEN "sched interruptible" ELSE "no"

\* Mutant of Sched: the thread takes the intena of the processor that runs it next.
SchedForgets(c) ==
  /\ At(c, "sched")
  /\ panicked' = SchedFault(c)
  /\ IF SchedFault(c) # "no" THEN UNCHANGED <<on, code>> ELSE on' = [on EXCEPT ![c] = None] /\ Done(c)
  /\ UNCHANGED <<cpus, locks, ptable, ticks, ticks0>>

\* To the scheduler, which holds ptable.lock from now on
Sched(c) ==
  /\ At(c, "sched")
  /\ panicked' = SchedFault(c)
  /\ IF SchedFault(c) # "no" THEN UNCHANGED <<on, code>>
     ELSE on' = [on EXCEPT ![c] = None] /\ code' = Become(c, << <<"intena", cpus[c].intena>> >>)
  /\ UNCHANGED <<cpus, locks, ptable, ticks, ticks0>>

\* Back in sched, maybe on another processor
Restore(c) ==
  /\ At(c, "intena")
  /\ cpus' = [cpus EXCEPT ![c].intena = Arg(c)]
  /\ Done(c)
  /\ UNCHANGED <<on, locks, ptable, ticks, ticks0, panicked>>

-----------------------------------------------------------------------------
(* What is done to the table and to ticks *)

Give(c) ==
  /\ At(c, "give")
  /\ ptable' = [ptable EXCEPT ![on[c]].state = "RUNNABLE"]
  /\ Done(c)
  /\ UNCHANGED <<cpus, on, locks, ticks, ticks0, panicked>>

Doze(c) ==
  /\ At(c, "doze")
  /\ ptable' = Table!Sleep(ptable, on[c], Arg(c))
  /\ Done(c)
  /\ UNCHANGED <<cpus, on, locks, ticks, ticks0, panicked>>

Wakeup1(c) ==
  /\ At(c, "wakeup1")
  /\ ptable' = Table!Wakeup1(ptable, Arg(c))
  /\ Done(c)
  /\ UNCHANGED <<cpus, on, locks, ticks, ticks0, panicked>>

\* allocproc, and how fork and userinit let the process run; its parent is None for the first.
AllocProc(c) ==
  /\ At(c, "allocproc")
  /\ IF Table!Unused = {} THEN Done(c) /\ UNCHANGED ptable
     ELSE LET s == CHOOSE u \in Table!Unused : \A v \in Table!Unused : u <= v IN
          /\ ptable' = [ptable EXCEPT ![s].state = "EMBRYO", ![s].parent = on[c]]
          /\ code' = [Become(c, Release("ptable") \o Acquire("ptable") \o << <<"runnable", s>> >>)
                        EXCEPT ![s] = <<ForkRet, << >> >>]
  /\ UNCHANGED <<cpus, on, locks, ticks, ticks0, panicked>>

Runnable(c) ==
  /\ At(c, "runnable")
  /\ ptable' = [ptable EXCEPT ![Arg(c)].state = "RUNNABLE"]
  /\ Done(c)
  /\ UNCHANGED <<cpus, on, locks, ticks, ticks0, panicked>>

Exit(c) ==
  /\ At(c, "exit")
  /\ ptable' = [Table!Abandon(Table!Wakeup1(ptable, ptable[on[c]].parent), on[c])
                  EXCEPT ![on[c]].state = "ZOMBIE"]
  /\ Done(c)
  /\ UNCHANGED <<cpus, on, locks, ticks, ticks0, panicked>>

\* wait frees the stack and the slot of the first zombie.
Wait(c) ==
  /\ At(c, "wait")
  /\ LET zombies == Table!Zombies(on[c])
         z == CHOOSE s \in zombies : \A v \in zombies : s <= v
     IN IF zombies # {}
        THEN ptable' = [ptable EXCEPT ![z] = Table!Free] /\ code' = [Become(c, << >>) EXCEPT ![z] = << << >> >>]
        ELSE IF Table!Children(on[c]) = {} THEN Done(c) /\ UNCHANGED ptable
        ELSE code' = Become(c, SleepOn(on[c], "ptable") \o << <<"wait", 0>> >>) /\ UNCHANGED ptable
  /\ UNCHANGED <<cpus, on, locks, ticks, ticks0, panicked>>

Ticks0(c) ==
  /\ At(c, "ticks0")
  /\ ticks0' = [ticks0 EXCEPT ![on[c]] = ticks]
  /\ Done(c)
  /\ UNCHANGED <<cpus, on, locks, ptable, ticks, panicked>>

Passed(p) == (ticks - ticks0[p]) % TickWrap

\* The loop of sys_sleep
Slept(c) ==
  /\ At(c, "slept")
  /\ code' = Become(c, IF Passed(on[c]) < Arg(c) THEN SleepOn(TicksChan, "time") \o << <<"slept", Arg(c)>> >> ELSE << >>)
  /\ UNCHANGED <<cpus, on, locks, ptable, ticks, ticks0, panicked>>

Tick(c) ==
  /\ At(c, "tick")
  /\ ticks' = (ticks + 1) % TickWrap
  /\ Done(c)
  /\ UNCHANGED <<cpus, on, locks, ptable, ticks0, panicked>>

-----------------------------------------------------------------------------
(* In and out of the kernel *)

\* A clock interrupt, in the program, in a call or in the scheduler
Timer(c) ==
  /\ panicked = "no" /\ cpus[c].IF
  /\ cpus' = [cpus EXCEPT ![c].IF = FALSE]
  /\ code' = [code EXCEPT ![Thread(c)] = <<Trap(c)>> \o @]
  /\ UNCHANGED <<on, locks, ptable, ticks, ticks0, panicked>>

\* The end of trap
Slice(c) ==
  /\ At(c, "slice")
  /\ code' = Become(c, IF on[c] # None /\ ptable[on[c]].state = "RUNNING" THEN Yield ELSE << >>)
  /\ UNCHANGED <<cpus, on, locks, ptable, ticks, ticks0, panicked>>

Iret(c) ==
  /\ At(c, "iret")
  /\ cpus' = [cpus EXCEPT ![c].IF = TRUE]
  /\ code' = [code EXCEPT ![Thread(c)] = Tail(@)]
  /\ UNCHANGED <<on, locks, ptable, ticks, ticks0, panicked>>

\* The gate of a system call leaves interrupts on.
Syscall(c) ==
  /\ panicked = "no" /\ on[c] # None /\ Top(c) = << >>
  /\ \E call \in Program(on[c]) :
          code' = [code EXCEPT ![on[c]] = <<SysCall(call) \o << <<"iret", 0>> >> >> \o @]
  /\ UNCHANGED <<cpus, on, locks, ptable, ticks, ticks0, panicked>>

-----------------------------------------------------------------------------
(* main.c *)

StartAp(c) ==
  /\ At(c, "startap")
  /\ code' = [Become(c, << >>) EXCEPT ![Arg(c)] = <<MpMain>>]
  /\ UNCHANGED <<cpus, on, locks, ptable, ticks, ticks0, panicked>>

Await(c) ==
  /\ At(c, "await") /\ cpus[Arg(c)].started
  /\ Done(c)
  /\ UNCHANGED <<cpus, on, locks, ptable, ticks, ticks0, panicked>>

Started(c) ==
  /\ At(c, "started")
  /\ cpus' = [cpus EXCEPT ![c].started = TRUE]
  /\ Done(c)
  /\ UNCHANGED <<on, locks, ptable, ticks, ticks0, panicked>>

Step(c) ==
  \/ Pushcli(c) \/ Xchg(c) \/ Record(c) \/ Forget(c) \/ Unlock(c) \/ Popcli(c)
  \/ Sti(c) \/ Scan(c) \/ Sched(c) \/ Restore(c)
  \/ Give(c) \/ Doze(c) \/ Wakeup1(c) \/ AllocProc(c) \/ Runnable(c) \/ Exit(c) \/ Wait(c)
  \/ Ticks0(c) \/ Slept(c) \/ Tick(c)
  \/ Timer(c) \/ Slice(c) \/ Iret(c) \/ Syscall(c)
  \/ StartAp(c) \/ Await(c) \/ Started(c)

SchedNext == \E c \in Cpus : Step(c)
SchedSpec == SchedInit /\ [][SchedNext]_schedVars

-----------------------------------------------------------------------------
(* Properties *)

\* The processor will unlock l, or pass it to the scheduler, before it locks it.
Holds(c, l) ==
  \E s \in {Top(c)} : \E i \in DOMAIN s :
    /\ \/ s[i][1] = "unlock" /\ s[i][2] = l
       \/ s[i][1] = "sched" /\ l = "ptable"
    /\ \A j \in 1 .. i - 1 : ~(s[j][1] = "xchg" /\ s[j][2] = l)

Holders(l) == {c \in Cpus : Holds(c, l)}
Spins(c, l) == At(c, "xchg") /\ Arg(c) = l /\ locks[l].locked

\* Between acquire and release a processor is alone and cannot be interrupted, whatever
\* thread runs on it; whoever spins waits for another processor, which spins for
\* ptable.lock at most, and who holds that spins for nothing: somebody goes on.
LocksRight ==
  /\ panicked = "no"
  /\ \A l \in DOMAIN locks : \E holders \in {Holders(l)} :
       /\ Cardinality(holders) <= 1 /\ (locks[l].locked <=> holders # {})
       /\ \A h \in holders : ~cpus[h].IF /\ cpus[h].ncli > 0 /\ locks[l].cpu \in {h, Nobody}
       /\ \A c \in Cpus : Spins(c, l) =>
            \A h \in holders : h # c /\ ~Spins(h, "time") /\ (l = "ptable" => ~Spins(h, "ptable"))

\* A handler is not interrupted, a program is; a process is on one processor, with its
\* stack, and never again once it has ended; nobody sleeps for a tick that has come or for a child that has ended.
ThreadsRight ==
  /\ \A c \in Cpus :
       /\ Len(code[Thread(c)]) <= IF on[c] = None THEN 2 ELSE 3
       /\ on[c] # None => ptable[on[c]].state \notin {"UNUSED", "EMBRYO"} /\ ~At(c, "panic")
       /\ on[c] # None /\ Top(c) = << >> => cpus[c].IF /\ cpus[c].ncli = 0
       /\ \A d \in Cpus : on[c] # None /\ on[c] = on[d] => c = d
  /\ \A p \in Procs :
       /\ ptable[p].state = "RUNNING" => \E c \in Cpus : on[c] = p
       /\ ptable[p].state = "SLEEPING" /\ ptable[p].chan = TicksChan =>
            Passed(p) = 0 \/ locks["time"].locked
       /\ ptable[p].state = "SLEEPING" /\ ptable[p].chan = p => Table!Zombies(p) = {}

\* Locks, interrupts and the scheduler do what the other models of the kernel take for
\* granted: a critical section is one step, and nobody waits for what has happened.
SchedulerRight == LocksRight /\ ThreadsRight
=============================================================================
