-------------------------------- MODULE XvProc --------------------------------
(***************************************************************************)
(* The process table of xv6-OS/proc.c: fork, exit, wait, kill, sleep and     *)
(* wakeup, and the way trap.c ends a killed process.  What is done under    *)
(* ptable.lock is one step, and processes interleave between any two steps. *)
(*                                                                         *)
(* The actions say what becomes of the table and of each process's place    *)
(* in the kernel; XvPipe adds the files that fork copies and exit closes.   *)
(***************************************************************************)
EXTENDS Integers, FiniteSets

CONSTANTS NPROC,      \* slots of the table
          Killable,   \* the pids that user programs pass to kill
          MaxPid,     \* bound on the pids given
          MaxKills    \* bound on the calls of kill

ASSUME XvProcAssumption ==
  /\ NPROC \in Nat \ {0}
  /\ MaxPid \in Nat \ {0} /\ MaxKills \in Nat /\ Killable \subseteq Nat

Slots == 1 .. NPROC
initproc == 1

VARIABLES proc,     \* ptable.proc: state, pid, parent, chan and killed of each slot
          nextpid,
          pc,       \* where the process in a slot is: in user space, or in which call
          np,       \* the slot its fork has allocated
          kills     \* bound: the calls of kill

table == <<proc, nextpid>>
procVars == <<table, pc, np, kills>>

Free == [state |-> "UNUSED", pid |-> 0, parent |-> 0, chan |-> 0, killed |-> FALSE]

ProcInit == /\ proc = [s \in Slots |-> IF s = initproc
                                       THEN [Free EXCEPT !.state = "RUNNABLE", !.pid = 1]
                                       ELSE Free]
            /\ nextpid = 2
            /\ pc = [s \in Slots |-> "user"]
            /\ np = [s \in Slots |-> 0]
            /\ kills = 0

\* The process can run, and is there.  A scheduler runs it when it likes, and a
\* timer interrupt may stop it anywhere, so RUNNABLE and RUNNING are not told
\* apart: both are "RUNNABLE".
In(p, place) == proc[p].state = "RUNNABLE" /\ pc[p] = place

-----------------------------------------------------------------------------
\* wakeup1, sleep: what they make of the table t

\* The woken process tidies up its chan before it does anything else.
Wakeup1(t, c) == [s \in Slots |-> IF t[s].state = "SLEEPING" /\ t[s].chan = c
                                  THEN [t[s] EXCEPT !.state = "RUNNABLE", !.chan = 0] ELSE t[s]]

Sleep(t, p, c) == [t EXCEPT ![p].chan = c, ![p].state = "SLEEPING"]

-----------------------------------------------------------------------------
\* trap: a killed process does not enter or leave the kernel but to exit.
Enter(p, call) == /\ In(p, "user") /\ ~proc[p].killed
                  /\ pc' = [pc EXCEPT ![p] = call]
                  /\ UNCHANGED <<table, np, kills>>

TrapKilled(p) == /\ In(p, "user") /\ proc[p].killed
                 /\ pc' = [pc EXCEPT ![p] = "exit"]
                 /\ UNCHANGED <<table, np, kills>>

-----------------------------------------------------------------------------
\* fork

Unused == {s \in Slots : proc[s].state = "UNUSED"}

\* allocproc, under the lock: the first slot that is UNUSED.  Its killed and
\* parent are what the last process left.
AllocProc(p) ==
  /\ In(p, "fork") /\ np[p] = 0
  /\ IF Unused = {} THEN pc' = [pc EXCEPT ![p] = "user"] /\ UNCHANGED <<table, np>>
     ELSE LET s == CHOOSE u \in Unused : \A v \in Unused : u <= v IN
          /\ proc' = [proc EXCEPT ![s].state = "EMBRYO", ![s].pid = nextpid]
          /\ nextpid' = nextpid + 1
          /\ np' = [np EXCEPT ![p] = s]
          /\ UNCHANGED pc
  /\ UNCHANGED kills

\* There is no memory for its stack or its pages: the slot is given up.
ForkFails(p) ==
  /\ In(p, "fork") /\ np[p] # 0
  /\ proc' = [proc EXCEPT ![np[p]].state = "UNUSED"]
  /\ np' = [np EXCEPT ![p] = 0] /\ pc' = [pc EXCEPT ![p] = "user"]
  /\ UNCHANGED <<nextpid, kills>>

\* Mutant of ForkChild: the parent is not recorded.
ForkOrphan(p) ==
  /\ In(p, "fork") /\ np[p] # 0
  /\ proc' = [proc EXCEPT ![np[p]].state = "RUNNABLE"]
  /\ pc' = [pc EXCEPT ![p] = "user", ![np[p]] = "user"]
  /\ np' = [np EXCEPT ![p] = 0]
  /\ UNCHANGED <<nextpid, kills>>

ForkChild(p) ==
  /\ In(p, "fork") /\ np[p] # 0
  /\ proc' = [proc EXCEPT ![np[p]].parent = p, ![np[p]].state = "RUNNABLE"]
  /\ pc' = [pc EXCEPT ![p] = "user", ![np[p]] = "user"]
  /\ np' = [np EXCEPT ![p] = 0]
  /\ UNCHANGED <<nextpid, kills>>

-----------------------------------------------------------------------------
\* exit and wait

\* The children of p pass to init, which is woken if one is a zombie.
Abandon(t, p) ==
  LET orphans == {s \in Slots : t[s].parent = p}
      passed == [s \in Slots |-> IF s \in orphans THEN [t[s] EXCEPT !.parent = initproc] ELSE t[s]]
  IN IF \E s \in orphans : t[s].state = "ZOMBIE" THEN Wakeup1(passed, initproc) ELSE passed

\* Mutant of ExitLast: the parent is not woken.
ExitQuietly(p) ==
  /\ In(p, "exit") /\ p # initproc
  /\ proc' = [Abandon(proc, p) EXCEPT ![p].state = "ZOMBIE"]
  /\ UNCHANGED <<nextpid, pc, np, kills>>

\* The end of exit, with its files closed.
ExitLast(p) ==
  /\ In(p, "exit") /\ p # initproc
  /\ proc' = [Abandon(Wakeup1(proc, proc[p].parent), p) EXCEPT ![p].state = "ZOMBIE"]
  /\ UNCHANGED <<nextpid, pc, np, kills>>

Children(p) == {s \in Slots : proc[s].parent = p}
Zombies(p) == {s \in Children(p) : proc[s].state = "ZOMBIE"}

\* wait frees the first zombie, or returns -1, or sleeps.
Wait(p) ==
  /\ In(p, "wait")
  /\ IF Zombies(p) # {}
     THEN LET z == CHOOSE s \in Zombies(p) : \A v \in Zombies(p) : s <= v IN
          /\ proc' = [proc EXCEPT ![z] = Free]
          /\ pc' = [pc EXCEPT ![p] = "user", ![z] = "user"]
     ELSE IF Children(p) = {} \/ proc[p].killed
     THEN pc' = [pc EXCEPT ![p] = "user"] /\ UNCHANGED proc
     ELSE proc' = Sleep(proc, p, p) /\ UNCHANGED pc
  /\ UNCHANGED <<nextpid, np, kills>>

-----------------------------------------------------------------------------
\* kill marks the first slot with the pid, whatever state it is in.
KillPid(k) ==
  LET named == {s \in Slots : proc[s].pid = k}
      s == CHOOSE n \in named : \A v \in named : n <= v
  IN IF named = {} THEN UNCHANGED proc
     ELSE proc' = [proc EXCEPT ![s].killed = TRUE, ![s].chan = 0,
                               ![s].state = IF @ = "SLEEPING" THEN "RUNNABLE" ELSE @]

\* The look at killed in trap and the rest are one step, as calls of kill commute.
Kill(p, k) == /\ In(p, "user") /\ ~proc[p].killed
              /\ kills < MaxKills /\ kills' = kills + 1
              /\ KillPid(k)
              /\ UNCHANGED <<nextpid, pc, np>>
=============================================================================
