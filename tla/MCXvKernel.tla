----------------------------- MODULE MCXvKernel -----------------------------
(***************************************************************************)
(* Two parts of the kernel that do not interact, of which one runs: the     *)
(* memory, with the programs, arguments and amounts it gets, and the        *)
(* threads, on two processors.                                              *)
(***************************************************************************)
EXTENDS XvMemory

VARIABLES part, cpus, on, code, locks, ptable, ticks, ticks0, fault

Segment(vaddr, memsz, filesz) == [vaddr |-> vaddr, memsz |-> memsz, filesz |-> filesz, short |-> FALSE]

\* A program of a page; one of two segments, the second of which exec may find wrong.
OnePage == <<Segment(0, 2, 1)>>
TwoSegments == <<Segment(0, 1, 1), Segment(2, 1, 1)>>
Misaligned == <<Segment(0, 1, 1), Segment(3, 1, 1)>>
CutShort == <<[Segment(0, 3, 3) EXCEPT !.short = TRUE]>>
Wraps == <<Segment(0, 1, 1), Segment(2, 15, 1)>>

Programs == {OnePage, TwoSegments, Misaligned, CutShort, Wraps}

\* A stack page of two words: nothing but a name, and too much.
Pushed == {[argc |-> 1, words |-> 2], [argc |-> 2, words |-> 3]}

\* Not whole pages, and all that init's program has.
Amounts == {3, -1, -2}

\* The first process and its child
ProgramOf(p) == IF p = 1 THEN {"fork", "wait"} ELSE {"sleep", "exit"}

Machine == INSTANCE XvSched WITH
             NCPU <- 2, NPROC <- 2, TickWrap <- 2, Program <- ProgramOf, panicked <- fault

ASSUME MachineConfigured == Machine!Configured

KernelInit == part \in {"memory", "threads"} /\ Init /\ Machine!SchedInit

MemoryRuns == /\ part = "memory" /\ Next
              /\ UNCHANGED <<part, cpus, on, code, locks, ptable, ticks, ticks0, fault>>
ThreadsRun == part = "threads" /\ Machine!SchedNext /\ UNCHANGED <<part, vars>>

KernelSpec ==
  KernelInit /\ [][MemoryRuns \/ ThreadsRun]_<<vars, part, cpus, on, code, locks, ptable, ticks, ticks0, fault>>

-----------------------------------------------------------------------------
(* Properties *)

\* Every frame of memory has one use, through every call that fails half way, and the
\* kernel finds the pages that it expects.
MemorySound == part = "memory" => FramesOwnedOnce /\ NoPanic

\* The page tables implement memories of the processes' own: fork copies, sbrk adds
\* zeros, exec starts afresh, and whatever fails leaves no trace.
ImplementsAddressSpaces == Memory!Init /\ [][part = "memory" => Memory!Next]_Spaces

\* Locks, interrupts and the scheduler do what the other models of the kernel take for
\* granted: a critical section is one step, and nobody waits for what has happened.
SchedulerRight == Machine!SchedulerRight
=============================================================================
