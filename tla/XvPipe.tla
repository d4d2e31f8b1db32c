-------------------------------- MODULE XvPipe --------------------------------
(***************************************************************************)
(* The processes of XvProc with a pipe between them: xv6-OS/pipe.c, and of  *)
(* file.c and sysfile.c what pipes need.  A pipe is made, its files are     *)
(* inherited, duplicated, closed and left by processes that die, and its    *)
(* bytes are written and read under p->lock.                                *)
(*                                                                         *)
(* Bytes are numbered as they are written.  A process that is about to      *)
(* sleep still holds p->lock, and kill can come then: that is a step.       *)
(***************************************************************************)
EXTENDS XvProc, Sequences

CONSTANTS PIPESIZE,
          UintSize,   \* where the unsigned nread and nwrite return to 0
          NFILE, NOFILE,
          Sizes,      \* the n that programs pass to read and write
          MaxBytes    \* bound on the bytes written to a pipe

ASSUME XvPipeAssumption ==
  /\ PIPESIZE \in Nat \ {0} /\ UintSize \in Nat \ {0}
  /\ UintSize % PIPESIZE = 0 /\ UintSize > PIPESIZE
  /\ NFILE \in Nat /\ NOFILE \in Nat /\ Sizes \subseteq Nat /\ MaxBytes \in Nat

Files == 1 .. NFILE
Fds == 1 .. NOFILE

VARIABLES
  file,       \* ftable: ref and writable; a file with ref = 0 is free
  ofile,      \* proc.ofile of each slot: a file for each descriptor, or 0
  pipe,       \* nread, nwrite, data, readopen, writeopen
  plock,      \* who holds p->lock and is about to sleep, or 0
  left,       \* n of a read, and the bytes a write has still to store
  sent,       \* the bytes written to the pipe so far
  delivered,  \* the bytes its readers got, in order
  cut         \* history: has a killed write left bytes without a wakeup since?

files == <<file, ofile>>
stream == <<pipe, sent, delivered, cut>>
vars == <<procVars, files, stream, plock, left>>

\* &p->nread and &p->nwrite: addresses that are not a slot's
nreadChan == NPROC + 1
nwriteChan == NPROC + 2

NoPipe == [nread |-> 0, nwrite |-> 0, data |-> [i \in 0 .. PIPESIZE - 1 |-> 0],
           readopen |-> FALSE, writeopen |-> FALSE]

Init == /\ ProcInit
        /\ file = [f \in Files |-> [ref |-> 0, writable |-> FALSE]]
        /\ ofile = [p \in Slots |-> [d \in Fds |-> 0]]
        /\ pipe = NoPipe /\ plock = 0
        /\ left = [p \in Slots |-> 0]
        /\ sent = 0 /\ delivered = << >> /\ cut = FALSE

-----------------------------------------------------------------------------
\* sys_pipe, sys_dup, sys_close

First(S) == CHOOSE s \in S : \A t \in S : s <= t
FreeFiles == {f \in Files : file[f].ref = 0}
FreeFds(p) == {d \in Fds : ofile[p][d] = 0}

\* Where there are not two files, two descriptors and a page, all is undone and
\* nothing has changed.
Pipe(p) ==
  /\ In(p, "user") /\ ~proc[p].killed
  /\ ~pipe.readopen /\ ~pipe.writeopen
  /\ Cardinality(FreeFiles) >= 2 /\ Cardinality(FreeFds(p)) >= 2
  /\ LET rf == First(FreeFiles)       wf == First(FreeFiles \ {rf})
         fd0 == First(FreeFds(p))     fd1 == First(FreeFds(p) \ {fd0})
     IN /\ file' = [file EXCEPT ![rf] = [ref |-> 1, writable |-> FALSE],
                                ![wf] = [ref |-> 1, writable |-> TRUE]]
        /\ ofile' = [ofile EXCEPT ![p][fd0] = rf, ![p][fd1] = wf]
  /\ pipe' = [NoPipe EXCEPT !.readopen = TRUE, !.writeopen = TRUE]
  /\ sent' = 0 /\ delivered' = << >> /\ cut' = FALSE
  /\ UNCHANGED <<procVars, plock, left>>

\* Mutant of Dup: the file is not counted once more.
DupUncounted(p, d) ==
  /\ In(p, "user") /\ ~proc[p].killed
  /\ ofile[p][d] # 0 /\ FreeFds(p) # {}
  /\ ofile' = [ofile EXCEPT ![p][First(FreeFds(p))] = ofile[p][d]]
  /\ UNCHANGED <<procVars, file, stream, plock, left>>

Dup(p, d) ==
  /\ In(p, "user") /\ ~proc[p].killed
  /\ ofile[p][d] # 0 /\ FreeFds(p) # {}
  /\ ofile' = [ofile EXCEPT ![p][First(FreeFds(p))] = ofile[p][d]]
  /\ file' = [file EXCEPT ![ofile[p][d]].ref = @ + 1]
  /\ UNCHANGED <<procVars, stream, plock, left>>

\* Mutant of PipeClose: the readers are not woken.
PipeCloseQuietly(writable) ==
  /\ plock = 0
  /\ IF writable THEN pipe' = [pipe EXCEPT !.writeopen = FALSE] /\ UNCHANGED proc
     ELSE /\ pipe' = [pipe EXCEPT !.readopen = FALSE]
          /\ proc' = Wakeup1(proc, nwriteChan)

PipeClose(writable) ==
  /\ plock = 0
  /\ IF writable THEN /\ pipe' = [pipe EXCEPT !.writeopen = FALSE]
                      /\ proc' = Wakeup1(proc, nreadChan)
     ELSE /\ pipe' = [pipe EXCEPT !.readopen = FALSE]
          /\ proc' = Wakeup1(proc, nwriteChan)

\* fileclose.  Nobody sees a file that has lost its last reference, so the count
\* and pipeclose are one step.
FileClose(p, d) ==
  LET f == ofile[p][d] IN
  /\ ofile' = [ofile EXCEPT ![p][d] = 0]
  /\ file' = [file EXCEPT ![f].ref = @ - 1]
  /\ IF file[f].ref = 1 THEN PipeClose(file[f].writable) ELSE UNCHANGED <<pipe, proc>>

Close(p, d) == /\ In(p, "user") /\ ~proc[p].killed /\ ofile[p][d] # 0
               /\ FileClose(p, d)
               /\ UNCHANGED <<nextpid, pc, np, kills, sent, delivered, cut, plock, left>>

-----------------------------------------------------------------------------
\* piperead and pipewrite

Has(p, writable) == \E d \in Fds : ofile[p][d] # 0 /\ file[ofile[p][d]].writable = writable

Count == (pipe.nwrite - pipe.nread) % UintSize
Least(a, b) == IF a < b THEN a ELSE b

\* sys_read and sys_write of n bytes
EnterRead(p, n) == /\ Enter(p, "read") /\ Has(p, FALSE)
                   /\ left' = [left EXCEPT ![p] = n]
                   /\ UNCHANGED <<files, stream, plock>>

EnterWrite(p, n) == /\ Enter(p, "write") /\ Has(p, TRUE) /\ sent + n <= MaxBytes
                    /\ left' = [left EXCEPT ![p] = n]
                    /\ UNCHANGED <<files, stream, plock>>

Returns(p) == /\ pc' = [pc EXCEPT ![p] = "user"]
              /\ left' = [left EXCEPT ![p] = 0]

\* The process looks at killed, and then sleeps.
WillSleep(p, place) == /\ pc' = [pc EXCEPT ![p] = place]
                       /\ plock' = p

\* Mutant of Taken: the copy does not go round the end of data.
TakenFlat(k) == [i \in 1 .. k |-> pipe.data[Least((pipe.nread % PIPESIZE) + i - 1, PIPESIZE - 1)]]

\* The next k bytes, from nread % PIPESIZE on.
Taken(k) == [i \in 1 .. k |-> pipe.data[(pipe.nread + i - 1) % PIPESIZE]]

ReadBytes(p) == LET k == Least(left[p], Count) IN
                /\ delivered' = delivered \o Taken(k)
                /\ pipe' = [pipe EXCEPT !.nread = (@ + k) % UintSize]
                /\ proc' = Wakeup1(proc, nwriteChan)
                /\ Returns(p)
                /\ UNCHANGED plock

Read(p) ==
  /\ In(p, "read") /\ plock = 0
  /\ IF Count # 0 \/ ~pipe.writeopen THEN ReadBytes(p)
     ELSE /\ IF proc[p].killed THEN Returns(p) /\ UNCHANGED plock
             ELSE WillSleep(p, "readSleeps") /\ UNCHANGED left
          /\ UNCHANGED <<proc, pipe, delivered>>
  /\ UNCHANGED <<nextpid, np, kills, files, sent, cut>>

\* The bytes a write can store before it is done or finds the pipe full
Storable(p) == Least(left[p], PIPESIZE - Count)

Store(k) ==
  LET at(j) == (pipe.nwrite + j - 1) % PIPESIZE IN
  /\ pipe' = [pipe EXCEPT !.nwrite = (@ + k) % UintSize,
                          !.data = [i \in DOMAIN @ |-> IF \E j \in 1 .. k : at(j) = i
                                       THEN sent + (CHOOSE j \in 1 .. k : at(j) = i) ELSE @[i]]]
  /\ sent' = sent + k

\* Mutant of Write: a write that is to sleep does not wake the readers first.
WriteQuietly(p) ==
  LET k == Storable(p) IN
  /\ In(p, "write") /\ plock = 0
  /\ Store(k)
  /\ cut' = (left[p] # k /\ proc[p].killed)
  /\ IF left[p] = k THEN Returns(p) /\ proc' = Wakeup1(proc, nreadChan) /\ UNCHANGED plock
     ELSE IF ~pipe.readopen \/ proc[p].killed THEN Returns(p) /\ UNCHANGED <<proc, plock>>
     ELSE /\ WillSleep(p, "writeSleeps") /\ left' = [left EXCEPT ![p] = @ - k]
          /\ UNCHANGED proc
  /\ UNCHANGED <<nextpid, np, kills, files, delivered>>

Write(p) ==
  LET k == Storable(p) IN
  /\ In(p, "write") /\ plock = 0
  /\ Store(k)
  /\ cut' = (left[p] # k /\ proc[p].killed)
  /\ IF left[p] = k THEN Returns(p) /\ proc' = Wakeup1(proc, nreadChan) /\ UNCHANGED plock
     ELSE IF ~pipe.readopen \/ proc[p].killed THEN Returns(p) /\ UNCHANGED <<proc, plock>>
     ELSE /\ WillSleep(p, "writeSleeps") /\ left' = [left EXCEPT ![p] = @ - k]
          /\ proc' = Wakeup1(proc, nreadChan)
  /\ UNCHANGED <<nextpid, np, kills, files, delivered>>

\* sleep: p->lock is released with ptable.lock held.
GoToSleep(p, place, chan) ==
  /\ In(p, place) /\ plock = p
  /\ proc' = Sleep(proc, p, chan)
  /\ pc' = [pc EXCEPT ![p] = IF chan = nreadChan THEN "read" ELSE "write"]
  /\ plock' = 0
  /\ UNCHANGED <<nextpid, np, kills, files, stream, left>>

ReadSleeps(p) == GoToSleep(p, "readSleeps", nreadChan)
WriteSleeps(p) == GoToSleep(p, "writeSleeps", nwriteChan)

-----------------------------------------------------------------------------
\* What fork and exit do to files

Fork(p) ==
  LET uses(f) == Cardinality({d \in Fds : ofile[p][d] = f}) IN
  /\ ForkChild(p)
  /\ ofile' = [ofile EXCEPT ![np[p]] = ofile[p]]
  /\ file' = [f \in Files |-> [file[f] EXCEPT !.ref = @ + uses(f)]]
  /\ UNCHANGED <<stream, plock, left>>

OpenFds(p) == {d \in Fds : ofile[p][d] # 0}

ExitClose(p) == /\ In(p, "exit") /\ OpenFds(p) # {}
                /\ FileClose(p, First(OpenFds(p)))
                /\ UNCHANGED <<nextpid, pc, np, kills, sent, delivered, cut, plock, left>>

Exit(p) == /\ OpenFds(p) = {} /\ ExitLast(p)
           /\ UNCHANGED <<files, stream, plock, left>>

-----------------------------------------------------------------------------
Rest == UNCHANGED <<files, stream, plock, left>>

\* init.c forks and waits; the other programs do as they like.
EnterOther(p) == /\ \/ Enter(p, "wait")
                    \/ Enter(p, "fork") /\ nextpid <= MaxPid
                    \/ Enter(p, "exit") /\ p # initproc
                 /\ Rest

User(p) == \/ EnterOther(p)
           \/ /\ p # initproc
              /\ \/ Pipe(p)
                 \/ \E d \in Fds : Dup(p, d) \/ Close(p, d)
                 \/ \E n \in Sizes : EnterRead(p, n) \/ EnterWrite(p, n)
                 \/ \E k \in Killable : Kill(p, k) /\ Rest

\* The steps that a process makes once it is in the kernel
Kernel(p) == \/ (TrapKilled(p) \/ AllocProc(p) \/ ForkFails(p) \/ Wait(p)) /\ Rest
             \/ Fork(p) \/ ExitClose(p) \/ Exit(p)
             \/ Read(p) \/ ReadSleeps(p) \/ Write(p) \/ WriteSleeps(p)

Next == \E p \in Slots : User(p) \/ Kernel(p)

Spec == Init /\ [][Next]_vars

\* Schedulers go round the table, so that every process gets on, and init goes
\* on calling wait.
Fairness == /\ \A p \in Slots : WF_vars(Kernel(p))
            /\ WF_vars(Enter(initproc, "wait") /\ Rest)

FairSpec == Spec /\ Fairness
-----------------------------------------------------------------------------
\* Every process but init has a parent that is alive and can wait for it,
\* through forks, exits and the reuse of slots, and no two have one pid.
HasParent == \A s \in Slots : proc[s].state \notin {"UNUSED", "EMBRYO"} =>
  /\ s # initproc => /\ proc[s].parent \in Slots \ {s}
                     /\ proc[proc[s].parent].state \notin {"UNUSED", "EMBRYO", "ZOMBIE"}
  /\ \A t \in Slots \ Unused : proc[t].pid = proc[s].pid => t = s

\* Whoever sleeps has something to wait for that has not happened: no wakeup
\* came between a look at the pipe, or at the children, and the sleep.
\* A write that was killed in a full pipe returns without waking the readers, and
\* what it stored waits for the next wakeup.
NoLostWakeup == \A p \in Slots : proc[p].state = "SLEEPING" =>
  \/ proc[p].chan = p /\ Children(p) # {} /\ Zombies(p) = {}
  \/ proc[p].chan = nreadChan /\ (Count = 0 \/ cut) /\ pipe.writeopen
  \/ proc[p].chan = nwriteChan /\ Count = PIPESIZE /\ pipe.readopen

\* An end of the pipe is open as long as a descriptor of some process, a child
\* that inherited it or a copy by dup, leads to it.
EndsAreCounted ==
  LET held(f) == {u \in Slots \X Fds : ofile[u[1]][u[2]] = f}
      open(w) == \E f \in Files : held(f) # {} /\ file[f].writable = w
  IN /\ \A f \in Files : file[f].ref = Cardinality(held(f))
     /\ pipe.readopen = open(FALSE) /\ pipe.writeopen = open(TRUE)

\* pipealloc, piperead, pipewrite and pipeclose make a stream of bytes, across
\* the end of data and the overflow of nread and nwrite.
Stream == INSTANCE ByteStream WITH
            Capacity <- PIPESIZE, Bytes <- 1 .. MaxBytes,
            under <- [i \in 1 .. Count |-> pipe.data[(pipe.nread + i - 1) % PIPESIZE]],
            delivered <- delivered,
            reader <- pipe.readopen, writer <- pipe.writeopen
ImplementsByteStream == Stream!Spec

\* A zombie that init has been given is reaped.
InitReaps == \A s \in Slots : (proc[s].state = "ZOMBIE" /\ proc[s].parent = initproc)
                                ~> proc[s].state = "UNUSED"

=============================================================================
