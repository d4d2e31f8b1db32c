-------------------------------- MODULE XvLog --------------------------------
(***************************************************************************)
(* The write-ahead log of xv6-OS/log.c: system calls that write blocks in   *)
(* the buffer cache between begin_op and end_op, the group commit by the    *)
(* last of them, and recovery after the machine stopped anywhere in it.     *)
(*                                                                         *)
(* What is done under log.lock is one step, and so is the write of one     *)
(* block to the disk.                                                      *)
(***************************************************************************)
EXTENDS Integers, Sequences, FiniteSets

CONSTANTS Procs,        \* the processes in file system calls
          Blocks,       \* the blocks they write
          NoBlock,      \* where a process has locked none
          MaxOpBlocks,  \* MAXOPBLOCKS, the blocks a call may write
          LogSize,      \* LOGSIZE, what begin_op takes the log to hold
          NLog,         \* sb.nlog, the blocks of the log with its header
          MaxCalls,     \* bound on the system calls
          MaxStops      \* bound on the stops of the machine

ASSUME XvLogAssumption ==
  /\ MaxOpBlocks \in Nat \ {0} /\ LogSize \in Nat /\ NLog \in Nat \ {0}
  /\ MaxCalls \in Nat /\ MaxStops \in Nat
  /\ NoBlock \notin Blocks

\* A block holds the number of the call that wrote it last.
Content == 0 .. MaxCalls

VARIABLES
  disk,         \* the blocks on the disk
  diskLog,      \* the log's blocks on the disk, after its header
  diskHead,     \* the header on the disk: lh.block[0 .. lh.n - 1]
  cache,        \* the blocks as bread returns them
  dirty,        \* those with B_DIRTY, which bget does not recycle
  lh,           \* log.lh in memory
  outstanding,  \* log.outstanding
  committing,   \* log.committing
  stage,        \* where commit, or recover_from_log, is
  tail,         \* tail of the loop it is in, from 1
  recovering,   \* is it recover_from_log?
  panicked,     \* has the kernel stopped in panic?
  pc,           \* where each process is
  block,        \* the block it has locked in log_write
  call,         \* the number of its system call
  left,         \* the blocks that call may still write
  calls,        \* bound: the calls so far
  stops         \* bound: the stops so far

onDisk == <<disk, diskLog, diskHead>>
buffers == <<cache, dirty>>
inLog == <<lh, outstanding, committing>>
committer == <<stage, tail, recovering>>
process == <<pc, block, call, left>>
vars == <<onDisk, buffers, inLog, committer, panicked, process, calls, stops>>

Init == /\ disk = [b \in Blocks |-> 0]
        /\ diskLog = [i \in 1 .. LogSize |-> 0]
        /\ diskHead = << >>
        /\ cache = disk /\ dirty = {}
        /\ lh = << >> /\ outstanding = 0 /\ committing = FALSE
        /\ stage = "none" /\ tail = 1 /\ recovering = FALSE
        /\ panicked = FALSE
        /\ pc = [p \in Procs |-> "user"]
        /\ block = [p \in Procs |-> NoBlock]
        /\ call = [p \in Procs |-> 0]
        /\ left = [p \in Procs |-> 0]
        /\ calls = 0 /\ stops = 0

Runs == ~panicked /\ ~recovering

\* wakeup(&log)
Woken(p) == IF pc[p] = "asleep" THEN "begin" ELSE pc[p]

-----------------------------------------------------------------------------
\* begin_op

Call(p) == /\ Runs /\ pc[p] = "user" /\ calls < MaxCalls
           /\ calls' = calls + 1
           /\ call' = [call EXCEPT ![p] = calls + 1]
           /\ left' = [left EXCEPT ![p] = MaxOpBlocks]
           /\ pc' = [pc EXCEPT ![p] = "begin"]
           /\ UNCHANGED <<onDisk, buffers, inLog, committer, panicked, block, stops>>

\* This call may write MaxOpBlocks, and so may each in progress.
Room == Len(lh) + (outstanding + 1) * MaxOpBlocks <= LogSize

\* Mutant of BeginOp: it does not wait for the commit that is under way.
BeginOpInCommit(p) ==
  /\ Runs /\ pc[p] = "begin" /\ Room
  /\ outstanding' = outstanding + 1
  /\ pc' = [pc EXCEPT ![p] = "in call"]
  /\ UNCHANGED <<onDisk, buffers, lh, committing, committer, panicked, block, call, left,
                 calls, stops>>

BeginOp(p) ==
  /\ Runs /\ pc[p] = "begin"
  /\ IF committing \/ ~Room
     THEN /\ pc' = [pc EXCEPT ![p] = "asleep"]
          /\ UNCHANGED outstanding
     ELSE /\ pc' = [pc EXCEPT ![p] = "in call"]
          /\ outstanding' = outstanding + 1
  /\ UNCHANGED <<onDisk, buffers, lh, committing, committer, panicked, block, call, left,
                 calls, stops>>

\* A call modifies a block, and log_write looks, without its lock, whether the
\* log has room.
Modify(p, b) ==
  /\ Runs /\ pc[p] = "in call" /\ left[p] > 0
  /\ \A q \in Procs : block[q] # b
  /\ cache' = [cache EXCEPT ![b] = call[p]]
  /\ left' = [left EXCEPT ![p] = @ - 1]
  /\ panicked' = (Len(lh) >= LogSize \/ Len(lh) >= NLog - 1 \/ outstanding < 1)
  /\ block' = [block EXCEPT ![p] = b]
  /\ pc' = [pc EXCEPT ![p] = "log_write"]
  /\ UNCHANGED <<onDisk, dirty, inLog, committer, call, calls, stops>>

\* The blocks in the log.
Logged == {lh[i] : i \in DOMAIN lh}

\* Mutant of LogWrite: a block already in the log is taken for the last one.
LogWriteAbsorbs(p) ==
  /\ Runs /\ pc[p] = "log_write"
  /\ lh' = IF lh # << >> THEN lh ELSE <<block[p]>>
  /\ dirty' = dirty \cup {block[p]}
  /\ block' = [block EXCEPT ![p] = NoBlock]
  /\ pc' = [pc EXCEPT ![p] = "in call"]
  /\ UNCHANGED <<onDisk, cache, outstanding, committing, committer, panicked, call, left,
                 calls, stops>>

\* The rest of log_write, under the lock.
LogWrite(p) ==
  /\ Runs /\ pc[p] = "log_write"
  /\ lh' = IF block[p] \in Logged THEN lh ELSE Append(lh, block[p])
  /\ dirty' = dirty \cup {block[p]}
  /\ block' = [block EXCEPT ![p] = NoBlock]
  /\ pc' = [pc EXCEPT ![p] = "in call"]
  /\ UNCHANGED <<onDisk, cache, outstanding, committing, committer, panicked, call, left,
                 calls, stops>>

\* Mutant of Recycle: a buffer with B_DIRTY is recycled too.
RecycleDirty(b) ==
  /\ ~panicked
  /\ \A p \in Procs : block[p] # b
  /\ cache' = [cache EXCEPT ![b] = disk[b]]
  /\ dirty' = dirty \ {b}
  /\ UNCHANGED <<onDisk, inLog, committer, panicked, process, calls, stops>>

\* bget recycles the buffer of a block that nobody holds: the next bread of
\* the block is from the disk.
Recycle(b) ==
  /\ ~panicked
  /\ b \notin dirty /\ \A p \in Procs : block[p] # b
  /\ cache' = [cache EXCEPT ![b] = disk[b]]
  /\ UNCHANGED <<onDisk, dirty, inLog, committer, panicked, process, calls, stops>>

-----------------------------------------------------------------------------
\* end_op: the last call commits.

EndOp(p) ==
  /\ Runs /\ pc[p] = "in call"
  /\ outstanding' = outstanding - 1
  /\ call' = [call EXCEPT ![p] = 0] /\ left' = [left EXCEPT ![p] = 0]
  /\ panicked' = committing
  /\ IF outstanding = 1
     THEN /\ committing' = TRUE
          /\ stage' = IF lh = << >> THEN "done" ELSE "log"
          /\ tail' = 1
          /\ pc' = [pc EXCEPT ![p] = "commit"]
     ELSE /\ pc' = [[q \in Procs |-> Woken(q)] EXCEPT ![p] = "user"]
          /\ UNCHANGED <<committing, stage, tail>>
  /\ UNCHANGED <<onDisk, buffers, lh, recovering, block, calls, stops>>

\* The loops of write_log and install_trans, at tail, go to the next stage
\* after the last block.
Advance(next) == /\ tail' = IF tail < Len(lh) THEN tail + 1 ELSE 1
                 /\ stage' = IF tail < Len(lh) THEN stage ELSE next

\* write_log
WriteLog == /\ ~panicked /\ stage = "log"
            /\ diskLog' = [diskLog EXCEPT ![tail] = cache[lh[tail]]]
            /\ Advance("head")
            /\ UNCHANGED <<disk, diskHead, buffers, inLog, recovering, panicked, process,
                           calls, stops>>

\* write_head: the real commit.
WriteHead == /\ ~panicked /\ stage = "head"
             /\ diskHead' = lh
             /\ stage' = "install"
             /\ UNCHANGED <<disk, diskLog, buffers, inLog, tail, recovering, panicked, process,
                            calls, stops>>

\* install_trans, of a commit or of a recovery.  bwrite clears B_DIRTY.
Install ==
  /\ ~panicked /\ stage = "install"
  /\ IF lh = << >> THEN UNCHANGED <<disk, buffers>>
     ELSE LET b == lh[tail] IN
          /\ disk' = [disk EXCEPT ![b] = diskLog[tail]]
          /\ cache' = [cache EXCEPT ![b] = diskLog[tail]]
          /\ dirty' = dirty \ {b}
  /\ Advance("erase")
  /\ UNCHANGED <<diskLog, diskHead, inLog, recovering, panicked, process, calls, stops>>

\* The second write_head: the transaction is erased.
Erase == /\ ~panicked /\ stage = "erase"
         /\ lh' = << >> /\ diskHead' = << >>
         /\ stage' = IF recovering THEN "none" ELSE "done"
         /\ recovering' = FALSE
         /\ UNCHANGED <<disk, diskLog, buffers, outstanding, committing, tail, panicked, process,
                        calls, stops>>

\* Mutant of Done: log.committing is not reset.
DoneCommitting(p) ==
  /\ Runs /\ pc[p] = "commit" /\ stage = "done"
  /\ stage' = "none"
  /\ pc' = [[q \in Procs |-> Woken(q)] EXCEPT ![p] = "user"]
  /\ UNCHANGED <<onDisk, buffers, inLog, tail, recovering, panicked, block, call, left, calls, stops>>

\* commit has returned.
Done(p) == /\ Runs /\ pc[p] = "commit" /\ stage = "done"
           /\ committing' = FALSE
           /\ stage' = "none"
           /\ pc' = [[q \in Procs |-> Woken(q)] EXCEPT ![p] = "user"]
           /\ UNCHANGED <<onDisk, buffers, lh, outstanding, tail, recovering, panicked, block,
                          call, left, calls, stops>>

-----------------------------------------------------------------------------
\* Mutant of Restart: initlog clears the log without reading it.
RestartErases ==
  /\ stops < MaxStops /\ stops' = stops + 1
  /\ cache' = disk /\ dirty' = {}
  /\ lh' = << >> /\ outstanding' = 0 /\ committing' = FALSE
  /\ stage' = "install" /\ tail' = 1 /\ recovering' = TRUE /\ panicked' = FALSE
  /\ pc' = [p \in Procs |-> "user"]
  /\ block' = [p \in Procs |-> NoBlock]
  /\ call' = [p \in Procs |-> 0] /\ left' = call'
  /\ UNCHANGED <<onDisk, calls>>

\* The machine stops, in recovery too, and starts again with nothing cached:
\* initlog reads the header and goes on as install_trans of a commit does.
Restart ==
  /\ stops < MaxStops /\ stops' = stops + 1
  /\ cache' = disk /\ dirty' = {}
  /\ lh' = diskHead /\ outstanding' = 0 /\ committing' = FALSE
  /\ stage' = "install" /\ tail' = 1 /\ recovering' = TRUE /\ panicked' = FALSE
  /\ pc' = [p \in Procs |-> "user"]
  /\ block' = [p \in Procs |-> NoBlock]
  /\ call' = [p \in Procs |-> 0] /\ left' = [p \in Procs |-> 0]
  /\ UNCHANGED <<onDisk, calls>>

-----------------------------------------------------------------------------
Step(p) == BeginOp(p) \/ LogWrite(p) \/ EndOp(p) \/ Done(p)
Commits == WriteLog \/ WriteHead \/ Install \/ Erase

\* Every call has been made and has returned, or the kernel has stopped.
Finished == /\ \/ panicked
               \/ Runs /\ calls = MaxCalls /\ \A p \in Procs : pc[p] = "user"
            /\ UNCHANGED vars

Next == \/ \E p \in Procs : Call(p) \/ Step(p) \/ \E b \in Blocks : Modify(p, b)
        \/ \E b \in Blocks : Recycle(b)
        \/ Commits
        \/ Restart
        \/ Finished

Spec == Init /\ [][Next]_vars

\* Processes run, a call ends, and the disk answers.
Fairness == WF_vars(Commits) /\ \A p \in Procs : WF_vars(Step(p))

FairSpec == Spec /\ Fairness

-----------------------------------------------------------------------------
TypeOK ==
  /\ disk \in [Blocks -> Content] /\ cache \in [Blocks -> Content]
  /\ dirty \subseteq Blocks
  /\ diskLog \in [1 .. LogSize -> Content]
  /\ diskHead \in Seq(Blocks) /\ lh \in Seq(Blocks)
  /\ outstanding \in Nat /\ committing \in BOOLEAN
  /\ stage \in {"none", "log", "head", "install", "erase", "done"}
  /\ tail \in Nat /\ (tail = 1 \/ tail \in DOMAIN lh)
  /\ recovering \in BOOLEAN /\ panicked \in BOOLEAN
  /\ pc \in [Procs -> {"user", "begin", "asleep", "in call", "log_write", "commit"}]
  /\ block \in [Procs -> Blocks \cup {NoBlock}]
  /\ call \in [Procs -> Content] /\ left \in [Procs -> 0 .. MaxOpBlocks]
  /\ calls \in Content /\ stops \in 0 .. MaxStops

\* What the calls in progress may still log, a pair for each block.
MayLog == {w \in Procs \X (1 .. MaxOpBlocks) :
             \/ pc[w[1]] = "in call" /\ w[2] <= left[w[1]]
             \/ pc[w[1]] = "log_write" /\ w[2] <= left[w[1]] + 1}

\* begin_op has kept room in LOGSIZE for every block that the calls in progress
\* may still write, whatever others have written.
Reserved == Len(lh) + Cardinality(MayLog) <= LogSize

\* The kernel stops only where the log is full: no call writes or ends during a
\* commit.
PanicsOnlyFull == panicked => Len(lh) >= NLog - 1

\* The log has its blocks inside nlog, after its header, as the check at the
\* head of log_write is there to ensure.
LogFits == Len(lh) < NLog

\* While a commit copies blocks from the cache to the log, and from the log to
\* their places, no call is in progress that could change them.
CommitsAlone == stage \in {"log", "head", "install", "erase"} => outstanding = 0

\* What a recovery would make of the disk as it is now.
Recovered ==
  [b \in Blocks |-> IF \E i \in DOMAIN diskHead : diskHead[i] = b
                    THEN diskLog[CHOOSE i \in DOMAIN diskHead : diskHead[i] = b]
                    ELSE disk[b]]

\* Where no call is in progress everything that was written is on the disk:
\* end_op of the last call returns with all of them durable.
IdleIsDurable == (Runs /\ outstanding = 0 /\ ~committing) => Recovered = cache

\* The blocks reach the disk as an atomic disk's do: all that the calls since
\* the last commit wrote, at once, or nothing.
Disk == INSTANCE AtomicDisk WITH
          Values  <- Content, Blank <- 0,
          stable  <- Recovered,
          current <- IF recovering THEN Recovered ELSE cache,
          open    <- outstanding
ImplementsAtomicDisk == Disk!Spec

\* A call that waits in begin_op gets in, if no others come for ever, or the
\* machine stops: the sleep of begin_op and the wakeups of end_op never miss
\* each other.
BeginReturns ==
  \A p \in Procs : (pc[p] \in {"begin", "asleep"}) ~> (pc[p] \in {"in call", "user"} \/ panicked)
=============================================================================
