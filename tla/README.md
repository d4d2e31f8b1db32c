# A verification of the systems in this repository

The repository is a collection of course projects. Some keep state that several
threads, processes or machines change at once and that has to survive failures;
others are programs that run alone, and whose difficulty is a data structure, a
parser or a number that overflows. Both are modelled here in TLA+: each module
is translated from the source that PROJECT.json names ("map"), checked with TLC
on small instances and, where that is said, proved with TLAPS for every value
of its constants.

## Inventory

| Component | State | Operations | What is hard | Modules |
|---|---|---|---|---|
| `operating-systems/twophase`: coordinator, workers | coordinator: state, counter, transaction, value; worker: state, value, next value, transaction; one log entry each | SetValue, elections, CastVote / SetValue / Abort / GetCommitted, recovery | every remote call and log write may fail on either side of its effect; crashes; late and repeated calls | TwoPhase, ReplicatedValue |
| ... its persistent log | an index byte and two slots in a file, a copy in memory | open, set_last_entry | a crash inside each of the two writes; writes that raise | PersistentLog, AtomicLog |
| ... its forwarder and tests | countdowns of faults to inject | fail, delay, replay | they define which failures are meant to be survived | TwoPhase (the faults) |
| `operating-systems/pool` | queue, map of tasks, mutex, condition, semaphores, terminate flags | SubmitTask, WaitForTask, Stop, worker loop; the tests | lost wakeups, tasks that wait while they hold a worker, deletion of a task others use, Stop | ThreadPool, TaskService, ThreadsProofs, PoolTests |
| `operating-systems/life` | two boards, a barrier, row ranges | simulate_life_parallel | reading a row a neighbour still writes; the join and the last copy | ParallelLife, GameOfLife, ThreadsProofs |
| `operating-systems/xv6-OS`: log | log header in memory and on disk, buffers, outstanding calls | begin_op, log_write, end_op, recovery | crashes between block writes, group commit, room in the log | XvLog, AtomicDisk |
| ... processes, pipes | process table, ring buffer, two counters, open ends | fork, exit, wait, kill, sleep, wakeup, read, write, close | lost wakeups, kill, reuse of a slot, closing in any order | XvProc, XvPipe, ByteStream |
| ... spin locks, scheduler, clock | flags and counters of each processor, locks, run states | acquire, release, sched, sleep, wakeup, clock interrupt, system calls on top | interrupts with a lock held, the lock that changes threads | XvSched, XvSchedProofs |
| ... inodes, directories, files | inodes on disk and in memory, blocks, open files | open, close, link, unlink, mkdir, mknod, chdir, read, write; mkfs | locks in two orders, references on failing paths, crashes between transactions | XvFiles, XvFilesProofs |
| ... memory, exec | free list, page tables, sizes | fork, exec, sbrk, exit, wait, faults of memory | running out of memory in the middle | XvMemory, AddressSpaces, MachineProofs |
| ... buffers and disk | buffers in order of use, queue of requests | bread, bwrite, brelse, interrupt | who is woken with which data; transfers that fail | XvDisk |
| ... console and keyboard | keyboard bits, ring of typed characters, screen | interrupts, consoleread, cprintf | readers, `^D` and `^U` at the ends of a ring whose counters overflow | XvConsole |
| ... user programs | strings, buffers, a heap | string functions, printers, grep, wc, cat, ls, malloc; fetching of system-call arguments | pieces of input; edges of memory | XvTools |
| ... user tests | files, pipes, processes, memory | usertests, stressfs | the tests have several processes and accept what any order gives | UserTests |
| ... shell | tree of a line, descriptors | parse, run | which ends stay open where | XvShell |
| `operating-systems/shell` | processes and pipe ends of a line | parsing, run_pipeline, wait | descriptors, statuses, failed calls | CommandShell |
| `computer-architecture/Yas` | symbol table, token state, output; memory, registers, flags | two passes of the assembler; instructions | errors that leave state for the next line; overflow | Yas, Y86 |
| `data-structures` | lists, trees, hash table, heap, graphs | the operations of each lab | sequences of operations; boundaries | LinkedLists, SearchTrees, HashTable, Huffman, GraphLabs, Calculators, EditedSequences, OrderedSet |
| `wireless-internet-of-things/Assignment3` | timers, flags of two boards | train of packets, listening, acknowledgement | timers of two clocks, lost packets | Radio |
| `wireless-internet-of-things/Assignment4` | interval, average, queues of the broker | publish, subscribe, button interrupt | interrupt against loop, a clock that wraps, late subscriptions | Sensors |
| `object-oriented-programing`: chapter on concurrency | a buffer of one item, a count of cashiers | insert, remove, the cashiers' loops | waits and notifications, threads that end while others wait | JavaMonitors |
| `blockchain`, the other Java chapters, algorithms, notebooks, hardware descriptions | | | see "Not modelled" | |

Components interact only within a project: the two-phase nodes call each other
and each its own log; the pool's tasks call the pool; in xv6 everything sleeps
and wakes through the process table, files go through the log to the buffers
and the disk, and programs reach all of it through system calls; the assembler
writes what the simulator runs; the wireless programs exchange messages.

How the xv6 models divide the kernel between them: `XvSched` goes down to the
instructions of spin locks and interrupts, and shows that what happens under a
lock is alone and that sleep and wakeup miss nothing. All other models take
this for granted and make a critical section one step. `XvFiles` and
`UserTests` take the log as `AtomicDisk` states it, which `XvLog` is shown to
implement. `XvLog` takes buffers that keep what is written, which `XvDisk` has.
`UserTests` takes system calls as single steps, whose inside is in `XvFiles`,
`XvPipe` and `XvMemory`.

## Plan

The order in which the models were written; all are done.

1. Two-phase commit, its log, the abstract specifications; proofs.
2. The thread pool, and its tests on the abstract service.
3. xv6's log over its buffers; proofs. The parallel Game of Life; proofs.
4. xv6's processes and pipes, files, memory, scheduler, disk, console.
5. The programs that run alone: labs, shells, tools, assembler and simulator,
   user tests, wireless programs, Java monitors; the proofs of the thread pool.
6. The proofs of the invariants of pipes and inodes, and of the memory of xv6
   with its refinement of separate address spaces.
7. The proof of the locks and the scheduler, on which the others rest.

What is left is under "Not proved, not modelled" at the end, with the reasons.

A run answers one question about one component, with all the properties that
belong to it. The programs of step 5 share nothing with one another and with
the kernel's models, and each is small: they are the parts of one run,
`programs`, whose first state chooses one. Likewise `xv_memory_and_threads` has
two parts of the kernel that do not interact at the level modelled.

## Two-phase commit

The first part of `TwoPhase` maps each handler of `worker.py` to the set of its outcomes
(the worker afterwards, the answer). A worker's server has one thread, so a
handler is one step. `Logs` is the one place where a handler can split:
`set_last_entry` may raise before or after the entry is stored (the two ways
`TestingDummyPersistentLog` fails), and the handler leaves its memory as it was
at that line.

`TwoPhase` is `coordinator.py` around it. `phase` says what the coordinator's
only thread does: nothing ("ready"), Brain for a client ("serving"), Brain in
`__init__` ("recovering"), or there is no process ("down"). The loops over the
stubs are one call at a time (`next`), and each call is answered
(`CallAnswered`), fails before or after its handler ran (`CallLost`), or fails
and stays in the network (`CallDelayed`), from where it may arrive any number of
times (`Replay`): the faults of `testing_forwarder.py`. An exception leaves
Brain with the memory as it is: a serving coordinator stays up, in the middle of
its transaction, and ignores requests until somebody restarts it
(`StopToRecover`); a recovering one dies.

`ReplicatedValue` is the promise to readers: one value, that each worker shows
or hides, and that changes only while all hide it. `ShowsOneValue` is the
refinement: the value is the last COMMIT entry of the coordinator's log, the
view is what `GetCommitted` answers.

* `commit_crashes` (three workers, three transactions, three faults, with log
  writes of the coordinator, CastVote and Abort that may raise): Agreement, the
  durability of a commit, that workers can be restarted, that decisions are
  final and votes kept, and the refinement.
* `commit_recovery` (two workers; one CastVote may be kept by the network, and arrive
  late and more than once): under fairness a worker that has voted becomes available
  again and a decided value reaches every reader, unless the network keeps a call; and
  readers agree even with the late CastVote.

Faults are bounded by `MaxFaults` (crashes, lost calls and log errors together),
transactions by `MaxTransactions`, kept calls by `MaxDelayed`. Three faults are
enough to lose a call, crash a worker and crash the coordinator within one
transaction; the second transaction meets what the first has left, the third
what an aborted one has left. Where a bound is reached the system stops, so the
runs do not look for deadlocks.

Fairness: `CodeFairness` lets a process that is up run and restarts one that
died; `OperatedSpec` adds the operator who restarts a coordinator that a failed
call has left in the middle of a transaction, which is what each scenario of
`failure_test.py` does. Nothing in the code does it, so liveness is stated under
`OperatedSpec` only.

### Proofs (`TwoPhaseProofs`)

`TypeCorrect` holds without assumptions on the network. The rest is proved for
any number of workers and values, any bounds, any set of failing log writes
without "Commit", and `Delayable = {}`: both limits are real, beyond them the code keeps
neither the invariant nor all that follows from it (see Findings). That Agreement
survives a late CastVote is model-checked only.

The invariant `IInv` reads the coordinator's last log entry as the state of the
transaction and says, for each of its four states, what every worker's log and
memory look like (`Follows`), and what those workers look like that the loop in
Brain has passed (`Passed`). It is needed because Agreement says nothing of the
votes in the logs, which is where a restart takes a worker's next state from.
`NextInv` has one lemma per action; the lemmas on handlers (`CastVoteKeeps`,
`SetValueKeeps`, `AbortKeeps` and so on) say what an outcome leaves of
`Follows`. From the invariant follow the safety properties of the run and the
refinement, and two facts that no run lists: an idle coordinator has left no
worker blocked (`IdleMeansSettledHolds`), and transaction numbers are new
(`FreshTransactionHolds`).

## Persistent log

`PersistentLog` has the file as an index byte and two slots, each an entry or
one of three kinds of bytes that are none: past the end of the file, zero bytes
in a hole, torn by a crash. `set_last_entry` is three steps (memory, slot,
index) and a crash may come after each and inside the slot write. Each of the two
writes may also raise and leave the process running, with nothing in the file, with
part of the slot, or with all of it when it is fsync that raises (`WriteError`).
`raised` remembers that: what holds only until a write has raised says so.

The run `log_crashes` has three entries, so that both slots are overwritten
several times with distinct contents. That the file implements a log replaced as a
whole (`ReplacedAsAWhole`) and always has an entry (`StaysLoadable`) is conditioned on
no write having raised before: after one has, the next call may write the slot that the
index on disk names. What holds after a raise as well is that a call which returns
has stored its entry (`ReturnsWhenStored`).

The end of the module proves these three for any set of entries, from the
invariant that memory and file are in step until something raises; and that the
slot on which the index stands is never written (`NeverInPlaceHolds`) and that an open
log answers what a restart would read (`ReadsWhatIsStoredHolds`), both until a write
raises.

## Thread pool

`ThreadPool` has the worker threads (`worker`), the callers (`at`, a client or a
task that runs, on its worker's thread) and Stop. What the code does between
lock and unlock is one step; `sem_wait`, `sem_post` and Run are steps of their
own. A map lookup that throws leaves the lock taken (`thrown`). Callers respect
`pool.h`: every live name once, every task waited for at most once, no submission
after Stop. A task may wait for an earlier one, and for a later one as long as a
worker is left that can run it, both as the tests do. `TaskService` is the
promise: started in order, each once, a wait returns after completion.

The run `pool` (two workers, two clients, three tasks) lets a task wait for a
task while both workers are taken, and looks for deadlocks as well: the only
state in which nothing happens is the one after Stop has returned. Fairness is
the scheduler's: every thread that can run does, and Run returns.

`PoolTests` (in `programs`) is `pool-test.cc`: its four groups of tests with
their tasks, barrier and counters, on `TaskService` with as many workers as a
test asks for. In every order the checks hold, no name is waited for that the
pool does not know, and each test ends. Tests have up to three workers and four
tasks, which covers fewer tasks than workers, more, and waits in both orders.

### Proofs (first half of `ThreadsProofs`)

For any number of workers, clients and tasks: types, `NoUseAfterDelete`, that no
lookup throws with the lock held (`LockReleasedHolds`), and the refinement of
`TaskService`. Only `PoolAssumption` is used: one worker at least, and names that
do not clash.

`NoUseAfterDelete` says where live tasks are and nothing of finished ones, so
it is not inductive. `IInv` says that each task is in one place at a time: once
in the queue (`Once`), or with one worker, or waited for by one caller
(`Claims`); that what nobody has waited for yet is still in the map (`Mapped`);
and that a task whose semaphore was posted, or which a caller has seen complete,
is neither queued nor running (`Ended`). The last is what lets `Cleanup` delete
it, and why the order of the two semaphores in WaitForTask matters. The rule on
which waits are allowed plays no part in it: it is needed for liveness only,
which stays with TLC.

## xv6's log

`XvLog` is `log.c`: calls of several processes between begin_op and end_op, the
commit of the last one block by block (`stage` and `tail` are where commit is),
and `Restart` at any moment, after which the same `Install` and `Erase` are
recover_from_log. What is done under log.lock is one step, with two exceptions
that are the code's: log_write looks at the room in the log before it takes the
lock, so `Modify` (with the look) and `LogWrite` are two steps; and commit runs
without the lock. The cache is what bread returns, `dirty` the blocks with
B_DIRTY: `Recycle` is bget, which may drop any other block that nobody holds. A
block's content is the number of the call that wrote it last. A panic stops the
kernel until it is restarted.

`AtomicDisk` is the promise: what calls have written becomes stable all at once,
when no call is in progress, or is lost. The refinement maps the stable blocks
to what a recovery would make of the disk (`Recovered`).

The run `xv_log` has two processes, three calls, blocks enough to fill the log
to where log_write panics, room for two fresh calls (so that some wait), and two
stops, the second of which may come in recovery. Fairness is the scheduler's and
the disk's, and that a call ends; `BeginReturns` is about calls that are finite
in number, as a process that sleeps may be overtaken by others for as long as
they keep coming. `xv_log_overrun` has three processes with one block each, and
a log of as many blocks with its header: mkfs makes it so.

### Proofs (`XvLogProofs`)

All safety properties of the run and the refinement of `AtomicDisk` are proved
for any processes, blocks and sizes, and any number of calls and stops, and with
them that a call finds the room that begin_op gave it (`ReservedHolds`) and that
a commit runs alone (`CommitsAloneHolds`). NLog is not related to LogSize: the
proof does not need a log that is long enough, it shows that a short one is the
only cause of a panic (`PanicsOnlyFullHolds`).

The properties are not inductive. `IInv` adds what they rest on:

* `Counted`: outstanding is the number of processes in a call. `BeginOp` needs
  it to know that what may still be written is at most
  (outstanding + 1) * MAXOPBLOCKS once it has let another in.
* `Stages`: where commit is determines outstanding, committing, the header on
  the disk (the log from "install" on, and empty before) and where `tail` may be.
* `Absorbed`: a block is in the log once. Without it, installing one place of
  the log could undo another.
* `Clean` and `Pinned`: a buffer that differs from the disk is dirty or locked,
  and a dirty one is in the log and not installed yet. So `Recycle` changes
  nothing that a call could see (`RecycleChangesNothing`).
* `Copied` and `Installed`: up to `tail` the log has what the cache has, and the
  disk what the log has.

From these, `Recovered` changes in `WriteHead` only (`RecoveredKept`), where it
becomes the cache (`HeadCommits`): the write of the header is the commit.
`BeginReturns` is liveness and model-checked only. `LogFits` does not hold.

## Parallel Game of Life

`ParallelLife` is `simulate_life_parallel`: the creation of the threads one
after the other, their loops over steps and rows, the barrier, and the caller's
loop, copy, joins. The last to arrive at the barrier releases everyone in the
same step. A row is one step of a thread: `NoRace` says that no row is written
while it is read, written or copied by somebody else, so that nothing finer can
be seen. The loop that computes the cutoffs is `Cutoffs`; an assumption that TLC
evaluates compares it with the bands that the actions use, for thirty heights and
twelve numbers of threads.

`GameOfLife` is the promise, one generation after the other. The run `life` has
six rows, so that one to four threads give bands of all kinds, the empty one
included, and three generations, so that both boards have been written over. The
rows at the edge matter to the bands, so boards are small in width instead:
sixteen boards with an interior of four by two.

### Proofs (second half of `ThreadsProofs`)

For a board of any size, any number of threads asked for and any number of
steps: the bands cover the rows and are disjoint (`BandsCover`,
`BandsDisjoint`), no two threads race (`NoRaceHolds`), and each passage of the
barrier shows the next generation (`ParallelIsLife`), if every first board has
dead edges; without that assumption it is false (see Findings).

The invariant says that threads which compute are all at the same step
(`Together`), each at a row of its own band (`InBand`), that the caller is in
step with them (`InOrder`), and that the rows a thread has passed have the next
generation already (`Written`). At the barrier all have passed all their rows,
and the bands partition the board, so the generation is complete. Termination,
and that `Cutoffs` (the loop) computes the bands, stay with TLC.

## xv6's processes and pipes

`XvProc` is `proc.c` as programs see it: slots and their states, fork, exit,
wait, kill, sleep and wakeup. `XvPipe` puts the programs around a pipe on top:
file descriptors, struct file, pipe ends, the loops of pipewrite and piperead.
What is done under ptable.lock or p->lock is a step; the look at `killed` and the
sleep after it are two, as the code has different locks for them. `ByteStream`
is the promise: what is read is what was written, in order, and a reader sees the
end only when all writers have gone.

The run `xv_processes` has init and two other slots, of which one process may be
killed once, and a pipe of two bytes whose counters wrap at four, so that six
bytes pass the wrap while the pipe is full, empty and between. Init runs its
loop: fork once, and wait for ever after. Fairness (`FairSpec`) is weak fairness of
what the kernel does for each process, and that init enters wait again; programs
owe nothing, they may keep a pipe open and never read it, so the run does not
look for deadlocks. `InitReaps` is the liveness: a process that has exited and
whose parent is init, or becomes so, leaves the table. Memory, faults and exec
are in XvMemory, scheduling in XvSched.

### Proofs (`XvPipeProofs`)

Everything the run checks but `InitReaps` is proved for any number of slots,
files, descriptors, kills and bytes, and for any ring whose size divides the
range of its counters, which `XvPipeAssumption` says (512 and 2^32 in the
code). The invariant `IInv` has three parts, and each step owes the same to each
of them:

* the table (`ProcInv`): who has a parent and who has none (`Family`), pids that
  are given once (`Pids`), and the slot in the making that belongs to one fork
  (`Forks`). The reuse of slots is why the last two are needed: a fork must not
  find that its slot has become somebody else's child.
* the files (`FilesPart`): only who can still run has descriptors, whoever is in a
  call on the pipe has a descriptor of that end, references are cardinalities
  of sets of descriptors, and the pipe has one file for each end. This is what makes
  `readopen` true for a reader that sleeps, and with it why a write that returns
  early because there are no readers leaves nobody asleep.
* the pipe (`PipePart`): what a process has seen under p->lock still holds when it
  sleeps (`Locked`), what a sleeper waits for has not happened (`Sleepers`), and
  the bytes are numbered in order, those delivered and those under way
  (`InOrder`).

The lemmas on remainders (`Wraps`, `Reduced`, `ReducedToo`, `Apart`) say what
`nwrite - nread` and `nread % PIPESIZE` do where a counter overflows:
`ReadAdvances` and `WriteAdvances` are the two facts the code relies on. From the
invariant follow the safety properties, and `PipeIsAByteStream` step by step:
only Pipe, Read, Write and the last close of an end change the stream.

## xv6's files

`XvFiles` is fs.c, file.c and sysfile.c for inodes: the cache of inodes with
references and locks, blocks, the bitmap, directories, the walk of a path with
one lock at a time, and every call on paths and open files. A call is as many
steps as it takes and releases locks. open is with O_RDWR or, for a directory too, with
O_RDONLY, so that a directory may be held by a descriptor as well as by a
process's cwd. Transactions commit as `AtomicDisk` states
it; a crash goes back to what is committed. The disk at the start is what
mkfs makes, with one directory more. Not in the model are descriptors that can be
written only, the flag of which no inode depends on.

The run `xv_files` has two processes (interchangeable, so symmetry is used; all
properties are invariants), three calls out of fourteen that remove and make
again what the others walk through, one crash, four inodes and eight blocks, with
one direct and two indirect blocks, so that a file of three blocks passes the
direct one and fills the file. A process has one open file; the sharing of struct
file by fork and dup is in XvPipe. The run does not look for deadlocks because
there is one: `xv_files_locked` is the same system where two processes create
and unlink one name, and shows two processes that wait for each other's inode
(see Findings).

### Proofs (`XvFilesProofs`)

Assumed are `XvFilesAssumption` (finitely many processes and names, at least two
inodes and one direct block, and a disk with room for the file mkfs is given) and
`XvCallsAssumption` (what a call's arguments are); both are evaluated by every run.

For any processes, programs, sizes and numbers of crashes:

* `RefsCountedHolds` and `BlocksOwnedOnceHolds` are the invariants of the run.
  `AnySoundDisk` says both for a boot from any sound disk, so that the disk of
  `TreeSpec`, and that of any earlier boot, is covered.
* `OpenFilesStayHolds` is the half of `OpenStaysAllocated` that is about open files,
  `NoFreeBlockFreedHolds` the part of `NoPanic` that is about bfree.

And for any programs whose paths have no `..` in them (`ParentlessPaths`, which the
programs of the runs satisfy):

* `LinksBackedHolds`, `OpenStaysAllocatedHolds` and `NoPanicHolds` are the run's
  other invariants about files, and `TypesHold` is `TypeOK`: that nlink does not fall below
  zero is a claim about links.
* `AnyTreeDisk` says the same for a boot from any sound disk whose directories are a
  tree with its links counted.

The invariant `IInv` has what they need of each other. `Sound` of a disk is that every
place of every inode has a block of its own, the bitmap is the set of those, no block is
missing below a size, and a free inode is empty. `CacheOf` ties the cache to the disk, and
`LocksOf` keeps locks away from free inodes. `Typed` says for each place in a
call which of its locals are inodes and which locks it holds, and `Points` counts its
pointers. `OpenKept` is the argument about iput: whoever frees an inode holds its lock
and has seen one reference, its own; so nobody has the file open or has just
allocated it, and nobody can open it before the lock is given back. It holds only together
with `RefsCounted`.

bmap and writei are proved about as functions of a disk (`BmapSound`, `WriteiSound`), by
induction on the blocks written, which takes the form of a least counterexample
(`SetInduction`), since the induction theorems of the library cannot be used. Then there is
one lemma for each action; those that free nothing go through `StepIs`. A boot and a crash
are one lemma, `FreshIs`.

The hypothesis is about the code: a removed directory that a process still has as
its directory keeps `..` to a parent that may itself be removed, freed and made into
something else, so a walk through `..` may end in an inode that is no directory or is
free (see Findings).

Links have an invariant `LInv` of their own, on top of `IInv`. `Uses` of an inode is
what its nlink stands for: the entries that name it, the directories in it, the root
itself, and the calls that owe it a link: link counts before it writes the name, and
gives the count back when it fails; unlink clears the name before it takes the count
off. `Backed` says that there are never more uses than nlink, `KidsKnow`, `DirsKnow` and
`RootThere` that a directory's `.` and `..` are what they were made. What a process points to
(`Firm`) is in use, because to get a pointer it found a name or copied a pointer, and an
inode with a use has a link (`NamedIsUsed`). What has no link, an inode that
create is making or iput is freeing, belongs to one process alone (`OwnsAlone`), by the
argument of `OpenKept` again. A step that changes the disk is one of a few changes
of a tree, with a lemma for each: a name more (`NamedTree`) or less, an inode made (`MadeTree`), freed
(`FreedTree`), or counted (`CountTree`). A crash goes back to `committed`, where nobody owes: the last call of
a transaction to end commits, and a call that ends owes nothing.
`LinksAreUses` maps the names that `LinksBacked` counts one to one into the uses.

Not proved is `LinksCounted`, the equality, which does not hold (see Findings), nor that
there is no deadlock, since there is one.

## xv6's memory, scheduler and clock

`XvMemory` has frames, the free list, page tables of two levels and the calls that
take and give frames: fork, exec with its arguments and its guard page, sbrk, exit
and wait. It runs out of memory anywhere. `AddressSpaces` is the promise: a fork
copies, an exec or an sbrk that fails changes nothing, and nobody sees another's
bytes. `KMAP` is the set of directory entries that setupkvm fills for the kernel;
it may have any size, as xv6's own has many. The instance has two of them, fourteen
frames and three processes, which is too few for three full processes, so that
every allocation fails in some behaviour: for the stack, the directory, the first
and the second table of the kernel, a table of the process, a page. There is no TLB
in it.

`XvSched` is the lowest level: each step of a processor is one access to memory
that another processor could see. It has acquire and release with their counts
of cli, sched with its checks, the lock that passes from one thread to the next,
sleep, wakeup, the clock interrupt at any instruction where interrupts are on, and
as programs fork and wait, and sys_sleep and exit. The clock stands for
all interrupts. `SchedulerRight` says that no processor waits for a lock that its own
thread holds, that a process is on one processor only, that
nobody sleeps for what has happened, and that somebody can go on. This is what
the other models rest on when they make a critical section one step. The
instance has two processors, two processes and a clock that wraps at two; it was
also checked with more calls (one process that yields, another that asks for the
time; fork, exit and wait in both), up to 770,000 states.

Both are parts of the run `xv_memory_and_threads` (`MCXvKernel`), whose number of
calls is bounded: it stops there, so deadlock is not looked for; that somebody
goes on is stated as an invariant.

### Proofs (`MachineProofs`)

For any number of frames, processes, pages and entries in a table, and any programs,
arguments and sizes for sbrk:

* `MemoryAlwaysSound`: no frame is lost, free while it is used or used twice, and
  nothing panics, wherever memory runs out.
* `MemoryImplemented`: the kernel implements `AddressSpaces`, step by step.
* `MemoryAlone` and `MemoryAloneImplements`: the same of `XvMemory` without the part
  that has the processors.

They rest on two assumptions in `XvMemory`, and on nothing that `Init` asks for besides.
`GeometryAssumption` gives sizes: a frame for each page table of the kernel and four more,
which the first process needs, and a kernel that has any of the entries of a
directory from `KERNBASE` on; the real geometry, 1024 entries with 64 of
the kernel's, is one of them. `ProgramsAssumption` gives the numbers that programs
choose: any unsigned numbers in the segments of an image and as addresses,
and what sbrk gets below 2^32 - KERNBASE, as every signed number is.

*Why the promise is not inductive.* That no frame has two uses now does not keep the next
step from freeing one that is still in some page table. Needed are the shape of
every directory, the finished and the half built ones, and what each
call under way has already taken. So `Accounted` says: nobody has panicked, and there
is a map `own` of the frames, under which `Sound` holds. `own` gives each frame to
the free list, to the kernel stack of a slot, to the page that a call has just
taken, to the directory a process runs in, or to the one that its call is
building, and each of those has exactly its frames (`OwnedBy`). Every
directory is a tree of tables and pages without sharing (`Space`). A process in user mode has the
pages of its size, from 0 on, or none (after sbrk of minus everything: deallocuvm returns
0, which growproc takes for a failure, and `sz` stays), and a call in its loop has the pages below the one it is at
(`InLoop`). A child under construction belongs to one fork (`ChildrenDiffer`). From that
follow the properties: each use of `FramesOwnedOnce` has one owner, and
each frame a use.

*Steps.* A call moves frames from one owner to another. `StepGoes` shows, once, that
such a move keeps the map exact and leaves every slot that it does not concern alone;
each action then has to say which frames it moves (`DeallocGives`, `FreeVmIs`,
`TableMade`) and what its own slot looks like afterwards. The failing paths
are those with the most to move: `GiveUp` gives back the frames of `new`.

*Refinement.* What a process sees is the function that its page table and its
frames make (`SpaceIs`). A step is invisible if it changes only frames that belong to
no running process (`Unseen`, `Stutters`). So each step inside a call is
a stutter, and those that end one are a step of `AddressSpaces`: sbrk
(`SbrkEndSeen`, `SbrkSeen`), fork (`ForkEndSeen`), exec (`ExecSeen`: what loaduvm and
copyout have written is `Start`) and exit. Shrinking has the one case where code
and size part, minus the whole size: the frames are gone and so are the addresses.

### Proofs (`XvSchedProofs`)

`SchedulerAlwaysRight` is the `SchedulerRight` of the run for any number of processors and processes, any
width of `ticks`, any number of interrupts and any calls of the programs. Its
hypothesis `Configured` says no more than that these are positive numbers and that the
programs make the calls there are; `MCXvKernel` has it evaluated for the instance.

Each thread is a stack of pieces of code, so the invariant has to say of every
suffix of every piece what it may rely on. It gives each frame a *mode*: how far the
frame is with each of the two locks ("out", "pushed", "locked", "held", "forgot",
"open", which are the steps of acquire and release), where its process is on its way out of
the processor, the slot its fork has allocated, what it is about to sleep for. `Leads`
says what an instruction does to a mode, and in which modes it is allowed; `Left` says
that the code a frame still has to run leads, so checked, to an end. This is the
typing of the code: each call is a path from an idle mode to an idle one
(`Joined` and the lemmas after it), and a step of a processor takes the first
instruction off and changes the mode as `Leads` says. What the modes mean is the rest of
the invariant:

* `Viewed`: `ncli` counts the locks that the running frame is in, and interrupts
  are on only where it is in none; so an interrupt never finds its own processor with a lock.
* `Locked`: a lock is taken if and only if one processor runs a frame that is
  inside; so a critical section is alone, and who spins waits for another.
* `Running` and `Off`: a process runs on one processor, which its state says until it
  holds ptable.lock to stop; off the processors it waits where a scheduler may resume it, with the
  lock passed on. A zombie will not run again, so that its parent may free its stack.
* `Kids`: the slot that fork is making belongs to one frame.
* `Awaited`: who sleeps, or has decided to, has not missed what it waits for, or the
  processor that will wake it is still in the handler.
* `Boots`: processors that were not started do nothing.

## The programs that run alone

The run `programs` (`MCPrograms`) chooses one program at the start; the variables of the
others keep small values. Most programs end, so the run does not look for deadlocks;
that a program ends as it should, or that somebody can go on where several
processes run, is part of its invariants. These modules have recursive
operators, as the programs do, except `Y86`, about which there is a theorem.

`StructuresSound` collects what is true of data structures between two
operations, `AnswersRight` what is printed or returned against a definition
that does not follow the steps of the code, `ShellRight` what the two shells
do, and `ImplementsContainers` the refinements: the lists are
`EditedSequences`, the trees and the hash table `OrderedSet`s, xv6's console a
queue of lines.

| Module | Program and instance |
|---|---|
| LinkedLists, EditedSequences | the menu of lab 2 and the list of lab 9: every sequence of a few commands, node by node |
| SearchTrees, HashTable, OrderedSet | inserts and removals of a few keys in every order; hash functions of every kind, a full table; a grid for the word puzzle |
| Huffman, GraphLabs, Calculators | short texts; graphs of a few nodes, five cities, boards of two by three; expressions of a few tokens, numbers in several bases |
| XvTools | string functions, grep, wc, cat, ls, the printers, umalloc, the fetching of arguments: inputs cut into pieces in every way |
| XvShell, CommandShell | every line of three tokens, and longer ones with several pipes, lists and redirections; failing calls |
| XvDisk | two processes, two buffers and three blocks, four calls, failing transfers; checked once with three processes (9.2 million states), and with five calls |
| XvConsole | a ring of three characters with counters modulo six, four events, a screen of two by three; eleven keys of which four are held |
| UserTests | 34 of the tests of usertests.c, and stressfs, on a kernel with five processes, fourteen inodes, a pipe of two bytes; loops of four where the code has hundreds |
| PoolTests | see Thread pool |
| Y86, Yas | words of one byte (eight in the code); files of lines with every kind of error, and programs with every instruction |
| Radio | trains of packets against a receiver that listens eight ticks of twenty, while a packet takes three; two presses, one lost packet. The receiver hears a whole packet only if it listens longer than two packets take, which is tight here |
| Sensors | a window of three readings, three rates, two presses, a clock that wraps at seven |
| JavaMonitors | two numbers and the end through each buffer; three customers with ten or eleven items, at either side of the limit |

The user tests call a kernel whose calls are single steps, except open's look before it
allocates and the bytes of a pipe: what is inside them is in the models above. They show
that the tests accept what any order of their processes gives, and that
tables and descriptors are as before when a test has ended.

In `Sensors` the broker keeps a queue for each client and loses what was published
before somebody subscribed. In `Radio` the air is a message with a start and an end.
In `JavaMonitors` a synchronized section is a step up to a wait, and a
notified thread has to take the lock again.

### Theorem (`MachineProofs`)

`ComparisonsRight`, about `Y86`: for words of any width, after `subq` each of the six
conditions holds just when it does for the two numbers, and after `addq` less and
greater are right for the sum, whatever overflows. It uses `HalfAssumption` only:
the modulus is even.

## Findings

Where the code and its documentation disagree, or where a property is stated
with a condition because the code does not keep it without.

Shown by a run of their own:

* `xv_log_overrun`: two log_write calls pass the check of the log's size and
  then both append (log.c:218), one block past its end.
* `xv_files_locked`: create and unlink of one name wait for each other's inode
  (sysfile.c:283 with fs.c:334).

Two-phase commit: an Abort that arrives late drops the vote of a worker in a
later transaction, and readers may then see two values. A CastVote that arrives late
makes a worker promise again; answering the Abort of another transaction, it may
log that it has agreed to commit without the value, so that a restart cannot rebuild it
and a logged COMMIT need not be durable. Readers still agree (`commit_recovery`). So the
safety properties are proved for a network that keeps no calls. A crash in the very first
set_last_entry leaves a log that cannot be opened (`StaysLoadable` starts after it). The log
write of Commit raises after the value in memory has changed (worker.py:86).

Life: a board with live cells at its edge is not computed as the serial program
does, which never copies the edge.

Thread pool: Stop does not wait for tasks, it expects that all were waited for. A
name submitted again while its task is live is queued twice and runs twice
(pool.cc:112). pool-test.cc reads `destroy_results` where nothing was written if
a task were not deleted.

xv6, processes and memory: a kill between the look at `killed` and the sleep
wakes nobody, and the process sleeps on (pipe.c:107, proc.c:487, console.c:246);
a killed writer returns without waking the readers (pipe.c:86). The slot of a fork
that failed keeps `killed` and its pid (proc.c:196) and becomes UNUSED without
the lock. sbrk of minus the whole size leaves a process without memory
(proc.c:170). argptr accepts the guard page.

xv6, files and disk: create succeeds in a directory that was removed after the
walk had reached it (sysfile.c:252), which `LinksCounted` of XvFiles does not survive;
`link("f", "d/.")` waits for a lock it holds, and walks through `..` lock in the
other order; after its parent is gone, `..` of a removed directory that is still
somebody's cwd leads to "ilock: no type"; two iputs that both see two references leave an inode
unfreed; a file that is open without a name stays allocated after a crash. A
read that fails leaves a buffer with stale data marked valid, and
a write that fails is lost. mkfs rounds the root's size up.

xv6, programs: grep drops lines longer than its buffer (grep.c:29). memmove of
ulib.c is wrong for ranges that overlap upwards. Of two shift keys that are down,
the release of one clears SHIFT; a killed reader of the console loses what it has taken. The last
loop of createdelete leaves files, fourfiles removes two of four. malloc's
rounding wraps (umalloc.c:69). In sh, `>>` does not append, and the first
redirection is innermost.

Command shell: a program that exits with two is printed with status "257"; a
single command whose execv fails
leaves the child as a second shell; in `a||b` the second command is
named `|...`; the last descriptors are closed twice.

Y86: `pos + 8` wraps, and the simulator ends with a signal where it should report
STAT_ADR; call, pushq and popq change %rsp even if their access fails; a bad
immediate is STAT_INS where a bad target is STAT_ADR. The assembler: a bad last line without
newline gives exit code 0 and an empty file if it is alone, and is otherwise
blamed on line 1; tokens of a bad line leak into the next one; text after the
last operand is accepted; of two equal labels the first counts; a label on the
line of a .pos or .align gets the address before it; an empty program is
"Exiting"; a negative .pos is taken modulo 4096; a line with thirteen tokens
(yas.c:450) and a file with more than a thousand labels write past an array.

Wireless: a new train can be ended by the late acknowledgement of the last one
(sender_main.c:172), and one more packet may be sent after that. The inspector
publishes the rate before it moves its counter (main.cpp:152); `avg_temp` is
static and computed once (main.cpp:166); the alert's limit is `>=` in the code
(main.cpp:167) and "greater" in its comment (main.cpp:17); presses that come close together are one; a control message sent
before the device has joined is lost; after a wrap of the clock the device
floods the inspector or falls silent (DUT main.cpp:106); a new interval counts
from the next reading but one.

Labs: the iterator of ListTest outlives its node (ListTest.cpp:105, 354), which the model
excludes; the list of lab 9 loops at the end of its input
(linkedlist.c:203); the decoder loops on a text of one letter
(huffmandec.cpp:117); find in a full table never ends (Hashtable.cpp:36); the
tree calculator pops an empty stack (TreeCalc.cpp:64); the number of bits comes
from a logarithm that rounds (bitCounter.cpp:72).

Java: MonitorBuffer looks at `full` with an if, so a wait that returns on its own
overwrites or repeats an item: its properties are stated up to the first such
wait. DeadlockBuffer says that it can deadlock on its lock, but its `remove` is not
synchronized and takes none: it races instead. TwoCritical starts threads of the
class ConcAccess, so its own critical sections never run.

## Not proved, not modelled

Model-checked only:

* Liveness (`NoWorkerBlocked`, `CommitReachesAll`, `EveryTaskCompletes`,
  `EveryCallReturns`, `BeginReturns`, `Terminates`, `InitReaps`):
  these are beyond the proof system.
* What recursive programs compute, which are the parts of `programs`: that
  needs induction over data.
* Links of xv6's files for paths with `..` in them, which the run does not have
  either: nothing is claimed of those, and `NoPanic` does fail there (see Findings).
* The models of xv6's disk and console, the shells and the tools, which are parts of
  `programs`, and the monitors, tests and wireless programs there.
* Agreement of the two-phase commit with a late CastVote.

Not modelled:

* Solidity contracts: what there is to state of them is which calls may take
  ether or tokens out of them, a question of security. Other
  blockchain work: parsers, signatures and scripts, no state that evolves.
* Notebooks, the algorithm assignments (data without interleaving), the rest of the Java
  exercises, exercises of a few lines on types, pointers and assembly.
* Processors in a hardware language whose simulator is not in the repository,
  and micro-benchmarks.
* Vendored libraries of the wireless boards, generated protocol code and scanners
  (the scanner is modelled from its grammar).
* xv6's traps, interrupt controllers and boot code: registers and hardware.
  Its remaining user programs call the kernel once and print.
* What is printed, formatted and timed, where no property is about it.
