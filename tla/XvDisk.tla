------------------------------ MODULE XvDisk -------------------------------
(***************************************************************************)
(* From a process to the disk and back, in operating-systems/xv6-OS: the   *)
(* buffers and their order of use (bio.c), the lock of each buffer         *)
(* (sleeplock.c), the queue of requests and the interrupt that ends one    *)
(* (ide.c), and the memory that can stand for a disk (memide.c).           *)
(*                                                                         *)
(* What is done under a spin lock is one step.  `sleep` gives the lock up  *)
(* and sleeps at once.  The processes are the callers of bread, bwrite and *)
(* brelse; some mark a buffer dirty and leave it so, as log_write does.    *)
(* The disk may fail: ide.c says so to nobody.                             *)
(***************************************************************************)
EXTENDS Integers, Sequences, FiniteSets, SequencesExt

CONSTANTS
  Proc, Buf, Block, Datum,
  Blank,       \* the datum that every block and buffer begins with
  MaxCalls     \* of bread, bwrite and log_write, by all, and transfers that fail

VARIABLES
  buf,         \* buffer -> [block, valid, dirty, refcnt, lock, data]
  lru,         \* the buffers from head.next on, the most recently used first
  idequeue,
  device,      \* what the disk is at: [state, block, write, data, error]
  platter,     \* block -> datum
  client,      \* process -> [at, block, b, asked]
  calls,       \* made so far
  latest,      \* block -> the datum last put in it
  damaged      \* the blocks that a failed transfer has touched

None == "none"
NotAsked == [asked |-> FALSE]
Idle == [state |-> "idle"]
Panicked == [state |-> "panicked"]

\* sleep and wakeup: a process is awake or asleep at a place.
Wake(clients, at, b) ==
  [p \in Proc |-> IF clients[p].at = at \o " asleep" /\ clients[p].b = b
                  THEN [clients[p] EXCEPT !.at = at] ELSE clients[p]]

\* iderw of memide.c, on a buffer and its block
iderwInMemory(c, stored) ==
  [asked |-> TRUE,
   data |-> IF c.dirty THEN c.data ELSE stored,
   stored |-> IF c.dirty THEN c.data ELSE stored]

Running == device # Panicked

-----------------------------------------------------------------------------
(* bio.c and sleeplock.c *)

\* The buffer that has the block, or else the one that was used least recently of those
\* that are free: no process has it, and the log does not need it.  A buffer that changes
\* its block keeps the data until they are read.
bget(p, k) ==
  LET cached == SelectSeq(lru, LAMBDA b : buf[b].block = k)
      free == SelectSeq(Reverse(lru), LAMBDA b : buf[b].refcnt = 0 /\ ~buf[b].dirty)
      Gets(b) == client' = [client EXCEPT ![p] = [@ EXCEPT !.at = "lock", !.block = k, !.b = b]]
  IN /\ Running /\ client[p].at = "out" /\ calls < MaxCalls
     /\ calls' = calls + 1
     /\ \/ /\ cached # << >>
           /\ buf' = [buf EXCEPT ![Head(cached)].refcnt = @ + 1]
           /\ Gets(Head(cached)) /\ UNCHANGED device
        \/ /\ cached = << >> /\ free # << >>
           /\ buf' = [buf EXCEPT ![Head(free)] =
                        [@ EXCEPT !.block = k, !.valid = FALSE, !.dirty = FALSE, !.refcnt = 1]]
           /\ Gets(Head(free)) /\ UNCHANGED device
        \/ /\ cached = << >> /\ free = << >>
           /\ device' = Panicked
           /\ UNCHANGED <<buf, client>>
     /\ UNCHANGED <<lru, idequeue, platter, latest, damaged>>

\* Mutant of acquiresleep: the lock is looked at once, and not again after the sleep.
acquiresleepOnce(p) ==
  LET b == client[p].b IN
  /\ Running /\ client[p].at = "lock"
  /\ buf' = [buf EXCEPT ![b].lock = p]
  /\ client' = [client EXCEPT ![p].at = IF buf[b].valid THEN "using" ELSE "iderw"]
  /\ UNCHANGED <<lru, idequeue, device, platter, calls, latest, damaged>>

\* One turn of the loop, and then the look of bread at the buffer that is locked
acquiresleep(p) ==
  LET b == client[p].b IN
  /\ Running /\ client[p].at = "lock"
  /\ IF buf[b].lock # None
     THEN client' = [client EXCEPT ![p].at = "lock asleep"] /\ UNCHANGED buf
     ELSE /\ buf' = [buf EXCEPT ![b].lock = p]
          /\ client' = [client EXCEPT ![p].at = IF buf[b].valid THEN "using" ELSE "iderw"]
  /\ UNCHANGED <<lru, idequeue, device, platter, calls, latest, damaged>>

\* The caller changes the data, which go to the disk now, or stay dirty for the log.
Put(p, d, at) ==
  /\ Running /\ client[p].at = "using" /\ calls < MaxCalls
  /\ calls' = calls + 1
  /\ buf' = [buf EXCEPT ![client[p].b] = [@ EXCEPT !.data = d, !.dirty = TRUE]]
  /\ latest' = [latest EXCEPT ![client[p].block] = d]
  /\ client' = [client EXCEPT ![p] = [@ EXCEPT !.at = at, !.asked = NotAsked]]
  /\ UNCHANGED <<lru, idequeue, device, platter, damaged>>

bwrite(p, d) == Put(p, d, "iderw")
log_write(p, d) == Put(p, d, "using")

releasesleep(p) ==
  LET b == client[p].b IN
  /\ Running /\ client[p].at = "using"
  /\ buf' = [buf EXCEPT ![b].lock = None]
  /\ client' = Wake([client EXCEPT ![p] = [@ EXCEPT !.at = "brelse", !.asked = NotAsked]], "lock", b)
  /\ UNCHANGED <<lru, idequeue, device, platter, calls, latest, damaged>>

\* The second half of brelse
brelse(p) ==
  LET b == client[p].b IN
  /\ Running /\ client[p].at = "brelse"
  /\ buf' = [buf EXCEPT ![b].refcnt = @ - 1]
  /\ lru' = IF buf[b].refcnt = 1 THEN <<b>> \o SelectSeq(lru, LAMBDA c : c # b) ELSE lru
  /\ client' = [client EXCEPT ![p].at = "out"]
  /\ UNCHANGED <<idequeue, device, platter, calls, latest, damaged>>

-----------------------------------------------------------------------------
(* ide.c *)

\* The data of a write go to the disk with the command.
idestart(b, buffers) ==
  [state |-> "working", block |-> buffers[b].block, write |-> buffers[b].dirty,
   data |-> buffers[b].data, error |-> FALSE]

Done(c) == c.valid /\ ~c.dirty

iderw(p) ==
  LET b == client[p].b IN
  /\ Running /\ client[p].at = "iderw"
  /\ idequeue' = Append(idequeue, b)
  /\ device' = IF idequeue = << >> THEN idestart(b, buf) ELSE device
  /\ client' = [client EXCEPT ![p] =
                  [@ EXCEPT !.at = "request asleep", !.asked = iderwInMemory(buf[b], platter[buf[b].block])]]
  /\ UNCHANGED <<buf, lru, platter, calls, latest, damaged>>

\* The end of iderw, or its next sleep
Wakes(p) ==
  /\ Running /\ client[p].at = "request"
  /\ client' = [client EXCEPT ![p].at = IF Done(buf[client[p].b]) THEN "using" ELSE "request asleep"]
  /\ UNCHANGED <<buf, lru, idequeue, device, platter, calls, latest, damaged>>

\* The disk ends what it is at, for better or worse.
DiskEnds(fails) ==
  /\ device.state = "working"
  /\ fails => calls < MaxCalls
  /\ device' = [device EXCEPT !.state = "interrupt", !.error = fails]
  /\ platter' = IF device.write /\ ~fails THEN [platter EXCEPT ![device.block] = device.data] ELSE platter
  /\ calls' = IF fails THEN calls + 1 ELSE calls
  /\ damaged' = IF fails THEN damaged \cup {device.block} ELSE damaged
  /\ UNCHANGED <<buf, lru, idequeue, client, latest>>

\* Mutant of ideintr: the next request waits for the next call of iderw.
ideintrAlone ==
  LET b == Head(idequeue)
      read == ~buf[b].dirty /\ ~device.error
      buffers == [buf EXCEPT ![b] = [@ EXCEPT !.valid = TRUE, !.dirty = FALSE,
                                              !.data = IF read THEN platter[device.block] ELSE @]]
  IN /\ device.state = "interrupt"
     /\ idequeue' = Tail(idequeue)
     /\ buf' = buffers
     /\ client' = Wake(client, "request", b)
     /\ device' = Idle
     /\ UNCHANGED <<lru, platter, calls, latest, damaged>>

\* A read that failed leaves the data, and the buffer is valid all the same.
ideintr ==
  LET b == Head(idequeue)
      read == ~buf[b].dirty /\ ~device.error
      buffers == [buf EXCEPT ![b] = [@ EXCEPT !.valid = TRUE, !.dirty = FALSE,
                                              !.data = IF read THEN platter[device.block] ELSE @]]
  IN /\ device.state = "interrupt"
     /\ idequeue' = Tail(idequeue)
     /\ buf' = buffers
     /\ client' = Wake(client, "request", b)
     /\ device' = IF Tail(idequeue) # << >> THEN idestart(Head(Tail(idequeue)), buffers) ELSE Idle
     /\ UNCHANGED <<lru, platter, calls, latest, damaged>>

\* binit puts each buffer in front of those before it.
Init ==
  /\ buf = [b \in Buf |-> [block |-> None, valid |-> FALSE, dirty |-> FALSE, refcnt |-> 0,
                           lock |-> None, data |-> Blank]]
  /\ lru = Reverse(SetToSortSeq(Buf, <))
  /\ idequeue = << >> /\ device = Idle
  /\ platter = [k \in Block |-> Blank]
  /\ client = [p \in Proc |-> [at |-> "out", block |-> None, b |-> 0, asked |-> NotAsked]]
  /\ calls = 0
  /\ latest = platter /\ damaged = {}

Next ==
  \/ \E p \in Proc :
       \/ \E k \in Block : bget(p, k)
       \/ acquiresleep(p) \/ iderw(p) \/ Wakes(p) \/ releasesleep(p) \/ brelse(p)
       \/ \E d \in Datum : bwrite(p, d) \/ log_write(p, d)
  \/ \E fails \in BOOLEAN : DiskEnds(fails)
  \/ ideintr

-----------------------------------------------------------------------------
(* Properties *)

Users(b) == {p \in Proc : client[p].at # "out" /\ client[p].b = b}

\* No two buffers have one block, the count of each is that of its users, and the list has
\* each buffer once.  The disk is at the first request of the queue; a request is a buffer
\* that a process has locked and waits for.
BuffersSound ==
  /\ \A a, b \in Buf : a # b /\ buf[a].block = buf[b].block => buf[a].block = None
  /\ \A b \in Buf : buf[b].refcnt = Cardinality(Users(b))
  /\ IsInjective(lru) /\ Range(lru) = Buf
  /\ IsInjective(idequeue)
  /\ \A i \in DOMAIN idequeue :
       \E p \in Proc : /\ buf[idequeue[i]].lock = p /\ client[p].b = idequeue[i]
                       /\ client[p].at = "request asleep"
  /\ Running => (device = Idle <=> idequeue = << >>)
  /\ device.state \in {"working", "interrupt"} => device.block = buf[Head(idequeue)].block

\* Nobody sleeps for what has happened: the lock one sleeps for is held, by one who is not
\* asleep for a lock himself, and the request one sleeps for is in the queue.
NobodyForgotten ==
  \A p \in Proc :
    /\ client[p].at = "lock asleep" =>
         \E h \in Proc : buf[client[p].b].lock = h /\ client[h].at \in {"using", "iderw", "request", "request asleep"}
    /\ client[p].at = "request asleep" => client[p].b \in Range(idequeue)

\* A buffer that a process uses is its own, and holds the datum that was put last in its
\* block, through the cache or from the disk.  What the queue and the interrupts did for it
\* is what a disk in memory does at once.  Blocks that a transfer failed for are excepted.
DiskRight ==
  \A p \in Proc : client[p].at = "using" =>
    LET c == buf[client[p].b] IN
    /\ c.lock = p /\ c.valid /\ c.block = client[p].block
    /\ c.block \notin damaged =>
         /\ c.data = latest[c.block]
         /\ client[p].asked # NotAsked =>
              c.data = client[p].asked.data /\ platter[c.block] = client[p].asked.stored
=============================================================================
