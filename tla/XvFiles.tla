-------------------------------- MODULE XvFiles -------------------------------
(***************************************************************************)
(* The file system of xv6 above its log: the inodes, directories and path   *)
(* walks of xv6-OS/fs.c, the open files of file.c, the calls of sysfile.c    *)
(* and the image mkfs.c writes.                                             *)
(*                                                                         *)
(* A step is what a process does under one inode lock, where it makes at     *)
(* most one change that others can see, or one step of iput.  The log is     *)
(* that of XvLog, as AtomicDisk states it: what calls have written is        *)
(* committed when the last of them leaves its transaction, and a crash goes  *)
(* back to what was committed.                                              *)
(*                                                                         *)
(* Sizes and offsets are in blocks, a path is a sequence of names, and a     *)
(* directory has one block.                                                 *)
(***************************************************************************)
EXTENDS Naturals, Sequences, FiniteSets, TLC

CONSTANTS Proc, Nobody,
          NINODES, NBLOCKS, NDIRECT, NINDIRECT,
          MaxChunk,     \* the blocks filewrite puts into one transaction
          Names,        \* what directories hold, "." and ".." apart
          Programs,     \* the calls made: [op, abs, path, to, n]
          Image, ImageSize, \* the file mkfs is given, and its blocks
          MaxCalls, MaxCrashes \* bounds

ASSUME XvFilesAssumption ==
  /\ IsFiniteSet(Proc) /\ Nobody \notin Proc
  /\ NINODES \in Nat /\ NBLOCKS \in Nat /\ NDIRECT \in Nat /\ NINDIRECT \in Nat
  /\ MaxChunk \in Nat /\ ImageSize \in Nat
  /\ NINODES > 1 /\ NDIRECT > 0 /\ MaxChunk > 0
  /\ IsFiniteSet(Names) /\ Names \cap {".", ".."} = {} /\ Image \in Names
  \* The file mkfs is given is not too large for an inode, nor for the disk.
  /\ ImageSize <= NDIRECT + NINDIRECT
  /\ 1 + ImageSize + (IF ImageSize > NDIRECT THEN 1 ELSE 0) <= NBLOCKS

Inum == 1 .. NINODES
Block == 1 .. NBLOCKS
Root == 1
AllNames == Names \cup {".", ".."}

\* addrs: the direct blocks, the indirect block, and what the indirect block lists.
Addrs == 0 .. NDIRECT + NINDIRECT
MAXFILE == NDIRECT + NINDIRECT

NoAddrs == [k \in Addrs |-> 0]
Inode(type, nlink, size, addrs) ==
  [type |-> type, nlink |-> nlink, size |-> size, addrs |-> addrs]
FreeInode == Inode("free", 0, 0, NoAddrs)
EmptyDir == [x \in AllNames |-> 0]

VARIABLES
  disk,       \* inodes, contents of directories, bitmap; with what the log still holds
  committed,  \* the disk a crash goes back to
  ops,        \* the processes between begin_op and end_op
  icache,     \* ref, valid and the copy of the inode
  lock,       \* ip->lock: who holds it
  ofile,      \* the open file of each process: inode, offset, writable; or NoFile
  cwd,
  loc,        \* where each process is in its call, and its locals
  panic,      \* "no", "full" (out of inodes or blocks) or "assert"
  calls, crashes

vars == <<disk, committed, ops, icache, lock, ofile, cwd, loc, panic, calls, crashes>>

NoFile == [ip |-> 0, off |-> 0, writable |-> FALSE]
Unused == [ref |-> 0, valid |-> FALSE, din |-> FreeInode]
AtRest == [pc |-> "idle", call |-> <<>>, rest |-> <<>>, want |-> "end",
           cur |-> 0, ip |-> 0, puts |-> <<>>, put |-> "check", left |-> 0]

-----------------------------------------------------------------------------
\* Inodes

\* The fields that r has, from r, and the others as f has them.
Updated(f, r) == [x \in DOMAIN f |-> IF x \in DOMAIN r THEN r[x] ELSE f[x]]
Local(p, r) == loc' = [loc EXCEPT ![p] = Updated(@, r)]
At(p, pc) == loc[p].pc = pc /\ loc[p].puts = <<>> /\ panic = "no"
Putting(p, put) == loc[p].puts # <<>> /\ loc[p].put = put /\ panic = "no"

\* What ilock finds, and the cache after it.
Found(i) == IF icache[i].valid THEN icache[i].din ELSE disk.inode[i]
Ilock(c, i) == [c EXCEPT ![i].valid = TRUE, ![i].din = Found(i)]
CanLock(i) == lock[i] = Nobody /\ Found(i).type # "free"

Iget(c, i) == [c EXCEPT ![i].ref = @ + 1]

\* iupdate: the inode as it is in the cache and in its block.
Cached(c, i, din) == [c EXCEPT ![i].valid = TRUE, ![i].din = din]
Stored(d, i, din) == [d EXCEPT !.inode[i] = din]
Linked(din, k) == [din EXCEPT !.nlink = @ + k]
Unlinked(din) == [din EXCEPT !.nlink = @ - 1]

Least(S) == CHOOSE s \in S : \A t \in S : s <= t
Unowned(d) == Block \ d.used

\* bmap: the n-th block of an inode, and the indirect block it may need.
Slots(n) == IF n < NDIRECT THEN {n} ELSE {NDIRECT, n + 1}
Missing(din, n) == {k \in Slots(n) : din.addrs[k] = 0}
Bmap(d, i, n) ==
  LET din == d.inode[i]
      need == Missing(din, n)
      new == [k \in need |-> IF k = Least(need) THEN Least(Unowned(d))
                             ELSE Least(Unowned(d) \ {Least(Unowned(d))})]
  IN [d EXCEPT !.inode[i].addrs = Updated(@, new), !.used = @ \cup {new[k] : k \in need}]

Owned(din) == {din.addrs[k] : k \in Addrs} \ {0}

\* writei block by block: the blocks first, then the size.
Written(d, i, off) ==
  LET e == Bmap(d, i, off)
  IN [e EXCEPT !.inode[i].size = IF off + 1 > @ THEN off + 1 ELSE @]

Writei(d, i, off, n) ==
  LET w[k \in 0 .. n] == IF k = 0 THEN d ELSE Written(w[k - 1], i, off + k - 1)
  IN w[n]

\* Mutant of Truncated: the indirect block itself is kept.
TruncatedButIndirect(d, i) ==
  [d EXCEPT !.inode[i] = FreeInode, !.dir[i] = EmptyDir,
            !.used = @ \ (Owned(d.inode[i]) \ {d.inode[i].addrs[NDIRECT]})]

\* itrunc, and iput's release of the inode.
Truncated(d, i) == [d EXCEPT !.inode[i] = FreeInode, !.dir[i] = EmptyDir,
                             !.used = @ \ Owned(d.inode[i])]

\* Mutant of Last: the count of references is not looked at.
LastOrNot(i) == icache[i].valid /\ icache[i].din.nlink = 0

\* May iput free the inode?
Last(i) == icache[i].valid /\ icache[i].din.nlink = 0 /\ icache[i].ref = 1

PutCheck(p) ==
  /\ Putting(p, "check")
  /\ LET i == Head(loc[p].puts)
     IN /\ lock[i] = Nobody
        /\ Local(p, [put |-> IF Last(i) THEN "free" ELSE "drop"])
        /\ lock' = IF Last(i) THEN [lock EXCEPT ![i] = p] ELSE lock
  /\ UNCHANGED <<disk, committed, ops, icache, ofile, cwd, panic, calls, crashes>>

\* Mutant of PutFree: the entry stays valid.
PutFreeValid(p) ==
  /\ Putting(p, "free") /\ Local(p, [put |-> "drop"])
  /\ LET i == Head(loc[p].puts)
     IN /\ disk' = Truncated(disk, i)
        /\ icache' = [icache EXCEPT ![i].din = FreeInode]
        /\ lock' = [lock EXCEPT ![i] = Nobody]
  /\ UNCHANGED <<committed, ops, ofile, cwd, panic, calls, crashes>>

FreesFree(p) == /\ Putting(p, "free")
                /\ ~(Owned(disk.inode[Head(loc[p].puts)]) \subseteq disk.used)

PutFree(p) ==
  /\ Putting(p, "free") /\ ~FreesFree(p)
  /\ LET i == Head(loc[p].puts)
     IN /\ disk' = Truncated(disk, i)
        /\ icache' = [icache EXCEPT ![i].valid = FALSE, ![i].din = FreeInode]
        /\ lock' = [lock EXCEPT ![i] = Nobody]
  /\ Local(p, [put |-> "drop"])
  /\ UNCHANGED <<committed, ops, ofile, cwd, panic, calls, crashes>>

\* An entry without references is given to any inode, and iget clears valid then.
PutDrop(p) ==
  /\ Putting(p, "drop")
  /\ LET i == Head(loc[p].puts)
     IN icache' = IF icache[i].ref = 1 THEN [icache EXCEPT ![i] = Unused]
                                       ELSE [icache EXCEPT ![i].ref = @ - 1]
  /\ Local(p, [puts |-> Tail(loc[p].puts), put |-> "check"])
  /\ UNCHANGED <<disk, committed, ops, lock, ofile, cwd, panic, calls, crashes>>

-----------------------------------------------------------------------------
\* Paths.  The walk ends at the inode or, for these, at its parent.

OfParent == {"linknew", "unlink", "create"}

\* namex returns 0: sys_link has a count to take back.
GiveUp(p) == Local(p, [puts |-> <<loc[p].cur>>,
                       pc |-> IF loc[p].want = "linknew" THEN "undo" ELSE "end"])

Namex(p) ==
  /\ At(p, "namex")
  /\ LET i == loc[p].cur
         path == loc[p].rest
         parent == loc[p].want \in OfParent
         last == parent /\ Len(path) = 1
         next == disk.dir[i][Head(path)]
     IN IF path = <<>>
        THEN /\ UNCHANGED icache
             /\ IF parent THEN GiveUp(p) ELSE Local(p, [pc |-> loc[p].want])
        ELSE /\ CanLock(i)
             /\ IF Found(i).type # "dir" \/ (next = 0 /\ ~last)
                THEN GiveUp(p) /\ icache' = Ilock(icache, i)
                ELSE IF last THEN Local(p, [pc |-> loc[p].want]) /\ icache' = Ilock(icache, i)
                ELSE /\ Local(p, [cur |-> next, rest |-> Tail(path), puts |-> <<i>>])
                     /\ icache' = Iget(Ilock(icache, i), next)
  /\ UNCHANGED <<disk, committed, ops, lock, ofile, cwd, panic, calls, crashes>>

Name(p) == Head(loc[p].rest)

\* The step of p that needs the lock of i for itself and gives it back.
Under(p, pc, i) == At(p, pc) /\ CanLock(i)
Rest1 == <<committed, ops, ofile, cwd, panic, calls, crashes>>

-----------------------------------------------------------------------------
\* sys_link

Start(p, c) == IF c.abs THEN Root ELSE cwd[p]

LinkOld(p) ==
  LET i == loc[p].cur
      din == Linked(Found(i), 1)
      s == Start(p, loc[p].call)
  IN /\ Under(p, "linkold", i)
     /\ IF Found(i).type = "dir"
        THEN /\ Local(p, [puts |-> <<i>>, pc |-> "end"])
             /\ icache' = Ilock(icache, i) /\ UNCHANGED disk
        ELSE /\ disk' = Stored(disk, i, din)
             /\ icache' = Iget(Cached(icache, i, din), s)
             /\ Local(p, [ip |-> i, cur |-> s, rest |-> loc[p].call.to,
                          want |-> "linknew", pc |-> "namex"])
     /\ UNCHANGED <<Rest1, lock>>

\* dirlink: a name that is there already is put back while dp is still locked.
LinkNew(p) ==
  LET dp == loc[p].cur
      old == disk.dir[dp][Name(p)]
  IN /\ Under(p, "linknew", dp)
     /\ IF old = 0
        THEN /\ disk' = [disk EXCEPT !.dir[dp][Name(p)] = loc[p].ip]
             /\ icache' = Ilock(icache, dp) /\ UNCHANGED lock
             /\ Local(p, [puts |-> <<dp, loc[p].ip>>, pc |-> "end"])
        ELSE /\ icache' = Iget(Ilock(icache, dp), old)
             /\ lock' = [lock EXCEPT ![dp] = p]
             /\ Local(p, [puts |-> <<old>>, pc |-> "linkfail"])
             /\ UNCHANGED disk
     /\ UNCHANGED Rest1

\* Mutant of Bad: iunlock(dp), and no iput.
BadUnput(p, pc, then) == /\ At(p, pc)
                         /\ lock' = [lock EXCEPT ![loc[p].cur] = Nobody]
                         /\ Local(p, [pc |-> then])
                         /\ UNCHANGED <<Rest1, disk, icache>>

\* iunlockput(dp), on the way to bad in sys_link and in sys_unlink.
Bad(p, pc, then) == /\ At(p, pc)
                    /\ lock' = [lock EXCEPT ![loc[p].cur] = Nobody]
                    /\ Local(p, [puts |-> <<loc[p].cur>>, pc |-> then])
                    /\ UNCHANGED <<Rest1, disk, icache>>
LinkFail(p) == Bad(p, "linkfail", "undo")

LinkUndo(p) ==
  LET i == loc[p].ip
      din == Unlinked(Found(i))
  IN /\ Under(p, "undo", i)
     /\ disk' = Stored(disk, i, din) /\ icache' = Cached(icache, i, din)
     /\ Local(p, [puts |-> <<i>>, pc |-> "end"])
     /\ UNCHANGED <<Rest1, lock>>

-----------------------------------------------------------------------------
\* sys_unlink: dp stays locked until the entry is gone, ip until its count is.

Unlink(p) ==
  LET dp == loc[p].cur
      i == disk.dir[dp][Name(p)]
  IN /\ Under(p, "unlink", dp)
     /\ IF Name(p) \in {".", ".."} \/ i = 0
        THEN /\ Local(p, [puts |-> <<dp>>, pc |-> "end"])
             /\ icache' = Ilock(icache, dp) /\ UNCHANGED lock
        ELSE /\ Local(p, [ip |-> i, pc |-> "unlink2"])
             /\ icache' = Iget(Ilock(icache, dp), i)
             /\ lock' = [lock EXCEPT ![dp] = p]
     /\ UNCHANGED <<Rest1, disk>>

IsDirEmpty(i) == \A x \in Names : disk.dir[i][x] = 0

UnlinkEntry(p) ==
  LET dp == loc[p].cur
      i == loc[p].ip
      isDir == Found(i).type = "dir"
      din == IF isDir THEN Unlinked(Found(dp)) ELSE Found(dp)
      cut == [disk EXCEPT !.dir[dp][Name(p)] = 0]
  IN /\ Under(p, "unlink2", i) /\ Found(i).nlink >= 1
     /\ IF isDir /\ ~IsDirEmpty(i)
        THEN /\ Local(p, [puts |-> <<i>>, pc |-> "unlinkbad"])
             /\ icache' = Ilock(icache, i) /\ UNCHANGED <<disk, lock>>
        ELSE /\ disk' = Stored(cut, dp, din)
             /\ icache' = Cached(Ilock(icache, i), dp, din)
             /\ lock' = [lock EXCEPT ![dp] = Nobody, ![i] = p]
             /\ Local(p, [puts |-> <<dp>>, pc |-> "unlink3"])
     /\ UNCHANGED Rest1

UnlinkBad(p) == Bad(p, "unlinkbad", "end")

UnlinkCount(p) ==
  LET i == loc[p].ip
      din == Unlinked(Found(i))
  IN /\ At(p, "unlink3")
     /\ disk' = Stored(disk, i, din) /\ icache' = Cached(icache, i, din)
     /\ lock' = [lock EXCEPT ![i] = Nobody]
     /\ Local(p, [puts |-> <<i>>, pc |-> "end"])
     /\ UNCHANGED Rest1

-----------------------------------------------------------------------------
\* create, for sys_open, sys_mkdir and sys_mknod

TypeOf(op) == IF op = "mkdir" THEN "dir" ELSE IF op = "mknod" THEN "dev" ELSE "file"
FreeInodes == {i \in Inum : disk.inode[i].type = "free"}

\* The name is there, or ialloc takes the first free inode.
Create(p) ==
  LET dp == loc[p].cur
      old == disk.dir[dp][Name(p)]
      i == Least(FreeInodes)
  IN /\ Under(p, "create", dp)
     /\ IF old # 0
        THEN /\ Local(p, [puts |-> <<dp>>, ip |-> old, pc |-> "exists"])
             /\ icache' = Iget(Ilock(icache, dp), old) /\ UNCHANGED <<lock, disk>>
        ELSE /\ FreeInodes # {}
             /\ Local(p, [ip |-> i, pc |-> "create2"])
             /\ disk' = Stored(disk, i, [FreeInode EXCEPT !.type = TypeOf(loc[p].call.op)])
             /\ icache' = Iget(Ilock(icache, dp), i)
             /\ lock' = [lock EXCEPT ![dp] = p]
     /\ UNCHANGED Rest1

\* The new inode with its entry; ip stays locked.  With k, the links dp gets for ".."
Entered(p, k) ==
  LET dp == loc[p].cur
      i == loc[p].ip
      new == [Found(i) EXCEPT !.nlink = 1]
      isDir == new.type = "dir"
      din == IF isDir THEN Linked(Found(dp), k) ELSE Found(dp)
      named == [Stored(Stored(disk, dp, din), i, new) EXCEPT !.dir[dp][Name(p)] = i]
      dots == [EmptyDir EXCEPT !["."] = i, ![".."] = dp]
      done == IF isDir THEN [Bmap(named, i, 0) EXCEPT !.dir[i] = dots, !.inode[i].size = 1]
                       ELSE named
  IN /\ isDir => Unowned(disk) # {}
     /\ disk' = done
     /\ icache' = Cached(Cached(icache, i, done.inode[i]), dp, din)
     /\ lock' = [lock EXCEPT ![dp] = Nobody, ![i] = p]
     /\ Local(p, [puts |-> <<dp>>, pc |-> "made"])
     /\ UNCHANGED Rest1

\* Mutant of CreateEntry: no link for "..".
CreateEntryUncounted(p) == Under(p, "create2", loc[p].ip) /\ Entered(p, 0)

CreateEntry(p) == Under(p, "create2", loc[p].ip) /\ Entered(p, 1)

\* Only sys_open takes what was there, and only a file.
CreateExists(p) ==
  LET i == loc[p].ip
      taken == loc[p].call.op = "creat" /\ Found(i).type = "file"
  IN /\ Under(p, "exists", i)
     /\ icache' = Ilock(icache, i)
     /\ IF taken THEN lock' = [lock EXCEPT ![i] = p] /\ Local(p, [pc |-> "made"])
        ELSE Local(p, [puts |-> <<i>>, pc |-> "end"]) /\ UNCHANGED lock
     /\ UNCHANGED <<Rest1, disk>>

\* The rest of sys_mkdir, sys_mknod and sys_open, which hold ip locked.
Made(p) ==
  LET i == loc[p].ip
      opens == loc[p].call.op = "creat" /\ ofile[p] = NoFile
  IN /\ At(p, "made")
     /\ lock' = [lock EXCEPT ![i] = Nobody]
     /\ IF opens THEN /\ ofile' = [ofile EXCEPT ![p] = [ip |-> i, off |-> 0, writable |-> TRUE]]
                      /\ Local(p, [pc |-> "end"])
        ELSE Local(p, [puts |-> <<i>>, pc |-> "end"]) /\ UNCHANGED ofile
     /\ UNCHANGED <<disk, icache, committed, ops, cwd, panic, calls, crashes>>

\* sys_open without O_CREATE: a directory can be read only, and a descriptor must be free.
Open(p) ==
  LET i == loc[p].cur
      writes == loc[p].call.op = "open"
  IN /\ Under(p, "open", i)
     /\ icache' = Ilock(icache, i)
     /\ IF (Found(i).type = "dir" /\ writes) \/ ofile[p] # NoFile
        THEN Local(p, [puts |-> <<i>>, pc |-> "end"]) /\ UNCHANGED ofile
        ELSE /\ Local(p, [pc |-> "end"])
             /\ ofile' = [ofile EXCEPT ![p] = [ip |-> i, off |-> 0, writable |-> writes]]
     /\ UNCHANGED <<disk, lock, committed, ops, cwd, panic, calls, crashes>>

\* sys_chdir: the old directory is put, and cwd changes after end_op.
Chdir(p) ==
  LET i == loc[p].cur
      ok == Found(i).type = "dir"
  IN /\ Under(p, "chdir", i)
     /\ icache' = Ilock(icache, i)
     /\ Local(p, [puts |-> <<IF ok THEN cwd[p] ELSE i>>, pc |-> IF ok THEN "moved" ELSE "end"])
     /\ UNCHANGED <<Rest1, disk, lock>>

-----------------------------------------------------------------------------
\* fileread and filewrite.  What a device does is not modelled.

Readable(din, off) == din.type # "dev" /\ off < din.size

\* A read is not a transaction.
Read(p) ==
  LET f == ofile[p]
  IN /\ At(p, "idle") /\ f # NoFile /\ CanLock(f.ip)
     /\ Readable(Found(f.ip), f.off)
     /\ icache' = Ilock(icache, f.ip)
     /\ ofile' = [ofile EXCEPT ![p].off = @ + 1]
     /\ UNCHANGED <<disk, committed, ops, lock, cwd, loc, panic, calls, crashes>>

Chunk(p) == IF loc[p].left > MaxChunk THEN MaxChunk ELSE loc[p].left
Room(p, i, off, n) ==
  Cardinality(UNION {Missing(Found(i), off + k) : k \in 0 .. n - 1}) <= Cardinality(Unowned(disk))

\* One transaction of filewrite; past MAXFILE writei refuses, and the loop ends.
Write(p) ==
  LET i == ofile[p].ip
      off == ofile[p].off
      n == Chunk(p)
      fits == off + n <= MAXFILE
      d == Writei(disk, i, off, n)
  IN /\ Under(p, "write", i)
     /\ fits => Room(p, i, off, n)
     /\ IF fits
        THEN /\ disk' = d /\ icache' = Cached(icache, i, d.inode[i])
             /\ ofile' = [ofile EXCEPT ![p].off = @ + n]
             /\ Local(p, [left |-> loc[p].left - n, pc |-> "end"])
        ELSE /\ Local(p, [left |-> 0, pc |-> "end"])
             /\ icache' = Ilock(icache, i) /\ UNCHANGED <<disk, ofile>>
     /\ UNCHANGED <<committed, ops, lock, cwd, panic, calls, crashes>>

-----------------------------------------------------------------------------
\* mkfs: the root, then the file it was given with its blocks one after the other.

Mkfs ==
  LET f == 2
      root == [EmptyDir EXCEPT !["."] = Root, ![".."] = Root, ![Image] = f]
      bare == [inode |-> [i \in Inum |-> IF i = Root THEN Inode("dir", 1, 1, [NoAddrs EXCEPT ![0] = 1])
                                         ELSE IF i = f THEN Inode("file", 1, 0, NoAddrs)
                                         ELSE FreeInode],
               dir |-> [i \in Inum |-> IF i = Root THEN root ELSE EmptyDir],
               used |-> {1}]
  IN Writei(bare, f, 0, ImageSize)

\* What a boot finds beside the disk: every process has / as its cwd.
Booted == [icache |-> [i \in Inum |-> IF i = Root THEN [Unused EXCEPT !.ref = Cardinality(Proc)]
                                                  ELSE Unused],
           lock |-> [i \in Inum |-> Nobody],
           ofile |-> [p \in Proc |-> NoFile],
           cwd |-> [p \in Proc |-> Root],
           loc |-> [p \in Proc |-> AtRest]]

Boot(d) ==
        /\ disk = d /\ committed = d /\ ops = {}
        /\ icache = Booted.icache /\ lock = Booted.lock /\ ofile = Booted.ofile
        /\ cwd = Booted.cwd /\ loc = Booted.loc
        /\ panic = "no" /\ calls = 0 /\ crashes = 0

Init == Boot(Mkfs)

Crash == /\ crashes < MaxCrashes /\ crashes' = crashes + 1
         /\ disk' = committed /\ ops' = {}
         /\ icache' = Booted.icache /\ lock' = Booted.lock /\ ofile' = Booted.ofile
         /\ cwd' = Booted.cwd /\ loc' = Booted.loc
         /\ panic' = "no"
         /\ UNCHANGED <<committed, calls>>

-----------------------------------------------------------------------------
\* The calls.  begin_op waits while a commit is written: AtomicDisk has none in between.

\* "open" is with O_RDWR, "openread" with O_RDONLY.
Wants == [creat |-> "create", mkdir |-> "create", mknod |-> "create", unlink |-> "unlink",
          link |-> "linkold", open |-> "open", openread |-> "open", chdir |-> "chdir"]

ASSUME XvCallsAssumption ==
  \A c \in Programs : /\ c.op \in DOMAIN Wants \cup {"write", "close"} /\ c.abs \in BOOLEAN
                      /\ c.path \in Seq(AllNames) /\ c.to \in Seq(AllNames) /\ c.n \in Nat

Begin(p, c) ==
  /\ At(p, "idle") /\ calls < MaxCalls /\ calls' = calls + 1
  /\ ops' = ops \cup {p}
  /\ \/ /\ c.op \in DOMAIN Wants
        /\ icache' = Iget(icache, Start(p, c))
        /\ Local(p, [call |-> c, cur |-> Start(p, c), rest |-> c.path,
                     want |-> Wants[c.op], pc |-> "namex"])
        /\ UNCHANGED ofile
     \/ /\ c.op = "write" /\ ofile[p].writable /\ disk.inode[ofile[p].ip].type # "dev"
        /\ Local(p, [call |-> c, left |-> c.n, pc |-> "write"])
        /\ UNCHANGED <<icache, ofile>>
     \/ /\ c.op = "close" /\ ofile[p] # NoFile
        /\ Local(p, [call |-> c, puts |-> <<ofile[p].ip>>, pc |-> "end"])
        /\ ofile' = [ofile EXCEPT ![p] = NoFile]
        /\ UNCHANGED icache
  /\ UNCHANGED <<disk, committed, lock, cwd, panic, crashes>>

\* end_op, and what sys_chdir and filewrite do after it.
End(p) ==
  /\ At(p, "end") \/ At(p, "moved")
  /\ committed' = IF ops = {p} THEN disk ELSE committed
  /\ cwd' = IF loc[p].pc = "moved" THEN [cwd EXCEPT ![p] = loc[p].cur] ELSE cwd
  /\ IF loc[p].left > 0 THEN Local(p, [pc |-> "more"]) ELSE loc' = [loc EXCEPT ![p] = AtRest]
  /\ ops' = ops \ {p}
  /\ UNCHANGED <<disk, icache, lock, ofile, panic, calls, crashes>>

More(p) == /\ At(p, "more") /\ ops' = ops \cup {p} /\ Local(p, [pc |-> "write"])
           /\ UNCHANGED <<disk, committed, icache, lock, ofile, cwd, panic, calls, crashes>>

\* The inode whose lock p waits for, or 0.
Awaits(p) ==
  LET l == loc[p]
  IN IF l.puts # <<>> THEN IF l.put = "check" THEN Head(l.puts) ELSE 0
     ELSE IF l.pc \in {"linkold", "linknew", "unlink", "create", "open", "chdir"}
             \/ (l.pc = "namex" /\ l.rest # <<>>) THEN l.cur
     ELSE IF l.pc \in {"undo", "unlink2", "create2", "exists"} THEN l.ip
     ELSE IF l.pc = "write" THEN ofile[p].ip ELSE 0

NoInode(p) == At(p, "create") /\ disk.dir[loc[p].cur][Name(p)] = 0 /\ FreeInodes = {}
NoBlock(p) ==
  \/ At(p, "create2") /\ Found(loc[p].ip).type = "dir" /\ Unowned(disk) = {}
  \/ /\ At(p, "write") /\ ofile[p].off + Chunk(p) <= MAXFILE
     /\ ~Room(p, ofile[p].ip, ofile[p].off, Chunk(p))

\* The machine stops: ialloc and balloc when nothing is free, and the assertions: ilock
\* on an inode without a type, sys_unlink on one without links, bfree on a free block.
Panics(p) ==
  LET i == Awaits(p)
      typeless == i # 0 /\ loc[p].puts = <<>> /\ Found(i).type = "free"
      unlinked == loc[p].pc = "unlink2" /\ loc[p].puts = <<>> /\ Found(i).nlink < 1
  IN /\ panic = "no" /\ (i # 0 => lock[i] = Nobody)
     /\ panic' = IF typeless \/ unlinked \/ FreesFree(p) THEN "assert"
                 ELSE IF NoInode(p) \/ NoBlock(p) THEN "full" ELSE "no"
     /\ panic' # "no"
     /\ UNCHANGED <<disk, committed, ops, icache, lock, ofile, cwd, loc, calls, crashes>>

Step(p) ==
  \/ \E c \in Programs : Begin(p, c)
  \/ PutCheck(p) \/ PutFree(p) \/ PutDrop(p) \/ Namex(p)
  \/ LinkOld(p) \/ LinkNew(p) \/ LinkFail(p) \/ LinkUndo(p)
  \/ Unlink(p) \/ UnlinkEntry(p) \/ UnlinkBad(p) \/ UnlinkCount(p)
  \/ Create(p) \/ CreateEntry(p) \/ CreateExists(p) \/ Made(p) \/ Open(p) \/ Chdir(p)
  \/ Read(p) \/ Write(p) \/ More(p) \/ End(p) \/ Panics(p)

Next == Crash \/ \E p \in Proc : Step(p)

Spec == Init /\ [][Next]_vars

-----------------------------------------------------------------------------
TypeOK ==
  /\ \A d \in {disk, committed} :
       /\ \A i \in Inum : /\ d.inode[i].type \in {"free", "file", "dir", "dev"}
                          /\ d.inode[i].nlink \in Nat /\ d.inode[i].size \in 0 .. MAXFILE
                          /\ d.inode[i].addrs \in [Addrs -> Block \cup {0}]
       /\ d.dir \in [Inum -> [AllNames -> Inum \cup {0}]]
       /\ d.used \subseteq Block
  /\ ops \subseteq Proc
  /\ \A i \in Inum : icache[i].ref \in Nat /\ icache[i].valid \in BOOLEAN
  /\ lock \in [Inum -> Proc \cup {Nobody}]
  /\ cwd \in [Proc -> Inum]
  /\ panic \in {"no", "full", "assert"}

\* The pointers to inodes that p has in its locals, its open file and its cwd.
AtCur == {"namex", "linkold", "linknew", "linkfail", "unlink", "unlink2", "unlinkbad",
          "create", "create2", "open", "chdir", "moved"}
AtIp == {"linknew", "linkfail", "undo", "unlink2", "unlink3", "create2", "exists", "made"}
Pointers(p) ==
  LET l == loc[p]
      Held(b, i) == IF b THEN <<i>> ELSE <<>>
  IN l.puts \o Held(l.pc \in AtCur, l.cur)
            \o Held(l.pc \in AtIp \/ (l.pc = "namex" /\ l.want = "linknew"), l.ip)
            \o Held(ofile[p] # NoFile, ofile[p].ip) \o Held(l.pc # "moved", cwd[p])

\* ref is the number of pointers to the inode, on every path through the calls: the
\* failing ones of sys_link, sys_unlink and create put back what they took.
RefsCounted ==
  LET held == [p \in Proc |-> Pointers(p)]
  IN \A i \in Inum : icache[i].ref =
       Cardinality(UNION {{<<p, k>> : k \in {n \in DOMAIN held[p] : held[p][n] = i}} : p \in Proc})

\* The entries that name i: "." never counts, ".." does while its directory has a name.
HasName(d, i) == i = Root \/ \E j \in Inum, x \in Names : d.dir[j][x] = i
Links(d, i) == {q \in Inum \X (AllNames \ {"."}) :
                  d.dir[q[1]][q[2]] = i /\ (q[2] = ".." => HasName(d, q[1]))}

\* What a crash goes back to never has an entry for an inode that is free, or that
\* could be freed while the entry is there.
LinksBacked ==
  \A i \in Inum : /\ Cardinality(Links(committed, i)) <= committed.inode[i].nlink
                  /\ Links(committed, i) # {} => committed.inode[i].type # "free"

\* ... and in it a block is in use exactly when one inode has it, in one place, and every
\* block of a file below its size is there: fileread, outside a transaction, allocates none.
BlocksOwnedOnce ==
  LET in == committed.inode
      places == {q \in Inum \X Addrs : in[q[1]].addrs[q[2]] # 0}
  IN /\ committed.used = {in[q[1]].addrs[q[2]] : q \in places}
     /\ Cardinality(places) = Cardinality(committed.used)
     /\ \A i \in Inum : \A n \in 0 .. MAXFILE - 1 : n < in[i].size => Missing(in[i], n) = {}

\* Whoever has an inode open, or as its cwd, has it as it was: it is not freed, and not
\* made into another, before the last reference is put.  Nobody can write to a directory.
OpenStaysAllocated ==
  \A p \in Proc : /\ disk.inode[cwd[p]].type = "dir" \/ loc[p].pc = "moved"
                  /\ ofile[p] # NoFile => /\ disk.inode[ofile[p].ip].type \in {"file", "dev", "dir"}
                                          /\ ofile[p].writable => disk.inode[ofile[p].ip].type # "dir"
                                          /\ disk.inode[ofile[p].ip].type # "dir" =>
                                               ofile[p].off <= disk.inode[ofile[p].ip].size

\* The assertions of fs.c and sysfile.c hold.
NoPanic == panic # "assert"

\* The locks that a process holds.  fs.c:149 wants no deadlock in the walks: no process waits
\* for a lock it holds itself, and no two for each other's.
Holds(p) == {i \in Inum : lock[i] = p}
NoCircle == \A p, q \in Proc : ~(Awaits(p) \in Holds(q) /\ Awaits(q) \in Holds(p))

\* fs.c:99 "the number of links referring to it"
LinksCounted ==
  \A i \in Inum : committed.inode[i].type # "free" /\ ops = {} =>
                    Cardinality(Links(committed, i)) = committed.inode[i].nlink

-----------------------------------------------------------------------------
(* The calls and the symmetry of the runs *)

Call(op, path) == [op |-> op, abs |-> TRUE, path |-> path, to |-> <<>>, n |-> 0]
LinkOf(path, to) == [Call("link", path) EXCEPT !.to = to]
WriteOf(n) == [Call("write", <<>>) EXCEPT !.n = n]
Here(op, path) == [Call(op, path) EXCEPT !.abs = FALSE]

\* The disk after a first mkdir("/d").
DirInum == 3
WithDir ==
  LET b == Least(Unowned(Mkfs)) IN
  [Mkfs EXCEPT !.inode[DirInum] = Inode("dir", 1, 1, [NoAddrs EXCEPT ![0] = b]),
               !.inode[Root].nlink = 2, !.used = @ \cup {b},
               !.dir[Root]["d"] = DirInum,
               !.dir[DirInum] = [EmptyDir EXCEPT !["."] = DirInum, ![".."] = Root]]

TreeSpec == Boot(WithDir) /\ [][Next]_vars

\* d is removed and made again while it is entered and files are made, linked and removed
\* in it; a file is open, written past its direct block, and closed while it loses its names.
Tree == {Call("mkdir", <<"d">>), Call("unlink", <<"d">>), Call("mkdir", <<"d", "f">>),
         Call("creat", <<"d", "f">>), Call("unlink", <<"d", "f">>), Call("mknod", <<"d", "f">>),
         LinkOf(<<"f">>, <<"d", "f">>), Call("unlink", <<"f">>), Call("open", <<"f">>), Call("openread", <<"d">>),
         Call("chdir", <<"d">>), Here("creat", <<"f">>), WriteOf(3), Call("close", <<>>)}

\* One name made and removed.
SameName == {Call("creat", <<"d">>), Call("unlink", <<"d">>)}

ProcSymmetry == Permutations(Proc)
=============================================================================
