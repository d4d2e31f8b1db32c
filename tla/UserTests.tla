------------------------------ MODULE UserTests -----------------------------
(***************************************************************************)
(* The tests that operating-systems/xv6-OS brings along, usertests.c, as    *)
(* programs on the kernel's calls, with their processes in any order.       *)
(*                                                                         *)
(* A call is one step, but for the look that open takes at a path before it *)
(* locks what it has found, and for a write that does not fit in a pipe:    *)
(* the steps within the calls are those of XvFiles, XvPipe and XvMemory.    *)
(* A test is a sequence of calls, each with the results that the test       *)
(* accepts; it complains of any other and exits.  Loops are written out,    *)
(* and their numbers are small.                                             *)
(***************************************************************************)
EXTENDS Integers, Sequences, FiniteSets, SequencesExt, TLC

CONSTANTS
  NPROC, NINODES, NFILE, NOFILE,
  NINODE,      \* inodes that are in memory
  MAXFILE, PIPESIZE,
  Frames, PGSIZE, Base, BIG,  \* pages of memory; sizes of the program before and after sbrk
  N            \* of the loops of the tests

VARIABLES
  test,
  tables,      \* [inode, file, pipe]
  proc,        \* [state, parent, killed, script, env, ofile, cwd, at, sz, mem]
  complaint    \* a test has printed that something failed

tvars == <<test, tables, proc, complaint>>

Proc == 1 .. NPROC
Inum == 1 .. NINODES
Fid == 1 .. NFILE
Fd == 0 .. NOFILE - 1
Root == 1
Least(S) == CHOOSE x \in S : \A y \in S : x <= y

FreeInode == [type |-> "free", nlink |-> 0, ref |-> 0, data |-> << >>]
FreeFile == [kind |-> "none", ref |-> 0, ip |-> 0, off |-> 0, readable |-> FALSE, writable |-> FALSE]
NoFds == [d \in Fd |-> 0]
NoMem == [a \in 0 .. BIG - 1 |-> 0]
Unused == [state |-> "unused", parent |-> 0, killed |-> FALSE, script |-> << >>, env |-> << >>,
           ofile |-> NoFds, cwd |-> 0, at |-> 0, sz |-> 0, mem |-> NoMem]

-----------------------------------------------------------------------------
(* Inodes and directories: fs.c.  A path is a sequence of names, after "/" when it begins at
   the root. *)

Entry(name, i) == [name |-> name, inum |-> i]
\* DIRSIZ characters are kept.
Kept(name) == IF name = "123456789012345" THEN "12345678901234" ELSE name

dirlookup(in, d, name) ==
  LET found == SelectInSeq(in[d].data, LAMBDA e : e.inum # 0 /\ e.name = Kept(name))
  IN IF found = 0 THEN 0 ELSE in[d].data[found].inum

\* The first entry that is free, or a new one
dirlink(in, d, name, i) ==
  LET free == SelectInSeq(in[d].data, LAMBDA e : e.inum = 0)
      e == Entry(Kept(name), i)
  IN [in EXCEPT ![d].data = IF free = 0 THEN Append(@, e) ELSE [@ EXCEPT ![free] = e]]

RECURSIVE namex(_, _, _)
namex(in, ip, path) ==
  CASE path = << >> -> ip
    [] in[ip].type # "dir" -> 0
    [] OTHER -> LET next == dirlookup(in, ip, Head(path)) IN IF next = 0 THEN 0 ELSE namex(in, next, Tail(path))

Absolute(path) == path # << >> /\ Head(path) = "/"
namei(in, cwd, path) == IF Absolute(path) THEN namex(in, Root, Tail(path)) ELSE namex(in, cwd, path)
nameiparent(in, cwd, path) ==
  IF path \in {<< >>, <<"/">>} THEN 0
  ELSE LET d == namei(in, cwd, Front(path)) IN IF d # 0 /\ in[d].type = "dir" THEN d ELSE 0

iget(in, i) == [in EXCEPT ![i].ref = @ + 1]

\* Mutant of iput: the last link frees the inode, whoever has it open.
iputUnlinked(in, i) ==
  IF in[i].nlink = 0 THEN [in EXCEPT ![i] = FreeInode] ELSE [in EXCEPT ![i].ref = @ - 1]

iput(in, i) ==
  IF in[i].nlink = 0 /\ in[i].ref = 1 THEN [in EXCEPT ![i] = FreeInode] ELSE [in EXCEPT ![i].ref = @ - 1]

\* create, which gives the inode with a reference, or 0: in the directory d, or without one
CreateIn(in, d, name, type) ==
  LET old == IF d = 0 THEN 0 ELSE dirlookup(in, d, name)
      new == Least({i \in Inum : in[i].type = "free"})
      dots == IF type = "dir" THEN <<Entry(".", new), Entry("..", d)>> ELSE << >>
      made == [in EXCEPT ![new] = [type |-> type, nlink |-> 1, ref |-> 1, data |-> dots],
                         ![d].nlink = IF type = "dir" THEN @ + 1 ELSE @]
  IN CASE d = 0 -> [in |-> in, ip |-> 0]
       [] old # 0 -> IF type = "file" /\ in[old].type = "file" THEN [in |-> iget(in, old), ip |-> old]
                     ELSE [in |-> in, ip |-> 0]
       [] OTHER -> [in |-> dirlink(made, d, name, new), ip |-> new]
create(in, cwd, path, type) == CreateIn(in, nameiparent(in, cwd, path), Last(path), type)

-----------------------------------------------------------------------------
(* Files and pipes: file.c *)

fileclose(t, f) ==
  LET file == t.file[f]
      left == [t EXCEPT !.file[f] = IF file.ref = 1 THEN FreeFile ELSE [@ EXCEPT !.ref = @ - 1]]
      open == \E g \in Fid : g # f /\ t.file[g].kind = "pipe" /\ t.file[g].ip = file.ip
  IN CASE file.ref > 1 -> left
       [] file.kind = "inode" -> [left EXCEPT !.inode = iput(@, file.ip)]
       [] OTHER -> IF open THEN left ELSE [left EXCEPT !.pipe[file.ip] = << >>]

\* The other end of a pipe is open.
HasEnd(t, pipe, writable) ==
  \E f \in Fid : t.file[f].kind = "pipe" /\ t.file[f].ip = pipe /\ t.file[f].writable = writable

\* Two files for a pipe, one for an inode: filealloc takes the first that are free.
filealloc(t, k) == Least({f \in Fid : t.file[f].ref = 0 /\ Cardinality({g \in 1 .. f - 1 : t.file[g].ref = 0}) = k})
fdalloc(ofile, k) == Least({d \in Fd : ofile[d] = 0 /\ Cardinality({c \in 0 .. d - 1 : ofile[c] = 0}) = k})

Overwritten(s, off, data) ==
  [i \in 1 .. (IF off + Len(data) > Len(s) THEN off + Len(data) ELSE Len(s)) |->
     IF i > off /\ i <= off + Len(data) THEN data[i - off] ELSE s[i]]

-----------------------------------------------------------------------------
(* Memory *)

Pages(sz) == (sz + PGSIZE - 1) \div PGSIZE
RECURSIVE Used(_)
Used(ps) == IF ps = {} THEN 0 ELSE LET p == CHOOSE x \in ps : TRUE IN Pages(proc[p].sz) + Used(ps \ {p})
Room(pages) == Used(Proc) + pages <= Frames

-----------------------------------------------------------------------------
(* Steps of scripts, with the results that a test accepts *)

Ok == 0 .. 99
Fail == {-1}
Ignored == -1 .. 99

Opening(call, fd, path, mode, want) ==
  <<[call |-> call, fd |-> fd, path |-> path, mode |-> mode, want |-> want]>>
Opened(path, mode, want) == Opening("open", "fd", path, mode, want)
Created(path, mode, want) == Opening("create", "fd", path, mode, want)
Closes(fd) == <<[call |-> "close", fd |-> fd, want |-> Ignored]>>
Close0 == Closes("fd")
OnPath(call, path, want) == <<[call |-> call, path |-> path, want |-> want]>>
Mkdirs(path, want) == OnPath("mkdir", path, want)
Chdirs(path, want) == OnPath("chdir", path, want)
Unlinks(path, want) == OnPath("unlink", path, want)
Links(path, to, want) == <<[call |-> "link", path |-> path, to |-> to, want |-> want]>>
Reads(fd, n, sees, want) == <<[call |-> "read", fd |-> fd, n |-> n, sees |-> sees, want |-> want]>>
ReadsAll(fd, n, grow, whole) ==
  <<[call |-> "read all", fd |-> fd, n |-> n, grow |-> grow, got |-> << >>, whole |-> whole, want |-> {0}]>>
Writes(fd, data, want) == <<[call |-> "write", fd |-> fd, data |-> data, done |-> 0, want |-> want]>>
Lists(names) == <<[call |-> "list", fd |-> "fd", names |-> names, want |-> {0}]>>
Forks(pid, child, want) == <<[call |-> "fork", pid |-> pid, child |-> child, want |-> want]>>
WaitsFor(pid, want) == <<[call |-> "wait", pid |-> pid, want |-> want]>>
Waits(want) == WaitsFor("none", want)
Kills(pid) == <<[call |-> "kill", pid |-> pid, want |-> Ignored]>>
Sbrks(n, want) == <<[call |-> "sbrk", n |-> n, want |-> want]>>
Stores(a, v) == <<[call |-> "touch", a |-> a, store |-> TRUE, v |-> v, want |-> Ignored]>>
Loads(a, want) == <<[call |-> "touch", a |-> a, store |-> FALSE, want |-> want]>>
Execs(path, big, want) == <<[call |-> "exec", path |-> path, big |-> big, want |-> want]>>
Plain(call) == <<[call |-> call, want |-> {0}]>>
\* Nothing follows "forever", nor what a test prints where it should never come.
Times(n, body(_)) == FlattenSeq([i \in 1 .. n |-> body(i - 1)])
Name(c, i) == <<c \o ToString(i)>>
Copies(n, x) == [i \in 1 .. n |-> x]

-----------------------------------------------------------------------------
(* Calls.  A process that is killed ends before its next call. *)

Step(p) == Head(proc[p].script)
Calls(p, call) ==
  proc[p].state = "running" /\ ~proc[p].killed /\ proc[p].script # << >> /\ Step(p).call = call

\* The process, after a call that returns r
After(q, r) == [q EXCEPT !.script = IF r \in Head(@).want THEN Tail(@) ELSE << >>]
Returns(p, q, r) ==
  /\ proc' = [proc EXCEPT ![p] = After(q, r)]
  /\ complaint' = (complaint \/ r \notin Step(p).want)
  /\ UNCHANGED test
Fails(p) == Returns(p, proc[p], -1) /\ UNCHANGED tables
Said(p, name) == proc[p].env[name]
Says(q, name, v) == [q EXCEPT !.env = [@ EXCEPT ![name] = v]]
OpenFails(p) == Returns(p, Says([proc[p] EXCEPT !.at = 0], Step(p).fd, -1), -1)

\* A file for the inode ip, which the tables t hold once for it
Opens(p, t, ip, q) ==
  LET mode == Step(p).mode
      f == filealloc(t, 0)
      d == fdalloc(q.ofile, 0)
  IN /\ tables' = [t EXCEPT !.file[f] = [kind |-> "inode", ref |-> 1, ip |-> ip, off |-> 0,
                                         readable |-> mode # "wronly", writable |-> mode \in {"wronly", "rdwr"}]]
     /\ Returns(p, Says([q EXCEPT !.ofile[d] = f], Step(p).fd, d), d)

OpenCreates(p) ==
  /\ Calls(p, "create")
  /\ \E c \in {create(tables.inode, proc[p].cwd, Step(p).path, "file")} :
     IF c.ip = 0 THEN OpenFails(p) /\ UNCHANGED tables ELSE Opens(p, [tables EXCEPT !.inode = c.in], c.ip, proc[p])

OpenLooks(p) ==
  LET ip == namei(tables.inode, proc[p].cwd, Step(p).path) IN
  /\ Calls(p, "open") /\ proc[p].at = 0
  /\ IF ip = 0 THEN OpenFails(p) /\ UNCHANGED tables
     ELSE /\ tables' = [tables EXCEPT !.inode = iget(@, ip)]
          /\ proc' = [proc EXCEPT ![p].at = ip]
          /\ UNCHANGED <<test, complaint>>

OpenEnds(p) ==
  LET ip == proc[p].at IN
     /\ Calls(p, "open") /\ ip # 0
     /\ IF tables.inode[ip].type = "dir" /\ Step(p).mode # "rdonly"
        THEN tables' = [tables EXCEPT !.inode = iput(@, ip)] /\ OpenFails(p)
        ELSE Opens(p, tables, ip, [proc[p] EXCEPT !.at = 0])

\* A descriptor that is not open is not closed.
Close(p) ==
  LET d == Said(p, Step(p).fd)
      f == IF d \in Fd THEN proc[p].ofile[d] ELSE 0
  IN /\ Calls(p, "close")
     /\ IF f = 0 THEN Fails(p)
        ELSE tables' = fileclose(tables, f) /\ Returns(p, [proc[p] EXCEPT !.ofile[d] = 0], 0)

Mkdir(p) ==
  /\ Calls(p, "mkdir")
  /\ \E c \in {create(tables.inode, proc[p].cwd, Step(p).path, "dir")} :
     IF c.ip = 0 THEN Fails(p)
     ELSE tables' = [tables EXCEPT !.inode = iput(c.in, c.ip)] /\ Returns(p, proc[p], 0)

\* The new directory may be looked up from the old one, and is held before that is put.
Chdir(p) ==
  LET ip == namei(tables.inode, proc[p].cwd, Step(p).path) IN
  /\ Calls(p, "chdir")
  /\ IF ip = 0 \/ tables.inode[IF ip = 0 THEN Root ELSE ip].type # "dir" THEN Fails(p)
     ELSE /\ tables' = [tables EXCEPT !.inode = iput(iget(@, ip), proc[p].cwd)]
          /\ Returns(p, [proc[p] EXCEPT !.cwd = ip], 0)

Link(p) ==
  LET in == tables.inode
      ip == namei(in, proc[p].cwd, Step(p).path)
      d == nameiparent(in, proc[p].cwd, Step(p).to)
  IN /\ Calls(p, "link")
     /\ IF ip = 0 \/ d = 0 THEN Fails(p)
        ELSE IF in[ip].type = "dir" \/ dirlookup(in, d, Last(Step(p).to)) # 0 THEN Fails(p)
        ELSE /\ tables' = [tables EXCEPT !.inode = dirlink([in EXCEPT ![ip].nlink = @ + 1], d, Last(Step(p).to), ip)]
             /\ Returns(p, proc[p], 0)

\* The inode is held by its directory's entry alone when it is found.
Unlink(p) ==
  LET in == tables.inode
      d == nameiparent(in, proc[p].cwd, Step(p).path)
      ip == IF d = 0 THEN 0 ELSE dirlookup(in, d, Last(Step(p).path))
      empty == \A j \in 3 .. Len(in[ip].data) : in[ip].data[j].inum = 0
      place == SelectInSeq(in[d].data, LAMBDA e : e.inum = ip /\ e.name = Kept(Last(Step(p).path)))
      cleared == [in EXCEPT ![d].data[place] = Entry("none", 0)]
  IN /\ Calls(p, "unlink")
     /\ IF d = 0 \/ ip = 0 \/ Last(Step(p).path) \in {".", ".."} THEN Fails(p)
        ELSE IF in[ip].type = "dir" /\ ~empty THEN Fails(p)
        ELSE /\ tables' = [tables EXCEPT !.inode =
                  iput(iget([[cleared EXCEPT ![d].nlink = IF in[ip].type = "dir" THEN @ - 1 ELSE @]
                               EXCEPT ![ip].nlink = @ - 1], ip), ip)]
             /\ Returns(p, proc[p], 0)

\* What a read takes from an inode: all that is there, up to n; entries of a directory too
Contents(p, n) ==
  LET file == tables.file[proc[p].ofile[Said(p, Step(p).fd)]]
      data == IF file.kind = "pipe" THEN tables.pipe[file.ip] ELSE tables.inode[file.ip].data
      from == IF file.kind = "pipe" THEN 0 ELSE file.off
  IN SubSeq(data, from + 1, IF from + n < Len(data) THEN from + n ELSE Len(data))

\* The tables, when p has read the first n bytes there are
Taken(p, n) ==
  LET f == proc[p].ofile[Said(p, Step(p).fd)] IN
  IF tables.file[f].kind = "pipe"
  THEN [tables EXCEPT !.pipe[tables.file[f].ip] = SubSeq(@, n + 1, Len(@))]
  ELSE [tables EXCEPT !.file[f].off = @ + n]

\* There is something to read in a pipe, or nobody to write it.
CanRead(p) ==
  LET file == tables.file[proc[p].ofile[Said(p, Step(p).fd)]] IN
  file.kind = "pipe" => tables.pipe[file.ip] # << >> \/ ~HasEnd(tables, file.ip, TRUE)

\* A read that the test wants to begin with what it sees
Read(p) ==
  LET got == Contents(p, Step(p).n)
      sees == Step(p).sees
  IN /\ Calls(p, "read") /\ CanRead(p)
     /\ IF Step(p).n < 0 THEN Fails(p)
        ELSE /\ tables' = Taken(p, Len(got))
             /\ Returns(p, proc[p], IF \E j \in DOMAIN got \cap DOMAIN sees : got[j] # sees[j] THEN -2 ELSE Len(got))

\* Reads until there is no more, in pieces that may grow; -2 stands for what is not wanted.
ReadAll(p) ==
  LET got == Contents(p, Step(p).n)
      s == [Step(p) EXCEPT !.n = @ * Step(p).grow, !.got = @ \o got]
  IN /\ Calls(p, "read all") /\ CanRead(p)
     /\ tables' = Taken(p, Len(got))
     /\ IF got # << >>
        THEN proc' = [proc EXCEPT ![p].script = <<s>> \o Tail(@)] /\ UNCHANGED <<test, complaint>>
        ELSE Returns(p, proc[p], IF Step(p).got \in Step(p).whole THEN 0 ELSE -2)

\* The names of the directory that is open, those the test looks for, each of them once
List(p) ==
  LET found == SelectSeq(Contents(p, 99), LAMBDA e : e.inum # 0 /\ e.name \notin {".", "..", "README", "cat", "echo", "init"})
  IN /\ Calls(p, "list")
     /\ Returns(p, proc[p], IF IsInjective([j \in DOMAIN found |-> found[j].name])
                               /\ {found[j].name : j \in DOMAIN found} = Step(p).names THEN 0 ELSE -2)
     /\ UNCHANGED tables

\* A pipe takes what it has room for, and a write sleeps with the rest.
Write(p) ==
  LET f == proc[p].ofile[Said(p, Step(p).fd)]
      file == tables.file[f]
      s == Step(p)
      room == PIPESIZE - Len(tables.pipe[IF file.kind = "pipe" THEN file.ip ELSE 1])
      n == IF Len(s.data) < room THEN Len(s.data) ELSE room
  IN /\ Calls(p, "write")
     /\ IF ~file.writable THEN Fails(p)
        ELSE IF file.kind = "inode"
        THEN IF file.off + Len(s.data) > MAXFILE THEN Fails(p)
             ELSE /\ tables' = [tables EXCEPT !.inode[file.ip].data = Overwritten(@, file.off, s.data),
                                              !.file[f].off = @ + Len(s.data)]
                  /\ Returns(p, proc[p], s.done + Len(s.data))
        ELSE IF ~HasEnd(tables, file.ip, FALSE) THEN Fails(p)
        ELSE /\ n > 0
             /\ tables' = [tables EXCEPT !.pipe[file.ip] = @ \o SubSeq(s.data, 1, n)]
             /\ IF n = Len(s.data) THEN Returns(p, proc[p], s.done + n)
                ELSE /\ proc' = [proc EXCEPT ![p].script[1] = [s EXCEPT !.data = SubSeq(@, n + 1, Len(@)), !.done = @ + n]]
                     /\ UNCHANGED <<test, complaint>>

Pipe(p) ==
  LET rf == filealloc(tables, 0)
      wf == filealloc(tables, 1)
      rd == fdalloc(proc[p].ofile, 0)
      wd == fdalloc(proc[p].ofile, 1)
      End(w) == [kind |-> "pipe", ref |-> 1, ip |-> 1, off |-> 0, readable |-> ~w, writable |-> w]
  IN /\ Calls(p, "pipe")
     /\ tables' = [tables EXCEPT !.file[rf] = End(FALSE), !.file[wf] = End(TRUE)]
     /\ Returns(p, Says(Says([proc[p] EXCEPT !.ofile[rd] = rf, !.ofile[wd] = wf], "r", rd), "w", wd), 0)

\* The child has the same files and directory, and a copy of memory.
Forked(p, q, script, t) ==
  /\ tables' = [t EXCEPT !.inode = iget(@, proc[p].cwd),
                         !.file = [f \in Fid |-> [t.file[f] EXCEPT !.ref = @ + Cardinality({d \in Fd : proc[p].ofile[d] = f})]]]
  /\ proc' = [proc EXCEPT ![q] = [proc[p] EXCEPT !.parent = p, !.script = script],
                          ![p] = After(Says(proc[p], Step(p).pid, q), q)]
  /\ UNCHANGED <<test, complaint>>

CanFork(p) == (\E q \in Proc : proc[q].state = "unused") /\ Room(Pages(proc[p].sz))
NewPid == Least({q \in Proc : proc[q].state = "unused"})

Fork(p) ==
  /\ Calls(p, "fork")
  /\ IF CanFork(p) THEN Forked(p, NewPid, Step(p).child, tables)
     ELSE Returns(p, Says(proc[p], Step(p).pid, -1), -1) /\ UNCHANGED tables

\* The loop of forktest: another child as long as there is room for it, and then as many waits
ForkMore(p) ==
  LET q == NewPid
      s == Step(p)
  IN /\ Calls(p, "fork all") /\ CanFork(p)
     /\ tables' = [tables EXCEPT !.inode = iget(@, proc[p].cwd)]
     /\ proc' = [proc EXCEPT ![q] = [proc[p] EXCEPT !.parent = p, !.script = << >>],
                             ![p].script = <<s>> \o Waits(Ok) \o Tail(@)]
     /\ UNCHANGED <<test, complaint>>
ForkNoMore(p) == Calls(p, "fork all") /\ ~CanFork(p) /\ Fails(p)

\* init waits for the processes that have no parent, but the test itself stays.
Dead(p) ==
  IF proc[p].parent = 0 /\ p # 1 THEN Unused
  ELSE [proc[p] EXCEPT !.state = "zombie", !.script = << >>, !.ofile = NoFds, !.cwd = 0, !.at = 0]

\* Mutant of Exit: the current directory is not put.
ExitKeeps(p) ==
  LET open == SelectSeq([i \in 1 .. NOFILE |-> proc[p].ofile[i - 1]], LAMBDA f : f # 0)
      held == IF proc[p].at = 0 THEN << >> ELSE <<proc[p].at>>
  IN /\ proc[p].state = "running" /\ (proc[p].script = << >> \/ proc[p].killed)
     /\ tables' = [FoldLeft(fileclose, tables, open) EXCEPT !.inode = FoldLeft(iput, @, held)]
     /\ proc' = [q \in Proc |->
                   IF q = p THEN Dead(p)
                   ELSE IF proc[q].parent = p
                   THEN IF proc[q].state = "zombie" THEN Unused ELSE [proc[q] EXCEPT !.parent = 0]
                   ELSE proc[q]]
     /\ UNCHANGED <<test, complaint>>

\* The end of a script, of a process that is killed, or of one that touches what is not its
\* own.  A process that has been killed while it looks at a path ends the call first.
Exit(p) ==
  LET open == SelectSeq([i \in 1 .. NOFILE |-> proc[p].ofile[i - 1]], LAMBDA f : f # 0)
      held == IF proc[p].at = 0 THEN <<proc[p].cwd>> ELSE <<proc[p].at, proc[p].cwd>>
  IN /\ proc[p].state = "running" /\ (proc[p].script = << >> \/ proc[p].killed)
     /\ tables' = [FoldLeft(fileclose, tables, open) EXCEPT !.inode = FoldLeft(iput, @, held)]
     /\ proc' = [q \in Proc |->
                   IF q = p THEN Dead(p)
                   ELSE IF proc[q].parent = p
                   THEN IF proc[q].state = "zombie" THEN Unused ELSE [proc[q] EXCEPT !.parent = 0]
                   ELSE proc[q]]
     /\ UNCHANGED <<test, complaint>>

Wait(p) ==
  /\ Calls(p, "wait")
  /\ \/ /\ \A q \in Proc : proc[q].parent # p \/ proc[q].state = "unused"
        /\ Fails(p)
     \/ \E q \in Proc :
          /\ proc[q].state = "zombie" /\ proc[q].parent = p
          /\ LET r == IF Step(p).pid # "none" /\ Said(p, Step(p).pid) # q THEN -2 ELSE q IN
             /\ proc' = [proc EXCEPT ![q] = Unused, ![p] = After(@, r)]
             /\ complaint' = (complaint \/ r \notin Step(p).want)
          /\ UNCHANGED <<test, tables>>

Kill(p) ==
  LET q == Said(p, Step(p).pid) IN
  /\ Calls(p, "kill")
  /\ proc' = [proc EXCEPT ![p] = After(@, 0), ![q].killed = TRUE]
  /\ UNCHANGED <<test, tables, complaint>>

\* What was given up is not there any more: pages are new, and of zeros.
Sbrk(p) ==
  LET sz == proc[p].sz + Step(p).n
      kept == Pages(sz) * PGSIZE
  IN /\ Calls(p, "sbrk")
     /\ IF sz > BIG \/ ~Room(Pages(sz) - Pages(proc[p].sz)) THEN Fails(p)
        ELSE /\ Returns(p, [proc[p] EXCEPT !.sz = sz, !.mem = [a \in DOMAIN @ |-> IF a < kept THEN @[a] ELSE 0]], proc[p].sz)
             /\ UNCHANGED tables

\* Memory beyond the process's pages, a port, or the kernel's memory: the process is killed.
Touch(p) ==
  LET a == Step(p).a IN
  /\ Calls(p, "touch")
  /\ IF a >= Pages(proc[p].sz) * PGSIZE
     THEN proc' = [proc EXCEPT ![p].killed = TRUE] /\ UNCHANGED <<test, complaint>>
     ELSE IF Step(p).store THEN Returns(p, [proc[p] EXCEPT !.mem[a] = Step(p).v], Step(p).v)
     ELSE Returns(p, proc[p], proc[p].mem[a])
  /\ UNCHANGED tables

\* A program that is too large for its stack, or is not there, is not run.
Exec(p) ==
  /\ Calls(p, "exec")
  /\ IF namei(tables.inode, proc[p].cwd, Step(p).path) = 0 \/ Step(p).big THEN Fails(p)
     ELSE proc' = [proc EXCEPT ![p].script = << >>] /\ UNCHANGED <<test, tables, complaint>>

Sleep(p) == Calls(p, "sleep") /\ Returns(p, proc[p], 0) /\ UNCHANGED tables
\* The next steps are for a child that there is not.
Skip(p) ==
  /\ Calls(p, "if child")
  /\ proc' = [proc EXCEPT ![p].script = SubSeq(@, IF Said(p, Step(p).pid) = -1 THEN Step(p).n + 2 ELSE 2, Len(@))]
  /\ UNCHANGED <<test, tables, complaint>>
\* What a test leaves to chance
Either(p) ==
  /\ Calls(p, "either")
  /\ \E s \in Step(p).of : proc' = [proc EXCEPT ![p].script = s \o Tail(@)]
  /\ UNCHANGED <<test, tables, complaint>>

-----------------------------------------------------------------------------
(* The tests *)

iputtest ==
  Mkdirs(<<"iputdir">>, Ok) \o Chdirs(<<"iputdir">>, Ok) \o Unlinks(<<"..", "iputdir">>, Ok) \o Chdirs(<<"/">>, Ok)

exitiputtest ==
  LET child == Mkdirs(<<"iputdir">>, Ok) \o Chdirs(<<"iputdir">>, Ok) \o Unlinks(<<"..", "iputdir">>, Ok)
  IN Forks("pid", child, Ok) \o Waits(Ignored)

openiputtest ==
  Mkdirs(<<"oidir">>, Ok) \o Forks("pid", Opened(<<"oidir">>, "rdwr", Fail), Ok)
  \o Plain("sleep") \o Unlinks(<<"oidir">>, {0}) \o Waits(Ignored)

opentest == Opened(<<"echo">>, "rdonly", Ok) \o Close0 \o Opened(<<"doesnotexist">>, "rdonly", Fail)

writetest ==
  Created(<<"small">>, "rdwr", Ok)
  \o Times(N \div 2, LAMBDA i : Writes("fd", <<"a">>, {1}) \o Writes("fd", <<"b">>, {1})) \o Close0
  \o Opened(<<"small">>, "rdonly", Ok) \o Reads("fd", 2 * (N \div 2), << >>, {2 * (N \div 2)}) \o Close0
  \o Unlinks(<<"small">>, Ok)

writetest1 ==
  Created(<<"big">>, "rdwr", Ok) \o Times(MAXFILE, LAMBDA i : Writes("fd", <<i>>, {1})) \o Close0
  \o Opened(<<"big">>, "rdonly", Ok) \o ReadsAll("fd", 1, 1, {[i \in 1 .. MAXFILE |-> i - 1]}) \o Close0
  \o Unlinks(<<"big">>, Ok)

createtest ==
  Times(N, LAMBDA i : Created(Name("a", i), "rdwr", Ignored) \o Close0) \o Times(N, LAMBDA i : Unlinks(Name("a", i), Ignored))

dirtest ==
  Mkdirs(<<"dir0">>, Ok) \o Chdirs(<<"dir0">>, Ok) \o Chdirs(<<"..">>, Ok) \o Unlinks(<<"dir0">>, Ok)

exectest == Execs(<<"echo">>, FALSE, Ok) \o Plain("complain")

pipe1 ==
  LET piece(n) == [i \in 1 .. 3 |-> 3 * n + i - 1]
      child == Closes("r") \o Times(3, LAMBDA n : Writes("w", piece(n), {3}))
  IN Plain("pipe") \o Forks("pid", child, Ok)
     \o Closes("w") \o ReadsAll("r", 1, 2, {[i \in 1 .. 9 |-> i - 1]}) \o Closes("r") \o Waits(Ignored)

preempt ==
  LET child == Closes("r") \o Writes("w", <<"x">>, {1}) \o Closes("w") \o Plain("forever")
  IN Forks("pid1", Plain("forever"), Ok) \o Forks("pid2", Plain("forever"), Ok)
     \o Plain("pipe") \o Forks("pid3", child, Ok)
     \o Closes("w") \o Reads("r", 5, << >>, {1}) \o Closes("r")
     \o Kills("pid1") \o Kills("pid2") \o Kills("pid3") \o Waits(Ok) \o Waits(Ok) \o Waits(Ok)

exitwait == Times(N, LAMBDA i : Forks("pid", << >>, Ok) \o WaitsFor("pid", Ok))

sharedfd ==
  LET k == N \div 2
      writes(c) == Times(k, LAMBDA i : Writes("fd", <<c>>, {1}))
      mixed == {s \in [1 .. 2 * k -> {"c", "p"}] : Cardinality({i \in DOMAIN s : s[i] = "c"}) = k}
  IN Unlinks(<<"sharedfd">>, Ignored) \o Created(<<"sharedfd">>, "rdwr", Ok)
     \o Forks("pid", writes("c"), Ok) \o writes("p") \o Waits(Ignored) \o Close0
     \o Opened(<<"sharedfd">>, "rdonly", Ok) \o ReadsAll("fd", 1, 1, mixed) \o Close0
     \o Unlinks(<<"sharedfd">>, Ignored)

fourfiles ==
  LET child(pi) == Created(Name("f", pi), "rdwr", Ok) \o Times(2, LAMBDA i : Writes("fd", <<pi, pi>>, {2}))
  IN Times(3, LAMBDA pi : Unlinks(Name("f", pi), Ignored) \o Forks("pid", child(pi), Ok))
     \o Times(3, LAMBDA pi : Waits(Ignored))
     \o Times(2, LAMBDA i : Opened(Name("f", i), "rdonly", Ignored) \o ReadsAll("fd", 3, 1, {Copies(4, i)})
                            \o Close0 \o Unlinks(Name("f", i), Ignored))

\* A program of its own: each process forks the next, and then writes and reads a file.
RECURSIVE stressfrom(_)
stressfrom(i) ==
  LET path == Name("stressfs", i) IN
  (IF i < 1 THEN Forks("pid", stressfrom(i + 1), Ignored) ELSE << >>)
    \o Created(path, "rdwr", Ok) \o Writes("fd", <<"a">>, {1}) \o Writes("fd", <<"a">>, {1}) \o Close0
    \o Opened(path, "rdonly", Ok) \o ReadsAll("fd", 1, 1, {<<"a", "a">>}) \o Close0
    \o Waits(IF i < 1 THEN Ok ELSE Fail)
stressfs == stressfrom(0)

\* Of the names at the end only one has the letter of a child and a number.
createdelete ==
  LET letter == <<"p", "q", "r", "s">>
      child(pi) == Times(N, LAMBDA i : Created(Name(letter[pi + 1], i), "rdwr", Ok) \o Close0
                     \o (IF i > 0 /\ i % 2 = 0 THEN Unlinks(Name(letter[pi + 1], i \div 2), Ok) ELSE << >>))
      there(i) == i = 0 \/ i >= N \div 2
  IN Times(2, LAMBDA pi : Forks("pid", child(pi), Ok)) \o Times(2, LAMBDA pi : Waits(Ignored))
     \o Times(N, LAMBDA i : Times(2, LAMBDA pi :
          Opened(Name(letter[pi + 1], i), "rdonly", IF there(i) THEN Ok ELSE Fail)
          \o (IF there(i) THEN Close0 ELSE << >>)))
     \o Times(N, LAMBDA i : Unlinks(Name(letter[i + 1], i), Ignored))

unlinkread ==
  LET hello == <<"h", "i">> IN
  Created(<<"unlinkread">>, "rdwr", Ok) \o Writes("fd", hello, Ignored) \o Close0
  \o Opened(<<"unlinkread">>, "rdwr", Ok) \o Unlinks(<<"unlinkread">>, {0})
  \o Opening("create", "fd1", <<"unlinkread">>, "rdwr", Ignored) \o Writes("fd1", <<"y", "y", "y">>, Ignored) \o Closes("fd1")
  \o Reads("fd", 8, <<"h">>, {2}) \o Writes("fd", hello \o hello, {4}) \o Close0
  \o Unlinks(<<"unlinkread">>, Ignored)

linktest ==
  Unlinks(<<"lf1">>, Ignored) \o Unlinks(<<"lf2">>, Ignored)
  \o Created(<<"lf1">>, "rdwr", Ok) \o Writes("fd", Copies(5, "h"), {5}) \o Close0
  \o Links(<<"lf1">>, <<"lf2">>, Ok) \o Unlinks(<<"lf1">>, Ignored) \o Opened(<<"lf1">>, "rdonly", Fail)
  \o Opened(<<"lf2">>, "rdonly", Ok) \o Reads("fd", 8, << >>, {5}) \o Close0
  \o Links(<<"lf2">>, <<"lf2">>, Fail) \o Unlinks(<<"lf2">>, Ignored)
  \o Links(<<"lf2">>, <<"lf1">>, Fail) \o Links(<<".">>, <<"lf1">>, Fail)

concreate ==
  LET M == 7
      makes(file) == Created(file, "rdwr", Ok) \o Close0
      links(file) == Links(<<"C0">>, file, Ignored)
      opens(file) == Times(2, LAMBDA k : Opened(file, "rdonly", Ignored) \o Close0)
      unlinks(file) == Times(2, LAMBDA k : Unlinks(file, Ignored))
      make(i) == LET file == Name("C", i) IN
        Unlinks(file, Ignored) \o Forks("pid", IF i % 5 = 1 THEN links(file) ELSE makes(file), Ok)
        \o (IF i % 3 = 1 THEN links(file) ELSE makes(file)) \o Waits(Ignored)
      remove(i) == LET file == Name("C", i) IN
        Forks("pid", IF i % 3 = 0 THEN opens(file) ELSE unlinks(file), Ok)
        \o (IF i % 3 = 1 THEN opens(file) ELSE unlinks(file)) \o Waits(Ignored)
  IN Times(M, make) \o Opened(<<".">>, "rdonly", Ignored) \o Lists({Name("C", i)[1] : i \in 0 .. M - 1}) \o Close0
     \o Times(M, remove)

\* Which call comes next is drawn.
linkunlink ==
  LET calls == {Created(<<"x">>, "rdwr", Ignored) \o Close0, Links(<<"cat">>, <<"x">>, Ignored), Unlinks(<<"x">>, Ignored)}
      loop == Times(3, LAMBDA i : <<[call |-> "either", of |-> calls, want |-> Ignored]>>)
  IN Unlinks(<<"x">>, Ignored) \o Forks("pid", loop, Ok) \o loop \o Waits(Ignored)

bigdir ==
  Unlinks(<<"bd">>, Ignored) \o Created(<<"bd">>, "rdonly", Ok) \o Close0
  \o Times(2 * N, LAMBDA i : Links(<<"bd">>, Name("x", i), {0})) \o Unlinks(<<"bd">>, Ignored)
  \o Times(2 * N, LAMBDA i : Unlinks(Name("x", i), {0}))

subdir ==
  LET writes(path, c) == Created(path, "rdwr", Ok) \o Writes("fd", <<c, c>>, Ignored) \o Close0
      up == <<"..">>
  IN Unlinks(<<"ff">>, Ignored) \o Mkdirs(<<"dd">>, {0}) \o writes(<<"dd", "ff">>, "f")
     \o Unlinks(<<"dd">>, Fail) \o Mkdirs(<<"/", "dd", "dd">>, {0}) \o writes(<<"dd", "dd", "ff">>, "F")
     \o Opened(<<"dd", "dd", "..", "ff">>, "rdonly", Ok) \o Reads("fd", 8, <<"f">>, {2}) \o Close0
     \o Links(<<"dd", "dd", "ff">>, <<"dd", "dd", "ffff">>, {0})
     \o Unlinks(<<"dd", "dd", "ff">>, {0}) \o Opened(<<"dd", "dd", "ff">>, "rdonly", Fail)
     \o Chdirs(<<"dd">>, {0}) \o Chdirs(<<"dd">> \o up \o up \o <<"dd">>, {0})
     \o Chdirs(<<"dd">> \o up \o up \o up \o <<"dd">>, {0}) \o Chdirs(<<".", "..">>, {0})
     \o Opened(<<"dd", "dd", "ffff">>, "rdonly", Ok) \o Reads("fd", 8, << >>, {2}) \o Close0
     \o Opened(<<"dd", "dd", "ff">>, "rdonly", Fail)
     \o Created(<<"dd", "ff", "ff">>, "rdwr", Fail) \o Created(<<"dd", "xx", "ff">>, "rdwr", Fail)
     \o Created(<<"dd">>, "rdonly", Fail) \o Opened(<<"dd">>, "rdwr", Fail) \o Opened(<<"dd">>, "wronly", Fail)
     \o Links(<<"dd", "ff", "ff">>, <<"dd", "dd", "xx">>, Fail)
     \o Links(<<"dd", "xx", "ff">>, <<"dd", "dd", "xx">>, Fail)
     \o Links(<<"dd", "ff">>, <<"dd", "dd", "ffff">>, Fail)
     \o Mkdirs(<<"dd", "ff", "ff">>, Fail) \o Mkdirs(<<"dd", "xx", "ff">>, Fail) \o Mkdirs(<<"dd", "dd", "ffff">>, Fail)
     \o Unlinks(<<"dd", "xx", "ff">>, Fail) \o Unlinks(<<"dd", "ff", "ff">>, Fail)
     \o Chdirs(<<"dd", "ff">>, Fail) \o Chdirs(<<"dd", "xx">>, Fail)
     \o Unlinks(<<"dd", "dd", "ffff">>, {0}) \o Unlinks(<<"dd", "ff">>, {0}) \o Unlinks(<<"dd">>, Fail)
     \o Unlinks(<<"dd", "dd">>, Ok) \o Unlinks(<<"dd">>, Ok)

bigwrite ==
  LET size(i) == 3 * i + 1
      writes(sz) == Writes("fd", Copies(sz, "x"), {sz})
  IN Unlinks(<<"bigwrite">>, Ignored)
     \o Times(2, LAMBDA i : Created(<<"bigwrite">>, "rdwr", Ok) \o writes(size(i)) \o writes(size(i))
                            \o Close0 \o Unlinks(<<"bigwrite">>, Ignored))

bigfile ==
  Unlinks(<<"bigfile">>, Ignored) \o Created(<<"bigfile">>, "rdwr", Ok)
  \o Times(N, LAMBDA i : Writes("fd", <<i, i>>, {2})) \o Close0
  \o Opened(<<"bigfile">>, "rdonly", Ok) \o ReadsAll("fd", 1, 1, {[i \in 1 .. 2 * N |-> (i - 1) \div 2]}) \o Close0
  \o Unlinks(<<"bigfile">>, Ignored)

fourteen ==
  LET a == "12345678901234"
      b == "123456789012345"
  IN Mkdirs(<<a>>, {0}) \o Mkdirs(<<a, b>>, {0}) \o Created(<<b, b, b>>, "rdonly", Ok) \o Close0
     \o Opened(<<a, a, a>>, "rdonly", Ok) \o Close0 \o Mkdirs(<<a, a>>, Fail) \o Mkdirs(<<b, a>>, Fail)

rmdot ==
  Mkdirs(<<"dots">>, {0}) \o Chdirs(<<"dots">>, {0}) \o Unlinks(<<".">>, Fail) \o Unlinks(<<"..">>, Fail)
  \o Chdirs(<<"/">>, {0}) \o Unlinks(<<"dots", ".">>, Fail) \o Unlinks(<<"dots", "..">>, Fail) \o Unlinks(<<"dots">>, {0})

dirfile ==
  LET xx == <<"dirfile", "xx">> IN
  Created(<<"dirfile">>, "rdonly", Ok) \o Close0 \o Chdirs(<<"dirfile">>, Fail)
  \o Opened(xx, "rdonly", Fail) \o Created(xx, "rdonly", Fail) \o Mkdirs(xx, Fail) \o Unlinks(xx, Fail)
  \o Links(<<"README">>, xx, Fail) \o Unlinks(<<"dirfile">>, {0})
  \o Opened(<<".">>, "rdwr", Fail) \o Opened(<<".">>, "rdonly", Ignored) \o Writes("fd", <<"x">>, {-1, 0}) \o Close0

iref ==
  LET dir(i) == Mkdirs(<<"irefd">>, {0}) \o Chdirs(<<"irefd">>, {0}) \o Mkdirs(<< >>, Ignored)
                \o Links(<<"README">>, << >>, Ignored) \o Created(<< >>, "rdonly", Ignored)
                \o Created(<<"xx">>, "rdonly", Ignored) \o Close0 \o Unlinks(<<"xx">>, Ignored)
  IN Times(NINODE + 1, dir) \o Chdirs(<<"/">>, Ignored)

forktest == <<[call |-> "fork all", want |-> Fail]>> \o Waits(Fail)

sbrktest ==
  LET a == Base + N   \* after the first loop
      child == Sbrks(BIG - Base, Ignored) \o Writes("w", <<"x">>, Ignored) \o Plain("forever")
      pid == <<"pid", "pid1", "pid2", "pid3">>
  IN Times(N, LAMBDA i : Sbrks(1, {Base + i}) \o Stores(Base + i, 1))
     \o Forks("pid", Sbrks(1, Ignored) \o Sbrks(1, {a + 1}), Ok) \o Sbrks(1, Ignored) \o Sbrks(1, {a + 1}) \o Waits(Ignored)
     \o Sbrks(BIG - (a + 2), {a + 2}) \o Stores(BIG - 1, 99)
     \o Sbrks(-PGSIZE, Ok) \o Sbrks(0, {BIG - PGSIZE})
     \o Sbrks(PGSIZE, {BIG - PGSIZE}) \o Sbrks(0, {BIG}) \o Loads(BIG - 1, Ignored \ {99})
     \o Sbrks(Base - BIG, {BIG})
     \o Forks("pid", Loads(BIG, Ignored) \o Plain("complain"), Ok) \o Waits(Ignored)
     \o Plain("pipe")
     \o Times(4, LAMBDA i : Forks(pid[i + 1], child, Ignored)
                            \o <<[call |-> "if child", pid |-> pid[i + 1], n |-> 1, want |-> Ignored]>> \o Reads("r", 1, << >>, Ignored))
     \o Sbrks(PGSIZE, Ok)
     \o Times(4, LAMBDA i : <<[call |-> "if child", pid |-> pid[i + 1], n |-> 2, want |-> Ignored]>>
                            \o Kills(pid[i + 1]) \o Waits(Ignored))
     \o Sbrks(-PGSIZE, Ignored)

validatetest ==
  Times(2, LAMBDA p : Forks("pid", Plain("sleep"), Ignored) \o Plain("sleep") \o Plain("sleep") \o Kills("pid") \o Waits(Ignored)
                      \o Links(<<"nosuchfile">>, <<"p">>, Fail))

bsstest == Times(Base, LAMBDA i : Loads(i, {0}))

bigargtest ==
  LET child == Execs(<<"echo">>, TRUE, Ignored) \o Created(<<"bigarg-ok">>, "rdonly", Ignored) \o Close0 IN
  Unlinks(<<"bigarg-ok">>, Ignored) \o Forks("pid", child, Ok) \o Waits(Ignored)
  \o Opened(<<"bigarg-ok">>, "rdonly", Ok) \o Close0 \o Unlinks(<<"bigarg-ok">>, Ignored)

uio == Forks("pid", Loads(BIG, Ignored) \o Plain("complain"), Ok) \o Waits(Ignored)

argptest == Opened(<<"init">>, "rdonly", Ok) \o Reads("fd", -1, << >>, Ignored) \o Close0

Tests ==
  [argptest |-> argptest, createdelete |-> createdelete, linkunlink |-> linkunlink, concreate |-> concreate,
   fourfiles |-> fourfiles, sharedfd |-> sharedfd, bigargtest |-> bigargtest, bigwrite |-> bigwrite,
   bsstest |-> bsstest, sbrktest |-> sbrktest, validatetest |-> validatetest, opentest |-> opentest,
   writetest |-> writetest, writetest1 |-> writetest1, createtest |-> createtest, openiputtest |-> openiputtest,
   exitiputtest |-> exitiputtest, iputtest |-> iputtest, pipe1 |-> pipe1, preempt |-> preempt,
   exitwait |-> exitwait, rmdot |-> rmdot, fourteen |-> fourteen, bigfile |-> bigfile, subdir |-> subdir,
   linktest |-> linktest, unlinkread |-> unlinkread, dirfile |-> dirfile, iref |-> iref, forktest |-> forktest,
   bigdir |-> bigdir, uio |-> uio, exectest |-> exectest, dirtest |-> dirtest,
   stressfs |-> stressfs]

Image == <<"README", "cat", "echo", "init">>

Start(t) ==
  /\ test = t
  /\ tables = [inode |-> [i \in Inum |->
                  CASE i = Root -> [type |-> "dir", nlink |-> 1, ref |-> 1,
                                    data |-> <<Entry(".", 1), Entry("..", 1)>> \o [j \in 1 .. 4 |-> Entry(Image[j], j + 1)]]
                    [] i \in 2 .. 5 -> [type |-> "file", nlink |-> 1, ref |-> 0, data |-> <<"x">>]
                    [] OTHER -> FreeInode],
               file |-> [f \in Fid |-> FreeFile], pipe |-> [i \in {1} |-> << >>]]
  /\ proc = [p \in Proc |-> IF p = 1 THEN [Unused EXCEPT !.state = "running", !.script = Tests[t], !.cwd = Root, !.sz = Base,
                                             !.env = [v \in {"fd", "fd1", "r", "w", "pid", "pid1", "pid2", "pid3"} |-> -1]]
                            ELSE Unused]
  /\ complaint = FALSE

Init == \E t \in DOMAIN Tests : Start(t)

TestsNext ==
  \E p \in Proc :
    \/ OpenCreates(p) \/ OpenLooks(p) \/ OpenEnds(p) \/ Close(p) \/ Mkdir(p) \/ Chdir(p) \/ Link(p) \/ Unlink(p)
    \/ Read(p) \/ ReadAll(p) \/ List(p) \/ Write(p) \/ Pipe(p)
    \/ Fork(p) \/ ForkMore(p) \/ ForkNoMore(p) \/ Exit(p) \/ Wait(p) \/ Kill(p)
    \/ Sbrk(p) \/ Touch(p) \/ Exec(p) \/ Sleep(p) \/ Skip(p) \/ Either(p)

-----------------------------------------------------------------------------
(* Properties *)

\* No test finds anything to complain of, in whatever order its processes run.
TestsPass == ~complaint

\* The counts of the inodes and of the open files are those of their users, and of the names
\* that there are; nothing is left that nobody uses, and the inodes in memory find room.
Live == {p \in Proc : proc[p].state = "running"}
FdsOf(f) == {<<p, d>> \in Live \X Fd : proc[p].ofile[d] = f}
Names(i) == {<<d, j>> \in Inum \X (1 .. 20) :
               /\ tables.inode[d].type = "dir" /\ j \in DOMAIN tables.inode[d].data
               /\ tables.inode[d].data[j].inum = i /\ tables.inode[d].data[j].name # "."
               /\ ~(tables.inode[d].data[j].name = ".." /\ (tables.inode[d].nlink = 0 \/ d = Root))}
TablesRight ==
  /\ \A f \in Fid : tables.file[f].ref = Cardinality(FdsOf(f))
  /\ \A i \in Inum :
       LET inode == tables.inode[i] IN
       /\ inode.ref = Cardinality({f \in Fid : tables.file[f].kind = "inode" /\ tables.file[f].ip = i})
                      + Cardinality({p \in Live : proc[p].cwd = i}) + Cardinality({p \in Live : proc[p].at = i})
       /\ inode.type # "free" => inode.nlink = Cardinality(Names(i)) + (IF i = Root THEN 1 ELSE 0)
       /\ inode.type # "free" => inode.ref > 0 \/ inode.nlink > 0
       /\ inode.type = "free" => Names(i) = {}
  /\ Cardinality({i \in Inum : tables.inode[i].ref > 0}) <= NINODE - 2
  /\ Used(Proc) <= Frames

\* A process that can do nothing until another does, or that is never to go on
Sleeps(p) ==
  /\ ~proc[p].killed /\ proc[p].script # << >>
  /\ CASE Step(p).call \in {"read", "read all"} -> ~CanRead(p)
       [] Step(p).call = "write" ->
            LET file == tables.file[proc[p].ofile[Said(p, Step(p).fd)]] IN
            file.kind = "pipe" /\ Len(tables.pipe[file.ip]) = PIPESIZE /\ HasEnd(tables, file.ip, FALSE)
       [] Step(p).call = "wait" ->
            \E q \in Proc : proc[q].parent = p /\ \A c \in Proc : proc[c].parent = p => proc[c].state = "running"
       [] OTHER -> Step(p).call \in {"forever", "complain"}

\* A test comes to its end: until then some process has a step to take.
\* When it has ended no other process is left, and the root has the names it had, but for
\* those that some tests leave.
Leaves == [createdelete |-> {"p1", "p2", "p3", "q0", "q2", "q3"}, linkunlink |-> {"x"},
           stressfs |-> {"stressfs0", "stressfs1"}, fourfiles |-> {"f2"}, fourteen |-> {"12345678901234"}, iref |-> {"irefd"}]
EndRight ==
  LET ended == proc[1].state = "zombie"
      root == {e \in Range(tables.inode[Root].data) : e.inum # 0}
      left == {e.name : e \in root} \ ({".", ".."} \cup Range(Image))
  IN IF ended
     THEN /\ Live = {} /\ \A f \in Fid : tables.file[f] = FreeFile
          /\ left \subseteq IF test \in DOMAIN Leaves THEN Leaves[test] ELSE {}
     ELSE \E p \in Live : ~Sleeps(p)


=============================================================================
