------------------------------ MODULE XvMemory ------------------------------
(***************************************************************************)
(* The physical memory of xv6 and the address spaces made of it:           *)
(* xv6-OS/kalloc.c, vm.c and exec.c, with what fork, wait and sbrk         *)
(* (proc.c) do to memory.                                                  *)
(*                                                                         *)
(* A frame of memory is what its last user made of it: a page directory, a *)
(* page table, a page of PGSIZE words, a stack, or the junk that kfree     *)
(* leaves.  The kernel reads whatever a pointer leads to, and so do the    *)
(* operators below: nothing keeps a frame from having two users.           *)
(* Processes run on several CPUs: a call that allocates is one step for    *)
(* each frame it asks for.  A loop that gives frames back is one step:     *)
(* whoever takes a frame in the middle of it could take it after.          *)
(***************************************************************************)
EXTENDS Integers, Sequences, FiniteSets, SequencesExt

CONSTANTS
  NFRAMES,     \* frames of memory that kinit finds
  NPDENTRIES, NPTENTRIES,
  PGSIZE,      \* words of a page
  KERNBASE,    \* the first address that is the kernel's
  KMAP,        \* the entries of a directory that setupkvm fills
  NPROC,
  MAXARG,
  Images,      \* programs: sequences of segments
  Arguments,   \* what exec may push: [argc, words]
  Growth,      \* the arguments of sbrk
  Targets,     \* the addresses that programs store to
  MaxCalls     \* calls that processes make altogether

\* Memory for the first process, and the kernel at the end of the addresses
ASSUME GeometryAssumption ==
  /\ NFRAMES \in Nat /\ NPDENTRIES \in Nat /\ NPTENTRIES \in Nat /\ PGSIZE \in Nat /\ KERNBASE \in Nat
  /\ NFRAMES >= Cardinality(KMAP) + 4 /\ NPTENTRIES > 0 /\ PGSIZE > 0 /\ KERNBASE > 0
  /\ KERNBASE % (NPTENTRIES * PGSIZE) = 0
  /\ KERNBASE + 2 * PGSIZE < NPDENTRIES * NPTENTRIES * PGSIZE
  /\ KMAP \subseteq KERNBASE \div (NPTENTRIES * PGSIZE) .. NPDENTRIES - 1 /\ KMAP # {}
  /\ NPROC \in Nat /\ NPROC > 0

VARIABLES
  ram,        \* [free |-> kmem.freelist, frame |-> what each frame holds]
  proc,       \* the process table: state, parent, kstack, pgdir, sz
  call,       \* where a process is in the call it has made
  panicked,
  calls

vars == <<ram, proc, call, panicked, calls>>

Slot == 1 .. NPROC
Frame == 1 .. NFRAMES
Page == 0 .. KERNBASE \div PGSIZE - 1
UINT == NPDENTRIES * NPTENTRIES * PGSIZE

\* The numbers of a segment are unsigned; what sbrk gets is signed, and too small to
\* go around from below KERNBASE.
ASSUME ProgramsAssumption ==
  /\ \A image \in Images : image \in Seq([vaddr : 0 .. UINT - 1, memsz : 0 .. UINT - 1,
                                          filesz : 0 .. UINT - 1, short : BOOLEAN])
  /\ Arguments \subseteq [argc : Nat, words : Nat]
  /\ \A by \in Growth : by \in Int /\ by < UINT - KERNBASE
  /\ Targets \subseteq 0 .. UINT - 1

Pages(size) == (size + PGSIZE - 1) \div PGSIZE
PGROUNDUP(size) == Pages(size) * PGSIZE

-----------------------------------------------------------------------------
(* kalloc.c *)

Kfree(r, fs) ==   \* for the frames fs, one after the other
  [free |-> Reverse(fs) \o r.free,
   frame |-> [f \in Frame |-> IF f \in Range(fs) THEN "junk" ELSE r.frame[f]]]

Kalloc(r, content) ==
  [free |-> Tail(r.free), frame |-> [r.frame EXCEPT ![Head(r.free)] = content]]

-----------------------------------------------------------------------------
(* vm.c: page tables.  n is the number of a page, that is va / PGSIZE. *)

NoPte == [frame |-> 0, user |-> FALSE]
EmptyDir == [i \in 0 .. NPDENTRIES - 1 |-> 0]
EmptyTable == [i \in 0 .. NPTENTRIES - 1 |-> NoPte]
ZeroPage == [i \in 0 .. PGSIZE - 1 |-> "zero"]

PDX(n) == n \div NPTENTRIES
PTX(n) == n % NPTENTRIES

\* walkpgdir without alloc, and the entry it leads to
Walk(r, dir, n) ==
  LET table == r.frame[dir][PDX(n)] IN IF table = 0 THEN NoPte ELSE r.frame[table][PTX(n)]

\* walkpgdir with alloc, and mappages of one page
CanMap(r, dir, n) == r.frame[dir][PDX(n)] # 0 \/ r.free # << >>
Mapped(r, dir, n, pte) ==
  LET walked == IF r.frame[dir][PDX(n)] # 0 THEN r
                ELSE [Kalloc(r, EmptyTable) EXCEPT !.frame[dir][PDX(n)] = Head(r.free)]
  IN [walked EXCEPT !.frame[walked.frame[dir][PDX(n)]][PTX(n)] = pte]

\* The pages ns without their entries
Cleared(r, dir, ns) ==
  [r EXCEPT !.frame = [f \in Frame |->
     LET here == {n \in ns : r.frame[dir][PDX(n)] = f}
     IN IF here = {} THEN r.frame[f]
        ELSE [i \in 0 .. NPTENTRIES - 1 |->
                IF \E n \in here : PTX(n) = i THEN NoPte ELSE r.frame[f][i]]]]

\* The numbers of S, the least first
InOrder(S) == [k \in 1 .. Cardinality(S) |-> CHOOSE n \in S : Cardinality({m \in S : m <= n}) = k]

DeallocUvm(r, dir, oldsz, newsz) ==
  LET given == {n \in Page : /\ n >= Pages(newsz) /\ n * PGSIZE < oldsz
                             /\ Walk(r, dir, n).frame # 0}
      inOrder == InOrder(given)
  IN IF newsz >= oldsz THEN r
     ELSE Kfree(Cleared(r, dir, given), [i \in DOMAIN inOrder |-> Walk(r, dir, inOrder[i]).frame])

FreeVm(r, dir) ==
  LET gone == DeallocUvm(r, dir, KERNBASE, 0)
      entries == InOrder({i \in 0 .. NPDENTRIES - 1 : gone.frame[dir][i] # 0})
  IN Kfree(gone, [k \in DOMAIN entries |-> gone.frame[dir][entries[k]]] \o <<dir>>)

\* What a program may read and write at va (uva2ka)
Accessible(r, dir, va) == LET pte == Walk(r, dir, va \div PGSIZE) IN pte.frame # 0 /\ pte.user

WordAt(r, dir, va) == r.frame[Walk(r, dir, va \div PGSIZE).frame][va % PGSIZE]

Written(r, dir, vas, word) ==
  [r EXCEPT !.frame = [f \in Frame |->
     LET here == {va \in vas : Walk(r, dir, va \div PGSIZE).frame = f}
     IN IF here = {} THEN r.frame[f]
        ELSE [i \in 0 .. PGSIZE - 1 |->
                IF \E va \in here : va % PGSIZE = i THEN word ELSE r.frame[f][i]]]]

-----------------------------------------------------------------------------
(* The process table, as far as memory goes *)

User == [at |-> "user", op |-> "none", then |-> "none", dir |-> 0, n |-> 0, from |-> 0, to |-> 0,
         mem |-> 0, sz |-> 0, seg |-> 1, image |-> << >>, args |-> [argc |-> 0, words |-> 0],
         child |-> 0]

Unused == [state |-> "UNUSED", parent |-> 0, kstack |-> 0, pgdir |-> 0, sz |-> 0]

\* setupkvm when no frame is lacking: the empty directory dir gets a table for each entry
\* of KMAP, the lowest first.
KernelMapped(r, dir) ==
  LET table == [i \in KMAP |-> r.free[Cardinality({k \in KMAP : k <= i})]]
  IN [free |-> SubSeq(r.free, Cardinality(KMAP) + 1, Len(r.free)),
      frame |-> [f \in Frame |->
        IF f = dir THEN [i \in 0 .. NPDENTRIES - 1 |-> IF i \in KMAP THEN table[i] ELSE 0]
        ELSE IF \E i \in KMAP : table[i] = f THEN EmptyTable
        ELSE r.frame[f]]]

\* kinit1 and kinit2, then userinit: init has a page with initcode in it.
Init ==
  LET booted == [free |-> Reverse([f \in Frame |-> f]), frame |-> [f \in Frame |-> "junk"]]
      stack == Kalloc(booted, "stack")
      pgdir == Head(stack.free)
      kernel == KernelMapped(Kalloc(stack, EmptyDir), pgdir)
      page == Kalloc(kernel, [i \in 0 .. PGSIZE - 1 |-> "text"])
  IN /\ ram = Mapped(page, pgdir, 0, [frame |-> Head(kernel.free), user |-> TRUE])
     /\ proc = [s \in Slot |-> IF s = 1 THEN [state |-> "RUNNABLE", parent |-> 0,
                                              kstack |-> Head(booted.free), pgdir |-> pgdir,
                                              sz |-> PGSIZE]
                               ELSE Unused]
     /\ call = [s \in Slot |-> User]
     /\ panicked = FALSE /\ calls = 0

\* A program runs while the page with its code is there; without it, it faults.
Runs(p) == /\ ~panicked /\ proc[p].state = "RUNNABLE" /\ call[p].at = "user"
           /\ Accessible(ram, proc[p].pgdir, 0)

Calls(p) == Runs(p) /\ calls < MaxCalls /\ calls' = calls + 1

At(p, label) == ~panicked /\ call[p].at = label /\ UNCHANGED calls

Panic == panicked' = TRUE /\ UNCHANGED <<ram, proc, call>>

\* What allocuvm has left to do from size `from` to size `to`
Growing(c, from, to, then) ==
  [c EXCEPT !.from = from, !.to = to, !.n = Pages(from), !.then = then,
            !.at = IF PGROUNDUP(from) < to THEN "page" ELSE then]

\* Mutant of Unwound: allocuvm returns 0 and leaves the pages it has mapped.
UnwoundKeeps(p) ==
  LET c == call[p]
      mem == IF c.mem = 0 THEN << >> ELSE <<c.mem>>
      held == Kfree(ram, mem)
  IN CASE c.op = "sbrk" -> held
       [] c.op = "exec" -> IF c.dir = 0 THEN held ELSE FreeVm(held, c.dir)
       [] OTHER -> Kfree(IF c.dir = 0 THEN held ELSE FreeVm(held, c.dir), <<proc[c.child].kstack>>)

\* Mutant of Unwound: the frame that could not be mapped is not freed.
UnwoundLeaks(p) ==
  LET c == call[p]
      shrunk == IF c.op # "fork" /\ c.at \in {"page", "map"}
                THEN DeallocUvm(ram, c.dir, c.to, c.from) ELSE ram
      empty == IF c.op = "sbrk" \/ c.dir = 0 THEN shrunk ELSE FreeVm(shrunk, c.dir)
  IN IF c.op = "fork" THEN Kfree(empty, <<proc[c.child].kstack>>) ELSE empty

\* The failing ends of allocuvm, copyuvm, setupkvm, exec and fork
Unwound(p) ==
  LET c == call[p]
      shrunk == IF c.op # "fork" /\ c.at \in {"page", "map"}
                THEN DeallocUvm(ram, c.dir, c.to, c.from) ELSE ram
      held == Kfree(shrunk, IF c.mem = 0 THEN << >> ELSE <<c.mem>>)
      empty == IF c.op = "sbrk" \/ c.dir = 0 THEN held ELSE FreeVm(held, c.dir)
  IN IF c.op = "fork" THEN Kfree(empty, <<proc[c.child].kstack>>) ELSE empty

GiveUp(p) ==
  /\ ram' = Unwound(p)
  /\ call' = [call EXCEPT ![p] = User]
  /\ proc' = IF call[p].op # "fork" THEN proc
             ELSE [proc EXCEPT ![call[p].child].state = "UNUSED",
                               ![call[p].child].kstack = 0, ![call[p].child].pgdir = 0]
  /\ UNCHANGED panicked

-----------------------------------------------------------------------------
(* The calls *)

Store(p, va) ==
  /\ Calls(p) /\ Accessible(ram, proc[p].pgdir, va)
  /\ ram' = Written(ram, proc[p].pgdir, {va}, "data")
  /\ UNCHANGED <<proc, call, panicked>>

\* growproc.  deallocuvm's 0 is taken for a failure: sz stays, and the pages are gone.
Sbrk(p, by) ==
  LET oldsz == proc[p].sz
      newsz == (oldsz + by) % UINT
  IN /\ Calls(p) /\ p # 1
     /\ IF by > 0
        THEN /\ newsz < KERNBASE
             /\ call' = [call EXCEPT ![p] =
                  Growing([User EXCEPT !.op = "sbrk", !.dir = proc[p].pgdir], oldsz, newsz, "grown")]
             /\ UNCHANGED <<ram, proc>>
        ELSE /\ ram' = DeallocUvm(ram, proc[p].pgdir, oldsz, newsz)
             /\ proc' = IF newsz \in 1 .. oldsz THEN [proc EXCEPT ![p].sz = newsz] ELSE proc
             /\ UNCHANGED call
     /\ UNCHANGED panicked

SbrkEnds(p) ==
  /\ At(p, "grown")
  /\ proc' = [proc EXCEPT ![p].sz = call[p].to]
  /\ call' = [call EXCEPT ![p] = User]
  /\ UNCHANGED <<ram, panicked>>

\* fork, to the kernel stack of allocproc
Fork(p) ==
  /\ Calls(p)
  /\ \E child \in Slot :
       /\ proc[child].state = "UNUSED" /\ \A s \in 1 .. child - 1 : proc[s].state # "UNUSED"
       /\ proc' = [proc EXCEPT ![child].state = "EMBRYO"]
       /\ call' = [call EXCEPT ![p] = [User EXCEPT !.op = "fork", !.at = "kstack", !.child = child]]
  /\ UNCHANGED <<ram, panicked>>

GetStack(p) ==
  LET child == call[p].child IN
  /\ At(p, "kstack")
  /\ IF ram.free = << >>
     THEN /\ proc' = [proc EXCEPT ![child].state = "UNUSED", ![child].kstack = 0]
          /\ call' = [call EXCEPT ![p] = User]
          /\ UNCHANGED ram
     ELSE /\ proc' = [proc EXCEPT ![child].kstack = Head(ram.free)]
          /\ ram' = Kalloc(ram, "stack")
          /\ call' = [call EXCEPT ![p].at = "pgdir"]
  /\ UNCHANGED panicked

\* setupkvm: the directory, then a table for each part of the kernel's mappings
GetDir(p) ==
  /\ At(p, "pgdir")
  /\ IF ram.free = << >> THEN GiveUp(p)
     ELSE /\ ram' = Kalloc(ram, EmptyDir)
          /\ call' = [call EXCEPT ![p].dir = Head(ram.free), ![p].at = "kmap"]
          /\ UNCHANGED <<proc, panicked>>

MapKernel(p) ==
  LET dir == call[p].dir
      left == {i \in KMAP : ram.frame[dir][i] = 0}
      i == CHOOSE k \in left : \A l \in left : k <= l
  IN /\ At(p, "kmap")
     /\ IF ram.free = << >> THEN GiveUp(p)
        ELSE /\ ram' = [Kalloc(ram, EmptyTable) EXCEPT !.frame[dir][i] = Head(ram.free)]
             /\ call' = [call EXCEPT ![p] =
                  IF left # {i} THEN @
                  ELSE IF @.op = "exec" THEN [@ EXCEPT !.at = "segment"]
                  ELSE Growing(@, 0, proc[p].sz, "copied")]
             /\ UNCHANGED <<proc, panicked>>

\* The loops of allocuvm and copyuvm: a page, zeroed or copied, ...
GetPage(p) ==
  LET c == call[p]
      parents == Walk(ram, proc[p].pgdir, c.n)
  IN /\ At(p, "page")
     /\ IF c.op = "fork" /\ parents.frame = 0 THEN Panic
        ELSE IF ram.free = << >> THEN GiveUp(p)
        ELSE /\ ram' = Kalloc(ram, IF c.op = "fork" THEN ram.frame[parents.frame] ELSE ZeroPage)
             /\ call' = [call EXCEPT ![p].mem = Head(ram.free), ![p].at = "map"]
             /\ UNCHANGED <<proc, panicked>>

\* ... and its mapping, with a table for it where there is none.
MapPage(p) ==
  LET c == call[p]
      user == c.op = "fork" => Walk(ram, proc[p].pgdir, c.n).user
  IN /\ At(p, "map")
     /\ IF ~CanMap(ram, c.dir, c.n) THEN GiveUp(p)
        ELSE IF Walk(ram, c.dir, c.n).frame # 0 THEN Panic   \* remap
        ELSE /\ ram' = Mapped(ram, c.dir, c.n, [frame |-> c.mem, user |-> user])
             /\ call' = [call EXCEPT ![p].mem = 0, ![p].n = c.n + 1,
                           ![p].at = IF (c.n + 1) * PGSIZE < c.to THEN "page" ELSE c.then]
             /\ UNCHANGED <<proc, panicked>>

ForkEnds(p) ==
  /\ At(p, "copied")
  /\ proc' = [proc EXCEPT ![call[p].child] =
               [@ EXCEPT !.pgdir = call[p].dir, !.sz = proc[p].sz, !.parent = p, !.state = "RUNNABLE"]]
  /\ call' = [call EXCEPT ![p] = User]
  /\ UNCHANGED <<ram, panicked>>

\* exec, of a file that is there and an ELF file; other paths change nothing.
Exec(p, image, args) ==
  /\ Calls(p)
  /\ call' = [call EXCEPT ![p] =
               [User EXCEPT !.op = "exec", !.at = "pgdir", !.image = image, !.args = args]]
  /\ UNCHANGED <<ram, proc, panicked>>

\* The next program header, or two pages for the stack after the last
ExecSegment(p) ==
  LET c == call[p]
      s == c.image[c.seg]
      top == (s.vaddr + s.memsz) % UINT
      stack == PGROUNDUP(c.sz) + 2 * PGSIZE
      Grows(newsz, then) ==
        /\ call' = [call EXCEPT ![p] = [Growing(c, PGROUNDUP(c.sz), newsz, then) EXCEPT !.sz = newsz]]
        /\ UNCHANGED <<ram, proc, panicked>>
  IN /\ At(p, "segment")
     /\ IF c.seg > Len(c.image)
        THEN IF stack >= KERNBASE THEN GiveUp(p) ELSE Grows(stack, "args")
        ELSE IF s.memsz < s.filesz \/ top < s.vaddr \/ top >= KERNBASE \/ (top = 0 /\ c.sz = 0)
        THEN GiveUp(p)
        ELSE Grows(IF top < c.sz THEN c.sz ELSE top, "load")

\* loaduvm.  A page that is not there would be read to physical address 0.
ExecLoad(p) ==
  LET c == call[p]
      s == c.image[c.seg]
      words == s.vaddr .. s.vaddr + s.filesz - 1
  IN /\ At(p, "load")
     /\ IF s.vaddr % PGSIZE # 0 THEN GiveUp(p)
        ELSE IF \E va \in words : Walk(ram, c.dir, va \div PGSIZE).frame = 0 THEN Panic
        ELSE IF s.short THEN GiveUp(p)
        ELSE /\ ram' = Written(ram, c.dir, words, "text")
             /\ call' = [call EXCEPT ![p].seg = @ + 1, ![p].at = "segment"]
             /\ UNCHANGED <<proc, panicked>>

\* Mutant of ExecEnds: no guard page under the stack.
ExecEndsUnguarded(p) ==
  LET c == call[p]
      pushed == c.sz - c.args.words .. c.sz - 1
  IN /\ At(p, "args")
     /\ IF c.args.argc > MAXARG \/ \E va \in pushed : va < 0 \/ ~Accessible(ram, c.dir, va)
        THEN GiveUp(p)
        ELSE /\ ram' = FreeVm(Written(ram, c.dir, pushed, "argument"), proc[p].pgdir)
             /\ proc' = [proc EXCEPT ![p].pgdir = c.dir, ![p].sz = c.sz]
             /\ call' = [call EXCEPT ![p] = User]
             /\ UNCHANGED panicked

\* The guard page, the arguments, and the exchange of the address spaces
ExecEnds(p) ==
  LET c == call[p]
      guard == (c.sz - 2 * PGSIZE) \div PGSIZE
      r == [ram EXCEPT !.frame[ram.frame[c.dir][PDX(guard)]][PTX(guard)].user = FALSE]
      pushed == c.sz - c.args.words .. c.sz - 1
  IN /\ At(p, "args")
     /\ IF c.args.argc > MAXARG \/ \E va \in pushed : va < 0 \/ ~Accessible(r, c.dir, va)
        THEN GiveUp(p)
        ELSE /\ ram' = FreeVm(Written(r, c.dir, pushed, "argument"), proc[p].pgdir)
             /\ proc' = [proc EXCEPT ![p].pgdir = c.dir, ![p].sz = c.sz]
             /\ call' = [call EXCEPT ![p] = User]
             /\ UNCHANGED panicked

\* exit, called or forced by a fault.  init does not end.
Exit(p) ==
  /\ ~panicked /\ p # 1 /\ proc[p].state = "RUNNABLE" /\ call[p].at = "user"
  /\ proc' = [s \in Slot |-> IF s = p THEN [proc[p] EXCEPT !.state = "ZOMBIE"]
                             ELSE IF proc[s].parent = p THEN [proc[s] EXCEPT !.parent = 1]
                             ELSE proc[s]]
  /\ UNCHANGED <<ram, call, panicked, calls>>

Wait(p) ==
  /\ Runs(p) /\ UNCHANGED <<call, panicked, calls>>
  /\ \E child \in Slot :
       /\ proc[child].state = "ZOMBIE" /\ proc[child].parent = p
       /\ ram' = FreeVm(Kfree(ram, <<proc[child].kstack>>), proc[child].pgdir)
       /\ proc' = [proc EXCEPT ![child] = [@ EXCEPT !.kstack = 0, !.parent = 0, !.state = "UNUSED"]]

Next ==
  \E p \in Slot :
    \/ \E va \in Targets : Store(p, va)
    \/ \E by \in Growth : Sbrk(p, by)
    \/ \E image \in Images, args \in Arguments : Exec(p, image, args)
    \/ SbrkEnds(p)
    \/ Fork(p) \/ GetStack(p) \/ GetDir(p) \/ MapKernel(p) \/ GetPage(p) \/ MapPage(p) \/ ForkEnds(p)
    \/ ExecSegment(p) \/ ExecLoad(p) \/ ExecEnds(p)
    \/ Exit(p) \/ Wait(p)

Spec == Init /\ [][Next]_vars

-----------------------------------------------------------------------------
(* Properties *)

\* The directories that somebody holds: a process, or a call that is making one
Directories == {<<"of", p>> : p \in {s \in Slot : proc[s].state \in {"RUNNABLE", "ZOMBIE"}}}
               \cup {<<"new", p>> : p \in {s \in Slot : call[s].op \in {"fork", "exec"} /\ call[s].dir # 0}}
Held(d) == IF d[1] = "of" THEN proc[d[2]].pgdir ELSE call[d[2]].dir

\* Every use of a frame, each with the frame: outside of page tables, ...
OuterUses ==
  {<<"free", i, ram.free[i]>> : i \in DOMAIN ram.free}
  \cup {<<"stack", s, proc[s].kstack>> : s \in {t \in Slot : proc[t].kstack # 0}}
  \cup {<<"mem", s, call[s].mem>> : s \in {t \in Slot : call[t].mem # 0}}
  \cup {<<d[1], d[2], Held(d)>> : d \in Directories}
\* ... as tables, and as the pages of tables.
TableUses == {<<e[1], e[2], ram.frame[Held(e[1])][e[2]]>> : e \in
                {f \in Directories \X (0 .. NPDENTRIES - 1) : ram.frame[Held(f[1])][f[2]] # 0}}
PageUses == {<<e[1], e[2], Walk(ram, Held(e[1]), e[2]).frame>> : e \in
               {f \in Directories \X Page : Walk(ram, Held(f[1]), f[2]).frame # 0}}

Once(uses) == \A u, v \in uses : u[3] = v[3] => u = v

\* Every frame has one use: none is lost by a call that fails half way, none is
\* freed twice, none is given to two processes.
FramesOwnedOnce ==
  /\ Once(OuterUses)
  /\ LET outer == {u[3] : u \in OuterUses}
         tables == {u[3] : u \in TableUses}
         pages == {u[3] : u \in PageUses}
     IN /\ Once(TableUses) /\ outer \cap tables = {}
        /\ Once(PageUses) /\ pages \cap (outer \cup tables) = {}
        /\ outer \cup tables \cup pages = Frame

\* No kernel panic: allocuvm maps no page twice, copyuvm and loaduvm find the pages
\* that the size of a process says it has.
NoPanic == ~panicked

\* What programs start with: the words of their segments, zeros up to the end of the
\* last page, and the arguments on a stack page over a page they cannot touch.
Start(image, args) ==
  LET ends == {s.vaddr + s.memsz : s \in Range(image)} \cup {0}
      top == PGROUNDUP(CHOOSE t \in ends : \A u \in ends : u <= t)
      text == UNION {s.vaddr .. s.vaddr + s.filesz - 1 : s \in Range(image)}
      end == top + 2 * PGSIZE
  IN [a \in 0 .. top - 1 \cup top + PGSIZE .. end - 1 |->
        IF a \in text THEN "text" ELSE IF a >= end - args.words THEN "argument" ELSE "zero"]

Starts == {Start(image, args) : image \in Images, args \in Arguments}

\* The memory that each process has
Spaces ==
  [p \in Slot |->
     IF proc[p].state # "RUNNABLE" THEN [a \in {} |-> "zero"]
     ELSE [a \in {b \in 0 .. PGROUNDUP(proc[p].sz) - 1 : Accessible(ram, proc[p].pgdir, b)} |->
             WordAt(ram, proc[p].pgdir, a)]]

Memory == INSTANCE AddressSpaces WITH
            Process <- Slot, Word <- {"data"},
            Edge <- {n * PGSIZE : n \in 0 .. KERNBASE \div PGSIZE},
            Loaded <- Starts,
            space <- Spaces
=============================================================================
