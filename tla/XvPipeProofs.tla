----------------------------- MODULE XvPipeProofs -----------------------------
(***************************************************************************)
(* Processes keep a parent, ends of the pipe are counted, no wakeup is     *)
(* lost, and the pipe is a stream of bytes, for any table, any sizes and   *)
(* any number of processes, files and descriptors.                         *)
(***************************************************************************)
EXTENDS XvPipe, FiniteSetTheorems, TLAPS

-----------------------------------------------------------------------------
\* The inductive invariant

State == {"UNUSED", "EMBRYO", "SLEEPING", "RUNNABLE", "ZOMBIE"}
Place == {"user", "fork", "exit", "wait", "read", "write", "readSleeps", "writeSleeps"}
Counter == 0 .. UintSize - 1

ProcTypeOK ==
  /\ proc \in [Slots -> [state : State, pid : Nat, parent : 0 .. NPROC,
                         chan : 0 .. NPROC + 2, killed : BOOLEAN]]
  /\ nextpid \in Nat /\ kills \in Nat
  /\ pc \in [Slots -> Place] /\ np \in [Slots -> 0 .. NPROC]

FilesTypeOK ==
  /\ file \in [Files -> [ref : Nat, writable : BOOLEAN]]
  /\ ofile \in [Slots -> [Fds -> 0 .. NFILE]]

PipeTypeOK ==
  /\ pipe \in [nread : Counter, nwrite : Counter, data : [0 .. PIPESIZE - 1 -> Nat],
               readopen : BOOLEAN, writeopen : BOOLEAN]
  /\ plock \in 0 .. NPROC /\ left \in [Slots -> Nat]
  /\ sent \in Nat /\ delivered \in Seq(Nat) /\ cut \in BOOLEAN

TypeOK == ProcTypeOK /\ FilesTypeOK /\ PipeTypeOK

Alive(s) == proc[s].state \in {"RUNNABLE", "SLEEPING"}

\* Who has no parent, and that parents do not end before their children have another.
Family == /\ Alive(initproc) /\ proc[initproc].parent = 0
          /\ \A s \in Slots : proc[s].state \in {"UNUSED", "EMBRYO"} => proc[s].parent = 0
          /\ \A s \in Slots \ {initproc} : proc[s].state \notin {"UNUSED", "EMBRYO"} =>
               proc[s].parent \in Slots \ {s} /\ Alive(proc[s].parent)

Pids == /\ \A s \in Slots : proc[s].pid < nextpid
        /\ \A s, t \in Slots \ Unused : proc[s].pid = proc[t].pid => s = t

\* A slot in the making belongs to the one fork that made it.
Forks == \A p \in Slots : np[p] # 0 =>
           /\ pc[p] = "fork" /\ proc[p].state = "RUNNABLE"
           /\ proc[np[p]].state = "EMBRYO"
           /\ \A q \in Slots : np[q] = np[p] => q = p

\* Only a process has open files.
NoFiles == \A s \in Slots : ~Alive(s) => \A d \in Fds : ofile[s][d] = 0

\* Whoever is in a call on the pipe keeps its end open.
Users == \A p \in Slots :
           /\ pc[p] \in {"read", "readSleeps"} => Has(p, FALSE)
           /\ pc[p] \in {"write", "writeSleeps"} => Has(p, TRUE)

\* Who holds a file, and the counts of EndsAreCounted; the pipe has one file for each end.
Holders(f) == {u \in Slots \X Fds : ofile[u[1]][u[2]] = f}
Counts == /\ \A f \in Files : file[f].ref = Cardinality(Holders(f))
          /\ \A w \in BOOLEAN :
               (IF w THEN pipe.writeopen ELSE pipe.readopen)
                 <=> \E f \in Files : Holders(f) # {} /\ file[f].writable = w
          /\ \A f, g \in Files : /\ Holders(f) # {} /\ Holders(g) # {}
                                 /\ file[f].writable = file[g].writable
                                 => f = g

\* What whoever is about to sleep has seen still holds, as it has the lock.
Locked == /\ plock # 0 => proc[plock].state = "RUNNABLE"
          /\ \A p \in Slots :
               /\ pc[p] \in {"readSleeps", "writeSleeps"} <=> plock = p
               /\ pc[p] = "readSleeps" => Count = 0 /\ pipe.writeopen
               /\ pc[p] = "writeSleeps" => Count = PIPESIZE /\ pipe.readopen

\* What a sleeper waits for has not happened.
Asleep(p) == \/ proc[p].chan = p /\ Children(p) # {} /\ Zombies(p) = {}
             \/ /\ proc[p].chan = nreadChan /\ pc[p] = "read"
                /\ (Count = 0 \/ cut) /\ pipe.writeopen
             \/ /\ proc[p].chan = nwriteChan /\ pc[p] = "write"
                /\ Count = PIPESIZE /\ pipe.readopen
Sleepers == \A p \in Slots : proc[p].state = "SLEEPING" => Asleep(p)

\* Bytes came out in the order in which they are numbered, and the others follow.
Under(i) == pipe.data[(pipe.nread + i - 1) % PIPESIZE]
InOrder == /\ Count <= PIPESIZE
           /\ Len(delivered) + Count = sent
           /\ \A i \in 1 .. Len(delivered) : delivered[i] = i
           /\ \A i \in 1 .. Count : Under(i) = Len(delivered) + i

IInv == /\ TypeOK /\ Family /\ Pids /\ Forks
        /\ NoFiles /\ Users /\ Counts /\ Locked /\ Sleepers /\ InOrder

-----------------------------------------------------------------------------
\* Facts about numbers: least elements, and remainders.

LEMMA LeastElement ==
  ASSUME NEW S \in SUBSET Nat, S # {}
  PROVE  \E s \in S : \A t \in S : s <= t
<1>1. PICK s \in S : \A t \in S : <<t, s>> \notin OpToRel(<, Nat)
  BY NatLessThanWellFounded, WFMin
<1>2. \A t \in S : ~(t < s)
  BY <1>1 DEF OpToRel
<1> QED  BY <1>2

LEMMA FirstIsIn ==
  ASSUME NEW S \in SUBSET Nat, S # {}
  PROVE  First(S) \in S
BY LeastElement DEF First

LEMMA Division ==
  ASSUME NEW a \in Int, NEW n \in Nat \ {0}
  PROVE  a \div n \in Int /\ a % n \in 0 .. n - 1 /\ a = (a \div n) * n + (a % n)
OBVIOUS

LEMMA Remainder ==
  ASSUME NEW n \in Nat \ {0}, NEW q \in Int, NEW r \in 0 .. n - 1
  PROVE  (q * n + r) % n = r
<1>1. PICK p \in Int, s \in 0 .. n - 1 : q * n + r = p * n + s /\ s = (q * n + r) % n
  BY Division, q * n + r \in Int
<1>2. (q - p) * n = s - r
  BY <1>1
<1>3. ~(q - p >= 1)
  <2> SUFFICES ASSUME q - p >= 1 PROVE FALSE
    OBVIOUS
  <2>1. (q - p) * n >= n
    OBVIOUS
  <2> QED  BY <2>1, <1>2
<1>4. ~(q - p <= -1)
  <2> SUFFICES ASSUME q - p <= -1 PROVE FALSE
    OBVIOUS
  <2>1. (q - p) * n <= -n
    OBVIOUS
  <2> QED  BY <2>1, <1>2
<1> QED  BY <1>1, <1>2, <1>3, <1>4

\* Going round once more changes nothing.
LEMMA Wraps ==
  ASSUME NEW n \in Nat \ {0}, NEW a \in Int, NEW q \in Int
  PROVE  (a + q * n) % n = a % n
<1> DEFINE x == a \div n
           r == a % n
<1>1. x \in Int /\ r \in 0 .. n - 1 /\ a = x * n + r
  BY Division
<1> HIDE DEF x, r
<1>2. a + q * n = (x + q) * n + r /\ x + q \in Int
  BY <1>1
<1>3. ((x + q) * n + r) % n = r
  BY <1>1, <1>2, Remainder
<1>4. r = a % n
  BY DEF r
<1> QED  BY <1>2, <1>3, <1>4

\* Only the remainder of a counts in a + b.
LEMMA Reduced ==
  ASSUME NEW n \in Nat \ {0}, NEW a \in Int, NEW b \in Int
  PROVE  ((a % n) + b) % n = (a + b) % n
<1>1. a % n \in Int /\ a \div n \in Int
  BY Division
<1>2. a + b = ((a % n) + b) + (a \div n) * n
  BY Division
<1> QED  BY <1>1, <1>2, Wraps, (a % n) + b \in Int

\* The same where one size is a multiple of the other.
LEMMA ReducedToo ==
  ASSUME NEW n \in Nat \ {0}, NEW m \in Nat \ {0}, n % m = 0, NEW a \in Int, NEW b \in Int
  PROVE  ((a % n) + b) % m = (a + b) % m
<1> DEFINE x == a \div n
           y == n \div m
           r == a % n
<1>1. x \in Int /\ y \in Int /\ r \in Int /\ n = y * m /\ a = x * n + r
  BY Division
<1> HIDE DEF x, y, r
<1>2. a + b = (r + b) + (x * y) * m /\ x * y \in Int /\ r + b \in Int
  BY <1>1
<1>3. ((r + b) + (x * y) * m) % m = (r + b) % m
  BY <1>2, Wraps
<1>4. r = a % n
  BY DEF r
<1> QED  BY <1>2, <1>3, <1>4

\* Numbers that are less than n apart have different remainders.
LEMMA Apart ==
  ASSUME NEW n \in Nat \ {0}, NEW a \in Int, NEW b \in Int, a < b, b - a < n
  PROVE  a % n # b % n
<1> SUFFICES ASSUME a % n = b % n PROVE FALSE
  OBVIOUS
<1> DEFINE x == a \div n
           y == b \div n
           d == y - x
<1>1. x \in Int /\ y \in Int /\ a = x * n + (a % n) /\ b = y * n + (a % n) /\ a % n \in Int
  BY Division
<1> HIDE DEF x, y
<1>2. d * n = b - a /\ d \in Int
  BY <1>1
<1> HIDE DEF d
<1>3. d <= 0 \/ d >= 1
  BY <1>2
<1>4. d <= 0 => d * n <= 0
  BY <1>2
<1>5. d >= 1 => d * n >= n
  BY <1>2
<1> QED  BY <1>2, <1>3, <1>4, <1>5

-----------------------------------------------------------------------------
\* The counters of the pipe, which go round at UintSize, and the places in data.

Between(r, w) == (w - r) % UintSize
Advanced(c, k) == (c + k) % UintSize

LEMMA RingSizes ==
  PIPESIZE \in Nat \ {0} /\ UintSize \in Nat \ {0} /\ UintSize % PIPESIZE = 0
BY XvPipeAssumption

LEMMA SmallRemainder ==
  ASSUME NEW n \in Nat \ {0}, NEW r \in 0 .. n - 1
  PROVE  r % n = r
<1>1. (0 * n + r) % n = r
  BY Remainder, 0 \in Int
<1>2. 0 * n + r = r
  OBVIOUS
<1> QED  BY <1>1, <1>2

\* An empty pipe.
LEMMA NoneBetween == 0 \in Counter /\ Between(0, 0) = 0 /\ PIPESIZE >= 0
<1>1. \A n \in Nat \ {0} : 0 \in 0 .. n - 1
  OBVIOUS
<1>2. UintSize \in Nat \ {0} /\ PIPESIZE \in Nat
  BY RingSizes
<1>3. 0 \in 0 .. UintSize - 1 /\ PIPESIZE >= 0
  BY <1>1, <1>2
<1>4. (0 % UintSize) = 0
  BY <1>2, <1>3, SmallRemainder
<1>5. \A i \in Int : i - i = 0
  OBVIOUS
<1> QED  BY <1>3, <1>4, <1>5 DEF Between, Counter

LEMMA BetweenType ==
  ASSUME NEW r \in Counter, NEW w \in Counter
  PROVE  Between(r, w) \in 0 .. UintSize - 1
<1>1. w - r \in Int
  BY XvPipeAssumption DEF Counter
<1> QED  BY <1>1, XvPipeAssumption, Division DEF Between

LEMMA AdvancedType ==
  ASSUME NEW c \in Counter, NEW k \in Nat
  PROVE  Advanced(c, k) \in Counter
<1>1. c + k \in Int
  BY XvPipeAssumption DEF Counter
<1> QED  BY <1>1, XvPipeAssumption, Division DEF Advanced, Counter

\* A read takes k from the bytes under way.
LEMMA ReadAdvances ==
  ASSUME NEW r \in Counter, NEW w \in Counter, NEW k \in 0 .. Between(r, w)
  PROVE  /\ Between(Advanced(r, k), w) = Between(r, w) - k
         /\ \A i \in Int : (Advanced(r, k) + i - 1) % PIPESIZE = (r + (k + i) - 1) % PIPESIZE
<1> USE XvPipeAssumption
<1>1. Between(r, w) \in 0 .. UintSize - 1
  BY BetweenType
<1>2. r \in Int /\ w \in Int /\ k \in Int
  BY <1>1 DEF Counter
<1>3. PICK x \in Int : r + k = x * UintSize + Advanced(r, k)
  <2>1. r + k \in Int
    BY <1>2
  <2>2. /\ (r + k) \div UintSize \in Int
        /\ (r + k) % UintSize \in 0 .. UintSize - 1
        /\ r + k = ((r + k) \div UintSize) * UintSize + ((r + k) % UintSize)
    BY Zenon, <2>1, RingSizes, Division
  <2> QED  BY <2>2, Zenon DEF Advanced
<1>4. Advanced(r, k) \in Int
  BY <1>1, AdvancedType DEF Counter
<1>5. Between(Advanced(r, k), w) = Between(r, w) - k
  <2>1. w - Advanced(r, k) = ((w - r) + (-k)) + x * UintSize
    BY <1>2, <1>3, <1>4
  <2>2. (((w - r) + (-k)) + x * UintSize) % UintSize = ((w - r) + (-k)) % UintSize
    BY <1>2, <1>3, Wraps, (w - r) + (-k) \in Int
  <2>3. ((w - r) + (-k)) % UintSize = (Between(r, w) + (-k)) % UintSize
    BY <1>2, Reduced, w - r \in Int, -k \in Int DEF Between
  <2>4. (Between(r, w) + (-k)) % UintSize = Between(r, w) + (-k)
    BY <1>1, SmallRemainder, Between(r, w) + (-k) \in 0 .. UintSize - 1
  <2> QED  BY <2>1, <2>2, <2>3, <2>4, <1>1, <1>2 DEF Between
<1>6. ASSUME NEW i \in Int
      PROVE  (Advanced(r, k) + i - 1) % PIPESIZE = (r + (k + i) - 1) % PIPESIZE
  <2>1. r + k \in Int /\ i - 1 \in Int
    BY <1>2
  <2>2. (((r + k) % UintSize) + (i - 1)) % PIPESIZE = ((r + k) + (i - 1)) % PIPESIZE
    BY Zenon, RingSizes, ReducedToo, <2>1
  <2>3. /\ Advanced(r, k) + i - 1 = Advanced(r, k) + (i - 1)
        /\ r + (k + i) - 1 = (r + k) + (i - 1)
    BY <1>2, <1>4
  <2> QED  BY <2>2, <2>3 DEF Advanced
<1> QED  BY <1>5, <1>6

\* A write adds k to them, and its places come after theirs.
LEMMA WriteAdvances ==
  ASSUME NEW r \in Counter, NEW w \in Counter, Between(r, w) <= PIPESIZE,
         NEW k \in 0 .. PIPESIZE - Between(r, w)
  PROVE  /\ Between(r, Advanced(w, k)) = Between(r, w) + k
         /\ \A j \in Int : (w + j - 1) % PIPESIZE = (r + (Between(r, w) + j) - 1) % PIPESIZE
<1> USE XvPipeAssumption
<1>1. Between(r, w) \in 0 .. UintSize - 1
  BY BetweenType
<1>2. r \in Int /\ w \in Int /\ k \in Int
  BY <1>1 DEF Counter
<1>3. Between(r, Advanced(w, k)) = Between(r, w) + k
  <2>1. (((w + k) % UintSize) + (-r)) % UintSize = ((w + k) + (-r)) % UintSize
    BY <1>2, Reduced, w + k \in Int, -r \in Int
  <2>2. (Between(r, w) + k) % UintSize = ((w - r) + k) % UintSize
    BY <1>2, Reduced, w - r \in Int DEF Between
  <2>3. (Between(r, w) + k) % UintSize = Between(r, w) + k
    BY <1>1, SmallRemainder, Between(r, w) + k \in 0 .. UintSize - 1
  <2>4. (w + k) % UintSize \in Int
    BY <1>2, Division, w + k \in Int
  <2>5. ((w + k) % UintSize) - r = ((w + k) % UintSize) + (-r) /\ (w + k) + (-r) = (w - r) + k
    BY <1>2, <2>4
  <2> QED  BY <2>1, <2>2, <2>3, <2>5 DEF Between, Advanced
<1>4. ASSUME NEW j \in Int
      PROVE  (w + j - 1) % PIPESIZE = (r + (Between(r, w) + j) - 1) % PIPESIZE
  <2>1. w - r \in Int /\ r + j - 1 \in Int
    BY <1>2
  <2>2. (((w - r) % UintSize) + (r + j - 1)) % PIPESIZE = ((w - r) + (r + j - 1)) % PIPESIZE
    BY Zenon, RingSizes, ReducedToo, <2>1
  <2>3. Between(r, w) + (r + j - 1) = r + (Between(r, w) + j) - 1
    BY <1>1, <1>2
  <2>4. (w - r) + (r + j - 1) = w + j - 1
    BY <1>2
  <2> QED  BY <2>2, <2>3, <2>4 DEF Between
<1> QED  BY <1>3, <1>4

LEMMA CountIs == Count = Between(pipe.nread, pipe.nwrite)
BY DEF Count, Between

-----------------------------------------------------------------------------
\* The process table

Entry == [state : State, pid : Nat, parent : 0 .. NPROC, chan : 0 .. NPROC + 2, killed : BOOLEAN]
ProcInv == ProcTypeOK /\ Family /\ Pids /\ Forks

\* What a wakeup of c leaves of the slot s.
Awake(t, u, s, c) == IF t[s].state = "SLEEPING" /\ t[s].chan = c
                     THEN /\ u[s].state = "RUNNABLE" /\ u[s].chan = 0
                          /\ u[s].pid = t[s].pid /\ u[s].parent = t[s].parent
                          /\ u[s].killed = t[s].killed
                     ELSE u[s] = t[s]

LEMMA Wakes ==
  ASSUME NEW t \in [Slots -> Entry], NEW c
  PROVE  /\ Wakeup1(t, c) \in [Slots -> Entry]
         /\ \A s \in Slots : Awake(t, Wakeup1(t, c), s, c)
<1> DEFINE u == Wakeup1(t, c)
<1>1. \A s \in Slots : u[s] = IF t[s].state = "SLEEPING" /\ t[s].chan = c
                               THEN [t[s] EXCEPT !.state = "RUNNABLE", !.chan = 0] ELSE t[s]
  BY DEF Wakeup1
<1>2. \A s \in Slots : u[s] \in Entry /\ Awake(t, u, s, c)
  <2> SUFFICES ASSUME NEW s \in Slots PROVE u[s] \in Entry /\ Awake(t, u, s, c)
    OBVIOUS
  <2> HIDE DEF u
  <2>1. t[s] \in Entry /\ 0 \in 0 .. NPROC + 2 /\ "RUNNABLE" \in State
    BY XvProcAssumption DEF State
  <2> QED  BY <1>1, <2>1 DEF Awake, Entry
<1>3. u \in [Slots -> Entry]
  <2>1. u = [s \in Slots |-> u[s]]
    BY DEF Wakeup1
  <2> HIDE DEF u
  <2> QED  BY <1>2, <2>1
<1> QED  BY <1>2, <1>3

\* A change of the table in which processes fall asleep or wake up at most.
Stirs == /\ proc' \in [Slots -> Entry]
         /\ \A s \in Slots : /\ proc'[s].pid = proc[s].pid /\ proc'[s].parent = proc[s].parent
                             /\ \/ proc'[s].state = proc[s].state
                                \/ Alive(s) /\ Alive(s)'

LEMMA WakesStir ==
  ASSUME ProcTypeOK, NEW c, proc' = Wakeup1(proc, c)
  PROVE  /\ Stirs
         /\ \A s \in Slots : proc[s].state # "SLEEPING" => proc'[s] = proc[s]
         /\ \A s \in Slots : proc'[s].state = "SLEEPING" => proc'[s] = proc[s] /\ proc[s].chan # c
         /\ \A s \in Slots : Alive(s)' = Alive(s)
<1>1. proc \in [Slots -> Entry]
  BY DEF ProcTypeOK, Entry
<1>2. proc' \in [Slots -> Entry] /\ \A s \in Slots : Awake(proc, proc', s, c)
  BY <1>1, Wakes
<1> QED  BY <1>2 DEF Awake, Stirs, Alive

LEMMA InitSlot == initproc \in Slots /\ 0 \notin Slots
BY XvProcAssumption DEF Slots, initproc

LEMMA StirsKeeps ==
  ASSUME ProcInv, Stirs, nextpid' = nextpid, kills' \in Nat, np' = np, pc' \in [Slots -> Place],
         \A p \in Slots : np[p] # 0 => pc'[p] = pc[p] /\ proc'[p].state = proc[p].state
  PROVE  ProcInv'
<1> USE DEF ProcInv, Stirs
<1>1. ProcTypeOK'
  BY DEF ProcTypeOK, Entry
<1>3. Family'
  BY InitSlot DEF Family, Alive
<1>4. Pids'
  <2>1. Unused' = Unused
    BY DEF Unused, Alive
  <2> QED  BY <2>1 DEF Pids
<1>5. Forks'
  <2> SUFFICES ASSUME NEW p \in Slots, np[p] # 0
               PROVE  /\ pc'[p] = "fork" /\ proc'[p].state = "RUNNABLE"
                      /\ proc'[np[p]].state = "EMBRYO"
                      /\ \A q \in Slots : np[q] = np[p] => q = p
    BY DEF Forks
  <2>1. np[p] \in Slots
    BY DEF ProcTypeOK, Slots
  <2> QED  BY <2>1 DEF Forks, Alive
<1> QED  BY <1>1, <1>3, <1>4, <1>5

\* The steps that leave the table alone, and move one process that makes no other.
LEMMA MovesKeep ==
  ASSUME ProcInv, NEW p \in Slots, np[p] = 0, NEW place \in Place,
         pc' = [pc EXCEPT ![p] = place], UNCHANGED <<table, np>>, kills' \in Nat
  PROVE  ProcInv'
<1>1. Stirs
  BY DEF ProcInv, ProcTypeOK, Stirs, table, Entry
<1>2. pc' \in [Slots -> Place] /\ \A q \in Slots : np[q] # 0 => pc'[q] = pc[q]
  BY DEF ProcInv, ProcTypeOK
<1> QED  BY <1>1, <1>2, StirsKeeps DEF table

LEMMA AllocKeeps ==
  ASSUME ProcInv, NEW p \in Slots, AllocProc(p)
  PROVE  /\ ProcInv'
         /\ \A s \in Slots : Alive(s)' = Alive(s)
         /\ \A s \in Slots : /\ proc[s].parent = proc'[s].parent
                             /\ Alive(s) => proc'[s] = proc[s]
                             /\ proc'[s].state = "ZOMBIE" <=> proc[s].state = "ZOMBIE"
<1> USE DEF ProcInv
<1>1. CASE Unused = {}
  <2>1. ProcInv'
    BY <1>1, MovesKeep DEF AllocProc, ProcTypeOK, Place, table
  <2> QED  BY <1>1, <2>1 DEF AllocProc, table, Alive
<1>2. CASE Unused # {}
  <2> DEFINE s == CHOOSE u \in Unused : \A v \in Unused : u <= v
  <2>1. s \in Slots /\ proc[s].state = "UNUSED"
    <3>1. \E u \in Unused : \A v \in Unused : u <= v
      BY <1>2, LeastElement, Unused \in SUBSET Nat DEF Unused, Slots
    <3> QED  BY <3>1 DEF Unused
  <2> HIDE DEF s
  <2>2. /\ proc' = [proc EXCEPT ![s].state = "EMBRYO", ![s].pid = nextpid]
        /\ nextpid' = nextpid + 1 /\ np' = [np EXCEPT ![p] = s]
        /\ pc' = pc /\ kills' = kills /\ np[p] = 0
        /\ pc[p] = "fork" /\ proc[p].state = "RUNNABLE"
    BY <1>2 DEF AllocProc, s, In
  <2>3. \A q \in Slots \ {s} : proc'[q] = proc[q]
    BY <2>1, <2>2 DEF ProcTypeOK
  <2>4. /\ proc'[s].state = "EMBRYO" /\ proc'[s].pid = nextpid
        /\ proc'[s].parent = proc[s].parent
    BY <2>1, <2>2 DEF ProcTypeOK
  <2>5. ProcTypeOK'
    <3>1. proc' \in [Slots -> Entry]
      <4>1. proc'[s] = [proc[s] EXCEPT !.state = "EMBRYO", !.pid = nextpid]
        BY <2>1, <2>2 DEF ProcTypeOK
      <4>2. proc'[s] \in Entry
        BY <2>1, <4>1, "EMBRYO" \in State DEF ProcTypeOK, State, Entry
      <4>3. proc' = [q \in Slots |-> proc'[q]]
        BY <2>2 DEF ProcTypeOK
      <4> QED  BY <2>3, <4>2, <4>3 DEF ProcTypeOK, Entry
    <3>2. np' \in [Slots -> 0 .. NPROC]
      BY <2>1, <2>2 DEF ProcTypeOK, Slots
    <3> QED  BY <2>2, <3>1, <3>2 DEF ProcTypeOK, Entry
  <2>6. Family'
    BY <2>1, <2>3, <2>4, InitSlot DEF Family, Alive
  <2>7. Pids'
    <3>1. \A q \in Slots : proc[q].pid < nextpid /\ proc[q].pid \in Nat
      BY DEF Pids, ProcTypeOK
    <3>2. Slots \ Unused' = (Slots \ Unused) \cup {s}
      BY <2>1, <2>3, <2>4 DEF Unused
    <3> QED  BY <2>1, <2>2, <2>3, <2>4, <3>1, <3>2 DEF Pids, ProcTypeOK
  <2>8. Forks'
    <3> SUFFICES ASSUME NEW q \in Slots, np'[q] # 0
                 PROVE  /\ pc'[q] = "fork" /\ proc'[q].state = "RUNNABLE"
                        /\ proc'[np'[q]].state = "EMBRYO"
                        /\ \A r \in Slots : np'[r] = np'[q] => r = q
      BY DEF Forks
    <3>1. \A r \in Slots \ {p} : np'[r] = np[r]
      BY <2>2 DEF ProcTypeOK
    <3>2. np'[p] = s
      BY <2>2 DEF ProcTypeOK
    <3>3. \A r \in Slots : np[r] # s
      BY <2>1 DEF Forks, Slots
    <3>4. \A r \in Slots : np[r] = 0 \/ np[r] \in Slots
      BY DEF ProcTypeOK, Slots
    <3>5. CASE q = p
      BY <2>1, <2>2, <2>3, <2>4, <3>1, <3>2, <3>3, <3>5
    <3>6. CASE q # p
      <4>1. np'[q] = np[q] /\ np[q] # s /\ np[q] \in Slots
        BY <3>1, <3>3, <3>4, <3>6
      <4>2. /\ pc[q] = "fork" /\ proc[q].state = "RUNNABLE" /\ proc[np[q]].state = "EMBRYO"
            /\ \A r \in Slots : np[r] = np[q] => r = q
        BY <4>1, InitSlot DEF Forks
      <4> QED  BY <2>1, <2>2, <2>3, <3>1, <3>2, <4>1, <4>2
    <3> QED  BY <3>5, <3>6
  <2> QED  BY <2>1, <2>3, <2>4, <2>5, <2>6, <2>7, <2>8 DEF Alive
<1> QED  BY <1>1, <1>2

LEMMA ForkFailsKeeps ==
  ASSUME ProcInv, NEW p \in Slots, ForkFails(p)
  PROVE  /\ ProcInv'
         /\ \A s \in Slots : Alive(s)' = Alive(s)
         /\ \A s \in Slots : /\ proc[s].parent = proc'[s].parent
                             /\ Alive(s) => proc'[s] = proc[s]
                             /\ proc'[s].state = "ZOMBIE" <=> proc[s].state = "ZOMBIE"
<1> USE DEF ProcInv
<1> DEFINE c == np[p]
<1>1. /\ c \in Slots /\ proc[c].state = "EMBRYO"
      /\ \A q \in Slots : np[q] = c => q = p
  BY DEF ForkFails, Forks, ProcTypeOK, Slots
<1>2. /\ proc' = [proc EXCEPT ![c].state = "UNUSED"]
      /\ np' = [np EXCEPT ![p] = 0] /\ pc' = [pc EXCEPT ![p] = "user"]
      /\ nextpid' = nextpid /\ kills' = kills
  BY DEF ForkFails
<1> HIDE DEF c
<1>3. \A q \in Slots \ {c} : proc'[q] = proc[q]
  BY <1>1, <1>2 DEF ProcTypeOK
<1>4. /\ proc'[c].state = "UNUSED" /\ proc'[c].pid = proc[c].pid
      /\ proc'[c].parent = proc[c].parent
  BY <1>1, <1>2 DEF ProcTypeOK
<1>5. ProcTypeOK'
  <2>1. proc' \in [Slots -> Entry]
    BY <1>1, <1>2, "UNUSED" \in State DEF ProcTypeOK, State, Entry
  <2>2. np' \in [Slots -> 0 .. NPROC] /\ pc' \in [Slots -> Place]
    <3>1. 0 \in 0 .. NPROC /\ "user" \in Place
      BY XvProcAssumption DEF Place
    <3> QED  BY <1>2, <3>1 DEF ProcTypeOK
  <2> QED  BY <1>2, <2>1, <2>2 DEF ProcTypeOK, Entry
<1>6. Family'
  BY <1>1, <1>3, <1>4, InitSlot DEF Family, Alive
<1>7. Pids'
  BY <1>1, <1>2, <1>3, <1>4 DEF Pids, Unused
<1>8. Forks'
  <2>1. \A q \in Slots \ {p} : np'[q] = np[q] /\ pc'[q] = pc[q]
    BY <1>2 DEF ProcTypeOK
  <2>2. np'[p] = 0
    BY <1>2 DEF ProcTypeOK
  <2>3. \A q \in Slots \ {p} : np[q] # 0 => q # c /\ np[q] # c /\ np[q] \in Slots
    BY <1>1 DEF Forks, ProcTypeOK, Slots
  <2> QED  BY <1>3, <2>1, <2>2, <2>3 DEF Forks
<1> QED  BY <1>1, <1>3, <1>4, <1>5, <1>6, <1>7, <1>8 DEF Alive

LEMMA ForkKeeps ==
  ASSUME ProcInv, NEW p \in Slots, ForkChild(p)
  PROVE  /\ ProcInv'
         /\ np[p] \in Slots \ {p} /\ ~Alive(np[p]) /\ proc[p].state = "RUNNABLE"
         /\ \A s \in Slots \ {np[p]} : proc'[s] = proc[s]
         /\ proc'[np[p]].state = "RUNNABLE" /\ proc'[np[p]].parent = p
<1> USE DEF ProcInv
<1> DEFINE c == np[p]
<1>1. /\ c \in Slots /\ proc[c].state = "EMBRYO" /\ c # p
      /\ \A q \in Slots : np[q] = c => q = p
      /\ pc[p] = "fork" /\ proc[p].state = "RUNNABLE"
  BY DEF ForkChild, Forks, ProcTypeOK, Slots
<1>2. /\ proc' = [proc EXCEPT ![c].parent = p, ![c].state = "RUNNABLE"]
      /\ np' = [np EXCEPT ![p] = 0] /\ pc' = [pc EXCEPT ![p] = "user", ![c] = "user"]
      /\ nextpid' = nextpid /\ kills' = kills
  BY DEF ForkChild
<1>3. \A q \in Slots \ {c} : proc'[q] = proc[q]
  BY <1>1, <1>2 DEF ProcTypeOK
<1>4. proc'[c] = [proc[c] EXCEPT !.parent = p, !.state = "RUNNABLE"]
  BY <1>1, <1>2 DEF ProcTypeOK
<1>5. /\ proc'[c].state = "RUNNABLE" /\ proc'[c].pid = proc[c].pid /\ proc'[c].parent = p
  BY <1>1, <1>4 DEF ProcTypeOK
<1>6. ProcTypeOK'
  <2>1. p \in 0 .. NPROC /\ "RUNNABLE" \in State /\ "user" \in Place /\ 0 \in 0 .. NPROC
    BY XvProcAssumption DEF Slots, State, Place
  <2>2. proc'[c] \in Entry
    BY <1>1, <1>4, <2>1 DEF ProcTypeOK, Entry
  <2>3. proc' = [q \in Slots |-> proc'[q]]
    BY <1>2 DEF ProcTypeOK
  <2>4. proc' \in [Slots -> Entry]
    BY <1>3, <2>2, <2>3 DEF ProcTypeOK, Entry
  <2>5. np' \in [Slots -> 0 .. NPROC]
    BY <1>2, <2>1 DEF ProcTypeOK
  <2>6. pc' \in [Slots -> Place]
    BY <1>2, <2>1 DEF ProcTypeOK
  <2> QED  BY <1>2, <2>4, <2>5, <2>6 DEF ProcTypeOK, Entry
<1> HIDE DEF c
<1>7. Family'
  BY <1>1, <1>3, <1>5, InitSlot DEF Family, Alive
<1>8. Pids'
  <2>1. Slots \ Unused' = Slots \ Unused
    BY <1>1, <1>3, <1>5 DEF Unused
  <2>2. \A q \in Slots : proc'[q].pid = proc[q].pid
    BY <1>3, <1>5
  <2> QED  BY <1>2, <2>1, <2>2 DEF Pids
<1>9. Forks'
  <2>1. \A q \in Slots \ {p, c} : np'[q] = np[q] /\ pc'[q] = pc[q]
    BY <1>2 DEF ProcTypeOK
  <2>2. np'[p] = 0 /\ np'[c] = 0
    <3>1. np[c] = 0
      BY <1>1 DEF Forks
    <3> QED  BY <1>1, <1>2, <3>1 DEF ProcTypeOK
  <2>3. \A q \in Slots \ {p} : np[q] # 0 => q # c /\ np[q] # c /\ np[q] \in Slots
    BY <1>1 DEF Forks, ProcTypeOK, Slots
  <2> QED  BY <1>3, <2>1, <2>2, <2>3 DEF Forks
<1> QED  BY <1>1, <1>3, <1>5, <1>6, <1>7, <1>8, <1>9 DEF Alive, c

\* The table after ExitLast.
LEMMA ExitTable ==
  ASSUME ProcInv, NEW p \in Slots, ExitLast(p)
  PROVE  /\ proc' \in [Slots -> Entry]
         /\ proc'[p].state = "ZOMBIE" /\ proc'[p].parent = proc[p].parent
         /\ \A s \in Slots :
              /\ proc'[s].pid = proc[s].pid
              /\ proc'[s].parent = IF proc[s].parent = p THEN initproc ELSE proc[s].parent
         /\ \A s \in Slots \ {p} :
              /\ \/ proc'[s].state = proc[s].state
                 \/ proc[s].state = "SLEEPING" /\ proc'[s].state = "RUNNABLE"
              /\ proc'[s].state = "SLEEPING" =>
                   /\ proc[s].state = "SLEEPING" /\ proc'[s].chan = proc[s].chan
                   /\ proc[s].chan # proc[p].parent
                   /\ proc[s].chan = initproc =>
                        \A o \in Slots \ {p} : proc[o].parent = p => proc[o].state # "ZOMBIE"
<1> USE DEF ProcInv
<1> DEFINE t == Wakeup1(proc, proc[p].parent)
           orphans == {s \in Slots : t[s].parent = p}
           passed == [s \in Slots |-> IF s \in orphans THEN [t[s] EXCEPT !.parent = initproc] ELSE t[s]]
           last == IF \E s \in orphans : t[s].state = "ZOMBIE" THEN Wakeup1(passed, initproc) ELSE passed
<1>1. proc' = [last EXCEPT ![p].state = "ZOMBIE"] /\ p # initproc
  BY DEF ExitLast, Abandon
<1>2. proc[p].state = "RUNNABLE" /\ proc[p].parent # p
  BY DEF ExitLast, In, Family
<1>3. t \in [Slots -> Entry] /\ \A s \in Slots : Awake(proc, t, s, proc[p].parent)
  BY Wakes DEF ProcTypeOK, Entry
<1>4. initproc \in 0 .. NPROC
  BY InitSlot DEF Slots
<1> HIDE DEF t
<1>5. \A s \in Slots : /\ t[s].parent = proc[s].parent /\ t[s].pid = proc[s].pid
                       /\ t[s].state = "ZOMBIE" <=> proc[s].state = "ZOMBIE"
  BY <1>3 DEF Awake
<1>6. passed \in [Slots -> Entry]
  BY <1>3, <1>4 DEF Entry
<1>7. \A s \in Slots : /\ passed[s].state = t[s].state /\ passed[s].chan = t[s].chan
                       /\ passed[s].pid = t[s].pid
                       /\ passed[s].parent = IF t[s].parent = p THEN initproc ELSE t[s].parent
  BY <1>3 DEF Entry
<1> HIDE DEF passed
<1>8. /\ last \in [Slots -> Entry]
      /\ \A s \in Slots :
           /\ last[s].pid = passed[s].pid /\ last[s].parent = passed[s].parent
           /\ \/ last[s].state = passed[s].state
              \/ passed[s].state = "SLEEPING" /\ last[s].state = "RUNNABLE"
           /\ last[s].state = "SLEEPING" =>
                /\ last[s] = passed[s]
                /\ passed[s].chan = initproc => ~\E o \in orphans : t[o].state = "ZOMBIE"
  <2>1. CASE \E o \in orphans : t[o].state = "ZOMBIE"
    <3>1. last = Wakeup1(passed, initproc)
      BY <2>1
    <3>2. last \in [Slots -> Entry] /\ \A s \in Slots : Awake(passed, last, s, initproc)
      BY <1>6, <3>1, Wakes
    <3> HIDE DEF last
    <3> QED  BY <3>2 DEF Awake
  <2>2. CASE ~\E o \in orphans : t[o].state = "ZOMBIE"
    BY <1>6, <2>2
  <2> QED  BY <2>1, <2>2
<1>9. \A o \in Slots : o \in orphans <=> proc[o].parent = p
  BY <1>5
<1> HIDE DEF last, orphans
<1>10. \A s \in Slots : proc'[s] = IF s = p THEN [last[p] EXCEPT !.state = "ZOMBIE"] ELSE last[s]
  BY <1>1, <1>8
<1>11. proc' \in [Slots -> Entry]
  <2>1. proc' = [s \in Slots |-> proc'[s]]
    BY <1>1, <1>8
  <2>2. \A s \in Slots : proc'[s] \in Entry
    BY <1>8, <1>10, "ZOMBIE" \in State DEF Entry, State
  <2> QED  BY <2>1, <2>2
<1>12. /\ proc'[p].state = "ZOMBIE"
       /\ proc'[p].pid = last[p].pid /\ proc'[p].parent = last[p].parent
  BY <1>8, <1>10 DEF Entry
<1>13. \A s \in Slots :
         /\ proc'[s].pid = proc[s].pid
         /\ proc'[s].parent = IF proc[s].parent = p THEN initproc ELSE proc[s].parent
  BY <1>5, <1>7, <1>8, <1>10, <1>12
<1>14. ASSUME NEW s \in Slots \ {p}
       PROVE  /\ \/ proc'[s].state = proc[s].state
                 \/ proc[s].state = "SLEEPING" /\ proc'[s].state = "RUNNABLE"
              /\ proc'[s].state = "SLEEPING" =>
                   /\ proc[s].state = "SLEEPING" /\ proc'[s].chan = proc[s].chan
                   /\ proc[s].chan # proc[p].parent
                   /\ proc[s].chan = initproc =>
                        \A o \in Slots \ {p} : proc[o].parent = p => proc[o].state # "ZOMBIE"
  <2>1. proc'[s] = last[s]
    BY <1>10
  <2>2. Awake(proc, t, s, proc[p].parent)
    BY <1>3
  <2> QED  BY <2>1, <2>2, <1>5, <1>7, <1>8, <1>9 DEF Awake
<1> QED  BY <1>2, <1>11, <1>12, <1>13, <1>14

LEMMA ExitKeeps ==
  ASSUME ProcInv, NEW p \in Slots, ExitLast(p)
  PROVE  ProcInv'
<1> USE DEF ProcInv
<1>1. UNCHANGED <<nextpid, pc, np, kills>> /\ p # initproc /\ pc[p] = "exit" /\ proc[p].state = "RUNNABLE"
  BY DEF ExitLast, In
<1>2. ProcTypeOK'
  BY <1>1, ExitTable DEF ProcTypeOK, Entry
<1>3. \A s \in Slots : s # p => (Alive(s)' <=> Alive(s))
  BY ExitTable DEF Alive
<1>4. Family'
  <2>1. Alive(initproc)' /\ proc'[initproc].parent = 0
    BY <1>1, <1>3, ExitTable, InitSlot DEF Family
  <2>2. \A s \in Slots : proc'[s].state \in {"UNUSED", "EMBRYO"} => proc'[s].parent = 0
    BY ExitTable, InitSlot DEF Family
  <2>3. ASSUME NEW s \in Slots \ {initproc}, proc'[s].state \notin {"UNUSED", "EMBRYO"}
        PROVE  /\ proc'[s].parent \in Slots \ {s}
               /\ proc'[proc'[s].parent].state \in {"RUNNABLE", "SLEEPING"}
    <3>1. proc[s].state \notin {"UNUSED", "EMBRYO"}
      BY <1>1, <2>3, ExitTable
    <3>2. proc[s].parent \in Slots \ {s} /\ Alive(proc[s].parent)
      BY <3>1 DEF Family
    <3>3. CASE proc[s].parent = p
      BY <2>1, <3>3, ExitTable, InitSlot DEF Alive
    <3>4. CASE proc[s].parent # p
      BY <1>3, <3>2, <3>4, ExitTable DEF Alive
    <3> QED  BY <3>3, <3>4
  <2> QED  BY <2>1, <2>2, <2>3 DEF Family, Alive
<1>5. Pids'
  <2>1. Slots \ Unused' = Slots \ Unused
    BY <1>1, ExitTable DEF Unused
  <2> QED  BY <1>1, <2>1, ExitTable DEF Pids
<1>6. Forks'
  <2> SUFFICES ASSUME NEW q \in Slots, np[q] # 0
               PROVE  /\ pc[q] = "fork" /\ proc'[q].state = "RUNNABLE"
                      /\ proc'[np[q]].state = "EMBRYO"
                      /\ \A r \in Slots : np[r] = np[q] => r = q
    BY <1>1 DEF Forks
  <2>1. /\ pc[q] = "fork" /\ proc[q].state = "RUNNABLE" /\ proc[np[q]].state = "EMBRYO"
        /\ \A r \in Slots : np[r] = np[q] => r = q
    BY DEF Forks
  <2>2. q # p /\ np[q] \in Slots \ {p}
    BY <1>1, <2>1 DEF ProcTypeOK, Slots
  <2> QED  BY <2>1, <2>2, ExitTable
<1> QED  BY <1>2, <1>4, <1>5, <1>6

LEMMA WaitKeeps ==
  ASSUME ProcInv, NEW p \in Slots, Wait(p)
  PROVE  /\ ProcInv'
         /\ \A s \in Slots : pc'[s] \in {pc[s], "user"}
         /\ \A s \in Slots \ {p} :
              \/ proc'[s] = proc[s]
              \/ /\ proc[s].state = "ZOMBIE" /\ proc[s].parent = p
                 /\ proc'[s].state = "UNUSED" /\ proc'[s].parent = 0
         /\ \A s \in Slots \ {p} : proc[s].state # "ZOMBIE" => pc'[s] = pc[s]
         /\ proc[p].state = "RUNNABLE" /\ pc[p] = "wait"
         /\ proc'[p].parent = proc[p].parent
         /\ \/ proc'[p] = proc[p]
            \/ /\ proc'[p].state = "SLEEPING" /\ proc'[p].chan = p
               /\ Children(p)' # {} /\ Zombies(p)' = {}
<1> USE DEF ProcInv
<1>1. /\ UNCHANGED <<nextpid, np, kills>> /\ pc[p] = "wait" /\ proc[p].state = "RUNNABLE" /\ np[p] = 0
  BY DEF Wait, In, Forks
<1>2. CASE Zombies(p) # {}
  <2> DEFINE z == CHOOSE s \in Zombies(p) : \A v \in Zombies(p) : s <= v
  <2>1. z \in Slots /\ proc[z].state = "ZOMBIE" /\ proc[z].parent = p
    <3>1. Zombies(p) \in SUBSET Nat
      BY DEF Zombies, Children, Slots
    <3>2. \E s \in Zombies(p) : \A v \in Zombies(p) : s <= v
      BY <1>2, <3>1, LeastElement
    <3> QED  BY <3>2 DEF Zombies, Children
  <2>2. proc' = [proc EXCEPT ![z] = Free] /\ pc' = [pc EXCEPT ![p] = "user", ![z] = "user"]
    BY <1>2 DEF Wait
  <2> HIDE DEF z
  <2>3. z # p
    BY <1>1, <2>1
  <2>4. Free \in Entry /\ Free.state = "UNUSED" /\ Free.parent = 0 /\ Free.pid = 0
    BY XvProcAssumption DEF Free, Entry, State
  <2>5. proc'[z] = Free /\ \A s \in Slots \ {z} : proc'[s] = proc[s]
    BY <2>1, <2>2 DEF ProcTypeOK
  <2>6. /\ \A s \in Slots \ {p, z} : pc'[s] = pc[s]
        /\ pc'[p] = "user" /\ pc'[z] = "user"
    BY <2>1, <2>2, <2>3 DEF ProcTypeOK
  <2>7. ProcTypeOK'
    <3>1. proc' \in [Slots -> Entry]
      BY <2>1, <2>2, <2>4 DEF ProcTypeOK, Entry
    <3>2. pc' \in [Slots -> Place]
      BY <2>1, <2>2, "user" \in Place DEF ProcTypeOK, Place
    <3> QED  BY <1>1, <3>1, <3>2 DEF ProcTypeOK, Entry
  <2>8. Family'
    <3>1. /\ Alive(initproc)' /\ proc'[initproc].parent = 0
      BY <2>1, <2>5, InitSlot DEF Family, Alive
    <3>2. \A s \in Slots : proc'[s].state \in {"UNUSED", "EMBRYO"} => proc'[s].parent = 0
      BY <2>4, <2>5 DEF Family
    <3>3. ASSUME NEW s \in Slots \ {initproc}, proc'[s].state \notin {"UNUSED", "EMBRYO"}
          PROVE  /\ proc'[s].parent \in Slots \ {s}
                 /\ proc'[proc'[s].parent].state \in {"RUNNABLE", "SLEEPING"}
      <4>1. s # z
        BY <2>4, <2>5, <3>3
      <4>2. /\ proc[s].parent \in Slots \ {s} /\ Alive(proc[s].parent)
            /\ proc'[s] = proc[s]
        BY <2>5, <3>3, <4>1 DEF Family
      <4>3. proc[s].parent # z
        BY <2>1, <4>2 DEF Alive
      <4> QED  BY <2>5, <4>2, <4>3 DEF Alive
    <3> QED  BY <3>1, <3>2, <3>3 DEF Family, Alive
  <2>9. Pids'
    <3>1. \A s \in Slots : proc'[s].pid = proc[s].pid \/ proc'[s].pid = 0
      BY <2>4, <2>5
    <3>2. nextpid > 0
      BY <2>1 DEF Pids, ProcTypeOK
    <3>3. Slots \ Unused' = (Slots \ Unused) \ {z}
      BY <2>1, <2>4, <2>5 DEF Unused
    <3>4. \A s \in Slots \ Unused' : proc'[s].pid = proc[s].pid /\ s \in Slots \ Unused
      BY <2>5, <3>3
    <3>5. \A s \in Slots : proc'[s].pid < nextpid'
      BY <1>1, <3>1, <3>2 DEF Pids
    <3> QED  BY <3>4, <3>5 DEF Pids
  <2>10. Forks'
    <3> SUFFICES ASSUME NEW q \in Slots, np[q] # 0
                 PROVE  /\ pc'[q] = "fork" /\ proc'[q].state = "RUNNABLE"
                        /\ proc'[np[q]].state = "EMBRYO"
                        /\ \A r \in Slots : np[r] = np[q] => r = q
      BY <1>1 DEF Forks
    <3>1. /\ pc[q] = "fork" /\ proc[q].state = "RUNNABLE" /\ proc[np[q]].state = "EMBRYO"
          /\ \A r \in Slots : np[r] = np[q] => r = q
      BY DEF Forks
    <3>2. q \notin {p, z} /\ np[q] \in Slots \ {z}
      BY <1>1, <2>1, <3>1 DEF ProcTypeOK, Slots
    <3> QED  BY <2>5, <2>6, <3>1, <3>2
  <2> QED  BY <1>1, <2>1, <2>3, <2>4, <2>5, <2>6, <2>7, <2>8, <2>9, <2>10
<1>3. CASE Zombies(p) = {} /\ (Children(p) = {} \/ proc[p].killed)
  <2>1. proc' = proc /\ pc' = [pc EXCEPT ![p] = "user"]
    BY <1>3 DEF Wait
  <2>2. ProcInv'
    BY <1>1, <2>1, MovesKeep, "user" \in Place DEF ProcTypeOK, table, Place
  <2>3. \A s \in Slots \ {p} : pc'[s] = pc[s]
    BY <2>1 DEF ProcTypeOK
  <2>4. pc'[p] = "user"
    BY <2>1 DEF ProcTypeOK
  <2> QED  BY <1>1, <2>1, <2>2, <2>3, <2>4
<1>4. CASE Zombies(p) = {} /\ Children(p) # {} /\ ~proc[p].killed
  <2>1. proc' = [proc EXCEPT ![p].chan = p, ![p].state = "SLEEPING"] /\ pc' = pc
    BY <1>4 DEF Wait, Sleep
  <2>2. /\ proc'[p] = [proc[p] EXCEPT !.chan = p, !.state = "SLEEPING"]
        /\ \A s \in Slots \ {p} : proc'[s] = proc[s]
    BY <2>1 DEF ProcTypeOK
  <2>3. /\ proc'[p].state = "SLEEPING" /\ proc'[p].chan = p
        /\ proc'[p].pid = proc[p].pid /\ proc'[p].parent = proc[p].parent
    BY <2>2 DEF ProcTypeOK
  <2>4. proc' \in [Slots -> Entry]
    <3>1. p \in 0 .. NPROC + 2 /\ "SLEEPING" \in State
      BY XvProcAssumption DEF Slots, State
    <3>2. proc'[p] \in Entry
      BY <2>2, <3>1 DEF ProcTypeOK, Entry
    <3>3. proc' = [s \in Slots |-> proc'[s]]
      BY <2>1 DEF ProcTypeOK
    <3> QED  BY <2>2, <3>2, <3>3 DEF ProcTypeOK, Entry
  <2>5. Stirs
    BY <1>1, <2>2, <2>3, <2>4 DEF Stirs, Alive
  <2>6. ProcInv'
    <3>1. \A q \in Slots : np[q] # 0 => proc'[q].state = proc[q].state
      BY <1>1, <2>2
    <3> QED  BY <1>1, <2>1, <2>5, <3>1, StirsKeeps DEF ProcTypeOK
  <2>7. Children(p)' = Children(p)
    BY <2>2, <2>3 DEF Children
  <2>8. Zombies(p)' = {}
    <3>1. \A s \in Children(p) : proc[s].state # "ZOMBIE"
      BY <1>4 DEF Zombies
    <3>2. \A s \in Children(p) : proc'[s].state # "ZOMBIE"
      BY <2>2, <2>3, <3>1 DEF Children
    <3> QED  BY <2>7, <3>2 DEF Zombies
  <2> QED  BY <1>1, <1>4, <2>1, <2>2, <2>3, <2>6, <2>7, <2>8
<1> QED  BY <1>2, <1>3, <1>4

LEMMA KillKeeps ==
  ASSUME ProcInv, NEW p \in Slots, NEW k, Kill(p, k)
  PROVE  /\ ProcInv' /\ UNCHANGED <<nextpid, pc, np>>
         /\ \A s \in Slots :
              \/ proc'[s] = proc[s]
              \/ /\ proc'[s].parent = proc[s].parent
                 /\ proc'[s].state =
                      IF proc[s].state = "SLEEPING" THEN "RUNNABLE" ELSE proc[s].state
<1> USE DEF ProcInv
<1>1. UNCHANGED <<nextpid, pc, np>> /\ kills' \in Nat /\ KillPid(k)
  BY DEF Kill, ProcTypeOK
<1> DEFINE named == {s \in Slots : proc[s].pid = k}
           v == CHOOSE n \in named : \A m \in named : n <= m
<1>2. CASE named = {}
  <2>1. proc' = proc
    BY <1>1, <1>2 DEF KillPid
  <2>2. Stirs
    BY <2>1 DEF Stirs, ProcTypeOK, Entry
  <2>3. ProcInv'
    BY <1>1, <2>1, <2>2, StirsKeeps DEF ProcTypeOK
  <2> QED  BY <1>1, <2>1, <2>3
<1>3. CASE named # {}
  <2>1. v \in Slots
    <3>1. named \in SUBSET Nat
      BY DEF Slots
    <3>2. \E n \in named : \A m \in named : n <= m
      BY <1>3, <3>1, LeastElement
    <3> QED  BY <3>2
  <2>2. proc' = [proc EXCEPT ![v].killed = TRUE, ![v].chan = 0,
                             ![v].state = IF @ = "SLEEPING" THEN "RUNNABLE" ELSE @]
    BY <1>1, <1>3 DEF KillPid
  <2> HIDE DEF v
  <2>3. \A s \in Slots \ {v} : proc'[s] = proc[s]
    BY <2>1, <2>2 DEF ProcTypeOK
  <2>4. proc'[v] = [proc[v] EXCEPT !.killed = TRUE, !.chan = 0,
                             !.state = IF @ = "SLEEPING" THEN "RUNNABLE" ELSE @]
    BY <2>1, <2>2 DEF ProcTypeOK
  <2>5. /\ proc'[v].pid = proc[v].pid /\ proc'[v].parent = proc[v].parent
        /\ proc'[v].state = IF proc[v].state = "SLEEPING" THEN "RUNNABLE" ELSE proc[v].state
    BY <2>1, <2>4 DEF ProcTypeOK
  <2>6. proc' \in [Slots -> Entry]
    <3>1. 0 \in 0 .. NPROC + 2 /\ "RUNNABLE" \in State
      BY XvProcAssumption DEF State
    <3>2. proc'[v] \in Entry
      BY <2>1, <2>4, <3>1 DEF ProcTypeOK, Entry
    <3>3. proc' = [s \in Slots |-> proc'[s]]
      BY <2>2 DEF ProcTypeOK
    <3> QED  BY <2>3, <3>2, <3>3 DEF ProcTypeOK, Entry
  <2>7. Stirs
    BY <2>3, <2>5, <2>6 DEF Stirs, Alive
  <2>8. \A q \in Slots : np[q] # 0 => proc'[q].state = proc[q].state
    BY <2>3, <2>5 DEF Forks
  <2>9. ProcInv'
    BY <1>1, <2>7, <2>8, StirsKeeps DEF ProcTypeOK
  <2> QED  BY <1>1, <2>3, <2>5, <2>9
<1> QED  BY <1>2, <1>3

-----------------------------------------------------------------------------
\* Files and the ends of the pipe

LEMMA HoldersFinite ==
  ASSUME NEW f
  PROVE  /\ IsFiniteSet(Holders(f)) /\ Cardinality(Holders(f)) \in Nat
         /\ Cardinality(Holders(f)) = 0 <=> Holders(f) = {}
<1>1. IsFiniteSet(Slots) /\ IsFiniteSet(Fds)
  BY FS_Interval, XvProcAssumption, XvPipeAssumption DEF Slots, Fds
<1>2. IsFiniteSet(Slots \X Fds)
  BY <1>1, FS_Product
<1>3. IsFiniteSet(Holders(f))
  BY <1>2, FS_Subset, Holders(f) \in SUBSET (Slots \X Fds) DEF Holders
<1> QED  BY <1>3, FS_CardinalityType, FS_EmptySet

Opened(w) == IF w THEN pipe.writeopen ELSE pipe.readopen

\* Who has a descriptor of an end keeps it open.
LEMMA HasOpen ==
  ASSUME FilesTypeOK, Counts, NEW p \in Slots, NEW w \in BOOLEAN, Has(p, w)
  PROVE  Opened(w)
<1>1. PICK d \in Fds : ofile[p][d] # 0 /\ file[ofile[p][d]].writable = w
  BY DEF Has
<1>2. ofile[p][d] \in Files /\ <<p, d>> \in Holders(ofile[p][d])
  BY <1>1 DEF FilesTypeOK, Files, Holders
<1> QED  BY <1>1, <1>2 DEF Counts, Opened

\* What a step that leaves the files alone owes to the invariants about them.
LEMMA FilesKept ==
  ASSUME FilesTypeOK, NoFiles, Users, Counts, UNCHANGED files,
         UNCHANGED <<pipe.readopen, pipe.writeopen>>,
         \A s \in Slots : Alive(s) => Alive(s)' \/ OpenFds(s) = {},
         \A s \in Slots : pc'[s] \in {"read", "readSleeps", "write", "writeSleeps"} =>
            \/ pc'[s] \in {"read", "readSleeps"} /\ Has(s, FALSE)
            \/ pc'[s] \in {"write", "writeSleeps"} /\ Has(s, TRUE)
  PROVE  FilesTypeOK' /\ NoFiles' /\ Users' /\ Counts'
<1> USE DEF files
<1>1. FilesTypeOK'
  BY DEF FilesTypeOK
<1>2. NoFiles'
  BY DEF NoFiles, OpenFds
<1>3. \A s \in Slots, w \in BOOLEAN : Has(s, w)' = Has(s, w)
  BY DEF Has
<1>4. Users'
  BY <1>3 DEF Users
<1>5. \A f \in Files : Holders(f)' = Holders(f)
  BY DEF Holders
<1>6. Counts'
  BY <1>5 DEF Counts
<1> QED  BY <1>1, <1>2, <1>4, <1>6

\* sys_dup
LEMMA DupFiles ==
  ASSUME TypeOK, NoFiles, Users, Counts, NEW p \in Slots, NEW d \in Fds, Dup(p, d)
  PROVE  FilesTypeOK' /\ NoFiles' /\ Users' /\ Counts'
<1>1. PICK f \in Files : f = ofile[p][d] /\ <<p, d>> \in Holders(f) /\ Holders(f) # {}
  BY DEF Dup, TypeOK, FilesTypeOK, Files, Holders
<1>2. PICK e \in Fds : e = First(FreeFds(p)) /\ ofile[p][e] = 0
  <2>1. FreeFds(p) \in SUBSET Nat /\ FreeFds(p) # {}
    BY DEF Dup, FreeFds, Fds
  <2> QED  BY <2>1, FirstIsIn DEF FreeFds
<1>3. /\ ofile' = [ofile EXCEPT ![p][e] = f] /\ file' = [file EXCEPT ![f].ref = @ + 1]
      /\ UNCHANGED <<proc, pc, pipe>> /\ Alive(p)
  BY <1>1, <1>2 DEF Dup, procVars, table, stream, In, Alive
<1>4. /\ \A s \in Slots \ {p} : ofile'[s] = ofile[s]
      /\ \A x \in Fds \ {e} : ofile'[p][x] = ofile[p][x]
      /\ ofile'[p][e] = f
  BY <1>2, <1>3 DEF TypeOK, FilesTypeOK
<1>5. \A g \in Files : /\ file'[g].writable = file[g].writable
                       /\ file'[g].ref = IF g = f THEN file[g].ref + 1 ELSE file[g].ref
  BY <1>1, <1>3 DEF TypeOK, FilesTypeOK
<1>6. FilesTypeOK'
  <2>1. ofile' \in [Slots -> [Fds -> 0 .. NFILE]]
    BY <1>1, <1>2, <1>3 DEF TypeOK, FilesTypeOK, Files
  <2>2. file' \in [Files -> [ref : Nat, writable : BOOLEAN]]
    BY <1>1, <1>3 DEF TypeOK, FilesTypeOK
  <2> QED  BY <2>1, <2>2 DEF FilesTypeOK
<1>7. NoFiles'
  BY <1>3, <1>4 DEF NoFiles, Alive
<1>8. \A s \in Slots, x \in Fds : ofile'[s][x] = IF s = p /\ x = e THEN f ELSE ofile[s][x]
  BY <1>4
<1>9. ASSUME NEW s \in Slots, NEW w \in BOOLEAN, Has(s, w) PROVE Has(s, w)'
  <2>1. PICK x \in Fds : ofile[s][x] # 0 /\ file[ofile[s][x]].writable = w
    BY <1>9 DEF Has
  <2>2. ofile[s][x] \in Files
    BY <2>1 DEF TypeOK, FilesTypeOK, Files
  <2>3. ofile'[s][x] = ofile[s][x]
    BY <1>2, <1>8, <2>1
  <2>4. file'[ofile'[s][x]].writable = w
    BY <1>5, <2>1, <2>2, <2>3
  <2> QED  BY <2>1, <2>3, <2>4 DEF Has
<1>10. Users'
  BY <1>3, <1>9 DEF Users
<1>11. 0 \notin Files
  BY DEF Files
<1>12. \A u \in Slots \X Fds : ofile'[u[1]][u[2]] = IF u = <<p, e>> THEN f ELSE ofile[u[1]][u[2]]
  BY <1>8
<1>13. Holders(f)' = Holders(f) \cup {<<p, e>>} /\ <<p, e>> \notin Holders(f)
  BY <1>1, <1>2, <1>11, <1>12 DEF Holders
<1>14. \A g \in Files \ {f} : Holders(g)' = Holders(g)
  BY <1>2, <1>11, <1>12 DEF Holders
<1>15. Cardinality(Holders(f)') = Cardinality(Holders(f)) + 1
  BY <1>13, HoldersFinite, FS_AddElement
<1>16. \A g \in Files : Holders(g)' # {} <=> Holders(g) # {}
  BY <1>1, <1>13, <1>14
<1>17. \A g \in Files : file'[g].ref = Cardinality(Holders(g)')
  BY <1>5, <1>14, <1>15 DEF Counts
<1>18. Counts'
  <2>1. \A w \in BOOLEAN : (\E g \in Files : Holders(g)' # {} /\ file'[g].writable = w)
                             <=> \E g \in Files : Holders(g) # {} /\ file[g].writable = w
    BY <1>5, <1>16
  <2>2. \A g, h \in Files : /\ Holders(g)' # {} /\ Holders(h)' # {}
                            /\ file'[g].writable = file'[h].writable
                            => g = h
    BY <1>5, <1>16 DEF Counts
  <2> QED  BY <1>3, <1>17, <2>1, <2>2 DEF Counts
<1> QED  BY <1>6, <1>7, <1>10, <1>18

\* fileclose
LEMMA CloseFiles ==
  ASSUME TypeOK, Counts, NEW p \in Slots, NEW d \in Fds, ofile[p][d] # 0, FileClose(p, d)
  PROVE  /\ FilesTypeOK' /\ Counts'
         /\ \A s \in Slots \ {p} : ofile'[s] = ofile[s]
         /\ \A x \in Fds : ofile[p][x] = 0 => ofile'[p][x] = 0
         /\ \A s \in Slots \ {p}, w \in BOOLEAN : Has(s, w) => Has(s, w)'
         /\ \/ UNCHANGED <<pipe, proc>>
            \/ \E w \in BOOLEAN : Opened(w) /\ PipeClose(w)
<1>1. PICK f \in Files : f = ofile[p][d] /\ <<p, d>> \in Holders(f)
  BY DEF TypeOK, FilesTypeOK, Files, Holders
<1>2. /\ ofile' = [ofile EXCEPT ![p][d] = 0] /\ file' = [file EXCEPT ![f].ref = @ - 1]
      /\ IF file[f].ref = 1 THEN PipeClose(file[f].writable) ELSE UNCHANGED <<pipe, proc>>
  BY <1>1 DEF FileClose
<1>3. \A s \in Slots, x \in Fds : ofile'[s][x] = IF s = p /\ x = d THEN 0 ELSE ofile[s][x]
  BY <1>2 DEF TypeOK, FilesTypeOK
<1>4. 0 \notin Files
  BY DEF Files
<1>5. \A u \in Slots \X Fds : ofile'[u[1]][u[2]] = IF u = <<p, d>> THEN 0 ELSE ofile[u[1]][u[2]]
  BY <1>3
<1>6. Holders(f)' = Holders(f) \ {<<p, d>>}
  BY <1>1, <1>4, <1>5 DEF Holders
<1>7. \A g \in Files \ {f} : Holders(g)' = Holders(g)
  BY <1>1, <1>4, <1>5 DEF Holders
<1>8. /\ IsFiniteSet(Holders(f)) /\ Cardinality(Holders(f)) \in Nat \ {0}
      /\ Cardinality(Holders(f)') = Cardinality(Holders(f)) - 1
  BY <1>1, <1>6, HoldersFinite, FS_RemoveElement
<1>9. file[f].ref = Cardinality(Holders(f))
  BY DEF Counts
<1>10. \A g \in Files : /\ file'[g].writable = file[g].writable
                        /\ file'[g].ref = IF g = f THEN file[g].ref - 1 ELSE file[g].ref
  BY <1>1, <1>2 DEF TypeOK, FilesTypeOK
<1>11. FilesTypeOK'
  <2>1. ofile' \in [Slots -> [Fds -> 0 .. NFILE]]
    BY <1>2, XvPipeAssumption DEF TypeOK, FilesTypeOK
  <2>2. file[f].ref - 1 \in Nat
    BY <1>8, <1>9
  <2>3. file' \in [Files -> [ref : Nat, writable : BOOLEAN]]
    BY <1>1, <1>2, <2>2 DEF TypeOK, FilesTypeOK
  <2> QED  BY <2>1, <2>3 DEF FilesTypeOK
<1>12. \A g \in Files : file'[g].ref = Cardinality(Holders(g)')
  BY <1>7, <1>8, <1>9, <1>10 DEF Counts
<1>13. \A g, h \in Files : /\ Holders(g)' # {} /\ Holders(h)' # {}
                           /\ file'[g].writable = file'[h].writable
                           => g = h
  BY <1>6, <1>7, <1>10 DEF Counts
<1>14. \A s \in Slots \ {p}, v \in BOOLEAN : Has(s, v) => Has(s, v)'
  <2> SUFFICES ASSUME NEW s \in Slots \ {p}, NEW v \in BOOLEAN, Has(s, v) PROVE Has(s, v)'
    OBVIOUS
  <2>1. PICK x \in Fds : ofile[s][x] # 0 /\ file[ofile[s][x]].writable = v
    BY DEF Has
  <2>2. ofile[s][x] \in Files /\ ofile'[s][x] = ofile[s][x]
    BY <1>3, <2>1 DEF TypeOK, FilesTypeOK, Files
  <2> QED  BY <1>10, <2>1, <2>2 DEF Has
<1>15. CASE file[f].ref = 1
  <2> DEFINE w == file[f].writable
  <2>1. Holders(f)' = {}
    <3>1. Cardinality(Holders(f)') = 0 /\ IsFiniteSet(Holders(f)')
      BY <1>6, <1>8, <1>9, <1>15, FS_Subset, Holders(f)' \in SUBSET Holders(f)
    <3> QED  BY <3>1, FS_EmptySet
  <2>2. w \in BOOLEAN /\ Opened(w) /\ PipeClose(w)
    BY <1>1, <1>2, <1>15 DEF TypeOK, FilesTypeOK, Counts, Opened
  <2>3. \A v \in BOOLEAN : Opened(v)' = (v # w /\ Opened(v))
    BY <2>2 DEF PipeClose, Opened, TypeOK, PipeTypeOK
  <2>4. \A g \in Files : Holders(g)' # {} <=> Holders(g) # {} /\ file[g].writable # w
    BY <1>1, <1>7, <2>1 DEF Counts
  <2>5. \A v \in BOOLEAN : Opened(v)' <=> \E g \in Files : Holders(g)' # {} /\ file'[g].writable = v
    <3>1. \A v \in BOOLEAN : Opened(v) <=> \E g \in Files : Holders(g) # {} /\ file[g].writable = v
      BY DEF Counts, Opened
    <3> HIDE DEF w
    <3> QED  BY <1>10, <2>3, <2>4, <3>1
  <2>6. Counts'
    BY <1>12, <1>13, <2>5 DEF Counts, Opened
  <2>7. \E v \in BOOLEAN : Opened(v) /\ PipeClose(v)
    BY <2>2
  <2> QED  BY <1>2, <1>3, <1>11, <1>14, <2>6, <2>7 DEF TypeOK, FilesTypeOK
<1>16. CASE file[f].ref # 1
  <2>1. Holders(f)' # {}
    <3>1. Cardinality(Holders(f)') # 0
      BY <1>8, <1>9, <1>16
    <3> QED  BY <3>1, FS_EmptySet
  <2>2. UNCHANGED <<pipe, proc>>
    BY <1>2, <1>16
  <2>3. \A g \in Files : Holders(g)' # {} <=> Holders(g) # {}
    BY <1>1, <1>7, <2>1
  <2>4. Counts'
    <3>1. \A w \in BOOLEAN : (\E g \in Files : Holders(g)' # {} /\ file'[g].writable = w)
                               <=> \E g \in Files : Holders(g) # {} /\ file[g].writable = w
      BY <1>10, <2>3
    <3> QED  BY <1>12, <1>13, <2>2, <3>1 DEF Counts
  <2> QED  BY <1>2, <1>3, <1>11, <1>14, <2>2, <2>4 DEF TypeOK, FilesTypeOK
<1> QED  BY <1>15, <1>16

\* sys_pipe.  The ends of the last pipe are closed, so nobody is in a call on it.
LEMMA PipeFiles ==
  ASSUME TypeOK, NoFiles, Users, Counts, NEW p \in Slots, Pipe(p)
  PROVE  /\ FilesTypeOK' /\ NoFiles' /\ Users' /\ Counts'
         /\ \A s \in Slots : pc[s] \notin {"read", "readSleeps", "write", "writeSleeps"}
<1>1. \A f \in Files : Holders(f) = {}
  BY DEF Pipe, Counts, TypeOK, FilesTypeOK
<1>2. \A s \in Slots : pc[s] \notin {"read", "readSleeps", "write", "writeSleeps"}
  BY HasOpen DEF Pipe, Users, Opened, TypeOK
<1>3. ASSUME NEW S \in SUBSET Nat, Cardinality(S) >= 2
      PROVE  First(S) \in S /\ First(S \ {First(S)}) \in S \ {First(S)}
  <2>1. S # {} /\ \A x : S # {x}
    BY <1>3, FS_EmptySet, FS_Singleton
  <2>2. First(S) \in S
    BY <2>1, FirstIsIn
  <2> QED  BY <2>1, <2>2, FirstIsIn
<1>4. PICK rf, wf \in Files :
         rf = First(FreeFiles) /\ wf = First(FreeFiles \ {rf}) /\ rf # wf
  <2>1. FreeFiles \in SUBSET Nat /\ FreeFiles \subseteq Files /\ Cardinality(FreeFiles) >= 2
    BY DEF Pipe, FreeFiles, Files
  <2>2. /\ First(FreeFiles) \in FreeFiles
        /\ First(FreeFiles \ {First(FreeFiles)}) \in FreeFiles \ {First(FreeFiles)}
    BY <1>3, <2>1
  <2> QED  BY <2>1, <2>2
<1>5. PICK a, b \in Fds : a = First(FreeFds(p)) /\ b = First(FreeFds(p) \ {a}) /\ a # b
  <2>1. FreeFds(p) \in SUBSET Nat /\ FreeFds(p) \subseteq Fds /\ Cardinality(FreeFds(p)) >= 2
    BY DEF Pipe, FreeFds, Fds
  <2>2. /\ First(FreeFds(p)) \in FreeFds(p)
        /\ First(FreeFds(p) \ {First(FreeFds(p))}) \in FreeFds(p) \ {First(FreeFds(p))}
    BY <1>3, <2>1
  <2> QED  BY <2>1, <2>2
<1>6. /\ file' = [file EXCEPT ![rf] = [ref |-> 1, writable |-> FALSE],
                              ![wf] = [ref |-> 1, writable |-> TRUE]]
      /\ ofile' = [ofile EXCEPT ![p][a] = rf, ![p][b] = wf]
      /\ UNCHANGED <<proc, pc>> /\ Alive(p) /\ pipe'.readopen = TRUE /\ pipe'.writeopen = TRUE
  BY <1>4, <1>5 DEF Pipe, procVars, table, In, Alive, NoPipe
<1>7. \A s \in Slots, x \in Fds : ofile'[s][x] = IF s = p /\ x = a THEN rf
                                                  ELSE IF s = p /\ x = b THEN wf ELSE ofile[s][x]
  BY <1>5, <1>6 DEF TypeOK, FilesTypeOK
<1>8. /\ \A f \in Files \ {rf, wf} : file'[f] = file[f]
      /\ file'[rf] = [ref |-> 1, writable |-> FALSE] /\ file'[wf] = [ref |-> 1, writable |-> TRUE]
  BY <1>4, <1>6 DEF TypeOK, FilesTypeOK
<1>9. FilesTypeOK'
  <2>1. ofile' \in [Slots -> [Fds -> 0 .. NFILE]]
    BY <1>4, <1>5, <1>6 DEF TypeOK, FilesTypeOK, Files
  <2>2. file' \in [Files -> [ref : Nat, writable : BOOLEAN]]
    BY <1>4, <1>6 DEF TypeOK, FilesTypeOK
  <2> QED  BY <2>1, <2>2 DEF FilesTypeOK
<1>10. NoFiles'
  <2>1. \A s \in Slots : ~Alive(s)' => s # p /\ ~Alive(s)
    BY <1>6 DEF Alive
  <2>2. \A s \in Slots \ {p}, x \in Fds : ofile'[s][x] = ofile[s][x]
    BY <1>7
  <2> QED  BY <2>1, <2>2 DEF NoFiles
<1>11. Users'
  BY <1>2, <1>6 DEF Users
<1>12. \A s \in Slots, x \in Fds : ofile[s][x] = 0
  <2> SUFFICES ASSUME NEW s \in Slots, NEW x \in Fds, ofile[s][x] # 0 PROVE FALSE
    OBVIOUS
  <2>1. ofile[s][x] \in Files /\ <<s, x>> \in Holders(ofile[s][x])
    BY DEF TypeOK, FilesTypeOK, Files, Holders
  <2> QED  BY <1>1, <2>1
<1>13. \A u \in Slots \X Fds : ofile'[u[1]][u[2]] = IF u = <<p, a>> THEN rf
                                                     ELSE IF u = <<p, b>> THEN wf ELSE 0
  BY <1>5, <1>7, <1>12
<1>14. /\ Holders(rf)' = {<<p, a>>} /\ Holders(wf)' = {<<p, b>>}
       /\ \A f \in Files \ {rf, wf} : Holders(f)' = {}
  <2>1. 0 \notin Files
    BY DEF Files
  <2>2. Holders(rf)' = {<<p, a>>}
    BY <1>4, <1>5, <1>13, <2>1 DEF Holders
  <2>3. Holders(wf)' = {<<p, b>>}
    BY <1>4, <1>5, <1>13, <2>1 DEF Holders
  <2>4. \A f \in Files \ {rf, wf} : Holders(f)' = {}
    BY <1>13, <2>1 DEF Holders
  <2> QED  BY <2>2, <2>3, <2>4
<1>15. \A f \in Files : file'[f].ref = Cardinality(Holders(f)')
  <2>1. \A x : Cardinality({x}) = 1
    BY FS_Singleton
  <2>2. file'[rf].ref = 1 /\ file'[wf].ref = 1
    BY <1>8
  <2>3. Cardinality(Holders(rf)') = 1 /\ Cardinality(Holders(wf)') = 1
    BY <1>14, <2>1
  <2>4. \A f \in Files \ {rf, wf} : file'[f].ref = Cardinality(Holders(f)')
    BY <1>1, <1>8, <1>14 DEF Counts
  <2> QED  BY <2>2, <2>3, <2>4
<1>16. Counts'
  <2>1. \A f \in Files : Holders(f)' # {} <=> f \in {rf, wf}
    BY <1>14
  <2>2. file'[rf].writable = FALSE /\ file'[wf].writable = TRUE
    BY <1>8
  <2>3. \A w \in BOOLEAN : \E f \in Files : Holders(f)' # {} /\ file'[f].writable = w
    BY <2>1, <2>2
  <2>4. \A g, h \in Files : /\ Holders(g)' # {} /\ Holders(h)' # {}
                            /\ file'[g].writable = file'[h].writable
                            => g = h
    BY <2>1, <2>2
  <2> QED  BY <1>6, <1>15, <2>3, <2>4 DEF Counts
<1> QED  BY <1>2, <1>9, <1>10, <1>11, <1>16

\* fork: the child has the files of its parent.
LEMMA ForkFiles ==
  ASSUME TypeOK, ProcInv, NoFiles, Users, Counts, NEW p \in Slots, Fork(p)
  PROVE  FilesTypeOK' /\ NoFiles' /\ Users' /\ Counts'
<1> DEFINE uses(f) == {d \in Fds : ofile[p][d] = f}
<1>1. PICK c \in Slots \ {p} : c = np[p] /\ ~Alive(c)
  BY ForkKeeps DEF Fork
<1>2. /\ ofile' = [ofile EXCEPT ![c] = ofile[p]]
      /\ file' = [f \in Files |-> [file[f] EXCEPT !.ref = @ + Cardinality(uses(f))]]
      /\ pc' = [pc EXCEPT ![p] = "user", ![c] = "user"] /\ pipe' = pipe
  BY <1>1 DEF Fork, ForkChild, stream
<1>3. /\ ofile'[c] = ofile[p] /\ \A s \in Slots \ {c} : ofile'[s] = ofile[s]
      /\ \A x \in Fds : ofile[c][x] = 0
  BY <1>1, <1>2 DEF TypeOK, FilesTypeOK, NoFiles
<1>4. \A f \in Files : /\ IsFiniteSet(uses(f)) /\ Cardinality(uses(f)) \in Nat
                       /\ IsFiniteSet({c} \X uses(f))
                       /\ Cardinality({c} \X uses(f)) = Cardinality(uses(f))
  <2> SUFFICES ASSUME NEW f \in Files
               PROVE /\ IsFiniteSet(uses(f)) /\ Cardinality(uses(f)) \in Nat
                     /\ IsFiniteSet({c} \X uses(f))
                     /\ Cardinality({c} \X uses(f)) = Cardinality(uses(f))
    OBVIOUS
  <2>1. IsFiniteSet(Fds)
    BY FS_Interval, XvPipeAssumption DEF Fds
  <2>2. IsFiniteSet(uses(f)) /\ Cardinality(uses(f)) \in Nat
    BY <2>1, FS_Subset, FS_CardinalityType, uses(f) \in SUBSET Fds
  <2>3. IsFiniteSet({c}) /\ Cardinality({c}) = 1
    BY FS_Singleton
  <2> HIDE DEF uses
  <2>4. /\ IsFiniteSet({c} \X uses(f))
        /\ Cardinality({c} \X uses(f)) = Cardinality({c}) * Cardinality(uses(f))
    BY <2>2, <2>3, FS_Product
  <2> QED  BY <2>2, <2>3, <2>4
<1>5. \A f \in Files : /\ Holders(f)' = Holders(f) \cup ({c} \X uses(f))
                       /\ Holders(f) \cap ({c} \X uses(f)) = {}
                       /\ uses(f) # {} => Holders(f) # {}
  <2> SUFFICES ASSUME NEW f \in Files
               PROVE /\ Holders(f)' = Holders(f) \cup ({c} \X uses(f))
                     /\ Holders(f) \cap ({c} \X uses(f)) = {}
                     /\ uses(f) # {} => Holders(f) # {}
    OBVIOUS
  <2>1. f # 0
    BY DEF Files
  <2>2. \A u \in Slots \X Fds : u \in Holders(f)' <=> u \in Holders(f) \/ u \in {c} \X uses(f)
    <3> SUFFICES ASSUME NEW s \in Slots, NEW x \in Fds
                 PROVE  <<s, x>> \in Holders(f)'
                          <=> <<s, x>> \in Holders(f) \/ <<s, x>> \in {c} \X uses(f)
      OBVIOUS
    <3>1. <<s, x>> \in Holders(f)' <=> ofile'[s][x] = f
      BY DEF Holders
    <3>2. <<s, x>> \in Holders(f) <=> ofile[s][x] = f
      BY DEF Holders
    <3>3. <<s, x>> \in {c} \X uses(f) <=> s = c /\ ofile[p][x] = f
      OBVIOUS
    <3>4. CASE s = c
      BY <1>3, <2>1, <3>1, <3>2, <3>3, <3>4
    <3>5. CASE s # c
      BY <1>3, <3>1, <3>2, <3>3, <3>5
    <3> QED  BY <3>4, <3>5
  <2>3. /\ Holders(f) \subseteq Slots \X Fds /\ Holders(f)' \subseteq Slots \X Fds
        /\ {c} \X uses(f) \subseteq Slots \X Fds
    BY DEF Holders
  <2>4. Holders(f) \cap ({c} \X uses(f)) = {}
    BY <1>3, <2>1 DEF Holders
  <2>5. \A d \in uses(f) : <<p, d>> \in Holders(f)
    BY DEF Holders
  <2> HIDE DEF uses
  <2> QED  BY <2>2, <2>3, <2>4, <2>5
<1>6. \A f \in Files : /\ file'[f].writable = file[f].writable
                       /\ file'[f].ref = file[f].ref + Cardinality(uses(f))
  BY <1>2 DEF TypeOK, FilesTypeOK
<1>7. FilesTypeOK'
  <2>1. ofile' \in [Slots -> [Fds -> 0 .. NFILE]]
    BY <1>1, <1>2 DEF TypeOK, FilesTypeOK
  <2> HIDE DEF uses
  <2>2. file' \in [Files -> [ref : Nat, writable : BOOLEAN]]
    <3>1. \A f \in Files : file[f] \in [ref : Nat, writable : BOOLEAN]
      BY DEF TypeOK, FilesTypeOK
    <3>2. ASSUME NEW f \in Files PROVE file[f].ref + Cardinality(uses(f)) \in Nat
      <4>1. file[f].ref \in Nat
        BY <3>1
      <4>2. Cardinality(uses(f)) \in Nat
        BY <1>4, Zenon
      <4> QED  BY <4>1, <4>2
    <3> QED  BY <1>2, <3>1, <3>2
  <2> QED  BY <2>1, <2>2 DEF FilesTypeOK
<1>8. NoFiles'
  <2>1. /\ \A s \in Slots \ {c} : proc'[s] = proc[s]
        /\ proc'[c].state = "RUNNABLE"
    BY <1>1, ForkKeeps DEF Fork
  <2> QED  BY <1>3, <2>1 DEF NoFiles, Alive
<1>9. Users'
  <2>1. \A s \in Slots \ {c}, w \in BOOLEAN : Has(s, w) => Has(s, w)'
    <3> SUFFICES ASSUME NEW s \in Slots \ {c}, NEW w \in BOOLEAN, Has(s, w) PROVE Has(s, w)'
      OBVIOUS
    <3>1. PICK x \in Fds : ofile[s][x] # 0 /\ file[ofile[s][x]].writable = w
      BY DEF Has
    <3>2. ofile[s][x] \in Files /\ ofile'[s][x] = ofile[s][x]
      BY <1>3, <3>1 DEF TypeOK, FilesTypeOK, Files
    <3> QED  BY <1>6, <3>1, <3>2 DEF Has
  <2>2. \A s \in Slots \ {c} : pc'[s] \in {pc[s], "user"}
    BY <1>2 DEF TypeOK, ProcTypeOK
  <2>3. pc'[c] = "user"
    BY <1>1, <1>2 DEF TypeOK, ProcTypeOK
  <2> QED  BY <2>1, <2>2, <2>3 DEF Users
<1> HIDE DEF uses
<1>10. \A f \in Files : file'[f].ref = Cardinality(Holders(f)')
  <2> SUFFICES ASSUME NEW f \in Files PROVE file'[f].ref = Cardinality(Holders(f)')
    OBVIOUS
  <2>1. Cardinality(Holders(f) \cup ({c} \X uses(f)))
           = Cardinality(Holders(f)) + Cardinality({c} \X uses(f))
    <3>1. /\ IsFiniteSet(Holders(f)) /\ Cardinality(Holders(f)) \in Nat
          /\ Cardinality({c} \X uses(f)) \in Nat /\ Cardinality({}) = 0
          /\ Holders(f) \cap ({c} \X uses(f)) = {}
      BY <1>4, <1>5, HoldersFinite, FS_EmptySet
    <3>2. Cardinality(Holders(f) \cup ({c} \X uses(f)))
            = Cardinality(Holders(f)) + Cardinality({c} \X uses(f))
                - Cardinality(Holders(f) \cap ({c} \X uses(f)))
      BY <1>4, <3>1, FS_Union
    <3>3. Cardinality(Holders(f) \cap ({c} \X uses(f))) = 0
      BY <3>1
    <3> DEFINE all == Cardinality(Holders(f) \cup ({c} \X uses(f)))
               old == Cardinality(Holders(f))
               new == Cardinality({c} \X uses(f))
               both == Cardinality(Holders(f) \cap ({c} \X uses(f)))
    <3>4. old \in Nat /\ new \in Nat /\ both = 0 /\ all = old + new - both
      BY <3>1, <3>2, <3>3
    <3>5. SUFFICES all = old + new
      OBVIOUS
    <3> HIDE DEF all, old, new, both
    <3> QED  BY <3>4
  <2> QED  BY <1>4, <1>5, <1>6, <2>1 DEF Counts
<1>11. \A f \in Files : Holders(f)' # {} <=> Holders(f) # {}
  BY <1>5
<1>12. Counts'
  <2>1. \A w \in BOOLEAN : (\E g \in Files : Holders(g)' # {} /\ file'[g].writable = w)
                             <=> \E g \in Files : Holders(g) # {} /\ file[g].writable = w
    BY <1>6, <1>11
  <2>2. \A g, h \in Files : /\ Holders(g)' # {} /\ Holders(h)' # {}
                            /\ file'[g].writable = file'[h].writable
                            => g = h
    BY <1>6, <1>11 DEF Counts
  <2> QED  BY <1>2, <1>10, <2>1, <2>2 DEF Counts
<1> QED  BY <1>7, <1>8, <1>9, <1>12

-----------------------------------------------------------------------------
\* The pipe and its sleepers

PipePart == PipeTypeOK /\ Locked /\ Sleepers /\ InOrder
Sleepy == {"readSleeps", "writeSleeps"}

\* Who still sleeps as he did, and whose children have not given him reason to wake.
StillAsleep(s) == /\ proc[s].state = "SLEEPING" /\ proc'[s].chan = proc[s].chan /\ pc'[s] = pc[s]
                  /\ proc[s].chan = s /\ Children(s) # {} /\ Zombies(s) = {}
                       => Children(s)' # {} /\ Zombies(s)' = {}

\* Steps that do not touch the pipe.
LEMMA RestKeeps ==
  ASSUME PipePart, UNCHANGED <<stream, plock>>, left' \in [Slots -> Nat],
         \A s \in Slots : pc'[s] # pc[s] => pc[s] \notin Sleepy /\ pc'[s] \notin Sleepy,
         plock # 0 => proc'[plock].state = "RUNNABLE",
         \A s \in Slots : proc'[s].state = "SLEEPING" => Asleep(s)' \/ StillAsleep(s)
  PROVE  PipePart'
<1> USE DEF stream
<1>1. Count' = Count
  BY DEF Count
<1>2. PipeTypeOK'
  BY DEF PipePart, PipeTypeOK
<1>3. Locked'
  BY <1>1 DEF PipePart, Locked, Sleepy
<1>4. Sleepers'
  <2> SUFFICES ASSUME NEW s \in Slots, proc'[s].state = "SLEEPING", StillAsleep(s) PROVE Asleep(s)'
    BY DEF Sleepers
  <2>1. Asleep(s)
    BY DEF PipePart, Sleepers, StillAsleep
  <2>2. nreadChan' = nreadChan /\ nwriteChan' = nwriteChan
    BY DEF nreadChan, nwriteChan
  <2> QED  BY <1>1, <2>1, <2>2 DEF Asleep, StillAsleep
<1>5. InOrder'
  BY <1>1 DEF PipePart, InOrder, Under
<1> QED  BY <1>2, <1>3, <1>4, <1>5 DEF PipePart

\* A family that looks the same has not given its parent reason to wake.
LEMMA SameFamily ==
  ASSUME \A o \in Slots : /\ proc'[o].parent = proc[o].parent
                          /\ proc'[o].state = "ZOMBIE" <=> proc[o].state = "ZOMBIE"
  PROVE  \A s : Children(s)' = Children(s) /\ Zombies(s)' = Zombies(s)
<1>1. \A s : Children(s)' = Children(s)
  BY DEF Children
<1> QED  BY <1>1 DEF Zombies, Children

\* Whoever runs a call that is not about to sleep does not hold p->lock.
LEMMA NotLocked ==
  ASSUME Locked, PipeTypeOK, NEW p \in Slots
  PROVE  /\ pc[p] \in Sleepy <=> plock = p
         /\ p # 0
         /\ ~(proc[p].state = "RUNNABLE") => pc[p] \notin Sleepy
         /\ plock # 0 => plock \in Slots
<1>1. plock # 0 => plock \in Slots
  BY DEF PipeTypeOK, Slots
<1>2. p # 0
  BY DEF Slots
<1>3. (pc[p] \in Sleepy <=> plock = p) /\ (plock # 0 => proc[plock].state = "RUNNABLE")
  BY DEF Locked, Sleepy
<1> QED  BY <1>1, <1>2, <1>3

LEMMA Channels == /\ nreadChan \in 0 .. NPROC + 2 /\ nwriteChan \in 0 .. NPROC + 2
                  /\ nreadChan # nwriteChan /\ nreadChan \notin Slots /\ nwriteChan \notin Slots
BY XvProcAssumption DEF nreadChan, nwriteChan, Slots

LEMMA AllocRest ==
  ASSUME ProcInv, PipePart, NEW p \in Slots, AllocProc(p) \/ ForkFails(p), Rest
  PROVE  PipePart'
<1>1. /\ \A s \in Slots : Alive(s)' = Alive(s)
      /\ \A s \in Slots : /\ proc[s].parent = proc'[s].parent
                          /\ Alive(s) => proc'[s] = proc[s]
                          /\ proc'[s].state = "ZOMBIE" <=> proc[s].state = "ZOMBIE"
  BY AllocKeeps, ForkFailsKeeps
<1>2. \A s \in Slots : pc'[s] # pc[s] => pc[s] = "fork" /\ pc'[s] = "user"
  BY DEF AllocProc, ForkFails, In, ProcInv, ProcTypeOK
<1>3. \A s : Children(s)' = Children(s) /\ Zombies(s)' = Zombies(s)
  BY <1>1, SameFamily
<1>4. plock # 0 => proc'[plock].state = "RUNNABLE"
  BY <1>1, NotLocked DEF PipePart, Locked, Alive
<1>5. \A s \in Slots : proc'[s].state = "SLEEPING" =>
        proc[s].state = "SLEEPING" /\ proc'[s] = proc[s] /\ pc'[s] = pc[s]
  <2> SUFFICES ASSUME NEW s \in Slots, proc'[s].state = "SLEEPING"
               PROVE  proc[s].state = "SLEEPING" /\ proc'[s] = proc[s] /\ pc'[s] = pc[s]
    OBVIOUS
  <2>1. proc'[s] = proc[s]
    BY <1>1 DEF Alive
  <2>2. s # p
    BY <2>1 DEF AllocProc, ForkFails, In
  <2> QED  BY <2>1, <2>2 DEF AllocProc, ForkFails, ProcInv, ProcTypeOK
<1>6. \A s \in Slots : proc'[s].state = "SLEEPING" => StillAsleep(s)
  BY <1>3, <1>5 DEF StillAsleep
<1> QED  BY <1>2, <1>4, <1>6, RestKeeps DEF Rest, PipePart, PipeTypeOK, Sleepy

LEMMA WaitRest ==
  ASSUME ProcInv, PipePart, NEW p \in Slots, Wait(p), Rest
  PROVE  PipePart'
<1>1. /\ \A s \in Slots : pc'[s] \in {pc[s], "user"}
      /\ \A s \in Slots \ {p} :
           \/ proc'[s] = proc[s]
           \/ /\ proc[s].state = "ZOMBIE" /\ proc[s].parent = p
              /\ proc'[s].state = "UNUSED" /\ proc'[s].parent = 0
      /\ \A s \in Slots \ {p} : proc[s].state # "ZOMBIE" => pc'[s] = pc[s]
      /\ proc[p].state = "RUNNABLE" /\ pc[p] = "wait"
      /\ proc'[p].parent = proc[p].parent
      /\ \/ proc'[p] = proc[p]
         \/ /\ proc'[p].state = "SLEEPING" /\ proc'[p].chan = p
            /\ Children(p)' # {} /\ Zombies(p)' = {}
  BY WaitKeeps
<1>2. \A s \in Slots : pc'[s] # pc[s] => pc[s] \notin Sleepy /\ pc'[s] \notin Sleepy
  <2>1. \A s \in Slots : pc'[s] # pc[s] => (s = p \/ proc[s].state = "ZOMBIE")
    BY <1>1
  <2>2. \A s \in Slots : proc[s].state = "ZOMBIE" => pc[s] \notin Sleepy
    BY NotLocked DEF PipePart
  <2> QED  BY <1>1, <2>1, <2>2 DEF Sleepy
<1>3. plock # 0 => proc'[plock].state = "RUNNABLE"
  BY <1>1, NotLocked DEF PipePart, Locked, Sleepy
<1>4. ASSUME NEW s \in Slots, proc'[s].state = "SLEEPING"
      PROVE  Asleep(s)' \/ StillAsleep(s)
  <2>1. CASE s = p
    BY <1>1, <1>4, <2>1 DEF Asleep
  <2>2. CASE s # p
    <3>1. proc'[s] = proc[s] /\ pc'[s] = pc[s]
      BY <1>1, <1>4, <2>2
    <3>2. \A o \in Slots : proc[o].parent = s => proc'[o].parent = s
      BY <1>1, <2>2
    <3>3. \A o \in Slots : proc'[o].parent = s /\ proc'[o].state = "ZOMBIE"
                             => proc[o].parent = s /\ proc[o].state = "ZOMBIE"
      BY <1>1, InitSlot
    <3>4. Children(s) # {} => Children(s)' # {}
      BY <3>2 DEF Children
    <3>5. Zombies(s) = {} => Zombies(s)' = {}
      BY <3>3 DEF Zombies, Children
    <3> QED  BY <1>4, <3>1, <3>4, <3>5 DEF StillAsleep
  <2> QED  BY <2>1, <2>2
<1> QED  BY <1>2, <1>3, <1>4, RestKeeps DEF Rest, PipePart, PipeTypeOK

LEMMA KillRest ==
  ASSUME ProcInv, PipePart, NEW p \in Slots, NEW k, Kill(p, k), Rest
  PROVE  PipePart'
<1>1. /\ UNCHANGED pc
      /\ \A s \in Slots :
           \/ proc'[s] = proc[s]
           \/ /\ proc'[s].parent = proc[s].parent
              /\ proc'[s].state =
                   IF proc[s].state = "SLEEPING" THEN "RUNNABLE" ELSE proc[s].state
  BY KillKeeps
<1>2. \A s : Children(s)' = Children(s) /\ Zombies(s)' = Zombies(s)
  <2>1. \A o \in Slots : /\ proc'[o].parent = proc[o].parent
                         /\ proc'[o].state = "ZOMBIE" <=> proc[o].state = "ZOMBIE"
    BY <1>1
  <2> QED  BY <2>1, SameFamily
<1>3. plock # 0 => proc'[plock].state = "RUNNABLE"
  BY <1>1, NotLocked DEF PipePart, Locked
<1>4. \A s \in Slots : proc'[s].state = "SLEEPING" => proc'[s] = proc[s]
  BY <1>1
<1>5. \A s \in Slots : proc'[s].state = "SLEEPING" => StillAsleep(s)
  BY <1>1, <1>2, <1>4 DEF StillAsleep
<1> QED  BY <1>1, <1>3, <1>5, RestKeeps DEF Rest, PipePart, PipeTypeOK

LEMMA ForkRest ==
  ASSUME ProcInv, PipePart, NEW p \in Slots, ForkChild(p), UNCHANGED <<stream, plock, left>>
  PROVE  PipePart'
<1>1. PICK c \in Slots \ {p} :
        /\ c = np[p] /\ ~Alive(c) /\ proc[p].state = "RUNNABLE"
        /\ \A s \in Slots \ {c} : proc'[s] = proc[s]
        /\ proc'[c].state = "RUNNABLE" /\ proc'[c].parent = p
  BY ForkKeeps
<1>2. proc[c].parent = 0 /\ proc[c].state = "EMBRYO"
  BY <1>1, InitSlot DEF ForkChild, ProcInv, Forks, Family, In
<1>3. /\ \A s \in Slots \ {p, c} : pc'[s] = pc[s]
      /\ pc[p] = "fork" /\ pc'[p] = "user" /\ pc'[c] = "user"
  BY <1>1 DEF ForkChild, In, ProcInv, ProcTypeOK
<1>4. pc[c] \notin Sleepy
  BY <1>2, NotLocked DEF PipePart
<1>5. \A s \in Slots : pc'[s] # pc[s] => pc[s] \notin Sleepy /\ pc'[s] \notin Sleepy
  BY <1>3, <1>4 DEF Sleepy
<1>6. plock # 0 => proc'[plock].state = "RUNNABLE"
  BY <1>1, NotLocked DEF PipePart, Locked
<1>7. ASSUME NEW s \in Slots, proc'[s].state = "SLEEPING" PROVE StillAsleep(s)
  <2>1. s # c /\ s # p /\ proc'[s] = proc[s] /\ pc'[s] = pc[s]
    BY <1>1, <1>3, <1>7
  <2>2. Children(s) # {} => Children(s)' # {}
    BY <1>1, <1>2, <2>1, InitSlot DEF Children
  <2>3. Zombies(s) = {} => Zombies(s)' = {}
    BY <1>1, <2>1 DEF Zombies, Children
  <2> QED  BY <1>7, <2>1, <2>2, <2>3 DEF StillAsleep
<1> QED  BY <1>5, <1>6, <1>7, RestKeeps DEF PipePart, PipeTypeOK

LEMMA ExitRest ==
  ASSUME ProcInv, PipePart, NEW p \in Slots, ExitLast(p), UNCHANGED <<stream, plock, left>>
  PROVE  PipePart'
<1>1. pc' = pc /\ pc[p] = "exit" /\ proc[p].state = "RUNNABLE"
  BY DEF ExitLast, In
<1>2. plock # 0 => proc'[plock].state = "RUNNABLE"
  <2>1. plock # 0 => plock \in Slots \ {p} /\ proc[plock].state = "RUNNABLE"
    BY <1>1, NotLocked DEF PipePart, Locked, Sleepy
  <2> QED  BY <2>1, ExitTable
<1>3. ASSUME NEW s \in Slots, proc'[s].state = "SLEEPING" PROVE StillAsleep(s)
  <2>1. s # p
    BY <1>3, ExitTable
  <2>2. /\ proc[s].state = "SLEEPING" /\ proc'[s].chan = proc[s].chan
        /\ proc[s].chan # proc[p].parent
        /\ proc[s].chan = initproc =>
             \A o \in Slots \ {p} : proc[o].parent = p => proc[o].state # "ZOMBIE"
    BY <1>3, <2>1, ExitTable
  <2>3. \A o \in Slots : proc'[o].parent = IF proc[o].parent = p THEN initproc ELSE proc[o].parent
    BY ExitTable
  <2>4. Children(s) # {} => Children(s)' # {}
    BY <2>1, <2>3 DEF Children
  <2>5. ASSUME proc[s].chan = s, Zombies(s) = {}, NEW o \in Zombies(s)' PROVE FALSE
    <3>1. o \in Slots /\ proc'[o].parent = s /\ proc'[o].state = "ZOMBIE"
      BY <2>5 DEF Zombies, Children
    <3>2. o # p
      BY <2>1, <2>2, <2>3, <2>5, <3>1, ExitTable
    <3>3. proc[o].state = "ZOMBIE"
      BY <3>1, <3>2, ExitTable
    <3>4. CASE proc[o].parent = p
      BY <2>2, <2>3, <2>5, <3>1, <3>2, <3>3, <3>4
    <3>5. CASE proc[o].parent # p
      BY <2>3, <2>5, <3>1, <3>3, <3>5 DEF Zombies, Children
    <3> QED  BY <3>4, <3>5
  <2> QED  BY <1>1, <2>2, <2>4, <2>5 DEF StillAsleep
<1> QED  BY <1>1, <1>2, <1>3, RestKeeps DEF PipePart, PipeTypeOK

-----------------------------------------------------------------------------
\* Steps on the pipe

\* What a wakeup on the pipe leaves.
LEMMA WokenKeeps ==
  ASSUME ProcInv, NEW c, proc' = Wakeup1(proc, c), UNCHANGED <<nextpid, np, kills>>,
         NEW p \in Slots, np[p] = 0, NEW place \in Place, pc' = [pc EXCEPT ![p] = place]
  PROVE  /\ ProcInv'
         /\ \A s \in Slots : Alive(s)' = Alive(s)
         /\ \A s \in Slots : proc[s].state # "SLEEPING" => proc'[s] = proc[s]
         /\ \A s \in Slots : proc'[s].state = "SLEEPING" => proc'[s] = proc[s] /\ proc[s].chan # c
         /\ \A s : Children(s)' = Children(s) /\ Zombies(s)' = Zombies(s)
<1>1. /\ Stirs
      /\ \A s \in Slots : proc[s].state # "SLEEPING" => proc'[s] = proc[s]
      /\ \A s \in Slots : proc'[s].state = "SLEEPING" => proc'[s] = proc[s] /\ proc[s].chan # c
      /\ \A s \in Slots : Alive(s)' = Alive(s)
  BY WakesStir DEF ProcInv
<1>2. \A s : Children(s)' = Children(s) /\ Zombies(s)' = Zombies(s)
  BY <1>1, SameFamily DEF Stirs, Alive
<1>3. kills' \in Nat /\ pc' \in [Slots -> Place]
  BY DEF ProcInv, ProcTypeOK
<1>4. \A q \in Slots : np[q] # 0 => pc'[q] = pc[q] /\ proc'[q].state = proc[q].state
  BY <1>1 DEF ProcInv, Forks, ProcTypeOK
<1>5. ProcInv'
  BY <1>1, <1>3, <1>4, StirsKeeps
<1> QED  BY <1>1, <1>2, <1>5

\* pipeclose
LEMMA CloseRest ==
  ASSUME ProcInv, PipePart, NEW w \in BOOLEAN, PipeClose(w),
         UNCHANGED <<nextpid, pc, np, kills, sent, delivered, cut, plock, left>>
  PROVE  /\ ProcInv' /\ PipePart'
         /\ \A s \in Slots : Alive(s)' = Alive(s)
<1> DEFINE c == IF w THEN nreadChan ELSE nwriteChan
<1>1. /\ plock = 0 /\ proc' = Wakeup1(proc, c)
      /\ pipe' = IF w THEN [pipe EXCEPT !.writeopen = FALSE] ELSE [pipe EXCEPT !.readopen = FALSE]
  BY DEF PipeClose
<1>2. /\ UNCHANGED <<pipe.nread, pipe.nwrite, pipe.data>>
      /\ ~w => pipe'.writeopen = pipe.writeopen
      /\ w => pipe'.readopen = pipe.readopen
  BY <1>1 DEF PipePart, PipeTypeOK
<1>3. Count' = Count
  BY <1>2 DEF Count
<1>4. PipeTypeOK'
  BY <1>1 DEF PipePart, PipeTypeOK
<1>5. ProcInv'
  <2>1. Stirs /\ \A s \in Slots : proc[s].state # "SLEEPING" => proc'[s] = proc[s]
    BY <1>1, WakesStir DEF ProcInv
  <2>2. kills' \in Nat /\ pc' \in [Slots -> Place]
    BY DEF ProcInv, ProcTypeOK
  <2>3. \A q \in Slots : np[q] # 0 => pc'[q] = pc[q] /\ proc'[q].state = proc[q].state
    BY <2>1 DEF ProcInv, Forks
  <2> QED  BY <2>1, <2>2, <2>3, StirsKeeps
<1>6. /\ \A s \in Slots : Alive(s)' = Alive(s)
      /\ \A s \in Slots : proc'[s].state = "SLEEPING" => proc'[s] = proc[s] /\ proc[s].chan # c
      /\ Stirs
  BY <1>1, WakesStir DEF ProcInv
<1>7. \A s : Children(s)' = Children(s) /\ Zombies(s)' = Zombies(s)
  BY <1>6, SameFamily DEF Stirs, Alive
<1>8. Locked'
  <2>1. \A s \in Slots : pc[s] \notin Sleepy
    BY <1>1, NotLocked DEF PipePart
  <2> QED  BY <1>1, <2>1 DEF PipePart, Locked, Sleepy
<1>9. Sleepers'
  <2> SUFFICES ASSUME NEW s \in Slots, proc'[s].state = "SLEEPING" PROVE Asleep(s)'
    BY DEF Sleepers
  <2>1. proc'[s] = proc[s] /\ proc[s].chan # c
    BY <1>6
  <2>2. Asleep(s)
    BY <2>1 DEF PipePart, Sleepers
  <2>3. nreadChan' = nreadChan /\ nwriteChan' = nwriteChan
    BY DEF nreadChan, nwriteChan
  <2>4. CASE w
    BY <1>2, <1>3, <1>7, <2>1, <2>2, <2>3, <2>4 DEF Asleep
  <2>5. CASE ~w
    BY <1>2, <1>3, <1>7, <2>1, <2>2, <2>3, <2>5 DEF Asleep
  <2> QED  BY <2>4, <2>5
<1>10. InOrder'
  BY <1>2, <1>3 DEF PipePart, InOrder, Under
<1> QED  BY <1>4, <1>5, <1>6, <1>8, <1>9, <1>10 DEF PipePart

\* sys_pipe: the new pipe is empty, and nobody sleeps on the last one.
LEMMA PipeRest ==
  ASSUME ProcInv, PipePart, NEW p \in Slots, Pipe(p),
         \A s \in Slots : pc[s] \notin {"read", "readSleeps", "write", "writeSleeps"}
  PROVE  PipePart'
<1>1. /\ UNCHANGED <<proc, pc, plock, left>>
      /\ pipe' = [nread |-> 0, nwrite |-> 0, data |-> [i \in 0 .. PIPESIZE - 1 |-> 0],
                  readopen |-> TRUE, writeopen |-> TRUE]
      /\ sent' = 0 /\ delivered' = << >> /\ cut' = FALSE
  BY DEF Pipe, procVars, table, NoPipe
<1>2. 0 \in Counter /\ PIPESIZE >= 0
  BY NoneBetween
<1>3. PipeTypeOK'
  <2>1. plock \in 0 .. NPROC /\ left \in [Slots -> Nat]
    BY DEF PipePart, PipeTypeOK
  <2>2. pipe' \in [nread : Counter, nwrite : Counter, data : [0 .. PIPESIZE - 1 -> Nat],
                   readopen : BOOLEAN, writeopen : BOOLEAN]
    BY <1>1, <1>2
  <2>3. sent' \in Nat /\ delivered' \in Seq(Nat) /\ cut' \in BOOLEAN
    <3>1. << >> \in Seq(Nat)
      OBVIOUS
    <3> QED  BY <1>1, <3>1
  <2> QED  BY <1>1, <2>1, <2>2, <2>3 DEF PipeTypeOK
<1>4. Count' = 0
  BY <1>1, NoneBetween DEF Count, Between
<1>5. Locked'
  BY <1>1 DEF PipePart, Locked
<1>6. Sleepers'
  <2> SUFFICES ASSUME NEW s \in Slots, proc'[s].state = "SLEEPING" PROVE Asleep(s)'
    BY DEF Sleepers
  <2>1. proc[s].chan = s /\ Children(s) # {} /\ Zombies(s) = {}
    BY <1>1 DEF PipePart, Sleepers, Asleep
  <2> QED  BY <1>1, <2>1 DEF Asleep, Children, Zombies
<1>7. InOrder'
  <2>1. Len(delivered') = 0 /\ Count' = 0 /\ sent' = 0
    BY <1>1, <1>4
  <2>2. 0 + 0 = 0 /\ 1 .. 0 = {}
    OBVIOUS
  <2> QED  BY <1>2, <2>1, <2>2 DEF InOrder
<1> QED  BY <1>3, <1>5, <1>6, <1>7 DEF PipePart

\* sleep on the pipe: what the process has seen is still so.
LEMMA SleepRest ==
  ASSUME ProcInv, PipePart, NEW p \in Slots, ReadSleeps(p) \/ WriteSleeps(p)
  PROVE  /\ ProcInv' /\ PipePart'
         /\ \A s \in Slots : Alive(s)' = Alive(s)
<1>1. PICK c \in {nreadChan, nwriteChan}, call \in {"read", "write"} :
        /\ proc[p].state = "RUNNABLE" /\ plock = p /\ plock' = 0
        /\ pc[p] = (IF c = nreadChan THEN "readSleeps" ELSE "writeSleeps")
        /\ call = (IF c = nreadChan THEN "read" ELSE "write")
        /\ proc' = [proc EXCEPT ![p].chan = c, ![p].state = "SLEEPING"]
        /\ pc' = [pc EXCEPT ![p] = call]
        /\ UNCHANGED <<nextpid, np, kills, stream, left>>
  <2>1. CASE ReadSleeps(p)
    BY <2>1 DEF ReadSleeps, GoToSleep, In, Sleep
  <2>2. CASE WriteSleeps(p)
    BY <2>2, Channels DEF WriteSleeps, GoToSleep, In, Sleep
  <2> QED  BY <2>1, <2>2
<1>2. c \in 0 .. NPROC + 2
  BY Channels
<1>3. /\ proc'[p] = [proc[p] EXCEPT !.chan = c, !.state = "SLEEPING"]
      /\ \A s \in Slots \ {p} : proc'[s] = proc[s] /\ pc'[s] = pc[s]
      /\ pc'[p] = call
  BY <1>1 DEF ProcInv, ProcTypeOK
<1>4. /\ proc'[p] \in Entry /\ proc'[p].chan = c /\ proc'[p].state = "SLEEPING"
      /\ proc'[p].parent = proc[p].parent /\ proc'[p].pid = proc[p].pid
  <2>1. proc[p] \in Entry /\ "SLEEPING" \in State
    BY DEF ProcInv, ProcTypeOK, Entry, State
  <2> QED  BY <1>2, <1>3, <2>1 DEF Entry
<1>5. Stirs
  <2>1. \A s \in Slots : proc[s] \in Entry
    BY DEF ProcInv, ProcTypeOK, Entry
  <2>2. \A s \in Slots : proc'[s] \in Entry
    BY <1>3, <1>4, <2>1
  <2>3. proc' = [s \in Slots |-> proc'[s]]
    BY <1>1 DEF ProcInv, ProcTypeOK
  <2>4. proc' \in [Slots -> Entry]
    BY <2>2, <2>3
  <2>5. \A s \in Slots \ {p} : /\ proc'[s].pid = proc[s].pid /\ proc'[s].parent = proc[s].parent
                               /\ proc'[s].state = proc[s].state
    BY <1>3
  <2>6. Alive(p) /\ Alive(p)'
    BY <1>1, <1>4 DEF Alive
  <2> QED  BY <1>4, <2>4, <2>5, <2>6 DEF Stirs
<1>6. ProcInv'
  <2>1. np[p] = 0 /\ \A q \in Slots : np[q] # 0 => q # p
    BY <1>1 DEF ProcInv, Forks, Sleepy
  <2>2. \A q \in Slots : np[q] # 0 => pc'[q] = pc[q] /\ proc'[q].state = proc[q].state
    BY <1>3, <2>1
  <2>3. kills' \in Nat /\ pc' \in [Slots -> Place]
    BY <1>1 DEF ProcInv, ProcTypeOK, Place
  <2> QED  BY <1>1, <1>5, <2>2, <2>3, StirsKeeps
<1>7. \A s \in Slots : Alive(s)' = Alive(s)
  <2>1. Alive(p) /\ Alive(p)'
    BY <1>1, <1>4 DEF Alive
  <2>2. \A s \in Slots \ {p} : Alive(s)' = Alive(s)
    BY <1>3 DEF Alive
  <2>3. Alive(p)' = Alive(p)
    BY <2>1 DEF Alive
  <2> QED  BY <2>2, <2>3
<1>8. Count' = Count /\ pipe' = pipe /\ cut' = cut
  BY <1>1 DEF Count, stream
<1>9. PipeTypeOK' /\ InOrder'
  <2>1. 0 \in 0 .. NPROC
    BY XvProcAssumption
  <2> QED  BY <1>1, <1>8, <2>1 DEF PipePart, PipeTypeOK, InOrder, Under, stream
<1>10. Locked'
  <2>1. \A s \in Slots \ {p} : pc[s] \notin Sleepy
    BY <1>1, NotLocked DEF PipePart
  <2>2. \A s \in Slots : pc'[s] \notin Sleepy /\ s # 0
    BY <1>3, <2>1, InitSlot DEF Sleepy
  <2> QED  BY <1>1, <2>2 DEF Locked, Sleepy
<1>11. Sleepers'
  <2> SUFFICES ASSUME NEW s \in Slots, proc'[s].state = "SLEEPING" PROVE Asleep(s)'
    BY DEF Sleepers
  <2>1. CASE s = p
    <3>1. /\ pc[p] = "readSleeps" => Count = 0 /\ pipe.writeopen
          /\ pc[p] = "writeSleeps" => Count = PIPESIZE /\ pipe.readopen
      BY DEF PipePart, Locked
    <3>2. nreadChan' = nreadChan /\ nwriteChan' = nwriteChan
      BY DEF nreadChan, nwriteChan
    <3> QED  BY <1>1, <1>3, <1>4, <1>8, <2>1, <3>1, <3>2, Channels DEF Asleep
  <2>2. CASE s # p
    <3>1. proc'[s] = proc[s] /\ pc'[s] = pc[s]
      BY <1>3, <2>2
    <3>2. Asleep(s)
      BY <3>1 DEF PipePart, Sleepers
    <3>3. Children(s)' = Children(s) /\ Zombies(s)' = Zombies(s)
      BY <1>5, SameFamily DEF Stirs, Alive
    <3>4. nreadChan' = nreadChan /\ nwriteChan' = nwriteChan
      BY DEF nreadChan, nwriteChan
    <3> QED  BY <1>8, <3>1, <3>2, <3>3, <3>4 DEF Asleep
  <2> QED  BY <2>1, <2>2
<1> QED  BY <1>6, <1>7, <1>9, <1>10, <1>11 DEF PipePart

LEMMA ASequence ==
  ASSUME NEW k \in Nat, NEW f \in [1 .. k -> Nat]
  PROVE  f \in Seq(Nat) /\ Len(f) = k
OBVIOUS

LEMMA Appended ==
  ASSUME NEW s \in Seq(Nat), NEW t \in Seq(Nat)
  PROVE  /\ s \o t \in Seq(Nat) /\ Len(s \o t) = Len(s) + Len(t)
         /\ \A i \in 1 .. Len(s) + Len(t) :
              (s \o t)[i] = IF i <= Len(s) THEN s[i] ELSE t[i - Len(s)]
OBVIOUS

\* piperead
LEMMA ReadData ==
  ASSUME PipePart, NEW k \in 0 .. Count, delivered' = delivered \o Taken(k),
         pipe' = [pipe EXCEPT !.nread = (@ + k) % UintSize], UNCHANGED <<sent, cut>>
  PROVE  /\ InOrder' /\ Count' = Count - k
         /\ pipe' \in [nread : Counter, nwrite : Counter, data : [0 .. PIPESIZE - 1 -> Nat],
                       readopen : BOOLEAN, writeopen : BOOLEAN]
         /\ pipe'.readopen = pipe.readopen /\ pipe'.writeopen = pipe.writeopen
         /\ delivered' \in Seq(Nat)
         /\ \A i \in 1 .. Count - k : Under(i)' = Under(k + i)
<1> DEFINE r == pipe.nread
           w == pipe.nwrite
<1>1. r \in Counter /\ w \in Counter /\ pipe.data \in [0 .. PIPESIZE - 1 -> Nat]
  BY DEF PipePart, PipeTypeOK
<1>2. Count = Between(r, w) /\ Count \in Nat /\ k \in Nat
  BY <1>1, CountIs, BetweenType
<1>3. pipe'.nread = Advanced(r, k) /\ Advanced(r, k) \in Counter /\ pipe'.nwrite = w
  BY <1>1, <1>2, AdvancedType DEF Advanced, PipePart, PipeTypeOK
<1>4. /\ pipe'.data = pipe.data
      /\ pipe'.readopen = pipe.readopen /\ pipe'.writeopen = pipe.writeopen
  BY DEF PipePart, PipeTypeOK
<1>5. /\ Between(Advanced(r, k), w) = Between(r, w) - k
      /\ \A i \in Int : (Advanced(r, k) + i - 1) % PIPESIZE = (r + (k + i) - 1) % PIPESIZE
  BY <1>1, <1>2, ReadAdvances
<1>6. Count' = Count - k
  BY <1>2, <1>3, <1>5 DEF Count, Between
<1>7. pipe' \in [nread : Counter, nwrite : Counter, data : [0 .. PIPESIZE - 1 -> Nat],
                 readopen : BOOLEAN, writeopen : BOOLEAN]
  <2>1. (r + k) % UintSize \in Counter
    BY <1>3 DEF Advanced
  <2> QED  BY <2>1 DEF PipePart, PipeTypeOK
<1>8. \A i \in Int : Under(i)' = Under(k + i)
  BY <1>3, <1>4, <1>5 DEF Under
<1>9. /\ Taken(k) \in Seq(Nat) /\ Len(Taken(k)) = k
      /\ \A i \in 1 .. k : Taken(k)[i] = Under(i)
  <2>1. \A i \in 1 .. k : (r + i - 1) % PIPESIZE \in 0 .. PIPESIZE - 1
    <3> SUFFICES ASSUME NEW i \in 1 .. k PROVE (r + i - 1) % PIPESIZE \in 0 .. PIPESIZE - 1
      OBVIOUS
    <3>1. r + i - 1 \in Int
      BY <1>1 DEF Counter
    <3> QED  BY <3>1, RingSizes, Division
  <2>2. \A i \in 1 .. k : Under(i) \in Nat
    BY <1>1, <2>1 DEF Under
  <2>3. Taken(k) = [i \in 1 .. k |-> Under(i)]
    BY DEF Taken, Under
  <2>4. Taken(k) \in [1 .. k -> Nat] /\ \A i \in 1 .. k : Taken(k)[i] = Under(i)
    BY <2>2, <2>3
  <2> QED  BY <1>2, <2>4, ASequence
<1>10. delivered \in Seq(Nat) /\ Len(delivered) \in Nat /\ sent \in Nat
  BY DEF PipePart, PipeTypeOK
<1>11. /\ delivered' \in Seq(Nat) /\ Len(delivered') = Len(delivered) + k
       /\ \A i \in 1 .. Len(delivered) + k :
            delivered'[i] = IF i <= Len(delivered) THEN delivered[i]
                            ELSE Taken(k)[i - Len(delivered)]
  BY <1>9, <1>10, Appended
<1>12. /\ Count <= PIPESIZE /\ Len(delivered) + Count = sent
       /\ \A i \in 1 .. Len(delivered) : delivered[i] = i
       /\ \A i \in 1 .. Count : Under(i) = Len(delivered) + i
  BY DEF PipePart, InOrder
<1>13. \A i \in 1 .. Len(delivered') : delivered'[i] = i
  <2> SUFFICES ASSUME NEW i \in 1 .. Len(delivered') PROVE delivered'[i] = i
    OBVIOUS
  <2>1. CASE i <= Len(delivered)
    BY <1>2, <1>10, <1>11, <1>12, <2>1
  <2>2. CASE ~(i <= Len(delivered))
    <3>1. i - Len(delivered) \in 1 .. k
      BY <1>2, <1>10, <1>11, <2>2
    <3>2. Taken(k)[i - Len(delivered)] = Len(delivered) + (i - Len(delivered))
      BY <1>2, <1>9, <1>12, <3>1
    <3> QED  BY <1>10, <1>11, <2>2, <3>2
  <2> QED  BY <2>1, <2>2
<1>14. \A i \in 1 .. Count' : Under(i)' = Len(delivered') + i
  <2> SUFFICES ASSUME NEW i \in 1 .. Count' PROVE Under(i)' = Len(delivered') + i
    OBVIOUS
  <2>1. k + i \in 1 .. Count /\ i \in Int
    BY <1>2, <1>6
  <2>2. Under(i)' = Under(k + i)
    BY <1>8, <2>1
  <2> QED  BY <1>2, <1>10, <1>11, <1>12, <2>1, <2>2
<1>15. InOrder'
  <2>1. Count' <= PIPESIZE /\ Len(delivered') + Count' = sent'
    BY <1>2, <1>6, <1>10, <1>11, <1>12, XvPipeAssumption
  <2> QED  BY <1>13, <1>14, <2>1 DEF InOrder
<1>16. \A i \in 1 .. Count - k : Under(i)' = Under(k + i)
  BY <1>2, <1>8
<1> QED  BY <1>4, <1>6, <1>7, <1>11, <1>15, <1>16

\* pipewrite
LEMMA WriteData ==
  ASSUME PipePart, NEW k \in 0 .. PIPESIZE - Count, Store(k), UNCHANGED delivered
  PROVE  /\ InOrder' /\ Count' = Count + k
         /\ pipe' \in [nread : Counter, nwrite : Counter, data : [0 .. PIPESIZE - 1 -> Nat],
                       readopen : BOOLEAN, writeopen : BOOLEAN]
         /\ pipe'.readopen = pipe.readopen /\ pipe'.writeopen = pipe.writeopen
         /\ sent' \in Nat
         /\ \A i \in 1 .. Count : Under(i)' = Under(i)
<1> DEFINE r == pipe.nread
           w == pipe.nwrite
           at(j) == (w + j - 1) % PIPESIZE
           place(i) == (r + i - 1) % PIPESIZE
<1>1. /\ r \in Counter /\ w \in Counter /\ pipe.data \in [0 .. PIPESIZE - 1 -> Nat]
      /\ delivered \in Seq(Nat) /\ Len(delivered) \in Nat /\ sent \in Nat
      /\ PIPESIZE \in Nat \ {0}
  BY RingSizes DEF PipePart, PipeTypeOK
<1>2. Count = Between(r, w) /\ Count \in Nat /\ k \in Nat
  BY <1>1, CountIs, BetweenType
<1>3. /\ Count <= PIPESIZE /\ Len(delivered) + Count = sent
      /\ \A i \in 1 .. Len(delivered) : delivered[i] = i
      /\ \A i \in 1 .. Count : Under(i) = Len(delivered) + i
  BY DEF PipePart, InOrder
<1>4. pipe'.nwrite = Advanced(w, k) /\ Advanced(w, k) \in Counter /\ pipe'.nread = r
  BY <1>1, <1>2, AdvancedType DEF Advanced, Store, PipePart, PipeTypeOK
<1>5. /\ Between(r, Advanced(w, k)) = Count + k
      /\ \A j \in Int : at(j) = place(Count + j)
  BY <1>1, <1>2, <1>3, WriteAdvances
<1>6. Count' = Count + k
  BY <1>4, <1>5 DEF Count, Between
<1>7. /\ pipe'.data = [i \in 0 .. PIPESIZE - 1 |->
                        IF \E j \in 1 .. k : at(j) = i
                        THEN sent + (CHOOSE j \in 1 .. k : at(j) = i) ELSE pipe.data[i]]
      /\ sent' = sent + k
      /\ pipe'.readopen = pipe.readopen /\ pipe'.writeopen = pipe.writeopen
  BY <1>1 DEF Store, PipePart, PipeTypeOK
<1>8. \A i \in Int : place(i) \in 0 .. PIPESIZE - 1
  <2> SUFFICES ASSUME NEW i \in Int PROVE (r + i - 1) % PIPESIZE \in 0 .. PIPESIZE - 1
    OBVIOUS
  <2>1. r + i - 1 \in Int
    BY <1>1 DEF Counter
  <2> QED  BY <1>1, <2>1, Division
<1>9. ASSUME NEW i \in 1 .. PIPESIZE, NEW j \in 1 .. PIPESIZE, i < j PROVE place(i) # place(j)
  <2> DEFINE a == r + i - 1
             b == r + j - 1
  <2>1. r \in Int /\ PIPESIZE \in Nat
    BY <1>1 DEF Counter
  <2>2. a \in Int /\ b \in Int /\ a < b /\ b - a < PIPESIZE
    <3> HIDE DEF r
    <3> QED  BY <1>9, <2>1
  <2>3. a % PIPESIZE # b % PIPESIZE
    <3> HIDE DEF a, b
    <3> QED  BY <1>1, <2>2, Apart
  <2> QED  BY <2>3
<1> HIDE DEF at, place, r, w
<1>10. /\ Count \in Nat /\ k \in Nat /\ PIPESIZE \in Nat /\ Count + k <= PIPESIZE
       /\ sent \in Nat /\ Len(delivered) \in Nat /\ Len(delivered) + Count = sent
  BY <1>1, <1>2, <1>3
<1>11. \A i \in Int : Under(i) = pipe.data[place(i)] /\ Under(i)' = pipe'.data[place(i)]
  BY <1>4 DEF Under, place, r
<1>12. \A i \in 1 .. Count : Under(i)' = Under(i)
  <2> SUFFICES ASSUME NEW i \in 1 .. Count PROVE pipe'.data[place(i)] = pipe.data[place(i)]
    BY <1>2, <1>11
  <2>1. \A j \in 1 .. k : at(j) # place(i)
    <3> SUFFICES ASSUME NEW j \in 1 .. k PROVE at(j) # place(i)
      OBVIOUS
    <3>1. j \in Int /\ i \in 1 .. PIPESIZE /\ Count + j \in 1 .. PIPESIZE /\ i < Count + j
      BY <1>10
    <3>2. place(i) # place(Count + j)
      BY <1>9, <3>1
    <3> QED  BY <1>5, <3>1, <3>2
  <2>2. place(i) \in 0 .. PIPESIZE - 1
    BY <1>2, <1>8
  <2> QED  BY <1>7, <2>1, <2>2
<1>13. \A i \in 1 .. k : pipe'.data[place(Count + i)] = sent + i
  <2> SUFFICES ASSUME NEW i \in 1 .. k PROVE pipe'.data[place(Count + i)] = sent + i
    OBVIOUS
  <2> DEFINE here == place(Count + i)
             chosen == CHOOSE j \in 1 .. k : at(j) = here
  <2>1. at(i) = here /\ here \in 0 .. PIPESIZE - 1
    BY <1>2, <1>5, <1>8
  <2>2. chosen \in 1 .. k /\ at(chosen) = here
    BY <2>1
  <2>3. pipe'.data[here] = sent + chosen
    <3> HIDE DEF here
    <3> QED  BY <1>7, <2>1
  <2>4. ASSUME NEW j \in 1 .. k, at(j) = here PROVE j = i
    <3>1. Count + j \in 1 .. PIPESIZE /\ Count + i \in 1 .. PIPESIZE
      BY <1>10
    <3>2. place(Count + j) = place(Count + i)
      BY <1>5, <2>4
    <3>3. ~(Count + j < Count + i) /\ ~(Count + i < Count + j)
      BY <1>9, <3>1, <3>2
    <3> QED  BY <1>2, <3>1, <3>3
  <2>5. chosen = i
    <3> HIDE DEF chosen
    <3> QED  BY <2>2, <2>4
  <2> QED  BY <2>3, <2>5
<1>14. pipe' \in [nread : Counter, nwrite : Counter, data : [0 .. PIPESIZE - 1 -> Nat],
                  readopen : BOOLEAN, writeopen : BOOLEAN]
  <2>1. pipe'.data \in [0 .. PIPESIZE - 1 -> Nat]
    <3>1. ASSUME NEW i \in 0 .. PIPESIZE - 1, NEW j \in 1 .. k, at(j) = i
          PROVE  (CHOOSE l \in 1 .. k : at(l) = i) \in Nat
      BY <1>2, <3>1
    <3>2. ASSUME NEW i \in 0 .. PIPESIZE - 1 PROVE pipe'.data[i] \in Nat
      <4>1. CASE \E j \in 1 .. k : at(j) = i
        <5> DEFINE chosen == CHOOSE l \in 1 .. k : at(l) = i
        <5>1. chosen \in Nat
          BY <3>1, <4>1
        <5>2. pipe'.data[i] = sent + chosen
          BY <1>7, <4>1
        <5> HIDE DEF chosen
        <5> QED  BY <1>10, <5>1, <5>2
      <4>2. CASE ~\E j \in 1 .. k : at(j) = i
        BY <1>1, <1>7, <4>2
      <4> QED  BY <4>1, <4>2
    <3>3. pipe'.data = [i \in 0 .. PIPESIZE - 1 |-> pipe'.data[i]]
      BY <1>7
    <3> QED  BY <3>2, <3>3
  <2>2. /\ pipe' = [pipe EXCEPT !.nwrite = pipe'.nwrite, !.data = pipe'.data]
        /\ pipe'.nwrite \in Counter
    BY <1>4 DEF Store, PipePart, PipeTypeOK
  <2> QED  BY <2>1, <2>2 DEF PipePart, PipeTypeOK
<1>15. InOrder'
  <2>1. ASSUME NEW i \in 1 .. Count' PROVE Under(i)' = Len(delivered) + i
    <3>1. CASE i <= Count
      <4>1. i \in 1 .. Count
        BY <1>2, <1>6, <3>1
      <4> QED  BY <1>3, <1>12, <4>1
    <3>2. CASE ~(i <= Count)
      <4>1. i - Count \in 1 .. k
        BY <1>2, <1>6, <3>2
      <4>2. i = Count + (i - Count)
        BY <1>2
      <4>3. pipe'.data[place(i)] = sent + (i - Count)
        BY <1>13, <4>1, <4>2
      <4>4. i \in Int /\ sent + (i - Count) = Len(delivered) + i
        BY <1>10, <4>1
      <4> QED  BY <1>11, <4>3, <4>4
    <3> QED  BY <3>1, <3>2
  <2>2. Count' <= PIPESIZE /\ Len(delivered) + Count' = sent'
    <3>1. Count' = Count + k /\ sent' = sent + k
      BY <1>6, <1>7
    <3> QED  BY <1>10, <3>1
  <2> QED  BY <1>3, <2>1, <2>2 DEF InOrder
<1> QED  BY <1>1, <1>2, <1>6, <1>7, <1>12, <1>14, <1>15

\* What the calls on the pipe leave of the process table and of the files.
CallMoves(p) == /\ UNCHANGED files
                /\ pipe'.readopen = pipe.readopen /\ pipe'.writeopen = pipe.writeopen
                /\ \A s \in Slots : Alive(s)' = Alive(s)
                /\ \A s \in Slots \ {p} : pc'[s] = pc[s]

LEMMA ReadRest ==
  ASSUME ProcInv, PipePart, NEW p \in Slots, Read(p)
  PROVE  /\ ProcInv' /\ PipePart' /\ CallMoves(p)
         /\ pc[p] = "read" /\ pc'[p] \in {"user", "readSleeps"}
<1>1. /\ proc[p].state = "RUNNABLE" /\ pc[p] = "read" /\ plock = 0
      /\ UNCHANGED <<nextpid, np, kills, files, sent, cut>>
  BY DEF Read, In
<1>2. /\ np[p] = 0 /\ kills' \in Nat /\ pc \in [Slots -> Place] /\ left \in [Slots -> Nat]
      /\ \A s \in Slots : pc[s] \notin Sleepy
  BY <1>1, NotLocked DEF ProcInv, ProcTypeOK, Forks, PipePart, PipeTypeOK
<1>3. Count \in Nat
  BY CountIs, BetweenType, RingSizes DEF PipePart, PipeTypeOK
<1>4. CASE Count # 0 \/ ~pipe.writeopen
  <2>1. ReadBytes(p)
    BY <1>4 DEF Read
  <2>2. PICK k \in 0 .. Count : k = Least(left[p], Count)
    <3>1. left[p] \in Nat
      BY <1>2
    <3> QED  BY <1>3, <3>1 DEF Least
  <2>3. /\ delivered' = delivered \o Taken(k) /\ pipe' = [pipe EXCEPT !.nread = (@ + k) % UintSize]
        /\ proc' = Wakeup1(proc, nwriteChan) /\ UNCHANGED plock
        /\ pc' = [pc EXCEPT ![p] = "user"] /\ left' = [left EXCEPT ![p] = 0]
    BY <2>1, <2>2 DEF ReadBytes, Returns
  <2>4. /\ InOrder'
        /\ pipe' \in [nread : Counter, nwrite : Counter, data : [0 .. PIPESIZE - 1 -> Nat],
                      readopen : BOOLEAN, writeopen : BOOLEAN]
        /\ pipe'.readopen = pipe.readopen /\ pipe'.writeopen = pipe.writeopen
        /\ delivered' \in Seq(Nat)
    BY <1>1, <2>3, ReadData
  <2>5. /\ ProcInv'
        /\ \A s \in Slots : Alive(s)' = Alive(s)
        /\ \A s \in Slots : proc[s].state # "SLEEPING" => proc'[s] = proc[s]
        /\ \A s \in Slots : proc'[s].state = "SLEEPING" =>
             proc'[s] = proc[s] /\ proc[s].chan # nwriteChan
        /\ \A s : Children(s)' = Children(s) /\ Zombies(s)' = Zombies(s)
    BY <1>1, <1>2, <2>3, WokenKeeps DEF Place
  <2>6. pc'[p] = "user" /\ \A s \in Slots \ {p} : pc'[s] = pc[s]
    BY <1>2, <2>3
  <2>7. PipeTypeOK'
    BY <1>1, <1>2, <2>3, <2>4 DEF PipePart, PipeTypeOK
  <2>8. Locked'
    <3>1. \A s \in Slots : pc'[s] \notin Sleepy /\ s # 0
      BY <1>2, <2>6, InitSlot DEF Sleepy
    <3> QED  BY <1>1, <2>3, <3>1 DEF Locked, Sleepy
  <2>9. Sleepers'
    <3> SUFFICES ASSUME NEW s \in Slots, proc'[s].state = "SLEEPING" PROVE Asleep(s)'
      BY DEF Sleepers
    <3>1. proc'[s] = proc[s] /\ proc[s].chan # nwriteChan /\ s # p /\ pc'[s] = pc[s]
      BY <1>1, <2>5, <2>6
    <3>2. Asleep(s)
      BY <3>1 DEF PipePart, Sleepers
    <3>3. nreadChan' = nreadChan /\ nwriteChan' = nwriteChan
      BY DEF nreadChan, nwriteChan
    <3> QED  BY <1>1, <1>4, <2>4, <2>5, <3>1, <3>2, <3>3 DEF Asleep
  <2> QED  BY <1>1, <2>4, <2>5, <2>6, <2>7, <2>8, <2>9 DEF PipePart, CallMoves
<1>5. CASE ~(Count # 0 \/ ~pipe.writeopen)
  <2>1. /\ UNCHANGED <<proc, pipe, delivered>>
        /\ \/ Returns(p) /\ UNCHANGED plock
           \/ WillSleep(p, "readSleeps") /\ UNCHANGED left
    BY <1>5 DEF Read
  <2>2. \A s \in Slots : Alive(s)' = Alive(s)
    BY <2>1 DEF Alive
  <2>3. \A s : Children(s)' = Children(s) /\ Zombies(s)' = Zombies(s)
    BY <2>1 DEF Children, Zombies
  <2>4. Count' = Count /\ InOrder'
    BY <1>1, <2>1 DEF PipePart, InOrder, Under, Count
  <2>5. PICK place \in {"user", "readSleeps"} :
          /\ pc' = [pc EXCEPT ![p] = place]
          /\ plock' = IF place = "user" THEN 0 ELSE p
          /\ left' \in [Slots -> Nat]
    BY <1>1, <1>2, <2>1 DEF Returns, WillSleep
  <2>6. ProcInv'
    BY <1>1, <1>2, <2>1, <2>5, MovesKeep DEF Place, table
  <2>7. pc'[p] = place /\ \A s \in Slots \ {p} : pc'[s] = pc[s]
    BY <1>2, <2>5
  <2>8. PipeTypeOK'
    <3>1. 0 \in 0 .. NPROC /\ p \in 0 .. NPROC
      BY XvProcAssumption DEF Slots
    <3>2. plock' \in 0 .. NPROC
      BY <2>5, <3>1
    <3> QED  BY <1>1, <2>1, <2>5, <3>2 DEF PipePart, PipeTypeOK
  <2>9. Locked'
    <3>1. \A s \in Slots : /\ pc'[s] \in Sleepy <=> s = p /\ place = "readSleeps"
                           /\ pc'[s] # "writeSleeps" /\ s # 0
      BY <1>2, <2>7, InitSlot DEF Sleepy
    <3> QED  BY <1>1, <1>5, <2>1, <2>4, <2>5, <2>7, <3>1 DEF Locked, Sleepy
  <2>10. Sleepers'
    <3> SUFFICES ASSUME NEW s \in Slots, proc'[s].state = "SLEEPING" PROVE Asleep(s)'
      BY DEF Sleepers
    <3>1. proc'[s] = proc[s] /\ s # p /\ pc'[s] = pc[s]
      BY <1>1, <2>1, <2>7
    <3>2. Asleep(s)
      BY <3>1 DEF PipePart, Sleepers
    <3>3. nreadChan' = nreadChan /\ nwriteChan' = nwriteChan
      BY DEF nreadChan, nwriteChan
    <3> QED  BY <1>1, <2>1, <2>3, <2>4, <3>1, <3>2, <3>3 DEF Asleep
  <2> QED  BY <1>1, <2>1, <2>2, <2>4, <2>6, <2>7, <2>8, <2>9, <2>10 DEF PipePart, CallMoves
<1> QED  BY <1>4, <1>5

LEMMA WriteRest ==
  ASSUME ProcInv, PipePart, NEW p \in Slots, Write(p),
         \A s \in Slots : pc[s] = "read" => pipe.readopen
  PROVE  /\ ProcInv' /\ PipePart' /\ CallMoves(p)
         /\ pc[p] = "write" /\ pc'[p] \in {"user", "writeSleeps"}
<1>1. /\ proc[p].state = "RUNNABLE" /\ pc[p] = "write" /\ plock = 0
      /\ UNCHANGED <<nextpid, np, kills, files, delivered>>
  BY DEF Write, In
<1>2. /\ np[p] = 0 /\ kills' \in Nat /\ pc \in [Slots -> Place] /\ left \in [Slots -> Nat]
      /\ \A s \in Slots : pc[s] \notin Sleepy
  BY <1>1, NotLocked DEF ProcInv, ProcTypeOK, Forks, PipePart, PipeTypeOK
<1>3. Count \in Nat /\ Count <= PIPESIZE /\ PIPESIZE \in Nat /\ left[p] \in Nat
  BY <1>2, CountIs, BetweenType, RingSizes DEF PipePart, PipeTypeOK, InOrder
<1>4. PICK k \in 0 .. PIPESIZE - Count : k = Storable(p) /\ k <= left[p]
                                         /\ (left[p] # k => k = PIPESIZE - Count)
  BY <1>3 DEF Storable, Least
<1>5. /\ Store(k) /\ cut' = (left[p] # k /\ proc[p].killed)
      /\ \/ /\ left[p] = k /\ Returns(p) /\ proc' = Wakeup1(proc, nreadChan) /\ UNCHANGED plock
         \/ /\ left[p] # k /\ (~pipe.readopen \/ proc[p].killed)
            /\ Returns(p) /\ UNCHANGED <<proc, plock>>
         \/ /\ left[p] # k /\ pipe.readopen
            /\ WillSleep(p, "writeSleeps") /\ left' = [left EXCEPT ![p] = @ - k]
            /\ proc' = Wakeup1(proc, nreadChan)
  BY <1>4 DEF Write
<1>6. /\ InOrder' /\ Count' = Count + k
      /\ pipe' \in [nread : Counter, nwrite : Counter, data : [0 .. PIPESIZE - 1 -> Nat],
                    readopen : BOOLEAN, writeopen : BOOLEAN]
      /\ pipe'.readopen = pipe.readopen /\ pipe'.writeopen = pipe.writeopen
      /\ sent' \in Nat
  BY <1>1, <1>5, WriteData
<1>7. PICK place \in {"user", "writeSleeps"} :
        /\ pc' = [pc EXCEPT ![p] = place]
        /\ plock' = IF place = "user" THEN 0 ELSE p
        /\ place = "writeSleeps" => left[p] # k /\ pipe.readopen
        /\ left' = [left EXCEPT ![p] = IF place = "user" THEN 0 ELSE left[p] - k]
  BY <1>1, <1>5 DEF Returns, WillSleep
<1>8. /\ ProcInv'
      /\ \A s \in Slots : Alive(s)' = Alive(s)
      /\ \A s \in Slots : proc[s].state # "SLEEPING" => proc'[s] = proc[s]
      /\ \A s \in Slots : proc'[s].state = "SLEEPING" => proc'[s] = proc[s]
      /\ \A s : Children(s)' = Children(s) /\ Zombies(s)' = Zombies(s)
  <2>1. CASE proc' = Wakeup1(proc, nreadChan)
    BY <1>1, <1>2, <1>7, <2>1, WokenKeeps DEF Place
  <2>2. CASE proc' = proc
    <3>1. ProcInv'
      BY <1>1, <1>2, <1>7, <2>2, MovesKeep DEF Place, table
    <3> QED  BY <2>2, <3>1 DEF Alive, Children, Zombies
  <2> QED  BY <1>5, <2>1, <2>2
<1>9. pc'[p] = place /\ \A s \in Slots \ {p} : pc'[s] = pc[s]
  BY <1>2, <1>7
<1>10. PipeTypeOK'
  <2>1. 0 \in 0 .. NPROC /\ p \in 0 .. NPROC
    BY XvProcAssumption DEF Slots
  <2>2. plock' \in 0 .. NPROC
    BY <1>7, <2>1
  <2>3. left[p] - k \in Nat
    BY <1>3, <1>4
  <2>4. left' \in [Slots -> Nat]
    BY <1>2, <1>7, <2>3
  <2>5. cut' \in BOOLEAN
    BY <1>5
  <2> QED  BY <1>1, <1>6, <2>2, <2>4, <2>5 DEF PipePart, PipeTypeOK
<1>11. Locked'
  <2>1. \A s \in Slots : /\ pc'[s] \in Sleepy <=> s = p /\ place = "writeSleeps"
                         /\ pc'[s] # "readSleeps" /\ s # 0
    BY <1>2, <1>9, InitSlot DEF Sleepy
  <2>2. place = "writeSleeps" => Count' = PIPESIZE /\ pipe'.readopen
    BY <1>3, <1>4, <1>6, <1>7
  <2>3. proc'[p].state = "RUNNABLE"
    BY <1>1, <1>8
  <2> QED  BY <1>7, <1>9, <2>1, <2>2, <2>3 DEF Locked, Sleepy
<1>12. Sleepers'
  <2> SUFFICES ASSUME NEW s \in Slots, proc'[s].state = "SLEEPING" PROVE Asleep(s)'
    BY DEF Sleepers
  <2>1. proc'[s] = proc[s] /\ s # p /\ pc'[s] = pc[s]
    BY <1>1, <1>8, <1>9
  <2>2. Asleep(s)
    BY <2>1 DEF PipePart, Sleepers
  <2>3. nreadChan' = nreadChan /\ nwriteChan' = nwriteChan
    BY DEF nreadChan, nwriteChan
  <2>4. CASE proc[s].chan = s /\ Children(s) # {} /\ Zombies(s) = {}
    BY <1>8, <2>1, <2>4 DEF Asleep
  <2>5. CASE /\ proc[s].chan = nreadChan /\ pc[s] = "read" /\ pipe.writeopen
    <3>1. proc' # Wakeup1(proc, nreadChan)
      <4>1. proc' = Wakeup1(proc, nreadChan) => proc[s].chan # nreadChan
        BY WakesStir DEF ProcInv
      <4> QED  BY <2>5, <4>1
    <3>2. cut'
      BY <1>5, <2>5, <3>1
    <3> QED  BY <1>6, <2>1, <2>3, <2>5, <3>2 DEF Asleep
  <2>6. CASE /\ proc[s].chan = nwriteChan /\ pc[s] = "write"
             /\ Count = PIPESIZE /\ pipe.readopen
    <3>1. Count' = PIPESIZE
      BY <1>3, <1>4, <1>6, <2>6
    <3> QED  BY <1>6, <2>1, <2>3, <2>6, <3>1 DEF Asleep
  <2> QED  BY <2>2, <2>4, <2>5, <2>6 DEF Asleep
<1> QED  BY <1>1, <1>6, <1>8, <1>9, <1>7, <1>10, <1>11, <1>12 DEF PipePart, CallMoves

-----------------------------------------------------------------------------
\* IInv is inductive

FilesPart == FilesTypeOK /\ NoFiles /\ Users /\ Counts

LEMMA Parts == /\ IInv <=> ProcInv /\ FilesPart /\ PipePart
               /\ TypeOK <=> ProcTypeOK /\ FilesTypeOK /\ PipeTypeOK
BY DEF IInv, TypeOK, ProcInv, FilesPart, PipePart

LEMMA InitInv == Init => IInv
<1> SUFFICES ASSUME Init PROVE IInv
  OBVIOUS
<1> USE DEF Init, ProcInit
<1>1. /\ \A s \in Slots : proc[s] = IF s = initproc
                                    THEN [Free EXCEPT !.state = "RUNNABLE", !.pid = 1] ELSE Free
      /\ \A s \in Slots : np[s] = 0 /\ pc[s] = "user"
  OBVIOUS
<1>2. /\ 0 \in 0 .. NPROC /\ 0 \in 0 .. NPROC + 2 /\ 0 \in 0 .. NFILE
      /\ {"UNUSED", "RUNNABLE"} \subseteq State /\ "user" \in Place
  BY XvProcAssumption, XvPipeAssumption DEF State, Place
<1>3. ProcTypeOK
  <2>1. \A s \in Slots : proc[s] \in Entry
    BY <1>1, <1>2 DEF Entry, Free
  <2>2. proc \in [Slots -> Entry]
    BY <2>1
  <2> QED  BY <1>2, <2>2 DEF ProcTypeOK, Entry
<1>4. Family
  BY <1>1, InitSlot DEF Family, Alive, Free
<1>5. Pids
  BY <1>1 DEF Pids, Unused, Free
<1>6. Forks
  BY <1>1 DEF Forks
<1>7. FilesTypeOK
  BY <1>2 DEF FilesTypeOK
<1>8. NoFiles /\ Users
  BY DEF NoFiles, Users
<1>9. Counts
  <2>1. \A f \in Files : Holders(f) = {}
    BY DEF Holders, Files
  <2>2. Cardinality({}) = 0
    BY FS_EmptySet
  <2> QED  BY <2>1, <2>2 DEF Counts, NoPipe
<1>10. 0 \in Counter /\ PIPESIZE >= 0
  BY NoneBetween
<1>11. PipeTypeOK
  <2>1. << >> \in Seq(Nat)
    OBVIOUS
  <2> QED  BY <1>2, <1>10, <2>1 DEF PipeTypeOK, NoPipe
<1>12. Count = 0
  BY NoneBetween DEF Count, NoPipe, Between
<1>13. Locked
  BY <1>1, InitSlot DEF Locked
<1>14. Sleepers
  BY <1>1 DEF Sleepers, Free
<1>15. InOrder
  BY <1>10, <1>12 DEF InOrder
<1> QED  BY <1>3, <1>4, <1>5, <1>6, <1>7, <1>8, <1>9, <1>11, <1>13, <1>14, <1>15 DEF IInv, TypeOK

LEMMA ProcSame == ProcInv /\ UNCHANGED procVars => ProcInv'
BY DEF ProcInv, ProcTypeOK, Family, Pids, Forks, Alive, Unused, procVars, table

LEMMA PipeSame ==
  ASSUME PipePart, UNCHANGED <<procVars, stream, plock, left>>
  PROVE  PipePart'
<1>1. \A s : Children(s)' = Children(s) /\ Zombies(s)' = Zombies(s)
  BY DEF Children, Zombies, procVars, table
<1>2. \A s \in Slots : proc'[s].state = "SLEEPING" => StillAsleep(s)
  BY <1>1 DEF StillAsleep, procVars, table
<1>3. plock # 0 => proc'[plock].state = "RUNNABLE"
  BY DEF PipePart, Locked, procVars, table
<1> QED  BY <1>2, <1>3, RestKeeps DEF PipePart, PipeTypeOK, procVars

LEMMA StutterInv == IInv /\ UNCHANGED vars => IInv'
<1> SUFFICES ASSUME IInv, UNCHANGED vars PROVE IInv'
  OBVIOUS
<1>1. ProcInv'
  BY ProcSame, Parts DEF vars
<1>2. FilesPart'
  BY FilesKept, Parts DEF vars, FilesPart, Users, Alive, procVars, table, stream
<1>3. PipePart'
  BY PipeSame, Parts DEF vars
<1> QED  BY <1>1, <1>2, <1>3 DEF IInv, TypeOK, ProcInv, FilesPart, PipePart

\* A process comes from user space into a call.
LEMMA EnterInv ==
  ASSUME IInv, NEW p \in Slots, In(p, "user"), NEW call \in Place \ Sleepy,
         pc' = [pc EXCEPT ![p] = call], UNCHANGED <<table, np, kills, files, stream, plock>>,
         left' \in [Slots -> Nat],
         call = "read" => Has(p, FALSE), call = "write" => Has(p, TRUE)
  PROVE  IInv'
<1>1. ProcInv /\ FilesPart /\ PipePart
  BY Parts
<1>2. /\ pc[p] = "user" /\ pc'[p] = call /\ \A s \in Slots \ {p} : pc'[s] = pc[s]
      /\ proc' = proc
  BY <1>1 DEF In, ProcInv, ProcTypeOK, table
<1>3. ProcInv'
  BY <1>1, <1>2, MovesKeep DEF ProcInv, ProcTypeOK, Forks
<1>4. \A s : Children(s)' = Children(s) /\ Zombies(s)' = Zombies(s)
  BY <1>2 DEF Children, Zombies
<1>5. FilesPart'
  BY <1>1, <1>2, FilesKept DEF FilesPart, Users, Alive, stream, Sleepy
<1>6. PipePart'
  <2>1. \A s \in Slots : pc'[s] # pc[s] => pc[s] \notin Sleepy /\ pc'[s] \notin Sleepy
    BY <1>2 DEF Sleepy
  <2>2. \A s \in Slots : proc'[s].state = "SLEEPING" => StillAsleep(s)
    BY <1>2, <1>4 DEF StillAsleep, In
  <2>3. plock # 0 => proc'[plock].state = "RUNNABLE"
    BY <1>1, <1>2 DEF PipePart, Locked
  <2> QED  BY <1>1, <2>1, <2>2, <2>3, RestKeeps
<1> QED  BY <1>3, <1>5, <1>6 DEF IInv, TypeOK, ProcInv, FilesPart, PipePart

\* The steps of proc.c that leave the files and the pipe alone.
LEMMA TableInv ==
  ASSUME IInv, NEW p \in Slots, NEW k, AllocProc(p) \/ ForkFails(p) \/ Wait(p) \/ Kill(p, k), Rest
  PROVE  IInv'
<1>1. ProcInv /\ FilesPart /\ PipePart
  BY Parts
<1>2. ProcInv' /\ PipePart'
  BY <1>1, AllocKeeps, ForkFailsKeeps, WaitKeeps, KillKeeps, AllocRest, WaitRest, KillRest
<1>3. \A s \in Slots : Alive(s) => Alive(s)'
  <2>1. CASE AllocProc(p) \/ ForkFails(p)
    BY <1>1, <2>1, AllocKeeps, ForkFailsKeeps
  <2>2. CASE Wait(p)
    BY <1>1, <2>2, WaitKeeps DEF Alive
  <2>3. CASE Kill(p, k)
    BY <1>1, <2>3, KillKeeps DEF Alive
  <2> QED  BY <2>1, <2>2, <2>3
<1>4. \A s \in Slots : pc'[s] \in {pc[s], "user"}
  <2>1. CASE AllocProc(p) \/ ForkFails(p)
    BY <1>1, <2>1 DEF AllocProc, ForkFails, ProcInv, ProcTypeOK
  <2>2. CASE Wait(p)
    BY <1>1, <2>2, WaitKeeps
  <2>3. CASE Kill(p, k)
    BY <1>1, <2>3, KillKeeps
  <2> QED  BY <2>1, <2>2, <2>3
<1>5. FilesPart'
  BY <1>1, <1>3, <1>4, FilesKept DEF FilesPart, Users, Rest, stream
<1> QED  BY <1>2, <1>5 DEF IInv, TypeOK, ProcInv, FilesPart, PipePart

LEMMA ForkInv ==
  ASSUME IInv, NEW p \in Slots, Fork(p)
  PROVE  IInv'
<1>1. TypeOK /\ ProcInv /\ FilesPart /\ PipePart
  BY Parts DEF IInv
<1>2. ProcInv'
  BY <1>1, ForkKeeps DEF Fork
<1>3. FilesPart'
  BY <1>1, ForkFiles DEF FilesPart
<1>4. PipePart'
  BY <1>1, ForkRest DEF Fork
<1> QED  BY <1>2, <1>3, <1>4 DEF IInv, TypeOK, ProcInv, FilesPart, PipePart

LEMMA ExitInv ==
  ASSUME IInv, NEW p \in Slots, Exit(p)
  PROVE  IInv'
<1>1. ProcInv /\ FilesPart /\ PipePart
  BY Parts
<1>2. ProcInv' /\ PipePart'
  BY <1>1, ExitKeeps, ExitRest DEF Exit
<1>3. \A s \in Slots : Alive(s) => Alive(s)' \/ OpenFds(s) = {}
  <2>1. OpenFds(p) = {} /\ ExitLast(p)
    BY DEF Exit
  <2>2. \A s \in Slots \ {p} : \/ proc'[s].state = proc[s].state
                               \/ proc'[s].state = "RUNNABLE"
    BY <1>1, <2>1, ExitTable
  <2> QED  BY <2>1, <2>2 DEF Alive
<1>4. pc' = pc /\ UNCHANGED <<files, stream>>
  BY DEF Exit, ExitLast
<1>5. FilesPart'
  BY <1>1, <1>3, <1>4, FilesKept DEF FilesPart, Users, stream
<1> QED  BY <1>2, <1>5 DEF IInv, TypeOK, ProcInv, FilesPart, PipePart

LEMMA PipeInv ==
  ASSUME IInv, NEW p \in Slots, Pipe(p)
  PROVE  IInv'
<1>1. TypeOK /\ ProcInv /\ FilesPart /\ PipePart
  BY Parts DEF IInv
<1>2. ProcInv'
  BY <1>1, ProcSame DEF Pipe
<1>3. FilesPart' /\ \A s \in Slots : pc[s] \notin {"read", "readSleeps", "write", "writeSleeps"}
  BY <1>1, PipeFiles DEF FilesPart
<1>4. PipePart'
  BY <1>1, <1>3, PipeRest
<1> QED  BY <1>2, <1>3, <1>4 DEF IInv, TypeOK, ProcInv, FilesPart, PipePart

LEMMA DupInv ==
  ASSUME IInv, NEW p \in Slots, NEW d \in Fds, Dup(p, d)
  PROVE  IInv'
<1>1. TypeOK /\ ProcInv /\ FilesPart /\ PipePart
  BY Parts DEF IInv
<1>2. ProcInv' /\ PipePart'
  BY <1>1, ProcSame, PipeSame DEF Dup
<1>3. FilesPart'
  BY <1>1, DupFiles DEF FilesPart
<1> QED  BY <1>2, <1>3 DEF IInv, TypeOK, ProcInv, FilesPart, PipePart

\* close, and the closing of files in exit
LEMMA CloseInv ==
  ASSUME IInv, NEW p \in Slots, NEW d \in Fds, ofile[p][d] # 0, FileClose(p, d),
         pc[p] \in {"user", "exit"},
         UNCHANGED <<nextpid, pc, np, kills, sent, delivered, cut, plock, left>>
  PROVE  IInv'
<1>1. TypeOK /\ ProcInv /\ FilesPart /\ PipePart
  BY Parts DEF IInv
<1>2. /\ FilesTypeOK' /\ Counts'
      /\ \A s \in Slots \ {p} : ofile'[s] = ofile[s]
      /\ \A x \in Fds : ofile[p][x] = 0 => ofile'[p][x] = 0
      /\ \A s \in Slots \ {p}, w \in BOOLEAN : Has(s, w) => Has(s, w)'
      /\ \/ UNCHANGED <<pipe, proc>>
         \/ \E w \in BOOLEAN : Opened(w) /\ PipeClose(w)
  BY <1>1, CloseFiles DEF FilesPart
<1>3. ProcInv' /\ PipePart' /\ \A s \in Slots : Alive(s)' = Alive(s)
  <2>1. CASE UNCHANGED <<pipe, proc>>
    BY <1>1, <2>1, ProcSame, PipeSame DEF procVars, table, stream, Alive
  <2>2. CASE \E w \in BOOLEAN : PipeClose(w)
    BY <1>1, <2>2, CloseRest
  <2> QED  BY <1>2, <2>1, <2>2
<1>4. NoFiles'
  BY <1>1, <1>2, <1>3 DEF FilesPart, NoFiles
<1>5. Users'
  BY <1>1, <1>2 DEF FilesPart, Users
<1> QED  BY <1>2, <1>3, <1>4, <1>5 DEF IInv, TypeOK, ProcInv, PipePart

LEMMA CallInv ==
  ASSUME IInv, NEW p \in Slots, Read(p) \/ Write(p) \/ ReadSleeps(p) \/ WriteSleeps(p)
  PROVE  IInv'
<1>1. ProcInv /\ FilesPart /\ PipePart
  BY Parts
<1>2. \A s \in Slots : pc[s] = "read" => pipe.readopen
  BY <1>1, HasOpen DEF FilesPart, Users, Opened
<1>3. CASE Read(p) \/ Write(p)
  <2>1. /\ ProcInv' /\ PipePart' /\ CallMoves(p)
        /\ \/ pc[p] = "read" /\ pc'[p] \in {"user", "readSleeps"}
           \/ pc[p] = "write" /\ pc'[p] \in {"user", "writeSleeps"}
    BY <1>1, <1>2, <1>3, ReadRest, WriteRest
  <2>2. FilesPart'
    BY <1>1, <2>1, FilesKept DEF FilesPart, Users, CallMoves
  <2> QED  BY <2>1, <2>2 DEF IInv, TypeOK, ProcInv, FilesPart, PipePart
<1>4. CASE ReadSleeps(p) \/ WriteSleeps(p)
  <2>1. ProcInv' /\ PipePart' /\ \A s \in Slots : Alive(s)' = Alive(s)
    BY <1>1, <1>4, SleepRest
  <2>2. /\ UNCHANGED <<files, stream>> /\ \A s \in Slots \ {p} : pc'[s] = pc[s]
        /\ \/ pc[p] = "readSleeps" /\ pc'[p] = "read"
           \/ pc[p] = "writeSleeps" /\ pc'[p] = "write"
    BY <1>1, <1>4, Channels DEF ReadSleeps, WriteSleeps, GoToSleep, In, ProcInv, ProcTypeOK
  <2>3. FilesPart'
    BY <1>1, <2>1, <2>2, FilesKept DEF FilesPart, Users, stream
  <2> QED  BY <2>1, <2>3 DEF IInv, TypeOK, ProcInv, FilesPart, PipePart
<1> QED  BY <1>3, <1>4

LEMMA NextInv == IInv /\ [Next]_vars => IInv'
<1> SUFFICES ASSUME IInv, Next PROVE IInv'
  BY StutterInv
<1>1. PICK p \in Slots : User(p) \/ Kernel(p)
  BY DEF Next
<1>2. left \in [Slots -> Nat] /\ Sizes \subseteq Nat
  BY XvPipeAssumption DEF IInv, TypeOK, PipeTypeOK
<1>3. CASE EnterOther(p)
  <2>1. PICK call \in {"wait", "fork", "exit"} : Enter(p, call) /\ Rest
    BY <1>3 DEF EnterOther
  <2> QED  BY <1>2, <2>1, EnterInv DEF Enter, Rest, Place, Sleepy
<1>4. CASE Pipe(p)
  BY <1>4, PipeInv
<1>5. CASE \E d \in Fds : Dup(p, d)
  BY <1>5, DupInv
<1>6. CASE \E d \in Fds : Close(p, d)
  BY <1>6, CloseInv DEF Close, In
<1>7. CASE \E n \in Sizes : EnterRead(p, n) \/ EnterWrite(p, n)
  <2>1. PICK n \in Sizes, call \in {"read", "write"} :
          /\ Enter(p, call) /\ left' = [left EXCEPT ![p] = n]
          /\ call = "read" => Has(p, FALSE)
          /\ call = "write" => Has(p, TRUE)
          /\ UNCHANGED <<files, stream, plock>>
    BY <1>7 DEF EnterRead, EnterWrite
  <2>2. left' \in [Slots -> Nat]
    BY <1>2, <2>1
  <2> QED  BY <2>1, <2>2, EnterInv DEF Enter, Place, Sleepy
<1>8. CASE \E k \in Killable : Kill(p, k) /\ Rest
  BY <1>8, TableInv
<1>9. CASE TrapKilled(p) /\ Rest
  BY <1>2, <1>9, EnterInv DEF TrapKilled, Rest, Place, Sleepy
<1>10. CASE (AllocProc(p) \/ ForkFails(p) \/ Wait(p)) /\ Rest
  BY <1>10, TableInv
<1>11. CASE Fork(p)
  BY <1>11, ForkInv
<1>12. CASE ExitClose(p)
  <2>1. First(OpenFds(p)) \in Fds /\ ofile[p][First(OpenFds(p))] # 0
    <3>1. OpenFds(p) \in SUBSET Nat /\ OpenFds(p) # {}
      BY <1>12 DEF ExitClose, OpenFds, Fds
    <3> QED  BY <3>1, FirstIsIn DEF OpenFds
  <2> QED  BY <1>12, <2>1, CloseInv DEF ExitClose, In
<1>13. CASE Exit(p)
  BY <1>13, ExitInv
<1>14. CASE Read(p) \/ Write(p) \/ ReadSleeps(p) \/ WriteSleeps(p)
  BY <1>14, CallInv
<1> QED  BY <1>1, <1>3, <1>4, <1>5, <1>6, <1>7, <1>8, <1>9, <1>10, <1>11, <1>12, <1>13, <1>14
         DEF User, Kernel

LEMMA InductiveInvariant == Spec => []IInv
<1>1. Init => IInv
  BY InitInv
<1>2. IInv /\ [Next]_vars => IInv'
  BY NextInv
<1> QED  BY <1>1, <1>2, PTL DEF Spec

-----------------------------------------------------------------------------
\* What the runs check, for every table and every pipe

\* Types: no slot, file, counter or place of data leaves its range.
THEOREM TypeCorrect == Spec => []TypeOK
<1>1. IInv => TypeOK
  BY DEF IInv
<1> QED  BY <1>1, InductiveInvariant, PTL

\* proc.c: whoever lives has a parent that can wait for it, and a pid of its own.
THEOREM HasParentHolds == Spec => []HasParent
<1>1. IInv => HasParent
  BY DEF IInv, Family, Pids, HasParent, Alive, Unused
<1> QED  BY <1>1, InductiveInvariant, PTL

\* file.c: references are the descriptors that lead to a file, and an end of the
\* pipe is open as long as there are any.
THEOREM EndsAreCountedHolds == Spec => []EndsAreCounted
<1>1. IInv => EndsAreCounted
  <2> SUFFICES ASSUME Counts, PipeTypeOK PROVE EndsAreCounted
    BY DEF IInv, TypeOK
  <2>1. \A f \in Files : file[f].ref = Cardinality(Holders(f))
    BY DEF Counts
  <2>2. /\ pipe.readopen = \E f \in Files : Holders(f) # {} /\ file[f].writable = FALSE
        /\ pipe.writeopen = \E f \in Files : Holders(f) # {} /\ file[f].writable = TRUE
    <3>1. \A w \in BOOLEAN : (IF w THEN pipe.writeopen ELSE pipe.readopen)
                               <=> \E f \in Files : Holders(f) # {} /\ file[f].writable = w
      BY DEF Counts
    <3>2. pipe.readopen \in BOOLEAN /\ pipe.writeopen \in BOOLEAN
      BY DEF PipeTypeOK
    <3>3. /\ pipe.readopen <=> \E f \in Files : Holders(f) # {} /\ file[f].writable = FALSE
          /\ pipe.writeopen <=> \E f \in Files : Holders(f) # {} /\ file[f].writable = TRUE
      BY <3>1
    <3> QED  BY <3>2, <3>3
  <2> QED  BY <2>1, <2>2 DEF EndsAreCounted, Holders
<1> QED  BY <1>1, InductiveInvariant, PTL

\* pipe.c, proc.c: nobody sleeps for what has already happened.
THEOREM NoLostWakeupHolds == Spec => []NoLostWakeup
<1>1. IInv => NoLostWakeup
  BY DEF IInv, Sleepers, Asleep, NoLostWakeup
<1> QED  BY <1>1, InductiveInvariant, PTL

\* pipe.c: the n bytes that readers got are the first n that were written, and the
\* bytes under way are the rest, across the end of data and the overflow of nread.
Delivered == /\ \A i \in 1 .. Len(delivered) : delivered[i] = i
             /\ \A i \in 1 .. Count : Under(i) = Len(delivered) + i
             /\ Len(delivered) + Count = sent /\ Count <= PIPESIZE
THEOREM DeliveredInOrder == Spec => []Delivered
<1>1. IInv => Delivered
  BY DEF IInv, InOrder, Delivered
<1> QED  BY <1>1, InductiveInvariant, PTL

\* pipe.c: whoever holds p->lock on its way to sleep sees what it saw: the pipe is
\* empty, or full, and the other end is open.
LookHolds == \A p \in Slots : /\ pc[p] = "readSleeps" => Count = 0 /\ pipe.writeopen
                              /\ pc[p] = "writeSleeps" => Count = PIPESIZE /\ pipe.readopen
THEOREM LookStillHolds == Spec => []LookHolds
<1>1. IInv => LookHolds
  BY DEF IInv, Locked, LookHolds
<1> QED  BY <1>1, InductiveInvariant, PTL

-----------------------------------------------------------------------------
\* The pipe is a stream of bytes

UnderWay == [i \in 1 .. Count |-> pipe.data[(pipe.nread + i - 1) % PIPESIZE]]

LEMMA UnderWayIs ==
  ASSUME IInv
  PROVE  /\ Count \in Nat /\ UnderWay \in Seq(Nat) /\ Len(UnderWay) = Count
         /\ \A i \in 1 .. Count : UnderWay[i] = Under(i)
<1>1. /\ Count \in Nat /\ Len(delivered) \in Nat
      /\ \A i \in 1 .. Count : Under(i) = Len(delivered) + i
  BY CountIs, BetweenType DEF IInv, TypeOK, PipeTypeOK, InOrder
<1>2. UnderWay = [i \in 1 .. Count |-> Under(i)]
  BY DEF UnderWay, Under
<1>3. UnderWay \in [1 .. Count -> Nat]
  BY <1>1, <1>2
<1> QED  BY <1>1, <1>2, <1>3, ASequence

LEMMA UnderWayThen ==
  ASSUME IInv'
  PROVE  /\ Count' \in Nat /\ UnderWay' \in Seq(Nat) /\ Len(UnderWay') = Count'
         /\ \A i \in 1 .. Count' : UnderWay'[i] = Under(i)'
<1>1. /\ Count' \in Nat /\ Len(delivered') \in Nat
      /\ \A i \in 1 .. Count' : Under(i)' = Len(delivered') + i
  <2>1. pipe'.nread \in Counter /\ pipe'.nwrite \in Counter /\ delivered' \in Seq(Nat)
    BY DEF IInv, TypeOK, PipeTypeOK
  <2>2. Count' = Between(pipe'.nread, pipe'.nwrite)
    BY DEF Count, Between
  <2> QED  BY <2>1, <2>2, BetweenType DEF IInv, InOrder
<1>2. UnderWay' = [i \in 1 .. Count' |-> Under(i)']
  BY DEF UnderWay, Under
<1>3. UnderWay' \in [1 .. Count' -> Nat]
  BY <1>1, <1>2
<1> QED  BY <1>1, <1>2, <1>3, ASequence

\* Two sequences are one if they are as long and agree.
LEMMA SameSequence ==
  ASSUME NEW s \in Seq(Nat), NEW t \in Seq(Nat), Len(s) = Len(t),
         \A i \in 1 .. Len(s) : s[i] = t[i]
  PROVE  s = t
OBVIOUS

LEMMA StreamSame == UNCHANGED stream => UNCHANGED Stream!vars
BY DEF stream, Stream!vars, Count

LEMMA PipeMakes ==
  ASSUME IInv, NEW p \in Slots, Pipe(p)
  PROVE  Stream!Next
<1>1. Count' = 0
  BY NoneBetween DEF Pipe, Count, NoPipe, Between
<1>2. UnderWay' = << >>
  BY <1>1 DEF UnderWay
<1>3. delivered' = << >> /\ pipe'.readopen = TRUE /\ pipe'.writeopen = TRUE
      /\ ~pipe.readopen /\ ~pipe.writeopen
  BY DEF Pipe, NoPipe
<1> QED  BY <1>2, <1>3 DEF Stream!Next, Stream!Make, UnderWay

LEMMA CloseShuts ==
  ASSUME IInv, NEW p \in Slots, NEW d \in Fds, ofile[p][d] # 0, FileClose(p, d),
         UNCHANGED delivered
  PROVE  [Stream!Next]_Stream!vars
<1>1. \/ UNCHANGED <<pipe, proc>>
      \/ \E w \in BOOLEAN : Opened(w) /\ PipeClose(w)
  BY CloseFiles DEF IInv
<1>2. CASE UNCHANGED pipe
  BY <1>2 DEF Stream!vars, Count
<1>3. CASE \E w \in BOOLEAN : Opened(w) /\ PipeClose(w)
  <2>1. PICK w \in BOOLEAN : Opened(w) /\ PipeClose(w)
    BY <1>3
  <2>2. /\ UNCHANGED <<pipe.nread, pipe.nwrite, pipe.data>>
        /\ \/ w /\ pipe.writeopen /\ ~pipe'.writeopen /\ pipe'.readopen = pipe.readopen
           \/ ~w /\ pipe.readopen /\ ~pipe'.readopen /\ pipe'.writeopen = pipe.writeopen
    BY <2>1 DEF PipeClose, Opened, IInv, TypeOK, PipeTypeOK
  <2>3. Count' = Count
    BY <2>2 DEF Count
  <2> QED  BY <2>2, <2>3 DEF Stream!Next, Stream!Shut
<1> QED  BY <1>1, <1>2, <1>3

LEMMA ReadTakesOut ==
  ASSUME IInv, IInv', NEW p \in Slots, Read(p)
  PROVE  [Stream!Next]_Stream!vars
<1>1. CASE ~(Count # 0 \/ ~pipe.writeopen)
  BY <1>1 DEF Read, Stream!vars, Count
<1>2. CASE Count # 0 \/ ~pipe.writeopen
  <2>1. ReadBytes(p) /\ UNCHANGED <<sent, cut>> /\ pc[p] = "read"
    BY <1>2 DEF Read, In
  <2>2. Count \in Nat /\ left[p] \in Nat /\ delivered \in Seq(Nat)
    BY UnderWayIs DEF IInv, TypeOK, PipeTypeOK
  <2>3. PICK k \in 0 .. Count : k = Least(left[p], Count)
    BY <2>2 DEF Least
  <2>4. /\ delivered' = delivered \o Taken(k)
        /\ pipe' = [pipe EXCEPT !.nread = (@ + k) % UintSize]
    BY <2>1, <2>3 DEF ReadBytes
  <2>5. /\ Count' = Count - k
        /\ pipe'.readopen = pipe.readopen /\ pipe'.writeopen = pipe.writeopen
        /\ \A i \in 1 .. Count - k : Under(i)' = Under(k + i)
    BY <2>1, <2>4, Parts, ReadData
  <2>6. /\ UnderWay \in Seq(Nat) /\ Len(UnderWay) = Count
        /\ \A i \in 1 .. Count : UnderWay[i] = Under(i)
        /\ UnderWay' \in Seq(Nat) /\ Len(UnderWay') = Count'
        /\ \A i \in 1 .. Count' : UnderWay'[i] = Under(i)'
    BY UnderWayIs, UnderWayThen
  <2>7. Taken(k) = SubSeq(UnderWay, 1, k)
    <3>1. \A i \in 1 .. k : Taken(k)[i] = UnderWay[i]
      BY <2>2, <2>6 DEF Taken, Under
    <3>2. \A i \in 1 .. k : UnderWay[i] \in Nat
      BY <2>2, <2>6
    <3>3. Taken(k) \in [1 .. k -> Nat]
      <4>1. Taken(k) = [i \in 1 .. k |-> Taken(k)[i]]
        BY DEF Taken
      <4> QED  BY <3>1, <3>2, <4>1
    <3>4. Taken(k) \in Seq(Nat) /\ Len(Taken(k)) = k
      BY <2>2, <3>3, ASequence
    <3>5. /\ SubSeq(UnderWay, 1, k) \in Seq(Nat) /\ Len(SubSeq(UnderWay, 1, k)) = k
          /\ \A i \in 1 .. k : SubSeq(UnderWay, 1, k)[i] = UnderWay[i]
      BY <2>2, <2>6
    <3> QED  BY <3>1, <3>4, <3>5, SameSequence
  <2>8. UnderWay' = SubSeq(UnderWay, k + 1, Len(UnderWay))
    BY <2>2, <2>5, <2>6
  <2>9. pipe.readopen
    BY <2>1, HasOpen DEF IInv, TypeOK, Users, Opened
  <2>10. CASE k = 0
    <3>1. delivered' = delivered
      <4>1. Taken(0) = << >>
        BY DEF Taken
      <4> QED  BY <2>2, <2>4, <2>10, <4>1
    <3>2. UnderWay' = UnderWay
      BY <2>2, <2>6, <2>8, <2>10
    <3> QED  BY <2>5, <3>1, <3>2 DEF Stream!vars, UnderWay
  <2>11. CASE k # 0
    <3>1. k \in 1 .. Len(UnderWay)
      BY <2>2, <2>6, <2>11
    <3> QED  BY <2>4, <2>5, <2>7, <2>8, <2>9, <3>1 DEF Stream!Next, Stream!Out, UnderWay
  <2> QED  BY <2>10, <2>11
<1> QED  BY <1>1, <1>2

LEMMA WritePutsIn ==
  ASSUME IInv, IInv', NEW p \in Slots, Write(p)
  PROVE  [Stream!Next]_Stream!vars
<1>1. pc[p] = "write" /\ UNCHANGED delivered
  BY DEF Write, In
<1>2. Count \in Nat /\ Count <= PIPESIZE /\ PIPESIZE \in Nat /\ left[p] \in Nat
  BY UnderWayIs, RingSizes DEF IInv, TypeOK, PipeTypeOK, InOrder
<1>3. PICK k \in 0 .. PIPESIZE - Count : k = Storable(p)
  BY <1>2 DEF Storable, Least
<1>4. Store(k)
  BY <1>3 DEF Write
<1>5. /\ Count' = Count + k
      /\ pipe'.readopen = pipe.readopen /\ pipe'.writeopen = pipe.writeopen
      /\ \A i \in 1 .. Count : Under(i)' = Under(i)
  BY <1>1, <1>4, Parts, WriteData
<1>6. /\ UnderWay \in Seq(Nat) /\ Len(UnderWay) = Count
      /\ \A i \in 1 .. Count : UnderWay[i] = Under(i)
      /\ UnderWay' \in Seq(Nat) /\ Len(UnderWay') = Count'
      /\ \A i \in 1 .. Count' : UnderWay'[i] = Under(i)'
  BY UnderWayIs, UnderWayThen
<1>7. \A i \in 1 .. Count : UnderWay'[i] = UnderWay[i]
  BY <1>2, <1>5, <1>6
<1>8. pipe.writeopen
  BY <1>1, HasOpen DEF IInv, TypeOK, Users, Opened
<1>9. CASE k = 0
  <2>0. Count' = Count
    BY <1>2, <1>5, <1>9
  <2>1. UnderWay' = UnderWay
    <3>1. Len(UnderWay) = Len(UnderWay') /\ UnderWay \in Seq(Nat) /\ UnderWay' \in Seq(Nat)
      BY <1>6, <2>0
    <3>2. \A i \in 1 .. Len(UnderWay) : UnderWay[i] = UnderWay'[i]
      BY <1>6, <1>7
    <3> QED  BY <3>1, <3>2, SameSequence
  <2> QED  BY <1>1, <1>5, <2>1 DEF Stream!vars, UnderWay
<1>10. CASE k # 0
  <2>1. Len(UnderWay) < Len(UnderWay') /\ Len(UnderWay') <= PIPESIZE
    BY <1>2, <1>5, <1>6, <1>10
  <2>2. SubSeq(UnderWay, 1, Len(UnderWay)) = SubSeq(UnderWay', 1, Len(UnderWay))
    BY <1>2, <1>5, <1>6, <1>7, <2>1
  <2>3. Stream!IsStrictPrefix(UnderWay, UnderWay')
    BY <1>2, <1>5, <1>6, <2>1, <2>2 DEF Stream!IsStrictPrefix, Stream!IsPrefix
  <2> QED  BY <1>1, <1>5, <1>8, <2>1, <2>3 DEF Stream!Next, Stream!In, UnderWay
<1> QED  BY <1>9, <1>10

\* pipealloc, piperead, pipewrite and pipeclose make a stream of bytes.
THEOREM PipeIsAByteStream == Spec => ImplementsByteStream
<1>1. Init => Stream!Fresh
  <2> SUFFICES ASSUME Init PROVE Stream!Fresh
    OBVIOUS
  <2>1. Count = 0
    BY NoneBetween DEF Init, Count, NoPipe, Between
  <2>2. [i \in 1 .. Count |-> pipe.data[(pipe.nread + i - 1) % PIPESIZE]] = << >>
    BY <2>1
  <2> QED  BY <2>2 DEF Init, Stream!Fresh, NoPipe
<1>2. IInv /\ IInv' /\ [Next]_vars => [Stream!Next]_Stream!vars
  <2> SUFFICES ASSUME IInv, IInv', [Next]_vars PROVE [Stream!Next]_Stream!vars
    OBVIOUS
  <2>1. CASE UNCHANGED stream
    BY <2>1, StreamSame
  <2>2. ASSUME NEW p \in Slots, Pipe(p) PROVE Stream!Next
    BY <2>2, PipeMakes
  <2>3. ASSUME NEW p \in Slots, Read(p) \/ Write(p) PROVE [Stream!Next]_Stream!vars
    BY <2>3, ReadTakesOut, WritePutsIn
  <2>4. ASSUME NEW p \in Slots, NEW d \in Fds, Close(p, d) PROVE [Stream!Next]_Stream!vars
    BY <2>4, CloseShuts DEF Close
  <2>5. ASSUME NEW p \in Slots, ExitClose(p) PROVE [Stream!Next]_Stream!vars
    <3>1. First(OpenFds(p)) \in Fds /\ ofile[p][First(OpenFds(p))] # 0
      <4>1. OpenFds(p) \in SUBSET Nat /\ OpenFds(p) # {}
        BY <2>5 DEF ExitClose, OpenFds, Fds
      <4> QED  BY <4>1, FirstIsIn DEF OpenFds
    <3> QED  BY <2>5, <3>1, CloseShuts DEF ExitClose
  <2>6. CASE UNCHANGED vars
    BY <2>1, <2>6 DEF vars
  <2>7. ASSUME NEW p \in Slots, User(p) \/ Kernel(p)
        PROVE  \/ UNCHANGED stream
               \/ Pipe(p) \/ ExitClose(p) \/ Read(p) \/ Write(p)
               \/ \E d \in Fds : Close(p, d)
    BY <2>7 DEF User, Kernel, EnterOther, Rest, Dup, EnterRead, EnterWrite, Fork, Exit,
                ReadSleeps, WriteSleeps, GoToSleep
  <2> QED  BY <2>1, <2>2, <2>3, <2>4, <2>5, <2>6, <2>7 DEF Next
<1> QED  BY <1>1, <1>2, InductiveInvariant, PTL DEF Spec, ImplementsByteStream, Stream!Spec

=============================================================================
