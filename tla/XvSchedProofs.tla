---------------------------- MODULE XvSchedProofs ----------------------------
(***************************************************************************)
(* Spin locks, interrupts and the scheduler, for any number of processors  *)
(* and processes, any width of ticks and any programs: nothing panics, a   *)
(* lock has at most one holder, with its interrupts off, somebody who      *)
(* spins waits for another, a process is on one processor, and nobody      *)
(* sleeps for what has happened.                                           *)
(*                                                                         *)
(* The argument: each frame of each thread is at a mode, which says what   *)
(* the code run so far has done to the locks and to the process, and the   *)
(* code that is left leads from that mode to an end (Left).  The registers *)
(* of a processor, the locks and the table agree with the modes of what    *)
(* runs (Views, Locked, Running), and what waits off the processors waits  *)
(* where a scheduler may resume it (Off).                                  *)
(***************************************************************************)
EXTENDS XvSched, FiniteSetTheorems, WellFoundedInduction, TLAPS

-----------------------------------------------------------------------------
(* What a processor that runs a piece of code has done *)

Lock == {"ptable", "time"}

\* From pushcli to popcli
Phases == {"out", "pushed", "locked", "held", "forgot", "open"}
Inside == {"locked", "held", "forgot"}

\* The code of a frame: that of the boot processor and of the others outside of
\* processes, a program, a call, and the interrupts of both
Kinds == {"main", "base", "user", "call", "trap", "irq", "gone"}

\* st says of a process whether it is in its way out of the processor, child is the slot
\* that its fork has allocated, want what it is about to sleep for; tick is that of an
\* interrupt that has not woken anybody yet, next the processor to start.
Records == [lock : [Lock -> Phases], kind : Kinds, st : {"run", "back", "stop", "dying", "dead"},
            child : 0 .. NPROC, want : 0 .. TicksChan, tick : BOOLEAN, next : 1 .. NCPU]

Idle(m) == \A l \in Lock : m.lock[l] = "out"
Ours(m) == m.lock["ptable"] = "held" /\ m.lock["time"] = "out"

Lawful(m) ==
  /\ m.lock["time"] \in {"pushed", "locked"} => m.lock["ptable"] = "out"
  /\ m.st # "run" => Ours(m) /\ m.kind \in {"call", "trap", "gone"} /\ m.want = 0
  /\ m.want # 0 => m.kind = "call" /\ (m.lock["ptable"] = "held" \/ (m.lock["time"] = "held" /\ m.want = TicksChan))
  /\ m.tick => m.lock["time"] = "held"
  /\ m.kind = "user" => Idle(m) /\ m.child = 0

Mode == {m \in Records : Lawful(m)}

Instr == {"pushcli", "xchg", "record", "forget", "unlock", "popcli", "sti", "scan", "sched", "intena",
          "give", "doze", "wakeup1", "allocproc", "runnable", "exit", "wait", "ticks0", "slept", "tick",
          "slice", "iret", "startap", "await", "started", "panic"}
         \X (Int \cup Lock \cup BOOLEAN \cup {"zombie exit"})

Turns(m, n, l, from, to) == l \in Lock /\ m.lock[l] = from /\ n = [m EXCEPT !.lock[l] = to]

\* A process that holds ptable.lock and nothing else
Inner(m) == Ours(m) /\ m.st = "run" /\ m.want = 0

\* The instruction x takes a frame from m to n.
Leads(x, m, n) ==
  \E a \in {x[2]} :
     \/ x[1] = "pushcli" /\ Turns(m, n, a, "out", "pushed") /\ (a = "time" => m.lock["ptable"] = "out")
     \/ x[1] = "xchg" /\ Turns(m, n, a, "pushed", "locked")
     \/ x[1] = "record" /\ Turns(m, n, a, "locked", "held")
     \/ x[1] = "forget" /\ Turns(m, n, a, "held", "forgot") /\ m.st = "run"
     \/ x[1] = "unlock" /\ Turns(m, n, a, "forgot", "open")
     \/ x[1] = "popcli" /\ Turns(m, n, a, "open", "out")
     \/ x[1] = "sti" /\ m.kind \in {"main", "base"} /\ Idle(m) /\ n = m
     \/ x[1] = "scan" /\ m.kind \in {"main", "base"} /\ Inner(m) /\ a \in Nat /\ n = m
     \/ x[1] = "sched" /\ m.st = "stop" /\ n = [m EXCEPT !.st = "run"]
     \/ x[1] = "sched" /\ m.st = "dying" /\ n = [m EXCEPT !.st = "dead"]
     \/ x[1] = "intena" /\ a \in BOOLEAN /\ (m.kind = "trap" => a = FALSE)
          /\ ((m.st = "back" /\ n = [m EXCEPT !.st = "run"]) \/ (m.st = "dead" /\ n = m))
     \/ x[1] = "give" /\ Inner(m) /\ m.kind \in {"call", "trap"} /\ n = [m EXCEPT !.st = "stop"]
     \/ x[1] = "doze" /\ Ours(m) /\ m.kind = "call" /\ m.st = "run" /\ m.want = a /\ a # 0
          /\ n = [m EXCEPT !.st = "stop", !.want = 0]
     \/ x[1] = "wakeup1" /\ a \in 1 .. TicksChan /\ m.lock["ptable"] = "held" /\ m.st = "run" /\ m.want = 0
          /\ m.kind \in {"trap", "irq"} /\ n = [m EXCEPT !.tick = m.tick /\ a # TicksChan]
     \/ x[1] = "allocproc" /\ Inner(m) /\ m.kind \in {"main", "call"} /\ m.child = 0 /\ n = m
     \/ x[1] = "runnable" /\ Inner(m) /\ m.child = a /\ a # 0 /\ n = [m EXCEPT !.child = 0]
     \/ x[1] = "exit" /\ Inner(m) /\ m.kind = "call" /\ n = [m EXCEPT !.st = "dying"]
     \/ x[1] = "wait" /\ Inner(m) /\ m.kind = "call" /\ n = m
     \/ x[1] \in {"ticks0", "slept"} /\ m.kind = "call" /\ m.lock["time"] = "held" /\ m.lock["ptable"] = "out"
          /\ m.want = 0 /\ ~m.tick /\ (x[1] = "slept" => a = 1) /\ n = m
     \/ x[1] = "tick" /\ m.kind \in {"trap", "irq"} /\ m.lock["time"] = "held" /\ m.lock["ptable"] = "out"
          /\ n = [m EXCEPT !.tick = TRUE]
     \/ x[1] = "slice" /\ m.kind \in {"trap", "irq"} /\ Idle(m) /\ n = m
     \/ x[1] = "iret" /\ m.kind \in {"call", "trap", "irq"} /\ (Idle(m) \/ m.st = "dead")
          /\ m.child = 0 /\ n = [m EXCEPT !.kind = "gone"]
     \/ x[1] = "startap" /\ m.kind = "main" /\ Idle(m) /\ a = -m.next /\ m.next < NCPU
          /\ n = [m EXCEPT !.next = m.next + 1]
     \/ x[1] = "await" /\ m.kind = "main" /\ Idle(m) /\ a \in Cpus /\ n = m
     \/ x[1] = "started" /\ m.kind \in {"main", "base"} /\ Idle(m) /\ n = m
     \/ x[1] = "panic" /\ m.st = "dead" /\ n = m

\* A piece of code takes a frame from m to n.
Path(s, m, n) ==
  /\ s \in Seq(Instr)
  /\ \E M \in [1 .. Len(s) + 1 -> Mode] :
       /\ M[1] = m /\ M[Len(s) + 1] = n
       /\ \A i \in 1 .. Len(s) : Leads(s[i], M[i], M[i + 1])

\* Where a frame may end
Final(m) == \/ m.kind \in {"user", "main", "base"} /\ Idle(m) /\ m.child = 0
            \/ m.kind = "gone" /\ (Idle(m) \/ m.st = "dead")

\* The code s is what is left to do in a frame at m.
Left(s, m) == \E n \in Mode : Path(s, m, n) /\ Final(n)

-----------------------------------------------------------------------------
(* Paths *)

\* No code leads from a mode to itself.
LEMMA Empty == \A m \in Mode : Path(<< >>, m, m)
<1> SUFFICES ASSUME NEW m \in Mode PROVE Path(<< >>, m, m)
  OBVIOUS
<1> DEFINE M == [i \in 1 .. 1 |-> m]
<1>1. << >> \in Seq(Instr) /\ Len(<< >>) = 0 /\ M \in [1 .. Len(<< >>) + 1 -> Mode] /\ M[1] = m
  OBVIOUS
<1>2. M[Len(<< >>) + 1] = m /\ \A i \in 1 .. Len(<< >>) : FALSE
  BY <1>1
<1> HIDE DEF M
<1> QED  BY <1>1, <1>2 DEF Path

\* One instruction is a path.
LEMMA OneStep ==
  ASSUME NEW x \in Instr, NEW m \in Mode, NEW n \in Mode, Leads(x, m, n)
  PROVE  Path(<<x>>, m, n)
<1> DEFINE M == [i \in 1 .. 2 |-> IF i = 1 THEN m ELSE n]
<1>1. /\ <<x>> \in Seq(Instr) /\ Len(<<x>>) = 1 /\ <<x>>[1] = x
      /\ M \in [1 .. Len(<<x>>) + 1 -> Mode] /\ M[1] = m /\ M[2] = n
  OBVIOUS
<1> HIDE DEF M
<1>2. \A i \in 1 .. 1 : Leads(<<x>>[i], M[i], M[i + 1])
  <2>1. Leads(<<x>>[1], M[1], M[1 + 1])
    BY <1>1
  <2> QED  BY <2>1
<1> QED  BY <1>1, <1>2 DEF Path

\* Paths follow one another.
LEMMA Joined ==
  ASSUME NEW s, NEW t, NEW k, NEW m, NEW n, Path(s, m, k), Path(t, k, n)
  PROVE  Path(s \o t, m, n)
<1>1. s \in Seq(Instr) /\ t \in Seq(Instr)
  BY DEF Path
<1>2. PICK M \in [1 .. Len(s) + 1 -> Mode] :
        M[1] = m /\ M[Len(s) + 1] = k /\ \A i \in 1 .. Len(s) : Leads(s[i], M[i], M[i + 1])
  BY DEF Path
<1>3. PICK N \in [1 .. Len(t) + 1 -> Mode] :
        N[1] = k /\ N[Len(t) + 1] = n /\ \A i \in 1 .. Len(t) : Leads(t[i], N[i], N[i + 1])
  BY DEF Path
<1> DEFINE a == Len(s)
           b == Len(t)
           O == [i \in 1 .. a + b + 1 |-> IF i <= a + 1 THEN M[i] ELSE N[i - a]]
<1>4. /\ s \o t \in Seq(Instr) /\ Len(s \o t) = a + b /\ a \in Nat /\ b \in Nat
      /\ \A i \in 1 .. a + b : (s \o t)[i] = IF i <= a THEN s[i] ELSE t[i - a]
  BY <1>1
<1>5. O \in [1 .. a + b + 1 -> Mode] /\ O[1] = m /\ O[a + b + 1] = n
  BY <1>2, <1>3, <1>4
<1>6. ASSUME NEW i \in 1 .. a + b PROVE Leads((s \o t)[i], O[i], O[i + 1])
  <2>1. CASE i <= a
    <3>1. i \in 1 .. a /\ O[i] = M[i] /\ O[i + 1] = M[i + 1] /\ (s \o t)[i] = s[i]
      BY <1>4, <2>1
    <3> QED  BY <1>2, <3>1
  <2>2. CASE i > a
    <3>1. i - a \in 1 .. b /\ O[i + 1] = N[i - a + 1] /\ (s \o t)[i] = t[i - a]
      BY <1>4, <2>2
    <3>2. O[i] = N[i - a]
      BY <1>2, <1>3, <1>4, <2>2
    <3> HIDE DEF O
    <3> QED  BY <1>3, <3>1, <3>2
  <2> QED  BY <1>4, <2>1, <2>2
<1> HIDE DEF O
<1> QED  BY <1>4, <1>5, <1>6 DEF Path

\* The first step of a path
LEMMA Parted ==
  ASSUME NEW s, NEW m, NEW n, Path(s, m, n), s # << >>
  PROVE  \E k \in Mode : Leads(Head(s), m, k) /\ Path(Tail(s), k, n)
<1>1. s \in Seq(Instr) /\ Len(s) \in Nat \ {0}
  BY DEF Path
<1>2. PICK M \in [1 .. Len(s) + 1 -> Mode] :
        M[1] = m /\ M[Len(s) + 1] = n /\ \A i \in 1 .. Len(s) : Leads(s[i], M[i], M[i + 1])
  BY DEF Path
<1> DEFINE N == [i \in 1 .. Len(s) |-> M[i + 1]]
<1>3. /\ Tail(s) \in Seq(Instr) /\ Len(Tail(s)) = Len(s) - 1 /\ Head(s) = s[1]
      /\ \A i \in 1 .. Len(s) - 1 : Tail(s)[i] = s[i + 1]
  BY <1>1
<1>4. N \in [1 .. Len(Tail(s)) + 1 -> Mode] /\ N[1] = M[2] /\ N[Len(Tail(s)) + 1] = n
  BY <1>1, <1>2, <1>3
<1>5. \A i \in 1 .. Len(Tail(s)) : Leads(Tail(s)[i], N[i], N[i + 1])
  BY <1>1, <1>2, <1>3
<1> HIDE DEF N
<1>6. Leads(Head(s), m, M[2]) /\ M[2] \in Mode
  BY <1>1, <1>2, <1>3
<1> QED  BY <1>3, <1>4, <1>5, <1>6 DEF Path

\* A set of natural numbers has a least element.
LEMMA LeastNumber ==
  ASSUME NEW S \in SUBSET Nat, S # {}
  PROVE  \E s \in S : \A t \in S : s <= t
<1>1. PICK s \in S : \A t \in S : <<t, s>> \notin OpToRel(<, Nat)
  BY NatLessThanWellFounded, WFMin
<1>2. \A t \in S : ~(t < s)
  BY <1>1 DEF OpToRel
<1> QED  BY <1>2

\* The lock of l passes to somebody else by this instruction.
Parts(x, l) == (x[1] = "unlock" /\ x[2] = l) \/ (x[1] = "sched" /\ l = "ptable")
Takes(x, l) == x[1] = "xchg" /\ x[2] = l
Keeps(m, l) == m.lock[l] \in Inside /\ m.st # "dead"

\* What a turn of a lock changes, and that it changes nothing else
LEMMA TurnsAre ==
  ASSUME NEW m \in Records, NEW n, NEW l, NEW from, NEW to \in Phases, Turns(m, n, l, from, to)
  PROVE  /\ l \in Lock /\ m.lock[l] = from /\ n.lock[l] = to /\ n \in Records
         /\ \A k \in Lock \ {l} : n.lock[k] = m.lock[k]
         /\ n.kind = m.kind /\ n.st = m.st /\ n.child = m.child /\ n.want = m.want
         /\ n.tick = m.tick /\ n.next = m.next
  BY DEF Turns, Records

\* The same, as a value of each lock
LEMMA TurnsToo ==
  ASSUME NEW m \in Mode, NEW n, NEW l, NEW from, NEW to \in Phases, Turns(m, n, l, from, to), NEW k \in Lock
  PROVE  /\ n.lock[k] = IF k = l THEN to ELSE m.lock[k]
         /\ m.lock[l] = from /\ n.st = m.st
  BY TurnsAre DEF Mode

\* An instruction takes a lock or parts with it as its name says.
LEMMA LeadsLocks ==
  ASSUME NEW x, NEW m \in Mode, NEW n \in Mode, Leads(x, m, n), NEW l \in Lock
  PROVE  /\ Takes(x, l) => m.lock[l] \notin Inside
         /\ m.lock[l] \notin Inside /\ n.lock[l] \in Inside => Takes(x, l)
         /\ Parts(x, l) => m.lock[l] \in Inside
         /\ Keeps(m, l) /\ ~Keeps(n, l) => Parts(x, l)
<1> DEFINE a == x[2]
<1>0. \A k : \A from, to \in Phases : Turns(m, n, k, from, to) =>
        n.lock[l] = (IF l = k THEN to ELSE m.lock[l]) /\ m.lock[k] = from /\ n.st = m.st
  BY TurnsToo
<1>1. /\ m.lock \in [Lock -> Phases] /\ n.lock \in [Lock -> Phases] /\ Lawful(m) /\ Lawful(n) /\ m \in Records
  BY DEF Mode, Records
<1>2. CASE x[1] = "pushcli" /\ Turns(m, n, a, "out", "pushed")
  BY <1>0, <1>2 DEF Takes, Parts, Keeps, Inside, Phases
<1>3. CASE x[1] = "xchg" /\ Turns(m, n, a, "pushed", "locked")
  BY <1>0, <1>3 DEF Takes, Parts, Keeps, Inside, Phases
<1>4. CASE x[1] = "record" /\ Turns(m, n, a, "locked", "held")
  BY <1>0, <1>4 DEF Takes, Parts, Keeps, Inside, Phases
<1>5. CASE x[1] = "forget" /\ Turns(m, n, a, "held", "forgot")
  BY <1>0, <1>5 DEF Takes, Parts, Keeps, Inside, Phases
<1>6. CASE x[1] = "unlock" /\ Turns(m, n, a, "forgot", "open")
  BY <1>0, <1>6 DEF Takes, Parts, Keeps, Inside, Phases
<1>7. CASE x[1] = "popcli" /\ Turns(m, n, a, "open", "out")
  BY <1>0, <1>7 DEF Takes, Parts, Keeps, Inside, Phases
<1>8. CASE x[1] = "sched"
  <2>1. n.lock = m.lock /\ m.st # "run"
    BY <1>1, <1>8 DEF Leads, Records
  <2>2. Ours(m)
    BY <1>1, <2>1 DEF Lawful
  <2> QED  BY <1>8, <2>1, <2>2 DEF Takes, Parts, Keeps, Inside, Ours, Lock
<1>9. CASE x[1] \notin {"pushcli", "xchg", "record", "forget", "unlock", "popcli", "sched"}
  <2>1. n.lock = m.lock
    BY <1>1, <1>9 DEF Leads, Records
  <2>2. n.st = "dead" => m.st = "dead"
    BY <1>1, <1>9 DEF Leads, Records
  <2> QED  BY <1>9, <2>1, <2>2 DEF Takes, Parts, Keeps
<1> QED  BY <1>2, <1>3, <1>4, <1>5, <1>6, <1>7, <1>8, <1>9 DEF Leads

\* What Holds says of a processor, of a piece of code
Gives(s, l) ==
  \E i \in DOMAIN s :
    /\ \/ s[i][1] = "unlock" /\ s[i][2] = l
       \/ s[i][1] = "sched" /\ l = "ptable"
    /\ \A j \in 1 .. i - 1 : ~(s[j][1] = "xchg" /\ s[j][2] = l)

\* A processor has the lock if its code still unlocks it before it locks it.
LEMMA GivesIs ==
  ASSUME NEW s, NEW m \in Mode, Left(s, m), m.st # "dead", NEW l \in Lock
  PROVE  Gives(s, l) <=> m.lock[l] \in Inside
<1>1. PICK e \in Mode : Path(s, m, e) /\ Final(e)
  BY DEF Left
<1>2. PICK M \in [1 .. Len(s) + 1 -> Mode] :
        M[1] = m /\ M[Len(s) + 1] = e /\ \A i \in 1 .. Len(s) : Leads(s[i], M[i], M[i + 1])
  BY <1>1 DEF Path
<1>3. s \in Seq(Instr) /\ Len(s) \in Nat /\ DOMAIN s = 1 .. Len(s)
  BY <1>1 DEF Path
<1>4. \A i \in 1 .. Len(s) :
         /\ M[i] \in Mode /\ M[i + 1] \in Mode /\ Leads(s[i], M[i], M[i + 1])
  BY <1>2, <1>3
<1>5. \A i \in 1 .. Len(s) :
         /\ Takes(s[i], l) => M[i].lock[l] \notin Inside
         /\ M[i].lock[l] \notin Inside /\ M[i + 1].lock[l] \in Inside => Takes(s[i], l)
         /\ Parts(s[i], l) => M[i].lock[l] \in Inside
         /\ Keeps(M[i], l) /\ ~Keeps(M[i + 1], l) => Parts(s[i], l)
  BY <1>4, LeadsLocks
<1>6. ASSUME m.lock[l] \in Inside PROVE Gives(s, l)
  <2> DEFINE S == {i \in Nat : i \in 1 .. Len(s) + 1 /\ ~Keeps(M[i], l)}
  <2>1. ~Keeps(e, l)
    BY <1>1 DEF Final, Idle, Keeps, Inside
  <2>2. S \in SUBSET Nat /\ Len(s) + 1 \in S
    BY <1>2, <1>3, <2>1
  <2>3. PICK k \in S : \A i \in S : k <= i
    <3> HIDE DEF S
    <3> QED  BY <2>2, LeastNumber
  <2>4. Keeps(M[1], l)
    BY <1>2, <1>6 DEF Keeps
  <2>5. k \in 2 .. Len(s) + 1 /\ ~Keeps(M[k], l)
    BY <1>3, <2>3, <2>4
  <2>6. \A i \in 1 .. k - 1 : Keeps(M[i], l)
    BY <1>3, <2>3, <2>5
  <2> DEFINE i == k - 1
  <2>7. i \in 1 .. Len(s) /\ Keeps(M[i], l) /\ ~Keeps(M[i + 1], l)
    BY <1>3, <2>5, <2>6
  <2>8. Parts(s[i], l)
    BY <1>5, <2>7
  <2>9. \A j \in 1 .. i - 1 : ~Takes(s[j], l)
    BY <1>3, <1>5, <2>5, <2>6 DEF Keeps
  <2> HIDE DEF i
  <2> QED  BY <1>3, <2>7, <2>8, <2>9 DEF Gives, Parts, Takes
<1>7. ASSUME m.lock[l] \notin Inside, Gives(s, l) PROVE FALSE
  <2>1. PICK i \in 1 .. Len(s) : Parts(s[i], l) /\ \A j \in 1 .. i - 1 : ~Takes(s[j], l)
    BY <1>3, <1>7 DEF Gives, Parts, Takes
  <2> DEFINE S == {k \in Nat : k \in 1 .. i /\ M[k].lock[l] \in Inside}
  <2>2. S \in SUBSET Nat /\ i \in S
    BY <1>3, <1>5, <2>1
  <2>3. PICK k \in S : \A j \in S : k <= j
    <3> HIDE DEF S
    <3> QED  BY <2>2, LeastNumber
  <2>4. M[1].lock[l] \notin Inside
    BY <1>2, <1>7
  <2>5. k \in 2 .. i /\ M[k].lock[l] \in Inside /\ k - 1 \in 1 .. i - 1
    BY <1>3, <2>3, <2>4
  <2>6. M[k - 1].lock[l] \notin Inside
    BY <1>3, <2>3, <2>5
  <2> DEFINE j == k - 1
  <2>7. j \in 1 .. Len(s) /\ M[j].lock[l] \notin Inside /\ M[j + 1].lock[l] \in Inside /\ j \in 1 .. i - 1
    BY <1>3, <2>5, <2>6
  <2> HIDE DEF j
  <2>8. Takes(s[j], l)
    BY <1>5, <2>7
  <2> QED  BY <2>1, <2>7, <2>8
<1> QED  BY <1>6, <1>7

-----------------------------------------------------------------------------
(* The pieces of code *)

WithLock(m, l, phase) == [m EXCEPT !.lock[l] = phase]

\* A mode whose lock l is at another phase
LEMMA WithLockIs ==
  ASSUME NEW m \in Records, NEW l \in Lock, NEW a \in Phases
  PROVE  /\ WithLock(m, l, a) \in Records /\ WithLock(m, l, a).lock[l] = a
         /\ \A k \in Lock \ {l} : WithLock(m, l, a).lock[k] = m.lock[k]
         /\ WithLock(m, l, a).kind = m.kind /\ WithLock(m, l, a).st = m.st
         /\ WithLock(m, l, a).child = m.child /\ WithLock(m, l, a).want = m.want
         /\ WithLock(m, l, a).tick = m.tick /\ WithLock(m, l, a).next = m.next
         /\ m.lock[l] = a => WithLock(m, l, a) = m
         /\ \A b \in Phases : WithLock(WithLock(m, l, a), l, b) = WithLock(m, l, b)
         /\ Turns(m, WithLock(m, l, a), l, m.lock[l], a)
  BY DEF WithLock, Records, Turns

\* The phases of the two locks are independent.
LEMMA WithLocks ==
  ASSUME NEW m \in Records, NEW a \in Phases, NEW b \in Phases
  PROVE  WithLock(WithLock(m, "time", a), "ptable", b) = WithLock(WithLock(m, "ptable", b), "time", a)
  BY DEF WithLock, Records, Lock

\* The instructions that the source uses
LEMMA InstrIs ==
  /\ \A l \in Lock : \A name \in {"pushcli", "xchg", "record", "forget", "unlock", "popcli"} : <<name, l>> \in Instr
  /\ \A i \in Int : \A name \in {"sti", "scan", "sched", "give", "doze", "wakeup1", "allocproc", "runnable", "exit",
       "wait", "ticks0", "slept", "tick", "slice", "iret", "startap", "await", "started"} : <<name, i>> \in Instr
  /\ \A b \in BOOLEAN : <<"intena", b>> \in Instr
  /\ <<"panic", "zombie exit">> \in Instr
<1>1. \A l \in Lock : \A name \in {"pushcli", "xchg", "record", "forget", "unlock", "popcli"} : <<name, l>> \in Instr
  BY Zenon DEF Instr
<1>2. \A i \in Int : \A name \in {"sti", "scan", "sched", "give", "doze", "wakeup1", "allocproc", "runnable", "exit",
       "wait", "ticks0", "slept", "tick", "slice", "iret", "startap", "await", "started"} : <<name, i>> \in Instr
  BY Zenon DEF Instr
<1>3. (\A b \in BOOLEAN : <<"intena", b>> \in Instr) /\ <<"panic", "zombie exit">> \in Instr
  BY Zenon DEF Instr
<1> QED  BY <1>1, <1>2, <1>3

\* acquire leads from out to held.
LEMMA AcquirePath ==
  ASSUME NEW m \in Mode, NEW l \in Lock, m.lock[l] = "out", m.kind # "user",
         l = "time" => m.lock["ptable"] = "out",
         l = "ptable" => m.lock["time"] \notin {"pushed", "locked"}
  PROVE  WithLock(m, l, "held") \in Mode /\ Path(Acquire(l), m, WithLock(m, l, "held"))
<1> DEFINE m1 == WithLock(m, l, "pushed")
           m2 == WithLock(m, l, "locked")
           m3 == WithLock(m, l, "held")
<1>1. m \in Records /\ Lawful(m) /\ {"pushed", "locked", "held"} \subseteq Phases
  BY DEF Mode, Phases
<1>2. m1 \in Records /\ m2 \in Records /\ m3 \in Records
  BY <1>1, WithLockIs
<1>3. m1 \in Mode /\ m2 \in Mode /\ m3 \in Mode
  <2> SUFFICES ASSUME NEW a \in {"pushed", "locked", "held"} PROVE Lawful(WithLock(m, l, a))
    BY <1>2 DEF Mode
  <2> DEFINE n == WithLock(m, l, a)
  <2>1. /\ n.lock[l] = a /\ \A k \in Lock \ {l} : n.lock[k] = m.lock[k]
        /\ n.kind = m.kind /\ n.st = m.st /\ n.child = m.child /\ n.want = m.want /\ n.tick = m.tick
    BY <1>1, WithLockIs
  <2> HIDE DEF n
  <2>2. Lawful(n)
    BY <1>1, <2>1 DEF Lawful, Lock, Ours, Idle
  <2> QED  BY <2>2 DEF n
<1>4. Turns(m, m1, l, "out", "pushed") /\ Turns(m1, m2, l, "pushed", "locked") /\ Turns(m2, m3, l, "locked", "held")
  BY <1>1, <1>2, WithLockIs
<1> HIDE DEF m1, m2, m3
<1>5. /\ Leads(<<"pushcli", l>>, m, m1) /\ Leads(<<"xchg", l>>, m1, m2) /\ Leads(<<"record", l>>, m2, m3)
  BY <1>4 DEF Leads
<1>6. /\ Path(<< <<"pushcli", l>> >>, m, m1) /\ Path(<< <<"xchg", l>> >>, m1, m2) /\ Path(<< <<"record", l>> >>, m2, m3)
  BY <1>3, <1>5, InstrIs, OneStep
<1>7. Path(<< <<"pushcli", l>> >> \o << <<"xchg", l>> >> \o << <<"record", l>> >>, m, m3)
  BY <1>6, Joined
<1>8. Acquire(l) = << <<"pushcli", l>> >> \o << <<"xchg", l>> >> \o << <<"record", l>> >>
  BY DEF Acquire
<1> QED  BY <1>3, <1>7, <1>8 DEF m3

\* release leads from held to out.
LEMMA ReleasePath ==
  ASSUME NEW m \in Mode, NEW l \in Lock, m.lock[l] = "held", m.st = "run",
         m.want = 0 \/ (l = "time" /\ m.lock["ptable"] = "held"),
         l = "time" => ~m.tick
  PROVE  WithLock(m, l, "out") \in Mode /\ Path(Release(l), m, WithLock(m, l, "out"))
<1> DEFINE m1 == WithLock(m, l, "forgot")
           m2 == WithLock(m, l, "open")
           m3 == WithLock(m, l, "out")
<1>1. m \in Records /\ Lawful(m) /\ {"forgot", "open", "out"} \subseteq Phases
  BY DEF Mode, Phases
<1>2. m1 \in Records /\ m2 \in Records /\ m3 \in Records
  BY <1>1, WithLockIs
<1>3. m1 \in Mode /\ m2 \in Mode /\ m3 \in Mode
  <2> SUFFICES ASSUME NEW a \in {"forgot", "open", "out"} PROVE Lawful(WithLock(m, l, a))
    BY <1>2 DEF Mode
  <2> DEFINE n == WithLock(m, l, a)
  <2>1. /\ n.lock[l] = a /\ \A k \in Lock \ {l} : n.lock[k] = m.lock[k]
        /\ n.kind = m.kind /\ n.st = m.st /\ n.child = m.child /\ n.want = m.want /\ n.tick = m.tick
    BY <1>1, WithLockIs
  <2> HIDE DEF n
  <2>2. Lawful(n)
    BY <1>1, <2>1 DEF Lawful, Lock, Ours, Idle
  <2> QED  BY <2>2 DEF n
<1>4. Turns(m, m1, l, "held", "forgot") /\ Turns(m1, m2, l, "forgot", "open") /\ Turns(m2, m3, l, "open", "out")
  BY <1>1, <1>2, WithLockIs
<1> HIDE DEF m1, m2, m3
<1>5. /\ Leads(<<"forget", l>>, m, m1) /\ Leads(<<"unlock", l>>, m1, m2) /\ Leads(<<"popcli", l>>, m2, m3)
  BY <1>4 DEF Leads
<1>6. /\ Path(<< <<"forget", l>> >>, m, m1) /\ Path(<< <<"unlock", l>> >>, m1, m2) /\ Path(<< <<"popcli", l>> >>, m2, m3)
  BY <1>3, <1>5, InstrIs, OneStep
<1>7. Path(<< <<"forget", l>> >> \o << <<"unlock", l>> >> \o << <<"popcli", l>> >>, m, m3)
  BY <1>6, Joined
<1>8. Release(l) = << <<"forget", l>> >> \o << <<"unlock", l>> >> \o << <<"popcli", l>> >>
  BY DEF Release
<1> QED  BY <1>3, <1>7, <1>8 DEF m3

Fresh(kind) == [lock |-> [l \in Lock |-> "out"], kind |-> kind, st |-> "run",
                child |-> 0, want |-> 0, tick |-> FALSE, next |-> 1]

Doing(m, st) == [m EXCEPT !.st = st]
Wanting(m, chan) == [m EXCEPT !.want = chan]

\* The parts of a mode
LEMMA ModeIs ==
  ASSUME NEW m \in Mode
  PROVE  /\ m \in Records /\ Lawful(m) /\ m.lock \in [Lock -> Phases] /\ m.kind \in Kinds
         /\ m.st \in {"run", "back", "stop", "dying", "dead"} /\ m.child \in 0 .. NPROC
         /\ m.want \in 0 .. TicksChan /\ m.tick \in BOOLEAN /\ m.next \in 1 .. NCPU
  BY DEF Mode, Records

\* A frame without locks does nothing of what needs one.
LEMMA IdleIs ==
  ASSUME NEW m \in Mode, Idle(m)
  PROVE  /\ m.lock["ptable"] = "out" /\ m.lock["time"] = "out" /\ m.st = "run" /\ m.want = 0 /\ ~m.tick
  BY ModeIs DEF Idle, Lawful, Lock, Ours

\* A frame begins without locks.
LEMMA FreshIs ==
  ASSUME Configured, NEW kind \in Kinds
  PROVE  /\ Fresh(kind) \in Mode /\ Idle(Fresh(kind)) /\ Fresh(kind).kind = kind /\ Fresh(kind).st = "run"
         /\ Fresh(kind).child = 0 /\ Fresh(kind).want = 0 /\ Fresh(kind).tick = FALSE /\ Fresh(kind).next = 1
  <1>1. Fresh(kind) \in Records
    BY DEF Configured, Fresh, Records, Phases, TicksChan
  <1>2. Lawful(Fresh(kind)) /\ Idle(Fresh(kind))
    BY DEF Fresh, Lawful, Idle, Lock, Ours
  <1> QED  BY <1>1, <1>2 DEF Mode, Fresh

\* A frame that takes ptable.lock
LEMMA PtableHeld ==
  ASSUME NEW m \in Mode, Idle(m), m.kind # "user"
  PROVE  LET h == WithLock(m, "ptable", "held")
         IN /\ h \in Mode /\ Inner(h) /\ h.kind = m.kind /\ h.child = m.child /\ h.tick = m.tick /\ h.next = m.next
            /\ Path(Acquire("ptable"), m, h) /\ Path(Release("ptable"), h, m)
<1> DEFINE h == WithLock(m, "ptable", "held")
<1>1. m \in Records /\ Lawful(m) /\ "ptable" \in Lock /\ "time" \in Lock /\ "held" \in Phases /\ "out" \in Phases
  BY ModeIs DEF Lock, Phases
<1>2. m.lock["ptable"] = "out" /\ m.lock["time"] = "out" /\ m.st = "run" /\ m.want = 0 /\ ~m.tick
  BY IdleIs
<1>3. h \in Mode /\ Path(Acquire("ptable"), m, h)
  BY <1>1, <1>2, AcquirePath
<1>4. /\ h.lock["ptable"] = "held" /\ h.lock["time"] = "out" /\ h.st = "run" /\ h.want = 0
      /\ h.kind = m.kind /\ h.child = m.child /\ h.tick = m.tick /\ h.next = m.next
      /\ WithLock(h, "ptable", "out") = m
  <2>1. "time" \in Lock \ {"ptable"}
    BY DEF Lock
  <2>2. WithLock(m, "ptable", "out") = m
    BY <1>1, <1>2, WithLockIs
  <2> QED  BY <1>1, <1>2, <2>1, <2>2, WithLockIs
<1> HIDE DEF h
<1>5. Path(Release("ptable"), h, m)
  BY <1>1, <1>3, <1>4, ReleasePath
<1> QED  BY <1>3, <1>4, <1>5 DEF Inner, Ours, h

\* Instructions with a fixed argument
LEMMA Zeros ==
  /\ <<"sti", 0>> \in Instr /\ <<"sched", 0>> \in Instr /\ <<"give", 0>> \in Instr /\ <<"allocproc", 0>> \in Instr
  /\ <<"exit", 0>> \in Instr /\ <<"wait", 0>> \in Instr /\ <<"ticks0", 0>> \in Instr /\ <<"tick", 0>> \in Instr
  /\ <<"slice", 0>> \in Instr /\ <<"iret", 0>> \in Instr /\ <<"started", 0>> \in Instr
  /\ <<"slept", 1>> \in Instr /\ <<"scan", 1>> \in Instr
<1>1. 0 \in Int /\ 1 \in Int
  OBVIOUS
<1> QED  BY <1>1, Zenon DEF Instr

\* A process that gives up the processor and gets it back
LEMMA StopsIs ==
  ASSUME NEW h \in Mode, Inner(h), h.kind \in {"call", "trap"}
  PROVE  /\ Doing(h, "stop") \in Mode
         /\ Doing(h, "stop").st = "stop" /\ Doing(Doing(h, "stop"), "run") = h
         /\ Leads(<<"sched", 0>>, Doing(h, "stop"), h)
<1> DEFINE s == Doing(h, "stop")
<1>1. h \in Records /\ Lawful(h) /\ h.st = "run"
  BY ModeIs DEF Inner
<1>2. /\ s \in Records /\ s.st = "stop" /\ s.lock = h.lock /\ s.kind = h.kind /\ s.want = h.want
      /\ s.child = h.child /\ s.tick = h.tick /\ Doing(s, "run") = h
  BY <1>1 DEF Doing, Records
<1> HIDE DEF s
<1>3. Lawful(s)
  BY <1>1, <1>2 DEF Lawful, Inner, Ours, Idle
<1>4. Leads(<<"sched", 0>>, s, h)
  BY <1>2 DEF Leads, Doing
<1>5. s \in Mode
  BY <1>2, <1>3 DEF Mode
<1> QED  BY <1>2, <1>4, <1>5 DEF s

\* Two instructions are a path.
LEMMA TwoSteps ==
  ASSUME NEW x \in Instr, NEW y \in Instr, NEW m \in Mode, NEW k \in Mode, NEW n \in Mode,
         Leads(x, m, k), Leads(y, k, n)
  PROVE  Path(<< x, y >>, m, n)
<1> DEFINE M == [i \in 1 .. 3 |-> IF i = 1 THEN m ELSE IF i = 2 THEN k ELSE n]
           s == << x, y >>
<1>1. /\ s \in Seq(Instr) /\ Len(s) = 2 /\ s[1] = x /\ s[2] = y
      /\ M \in [1 .. 3 -> Mode] /\ M[1] = m /\ M[2] = k /\ M[3] = n
  OBVIOUS
<1> HIDE DEF M, s
<1>2. \A i \in 1 .. 2 : Leads(s[i], M[i], M[i + 1])
  <2>1. Leads(s[1], M[1], M[1 + 1]) /\ Leads(s[2], M[2], M[2 + 1])
    BY <1>1
  <2> QED  BY <2>1
<1>3. Path(s, m, n)
  BY <1>1, <1>2 DEF Path
<1> QED  BY <1>3 DEF s

\* doze is an instruction for every channel.
LEMMA DozeInstr == \A i \in Int : <<"doze", i>> \in Instr
  BY InstrIs

\* yield comes back with what it began with.
LEMMA YieldPath ==
  ASSUME NEW m \in Mode, Idle(m), m.kind \in {"call", "trap"}
  PROVE  Path(Yield, m, m)
<1> DEFINE h == WithLock(m, "ptable", "held")
           s == Doing(h, "stop")
<1>1. h \in Mode /\ Inner(h) /\ h.kind = m.kind /\ Path(Acquire("ptable"), m, h) /\ Path(Release("ptable"), h, m)
  BY PtableHeld
<1> HIDE DEF h
<1>2. s \in Mode /\ Leads(<<"sched", 0>>, s, h)
  BY <1>1, StopsIs
<1>3. Leads(<<"give", 0>>, h, s)
  BY <1>1 DEF Leads, Doing
<1>4. Path(<< <<"give", 0>>, <<"sched", 0>> >>, h, h)
  BY <1>1, <1>2, <1>3, Zeros, TwoSteps
<1> QED  BY <1>1, <1>4, Joined DEF Yield

\* sleep in wait: ptable.lock is held all the time.
LEMMA WaitPath ==
  ASSUME NEW h \in Mode, Inner(h), h.kind = "call", NEW p \in Procs, Configured
  PROVE  /\ Wanting(h, p) \in Mode
         /\ Path(SleepOn(p, "ptable") \o << <<"wait", 0>> >>, Wanting(h, p), h)
<1> DEFINE w == Wanting(h, p)
           s == Doing(h, "stop")
<1>1. h \in Records /\ Lawful(h) /\ h.st = "run" /\ h.want = 0 /\ Ours(h)
  BY ModeIs DEF Inner
<1>2. p \in Int /\ p # 0 /\ p \in 0 .. TicksChan
  BY DEF Procs, TicksChan, Configured
<1>3. /\ w \in Records /\ w.st = "run" /\ w.lock = h.lock /\ w.kind = "call" /\ w.want = p
      /\ w.child = h.child /\ w.tick = h.tick /\ s = [w EXCEPT !.st = "stop", !.want = 0]
  BY <1>1, <1>2 DEF Doing, Records, Wanting
<1>4. s \in Mode /\ Leads(<<"sched", 0>>, s, h)
  BY StopsIs
<1> HIDE DEF s, w
<1>5. w \in Mode
  BY <1>1, <1>3 DEF Lawful, Inner, Ours, Idle, Mode
<1>6. Leads(<<"doze", p>>, w, s)
  BY <1>1, <1>2, <1>3 DEF Leads, Ours
<1>7. Path(<< <<"doze", p>>, <<"sched", 0>> >>, w, h)
  BY <1>2, <1>4, <1>5, <1>6, DozeInstr, Zeros, TwoSteps
<1>8. Path(<< <<"wait", 0>> >>, h, h)
  <2>1. Leads(<<"wait", 0>>, h, h)
    BY DEF Leads
  <2> QED  BY <2>1, Zeros, OneStep
<1>9. SleepOn(p, "ptable") = << <<"doze", p>>, <<"sched", 0>> >>
  BY DEF SleepOn
<1> QED  BY <1>5, <1>7, <1>8, <1>9, Joined DEF w

\* sleep in sys_sleep: ptable.lock is taken, and then tickslock released.
LEMMA TicksPath ==
  ASSUME Configured, NEW m \in Mode, m.kind = "call", m.lock["time"] = "held", m.lock["ptable"] = "out",
         m.st = "run", m.want = 0, ~m.tick
  PROVE  /\ Wanting(m, TicksChan) \in Mode
         /\ Path(SleepOn(TicksChan, "time") \o << <<"slept", 1>> >>, Wanting(m, TicksChan), m)
<1> DEFINE w == Wanting(m, TicksChan)
           w1 == WithLock(w, "ptable", "held")
           w2 == WithLock(w1, "time", "out")
           h == Wanting(w2, 0)
           s == Doing(h, "stop")
           i == WithLock(h, "ptable", "out")
<1>0. m \in Records /\ Lawful(m) /\ "ptable" \in Lock /\ "time" \in Lock /\ "held" \in Phases /\ "out" \in Phases
  BY ModeIs DEF Lock, Phases
<1>1. TicksChan \in Int /\ TicksChan # 0 /\ TicksChan \in 0 .. TicksChan
  BY DEF TicksChan, Configured
<1>2. /\ w \in Records /\ w.st = "run" /\ w.lock = m.lock /\ w.kind = "call" /\ w.want = TicksChan
      /\ w.child = m.child /\ w.tick = m.tick
  BY <1>0, <1>1 DEF Records, Wanting
<1>3. w \in Mode
  <2> HIDE DEF w
  <2>1. Lawful(w)
    BY <1>0, <1>2 DEF Lawful, Ours, Idle
  <2> QED  BY <1>2, <2>1 DEF Mode
<1>4. w1 \in Mode /\ Path(Acquire("ptable"), w, w1)
  <2> HIDE DEF w
  <2> QED  BY <1>0, <1>2, <1>3, AcquirePath
<1>5. /\ w1.lock["ptable"] = "held" /\ w1.lock["time"] = "held" /\ w1.st = "run" /\ w1.want = TicksChan
      /\ ~w1.tick /\ w1.kind = "call" /\ w1.child = m.child
  <2> HIDE DEF w
  <2>1. "time" \in Lock \ {"ptable"}
    BY DEF Lock
  <2> QED  BY <1>0, <1>2, <2>1, WithLockIs
<1>6. w2 \in Mode /\ Path(Release("time"), w1, w2)
  <2> HIDE DEF w1
  <2>1. "ptable" \in Lock \ {"time"}
    BY DEF Lock
  <2> QED  BY <1>0, <1>4, <1>5, <2>1, ReleasePath
<1>7. /\ w2.lock["ptable"] = "held" /\ w2.lock["time"] = "out" /\ w2.st = "run" /\ w2.want = TicksChan
      /\ ~w2.tick /\ w2.kind = "call" /\ w2.child = m.child
  <2> HIDE DEF w1
  <2>1. "ptable" \in Lock \ {"time"} /\ w1 \in Records
    BY <1>4, ModeIs DEF Lock
  <2> QED  BY <1>0, <1>5, <2>1, WithLockIs
<1>8. /\ h \in Records /\ h.lock = w2.lock /\ h.st = "run" /\ h.want = 0 /\ h.tick = w2.tick /\ h.kind = "call"
      /\ h.child = m.child /\ s = [w2 EXCEPT !.st = "stop", !.want = 0]
  <2> HIDE DEF w2
  <2>1. w2 \in Records /\ 0 \in 0 .. TicksChan
    BY <1>1, <1>6, ModeIs
  <2> QED  BY <1>7, <2>1 DEF Records, Wanting, Doing
<1>9. h \in Mode /\ Inner(h)
  <2> HIDE DEF h
  <2>1. Lawful(h) /\ Inner(h)
    BY <1>7, <1>8 DEF Lawful, Ours, Idle, Inner
  <2> QED  BY <1>8, <2>1 DEF Mode
<1>10. s \in Mode /\ Leads(<<"sched", 0>>, s, h)
  <2> HIDE DEF h
  <2> QED  BY <1>8, <1>9, StopsIs
<1>11. Leads(<<"doze", TicksChan>>, w2, s)
  <2> HIDE DEF w2, s
  <2> QED  BY <1>1, <1>7, <1>8 DEF Leads, Ours
<1>12. i \in Mode /\ Path(Release("ptable"), h, i)
  <2>1. h.lock["ptable"] = "held" /\ h.st = "run" /\ h.want = 0
    BY <1>7, <1>8
  <2> HIDE DEF h
  <2> QED  BY <1>0, <1>9, <2>1, ReleasePath
<1>13. i = WithLock(m, "time", "out") /\ WithLock(i, "time", "held") = m
  <2> DEFINE With(x, v) == [lock |-> x, kind |-> m.kind, st |-> m.st, child |-> m.child, want |-> v,
                            tick |-> m.tick, next |-> m.next]
             x1 == [m.lock EXCEPT !["ptable"] = "held"]
             x2 == [x1 EXCEPT !["time"] = "out"]
             x3 == [x2 EXCEPT !["ptable"] = "out"]
             x4 == [x3 EXCEPT !["time"] = "held"]
  <2>1. m = With(m.lock, 0) /\ m.lock \in [Lock -> Phases]
    BY <1>0 DEF Records
  <2>2. x3 = [m.lock EXCEPT !["time"] = "out"] /\ x4 = m.lock
    BY <2>1 DEF Lock
  <2>3. w = With(m.lock, TicksChan)
    BY <2>1 DEF Wanting
  <2>4. w1 = With(x1, TicksChan)
    BY <2>3 DEF WithLock
  <2>5. w2 = With(x2, TicksChan)
    <3> HIDE DEF w1, x1
    <3> QED  BY <2>4 DEF WithLock
  <2>6. h = With(x2, 0)
    <3> HIDE DEF w2, x2
    <3> QED  BY <2>5 DEF Wanting
  <2>7. i = With(x3, 0)
    <3> HIDE DEF h, x2
    <3> QED  BY <2>6 DEF WithLock
  <2>8. WithLock(m, "time", "out") = With([m.lock EXCEPT !["time"] = "out"], 0)
    BY <2>1 DEF WithLock
  <2>9. WithLock(i, "time", "held") = With(x4, 0)
    <3> HIDE DEF i, x3
    <3> QED  BY <2>7 DEF WithLock
  <2> HIDE DEF i, x3, x4
  <2> QED  BY <2>1, <2>2, <2>7, <2>8, <2>9
<1>14. Path(Acquire("time"), i, m)
  <2>1. i.lock["time"] = "out" /\ i.lock["ptable"] = "out" /\ i.kind = "call"
    <3>1. "ptable" \in Lock \ {"time"}
      BY DEF Lock
    <3> HIDE DEF i
    <3> QED  BY <1>0, <1>13, <3>1, WithLockIs
  <2> HIDE DEF i
  <2> QED  BY <1>0, <1>12, <1>13, <2>1, AcquirePath
<1>15. Path(<< <<"slept", 1>> >>, m, m)
  <2>1. Leads(<<"slept", 1>>, m, m)
    BY DEF Leads
  <2> QED  BY <2>1, Zeros, OneStep
<1> HIDE DEF w, w1, w2, h, s, i
<1>16. Path(<< <<"doze", TicksChan>>, <<"sched", 0>> >>, w2, h)
  BY <1>1, <1>6, <1>9, <1>10, <1>11, DozeInstr, Zeros, TwoSteps
<1>17. SleepOn(TicksChan, "time") = Acquire("ptable") \o Release("time")
         \o << <<"doze", TicksChan>>, <<"sched", 0>> >> \o Release("ptable") \o Acquire("time")
  BY DEF SleepOn
<1> QED  BY <1>3, <1>4, <1>6, <1>12, <1>14, <1>15, <1>16, <1>17, Joined DEF w

\* Three instructions are a path.
LEMMA ThreeSteps ==
  ASSUME NEW x \in Instr, NEW y \in Instr, NEW z \in Instr,
         NEW m \in Mode, NEW k \in Mode, NEW l \in Mode, NEW n \in Mode,
         Leads(x, m, k), Leads(y, k, l), Leads(z, l, n)
  PROVE  Path(<< x, y, z >>, m, n)
<1> DEFINE M == [i \in 1 .. 4 |-> IF i = 1 THEN m ELSE IF i = 2 THEN k ELSE IF i = 3 THEN l ELSE n]
           s == << x, y, z >>
<1>1. /\ s \in Seq(Instr) /\ Len(s) = 3 /\ s[1] = x /\ s[2] = y /\ s[3] = z
      /\ M \in [1 .. 4 -> Mode] /\ M[1] = m /\ M[2] = k /\ M[3] = l /\ M[4] = n
  OBVIOUS
<1> HIDE DEF M, s
<1>2. \A i \in 1 .. 3 : Leads(s[i], M[i], M[i + 1])
  <2>1. Leads(s[1], M[1], M[1 + 1]) /\ Leads(s[2], M[2], M[2 + 1]) /\ Leads(s[3], M[3], M[3 + 1])
    BY <1>1
  <2> QED  BY <2>1
<1>3. Path(s, m, n)
  BY <1>1, <1>2 DEF Path
<1> QED  BY <1>3 DEF s

\* A frame ends with iret, when it holds nothing.
LEMMA IretLeads ==
  ASSUME NEW m \in Mode, m.kind \in {"call", "trap", "irq"}, Idle(m) \/ m.st = "dead", m.child = 0
  PROVE  \E n \in Mode : Leads(<<"iret", 0>>, m, n) /\ Final(n)
<1> DEFINE n == [m EXCEPT !.kind = "gone"]
<1>1. m \in Records /\ Lawful(m)
  BY ModeIs
<1>2. /\ n \in Records /\ n.lock = m.lock /\ n.st = m.st /\ n.want = m.want /\ n.tick = m.tick
      /\ n.kind = "gone" /\ n.child = m.child
  BY <1>1 DEF Records, Kinds
<1>3. Leads(<<"iret", 0>>, m, n)
  BY DEF Leads
<1> HIDE DEF n
<1>4. n \in Mode
  <2>1. CASE Idle(m)
    <3>1. m.want = 0 /\ m.st = "run" /\ ~m.tick
      BY <2>1, IdleIs
    <3> QED  BY <1>2, <2>1, <3>1 DEF Mode, Lawful, Idle, Lock
  <2>2. CASE m.st = "dead"
    BY <1>1, <1>2, <2>2 DEF Mode, Lawful, Ours
  <2> QED  BY <2>1, <2>2
<1>5. Final(n)
  BY <1>2 DEF Final, Idle
<1> QED  BY <1>3, <1>4, <1>5

\* The same, as the code that is left
LEMMA IretLeft ==
  ASSUME NEW m \in Mode, m.kind \in {"call", "trap", "irq"}, Idle(m) \/ m.st = "dead", m.child = 0
  PROVE  Left(<< <<"iret", 0>> >>, m)
  BY IretLeads, Zeros, OneStep DEF Left

\* The end of a piece of code, and what follows it
LEMMA LeftJoined ==
  ASSUME NEW s, NEW t, NEW m, NEW k, Path(s, m, k), Left(t, k)
  PROVE  Left(s \o t, m)
  BY Joined DEF Left

\* A frame that takes tickslock
LEMMA TimeHeld ==
  ASSUME NEW m \in Mode, Idle(m), m.kind # "user"
  PROVE  LET h == WithLock(m, "time", "held")
         IN /\ h \in Mode /\ h.lock["time"] = "held" /\ h.lock["ptable"] = "out" /\ h.st = "run" /\ h.want = 0
            /\ ~h.tick /\ h.kind = m.kind /\ h.child = m.child /\ h.next = m.next
            /\ Path(Acquire("time"), m, h) /\ Path(Release("time"), h, m)
<1> DEFINE h == WithLock(m, "time", "held")
<1>1. m \in Records /\ Lawful(m) /\ "ptable" \in Lock /\ "time" \in Lock /\ "held" \in Phases /\ "out" \in Phases
  BY ModeIs DEF Lock, Phases
<1>2. m.lock["ptable"] = "out" /\ m.lock["time"] = "out" /\ m.st = "run" /\ m.want = 0 /\ ~m.tick
  BY IdleIs
<1>3. h \in Mode /\ Path(Acquire("time"), m, h)
  BY <1>1, <1>2, AcquirePath
<1>4. /\ h.lock["time"] = "held" /\ h.lock["ptable"] = "out" /\ h.st = "run" /\ h.want = 0
      /\ h.kind = m.kind /\ h.child = m.child /\ ~h.tick /\ h.next = m.next
      /\ WithLock(h, "time", "out") = m
  <2>1. "ptable" \in Lock \ {"time"}
    BY DEF Lock
  <2>2. WithLock(m, "time", "out") = m
    BY <1>1, <1>2, WithLockIs
  <2> QED  BY <1>1, <1>2, <2>1, <2>2, WithLockIs
<1> HIDE DEF h
<1>5. Path(Release("time"), h, m)
  BY <1>1, <1>3, <1>4, ReleasePath
<1> QED  BY <1>3, <1>4, <1>5 DEF h

\* A system call, up to the return to user space
LEMMA SysCallLeft ==
  ASSUME Configured, NEW call \in Calls
  PROVE  Left(SysCall(call) \o << <<"iret", 0>> >>, Fresh("call"))
<1> DEFINE m == Fresh("call")
           h == WithLock(m, "ptable", "held")
           t == WithLock(m, "time", "held")
<1>1. m \in Mode /\ Idle(m) /\ m.kind = "call" /\ m.child = 0 /\ m.want = 0 /\ m.tick = FALSE
  BY FreshIs DEF Kinds
<1>2. Left(<< <<"iret", 0>> >>, m)
  BY <1>1, IretLeft
<1> HIDE DEF m
<1>3. /\ h \in Mode /\ Inner(h) /\ h.kind = "call" /\ h.child = 0 /\ ~h.tick
      /\ Path(Acquire("ptable"), m, h) /\ Path(Release("ptable"), h, m)
  BY <1>1, PtableHeld
<1>4. /\ t \in Mode /\ t.lock["time"] = "held" /\ t.lock["ptable"] = "out" /\ t.st = "run" /\ t.want = 0
      /\ ~t.tick /\ t.kind = "call" /\ t.child = 0
      /\ Path(Acquire("time"), m, t) /\ Path(Release("time"), t, m)
  BY <1>1, TimeHeld
<1> HIDE DEF h, t
<1>5. CASE call = "sleep"
  <2>1. Leads(<<"ticks0", 0>>, t, t) /\ Leads(<<"slept", 1>>, t, t)
    BY <1>4 DEF Leads
  <2>2. Path(<< <<"ticks0", 0>>, <<"slept", 1>> >>, t, t)
    BY <1>4, <2>1, Zeros, TwoSteps
  <2>3. Path(SysCall(call), m, m)
    BY <1>4, <1>5, <2>2, Joined DEF SysCall
  <2> QED  BY <1>2, <2>3, LeftJoined DEF m
<1>6. CASE call = "uptime"
  <2>1. Path(SysCall(call), m, m)
    BY <1>4, <1>6, Joined DEF SysCall
  <2> QED  BY <1>2, <2>1, LeftJoined DEF m
<1>7. CASE call = "yield"
  <2>1. Path(SysCall(call), m, m)
    BY <1>1, <1>7, YieldPath DEF SysCall
  <2> QED  BY <1>2, <2>1, LeftJoined DEF m
<1>8. CASE call = "fork"
  <2>1. Leads(<<"allocproc", 0>>, h, h)
    BY <1>3 DEF Leads
  <2>2. Path(<< <<"allocproc", 0>> >>, h, h)
    BY <1>3, <2>1, Zeros, OneStep
  <2>3. Path(SysCall(call), m, m)
    BY <1>3, <1>8, <2>2, Joined DEF SysCall
  <2> QED  BY <1>2, <2>3, LeftJoined DEF m
<1>9. CASE call = "wait"
  <2>1. Leads(<<"wait", 0>>, h, h)
    BY <1>3 DEF Leads
  <2>2. Path(<< <<"wait", 0>> >>, h, h)
    BY <1>3, <2>1, Zeros, OneStep
  <2>3. Path(SysCall(call), m, m)
    BY <1>3, <1>9, <2>2, Joined DEF SysCall
  <2> QED  BY <1>2, <2>3, LeftJoined DEF m
<1>10. CASE call = "exit"
  <2> DEFINE y == Doing(h, "dying")
             d == Doing(h, "dead")
             s == << <<"exit", 0>>, <<"sched", 0>>, <<"panic", "zombie exit">> >>
  <2>1. h \in Records /\ Lawful(h)
    BY <1>3, ModeIs
  <2>2. /\ y \in Records /\ y.st = "dying" /\ y.lock = h.lock /\ y.kind = "call" /\ y.want = h.want
        /\ y.child = 0 /\ y.tick = h.tick /\ d = Doing(y, "dead")
        /\ d \in Records /\ d.st = "dead" /\ d.lock = h.lock /\ d.kind = "call" /\ d.want = h.want
        /\ d.child = 0 /\ d.tick = h.tick
    BY <1>3, <2>1 DEF Doing, Records
  <2>3. Leads(<<"exit", 0>>, h, y)
    BY <1>3 DEF Leads, Doing
  <2> HIDE DEF y
  <2>4. Leads(<<"sched", 0>>, y, d)
    BY <2>2 DEF Leads, Doing
  <2> HIDE DEF d
  <2>5. Leads(<<"panic", "zombie exit">>, d, d)
    BY <2>2 DEF Leads
  <2>6. y \in Mode /\ d \in Mode
    BY <1>3, <2>1, <2>2 DEF Mode, Lawful, Inner, Ours
  <2>7. Path(s, h, d)
    BY <1>3, <2>3, <2>4, <2>5, <2>6, Zeros, InstrIs, ThreeSteps
  <2> HIDE DEF s
  <2>10. Left(<< <<"iret", 0>> >>, d)
    BY <2>2, <2>6, IretLeft
  <2>11. Path(SysCall(call), m, d)
    BY <1>3, <1>10, <2>7, Joined DEF SysCall, s
  <2> QED  BY <2>10, <2>11, LeftJoined DEF m
<1> QED  BY <1>5, <1>6, <1>7, <1>8, <1>9, <1>10 DEF Calls, m

\* The clock's interrupt
LEMMA TrapLeft ==
  ASSUME Configured, NEW kind \in {"trap", "irq"}, NEW c \in Cpus
  PROVE  Left(Trap(c), Fresh(kind))
<1> DEFINE m == Fresh(kind)
           t == WithLock(m, "time", "held")
           k == [t EXCEPT !.tick = TRUE]
           u == WithLock(k, "ptable", "held")
           v == [u EXCEPT !.tick = FALSE]
<1>1. m \in Mode /\ Idle(m) /\ m.kind = kind /\ m.child = 0 /\ m.want = 0 /\ m.tick = FALSE
  BY FreshIs DEF Kinds
<1>2. Left(<< <<"slice", 0>>, <<"iret", 0>> >>, m)
  <2>1. Leads(<<"slice", 0>>, m, m)
    BY <1>1 DEF Leads
  <2>2. PICK n \in Mode : Leads(<<"iret", 0>>, m, n) /\ Final(n)
    BY <1>1, IretLeads
  <2> QED  BY <1>1, <2>1, <2>2, Zeros, TwoSteps DEF Left
<1> HIDE DEF m
<1>3. CASE c = Boot
  <2>0. "ptable" \in Lock /\ "time" \in Lock /\ "held" \in Phases /\ "out" \in Phases
    BY DEF Lock, Phases
  <2>1. /\ t \in Mode /\ t.lock["time"] = "held" /\ t.lock["ptable"] = "out" /\ t.st = "run" /\ t.want = 0
        /\ t.tick = FALSE /\ t.kind = kind /\ t.child = 0
        /\ Path(Acquire("time"), m, t) /\ Path(Release("time"), t, m)
    <3>1. t \in Mode /\ t.kind = kind /\ t.tick \in BOOLEAN
      BY <1>1, TimeHeld, ModeIs
    <3> QED  BY <1>1, <3>1, TimeHeld
  <2> HIDE DEF t
  <2>2. t \in Records /\ Lawful(t)
    BY <2>1, ModeIs
  <2>3. /\ k \in Records /\ k.lock = t.lock /\ k.st = "run" /\ k.want = 0 /\ k.tick = TRUE
        /\ k.kind = kind /\ k.child = 0 /\ [k EXCEPT !.tick = FALSE] = t
    BY <2>1, <2>2 DEF Records
  <2>4. Leads(<<"tick", 0>>, t, k)
    BY <2>1 DEF Leads
  <2> HIDE DEF k
  <2>5. k \in Mode
    BY <2>1, <2>2, <2>3 DEF Mode, Lawful, Ours, Idle
  <2>6. u \in Mode /\ Path(Acquire("ptable"), k, u)
    BY <2>0, <2>1, <2>3, <2>5, AcquirePath
  <2>7. /\ u.lock["ptable"] = "held" /\ u.lock["time"] = "held" /\ u.st = "run" /\ u.want = 0 /\ u.tick = TRUE
        /\ u.kind = kind /\ u.child = 0 /\ WithLock(u, "ptable", "out") = k
    <3>1. "time" \in Lock \ {"ptable"} /\ k.lock["ptable"] = "out" /\ k.lock["time"] = "held"
      BY <2>1, <2>3 DEF Lock
    <3>2. WithLock(k, "ptable", "out") = k
      BY <2>0, <2>3, <3>1, WithLockIs
    <3> QED  BY <2>0, <2>3, <3>1, <3>2, WithLockIs
  <2>8. WithLock(v, "ptable", "out") = t
    <3>1. u \in Records /\ t = [WithLock(u, "ptable", "out") EXCEPT !.tick = FALSE]
      BY <2>3, <2>6, <2>7, ModeIs
    <3> HIDE DEF u
    <3>2. [WithLock(u, "ptable", "out") EXCEPT !.tick = FALSE] = WithLock([u EXCEPT !.tick = FALSE], "ptable", "out")
      BY <3>1 DEF WithLock, Records
    <3> QED  BY <3>1, <3>2
  <2> HIDE DEF u
  <2>9. /\ v \in Records /\ v.lock = u.lock /\ v.st = "run" /\ v.want = 0 /\ v.tick = FALSE
        /\ v.kind = kind /\ v.child = 0
    BY <2>6, <2>7, ModeIs DEF Records
  <2>10. Leads(<<"wakeup1", TicksChan>>, u, v)
    <3>1. TicksChan \in 1 .. TicksChan /\ (u.tick /\ TicksChan # TicksChan) = FALSE
      BY DEF TicksChan, Configured
    <3> QED  BY <2>7, <3>1 DEF Leads
  <2> HIDE DEF v
  <2>11. v \in Mode
    <3>1. Lawful(u)
      BY <2>6, ModeIs
    <3> QED  BY <2>7, <2>9, <3>1 DEF Mode, Lawful, Ours, Idle
  <2>12. Path(Release("ptable"), v, t)
    <3>1. v.lock["ptable"] = "held"
      BY <2>7, <2>9
    <3> QED  BY <2>0, <2>8, <2>9, <2>11, <3>1, ReleasePath
  <2>13. Path(<< <<"tick", 0>> >>, t, k)
    BY <2>1, <2>4, <2>5, Zeros, OneStep
  <2>14. Path(<< <<"wakeup1", TicksChan>> >>, u, v)
    <3>1. TicksChan \in Int
      BY DEF TicksChan, Configured
    <3>2. <<"wakeup1", TicksChan>> \in Instr
      BY <3>1, Zenon DEF Instr
    <3> QED  BY <2>6, <2>10, <2>11, <3>2, OneStep
  <2>15. Path(Wakeup(TicksChan), k, t)
    BY <2>6, <2>12, <2>14, Joined DEF Wakeup
  <2>16. Path(Acquire("time") \o << <<"tick", 0>> >> \o Wakeup(TicksChan) \o Release("time"), m, m)
    BY <2>1, <2>13, <2>15, Joined
  <2>17. Left((Acquire("time") \o << <<"tick", 0>> >> \o Wakeup(TicksChan) \o Release("time"))
                \o << <<"slice", 0>>, <<"iret", 0>> >>, m)
    BY <1>2, <2>16, LeftJoined
  <2> QED  BY <1>3, <2>17, Zenon DEF Trap, m
<1>4. CASE c # Boot
  <2>1. Left(<< >> \o << <<"slice", 0>>, <<"iret", 0>> >>, m)
    BY <1>1, <1>2, Empty, LeftJoined
  <2> QED  BY <1>4, <2>1, Zenon DEF Trap, m
<1> QED  BY <1>3, <1>4

\* The scheduler's loop
LEMMA LoopPath ==
  ASSUME NEW m \in Mode, Idle(m), m.kind \in {"main", "base"}
  PROVE  /\ Path(Scheduler, m, m)
         /\ Path(Acquire("ptable") \o << <<"scan", 1>> >> \o Release("ptable") \o Scheduler, m, m)
<1> DEFINE h == WithLock(m, "ptable", "held")
<1>1. h \in Mode /\ Inner(h) /\ h.kind = m.kind /\ Path(Acquire("ptable"), m, h) /\ Path(Release("ptable"), h, m)
  BY PtableHeld
<1> HIDE DEF h
<1>2. Path(Scheduler, m, m)
  <2>1. Leads(<<"sti", 0>>, m, m)
    BY DEF Leads
  <2> QED  BY <2>1, Zeros, OneStep DEF Scheduler
<1>3. Path(<< <<"scan", 1>> >>, h, h)
  <2>1. Leads(<<"scan", 1>>, h, h)
    BY <1>1 DEF Leads
  <2> QED  BY <1>1, <2>1, Zeros, OneStep
<1>4. Path(Acquire("ptable") \o << <<"scan", 1>> >> \o Release("ptable") \o Scheduler, m, m)
  BY <1>1, <1>2, <1>3, Joined
<1> QED  BY <1>2, <1>4

\* What the other processors begin with
LEMMA SchedulerLeft ==
  ASSUME NEW m \in Mode, Idle(m), m.kind \in {"main", "base"}, m.child = 0
  PROVE  Left(MpMain, m)
<1>1. Path(Scheduler, m, m)
  BY LoopPath
<1>2. Path(<< <<"started", 0>> >>, m, m)
  <2>1. Leads(<<"started", 0>>, m, m)
    BY DEF Leads
  <2> QED  BY <2>1, Zeros, OneStep
<1>3. Path(MpMain, m, m)
  BY <1>1, <1>2, Joined DEF MpMain
<1>4. Final(m)
  BY DEF Final
<1> QED  BY <1>3, <1>4 DEF Left

\* A new process holds ptable.lock for its scheduler.
LEMMA ForkRetLeft ==
  ASSUME Configured
  PROVE  LET h == WithLock(Fresh("call"), "ptable", "held")
         IN h \in Mode /\ Inner(h) /\ h.kind = "call" /\ h.child = 0 /\ ~h.tick /\ Left(ForkRet, h)
<1> DEFINE m == Fresh("call")
           h == WithLock(m, "ptable", "held")
<1>1. m \in Mode /\ Idle(m) /\ m.kind = "call" /\ m.child = 0 /\ ~m.tick
  BY FreshIs DEF Kinds
<1>2. Left(<< <<"iret", 0>> >>, m)
  BY <1>1, IretLeft
<1> HIDE DEF m
<1>3. h \in Mode /\ Inner(h) /\ h.kind = "call" /\ h.child = 0 /\ ~h.tick /\ Path(Release("ptable"), h, m)
  BY <1>1, PtableHeld
<1> HIDE DEF h
<1>4. Left(ForkRet, h)
  BY <1>2, <1>3, LeftJoined DEF ForkRet
<1> QED  BY <1>3, <1>4 DEF h, m

\* fork and userinit, once the slot s is allocated
LEMMA AllocPath ==
  ASSUME Configured, NEW h \in Mode, Inner(h), h.kind \in {"main", "call"}, h.child = 0, NEW s \in Procs
  PROVE  /\ [h EXCEPT !.child = s] \in Mode
         /\ Path(Release("ptable") \o Acquire("ptable") \o << <<"runnable", s>> >>, [h EXCEPT !.child = s], h)
<1> DEFINE k == [h EXCEPT !.child = s]
           m == WithLock(k, "ptable", "out")
<1>0. h \in Records /\ Lawful(h) /\ s \in 0 .. NPROC /\ s \in Int /\ s # 0 /\ "ptable" \in Lock
      /\ "time" \in Lock \ {"ptable"} /\ "held" \in Phases /\ "out" \in Phases
  BY ModeIs DEF Procs, Configured, Lock, Phases
<1>1. /\ k \in Records /\ k.lock = h.lock /\ k.st = "run" /\ k.want = 0 /\ k.tick = h.tick
      /\ k.kind = h.kind /\ k.child = s /\ [k EXCEPT !.child = 0] = h
  BY <1>0 DEF Records, Inner
<1> HIDE DEF k
<1>2. k \in Mode /\ Inner(k) /\ k.lock["ptable"] = "held" /\ k.lock["time"] = "out"
  BY <1>0, <1>1 DEF Mode, Lawful, Inner, Ours
<1>3. m \in Mode /\ Path(Release("ptable"), k, m)
  BY <1>0, <1>1, <1>2, ReleasePath
<1>4. /\ m.lock["ptable"] = "out" /\ m.lock["time"] = "out" /\ m.kind = h.kind
      /\ WithLock(m, "ptable", "held") = k
  <2>1. WithLock(k, "ptable", "held") = k
    BY <1>0, <1>1, <1>2, WithLockIs
  <2> QED  BY <1>0, <1>1, <1>2, <2>1, WithLockIs
<1> HIDE DEF m
<1>5. Path(Acquire("ptable"), m, k)
  BY <1>0, <1>3, <1>4, AcquirePath
<1>6. Path(<< <<"runnable", s>> >>, k, h)
  <2>1. Leads(<<"runnable", s>>, k, h)
    BY <1>0, <1>1, <1>2 DEF Leads
  <2> QED  BY <1>0, <1>2, <2>1, InstrIs, OneStep
<1>7. Path(Release("ptable") \o Acquire("ptable") \o << <<"runnable", s>> >>, k, h)
  BY <1>3, <1>5, <1>6, Joined
<1> QED  BY <1>2, <1>7 DEF k

\* The boot processor's code
LEMMA StartPath ==
  ASSUME Configured
  PROVE  /\ [Fresh("main") EXCEPT !.next = NCPU] \in Mode
         /\ Path(StartOthers, Fresh("main"), [Fresh("main") EXCEPT !.next = NCPU])
<1> DEFINE m == Fresh("main")
           At1(n) == [m EXCEPT !.next = n]
           last == 2 * (NCPU - 1)
           M == [k \in 1 .. last + 1 |-> At1((k \div 2) + 1)]
           s == StartOthers
<1>1. m \in Mode /\ Idle(m) /\ m.kind = "main" /\ m.next = 1 /\ NCPU \in Nat \ {0}
  BY FreshIs DEF Kinds, Configured
<1> HIDE DEF m
<1>2. ASSUME NEW n \in 1 .. NCPU
      PROVE  /\ At1(n) \in Mode /\ Idle(At1(n)) /\ At1(n).kind = "main" /\ At1(n).next = n
             /\ n + 1 \in 1 .. NCPU => At1(n + 1) = [At1(n) EXCEPT !.next = n + 1]
  <2>1. m \in Records /\ Lawful(m)
    BY <1>1, ModeIs
  <2>2. /\ At1(n) \in Records /\ At1(n).lock = m.lock /\ At1(n).st = m.st /\ At1(n).want = m.want
        /\ At1(n).tick = m.tick /\ At1(n).kind = m.kind /\ At1(n).child = m.child /\ At1(n).next = n
        /\ At1(n + 1) = [At1(n) EXCEPT !.next = n + 1]
    BY <2>1 DEF Records
  <2> HIDE DEF At1
  <2> QED  BY <1>1, <2>1, <2>2 DEF Mode, Lawful, Idle, Ours
<1>3. m = At1(1)
  BY <1>1, ModeIs DEF Records
<1> HIDE DEF At1
<1>4. last \in Nat /\ \A k \in 1 .. last + 1 : (k \div 2) + 1 \in 1 .. NCPU
  BY <1>1
<1>5. M \in [1 .. last + 1 -> Mode] /\ M[1] = m /\ M[last + 1] = At1(NCPU)
  <2>1. 1 \div 2 = 0 /\ (last + 1) \div 2 = NCPU - 1 /\ 1 \in 1 .. last + 1 /\ last + 1 \in 1 .. last + 1
    BY <1>1, <1>4
  <2>2. M \in [1 .. last + 1 -> Mode]
    BY <1>2, <1>4
  <2>3. M[1] = At1(0 + 1) /\ M[last + 1] = At1(NCPU - 1 + 1)
    BY <2>1
  <2> HIDE DEF M
  <2> QED  BY <1>1, <1>3, <2>2, <2>3
<1>6. \A k \in 1 .. last : M[k] = At1((k \div 2) + 1) /\ M[k + 1] = At1(((k + 1) \div 2) + 1)
  BY <1>4
<1>7. /\ s = [k \in 1 .. last |-> IF k % 2 = 1 THEN <<"startap", -((k + 1) \div 2)>> ELSE <<"await", -(k \div 2)>>]
  BY DEF StartOthers
<1> HIDE DEF M, s
<1>8. ASSUME NEW k \in 1 .. last PROVE s[k] \in Instr /\ Leads(s[k], M[k], M[k + 1])
  <2> DEFINE n == (k \div 2) + 1
  <2>1. n \in 1 .. NCPU /\ k \in Nat /\ n \in Int /\ (k % 2 = 1 \/ k % 2 = 0)
    BY <1>4
  <2>2. CASE k % 2 = 1
    <3>1. (k + 1) \div 2 = n /\ n < NCPU /\ n + 1 \in 1 .. NCPU
      BY <1>1, <1>4, <2>2
    <3>2. s[k] = <<"startap", -n>> /\ M[k] = At1(n) /\ M[k + 1] = At1(n + 1) /\ -n \in Int
      BY <1>6, <1>7, <2>1, <2>2, <3>1
    <3> HIDE DEF n
    <3>3. Leads(<<"startap", -n>>, At1(n), At1(n + 1))
      <4>1. Idle(At1(n)) /\ At1(n).kind = "main" /\ At1(n).next = n /\ At1(n + 1) = [At1(n) EXCEPT !.next = n + 1]
        BY <1>2, <2>1, <3>1
      <4> QED  BY <3>1, <4>1 DEF Leads
    <3>4. <<"startap", -n>> \in Instr
      BY <3>2, InstrIs
    <3> QED  BY <3>2, <3>3, <3>4
  <2>3. CASE k % 2 = 0
    <3>1. (k + 1) \div 2 = k \div 2 /\ -(k \div 2) \in Int /\ -(k \div 2) \in 1 - NCPU .. 0
      BY <1>1, <1>4, <2>1, <2>3
    <3>2. s[k] = <<"await", -(k \div 2)>> /\ M[k] = At1(n) /\ M[k + 1] = At1(n)
      BY <1>6, <1>7, <2>1, <2>3, <3>1
    <3>3. Leads(<<"await", -(k \div 2)>>, At1(n), At1(n))
      <4> HIDE DEF n
      <4>1. Idle(At1(n)) /\ At1(n).kind = "main"
        BY <1>2, <2>1
      <4> QED  BY <3>1, <4>1 DEF Leads, Cpus, Boot
    <3>4. <<"await", -(k \div 2)>> \in Instr
      BY <3>1, InstrIs
    <3> QED  BY <3>2, <3>3, <3>4
  <2> QED  BY <2>1, <2>2, <2>3
<1>9. s \in Seq(Instr) /\ Len(s) = last
  <2>1. s \in [1 .. last -> Instr]
    BY <1>4, <1>7, <1>8
  <2> QED  BY <1>4, <2>1
<1>10. Path(s, m, At1(NCPU))
  BY <1>5, <1>8, <1>9 DEF Path
<1>11. At1(NCPU) \in Mode
  <2>1. NCPU \in 1 .. NCPU
    BY <1>1
  <2> QED  BY <1>2, <2>1
<1> QED  BY <1>10, <1>11 DEF At1, m, s

\* The code of the boot processor leads to its end.
LEMMA MainLeft == Configured => Left(Main, Fresh("main"))
<1> SUFFICES ASSUME Configured PROVE Left(Main, Fresh("main"))
  OBVIOUS
<1> DEFINE f == Fresh("main")
           m == [f EXCEPT !.next = NCPU]
           h == WithLock(m, "ptable", "held")
<1>1. m \in Mode /\ Path(StartOthers, f, m)
  BY StartPath
<1>2. Idle(m) /\ m.kind = "main" /\ m.child = 0
  BY FreshIs DEF Fresh, Idle
<1> HIDE DEF m
<1>3. /\ h \in Mode /\ Inner(h) /\ h.kind = "main" /\ h.child = 0
      /\ Path(Acquire("ptable"), m, h) /\ Path(Release("ptable"), h, m)
  BY <1>1, <1>2, PtableHeld
<1> HIDE DEF h
<1>4. Path(<< <<"allocproc", 0>> >>, h, h)
  <2>1. Leads(<<"allocproc", 0>>, h, h)
    BY <1>3 DEF Leads
  <2> QED  BY <1>3, <2>1, Zeros, OneStep
<1>5. Path(StartOthers \o UserInit, f, m)
  BY <1>1, <1>3, <1>4, Joined DEF UserInit
<1>6. Left(MpMain, m)
  BY <1>1, <1>2, SchedulerLeft
<1> HIDE DEF f
<1>7. Left((StartOthers \o UserInit) \o MpMain, f)
  BY <1>5, <1>6, LeftJoined
<1> QED  BY <1>7, Zenon DEF Main, f

-----------------------------------------------------------------------------
(* The inductive invariant: every frame of every thread is at a mode *)

States == {"UNUSED", "EMBRYO", "RUNNABLE", "RUNNING", "SLEEPING", "ZOMBIE"}

Entries == [state : States, pid : Nat, parent : 0 .. NPROC, chan : 0 .. TicksChan, killed : BOOLEAN]

Registers(r) ==
  /\ r = [IF |-> r.IF, ncli |-> r.ncli, intena |-> r.intena, started |-> r.started]
  /\ r.IF \in BOOLEAN /\ r.ncli \in Nat /\ r.intena \in BOOLEAN /\ r.started \in BOOLEAN

SchedTypes ==
  /\ cpus = [c \in Cpus |-> cpus[c]] /\ \A c \in Cpus : Registers(cpus[c])
  /\ on \in [Cpus -> Procs \cup {None}]
  /\ code \in [Threads -> Seq(Seq(Instr))]
  /\ locks \in [Lock -> [locked : BOOLEAN, cpu : Cpus \cup {Nobody}]]
  /\ ptable \in [Procs -> Entries]
  /\ ticks \in Int /\ ticks0 \in [Procs -> Int]

\* The frames of a thread, the last of which is never left
Shaped(t, ms) ==
  \/ t \in Procs /\ Len(ms) = 1 /\ ms[1].kind = "user"
  \/ t \in Procs /\ Len(ms) = 2 /\ ms[1].kind \in {"call", "trap"} /\ ms[2].kind = "user"
  \/ t \in Procs /\ Len(ms) = 3 /\ ms[1].kind = "trap" /\ ms[2].kind = "call" /\ ms[3].kind = "user"
  \/ \E kind \in {IF t = Boot THEN "main" ELSE "base"} :
       /\ t \in Cpus
       /\ \/ Len(ms) = 1 /\ ms[1].kind = kind
          \/ Len(ms) = 2 /\ ms[1].kind = "irq" /\ ms[2].kind = kind

\* The stack s is that of the thread t at the modes ms.
Stack(t, s, ms) ==
  /\ s \in Seq(Seq(Instr)) /\ ms \in Seq(Mode) /\ Len(s) = Len(ms)
  /\ \A i \in 1 .. Len(ms) : Left(s[i], ms[i]) /\ (i > 1 => Idle(ms[i]))
  /\ Shaped(t, ms)

Stacks(ms) == \A t \in Threads : Stack(t, code[t], ms[t])

\* The mode of what a processor runs
Mine(ms, c) == ms[Thread(c)][1]

Count(m) == (IF m.lock["ptable"] = "out" THEN 0 ELSE 1) + (IF m.lock["time"] = "out" THEN 0 ELSE 1)

\* A processor that runs a frame at m: an interrupt handler stays closed to interrupts.
Views(r, m) ==
  /\ m.st # "dead"
  /\ r.ncli = Count(m) /\ (Count(m) > 0 => ~r.IF)
  /\ m.kind \in {"trap", "irq"} => ~r.IF /\ (Count(m) > 0 /\ m.st # "back" => ~r.intena)
  /\ m.kind = "user" => r.IF

Viewed(ms) == \A c \in Cpus : Views(cpus[c], Mine(ms, c))

\* Who has a lock, and where it says so
Locked(ms) ==
  \A l \in Lock :
    /\ locks[l].locked <=> \E c \in Cpus : Mine(ms, c).lock[l] \in Inside
    /\ \A c, d \in Cpus : Mine(ms, c).lock[l] \in Inside /\ Mine(ms, d).lock[l] \in Inside => c = d
    /\ \A c \in Cpus : locks[l].cpu = c <=> Mine(ms, c).lock[l] = "held"

Ready(m) == Ours(m) /\ (m.st = "back" \/ (m.st = "run" /\ m.kind = "call")) /\ m.want = 0

\* A scheduler that waits for its process, and a process on no processor
Off(ms) ==
  /\ \A c \in Cpus : on[c] # None => Len(ms[c]) = 1 /\ Inner(ms[c][1])
  /\ \A p \in Procs : (\A c \in Cpus : on[c] # p) =>
       /\ ptable[p].state # "RUNNING"
       /\ ptable[p].state = "UNUSED" => code[p] = << << >> >>
       /\ ptable[p].state = "ZOMBIE" => ms[p][1].st = "dead"
       /\ ptable[p].state \in {"EMBRYO", "RUNNABLE", "SLEEPING"} => Ready(ms[p][1])

\* What runs is RUNNING until it holds ptable.lock to stop.
Running(ms) ==
  /\ \A c, d \in Cpus : on[c] # None /\ on[c] = on[d] => c = d
  /\ \A c \in Cpus : on[c] # None =>
       /\ ptable[on[c]].state \in {"RUNNING", "RUNNABLE", "SLEEPING", "ZOMBIE"}
       /\ ptable[on[c]].state = "RUNNING" <=> Mine(ms, c).st \in {"run", "back"}
       /\ ptable[on[c]].state = "ZOMBIE" <=> Mine(ms, c).st = "dying"

\* A slot that is being made has one maker.
Kids(ms) ==
  \A t \in Threads : \A i \in DOMAIN ms[t] : ms[t][i].child # 0 =>
    /\ ptable[ms[t][i].child].state = "EMBRYO"
    /\ \A u \in Threads : \A j \in DOMAIN ms[u] : ms[u][j].child = ms[t][i].child => u = t /\ j = i

\* p sleeps for chan, or is about to.
Sleeps(ms, p, chan) ==
  ms[p][1].want = chan \/ (ptable[p].state = "SLEEPING" /\ ptable[p].chan = chan)

Ticking(ms) == \E c \in Cpus : Mine(ms, c).tick

Awaited(ms) ==
  \A p \in Procs : /\ Sleeps(ms, p, TicksChan) => Passed(p) = 0 \/ Ticking(ms)
                   /\ Sleeps(ms, p, p) => Table!Zombies(p) = {}
                   /\ ptable[p].parent = p => p = 1

\* The processors that the boot processor has not started do nothing.
Boots(ms) ==
  \A n \in 1 .. NCPU - 1 : n >= ms[Boot][Len(ms[Boot])].next =>
    code[-n] = << << >> >> /\ ~cpus[-n].IF /\ on[-n] = None

Modes == [Threads -> Seq(Mode)]

Sound(ms) ==
  /\ ms \in Modes /\ Stacks(ms) /\ Viewed(ms) /\ Locked(ms) /\ Off(ms) /\ Running(ms)
  /\ Kids(ms) /\ Awaited(ms) /\ Boots(ms)

SchedInv == Configured /\ SchedTypes /\ panicked = "no" /\ \E ms : Sound(ms)

-----------------------------------------------------------------------------
(* What the invariant says of the present *)

\* Processors, processes and channels are numbers that differ.
LEMMA Numbers ==
  ASSUME Configured
  PROVE  /\ Cpus \subseteq Int /\ Procs \subseteq Nat /\ Cpus \cap Procs = {} /\ Boot \in Cpus /\ 0 \notin Procs
         /\ Nobody \notin Cpus /\ TicksChan \in Nat /\ TicksChan \notin Procs /\ TicksChan # 0
         /\ (\A c \in Cpus : c <= 0) /\ (\A p \in Procs : p \in 1 .. NPROC /\ p \in 0 .. NPROC /\ p \in 1 .. TicksChan)
         /\ Table!Slots = Procs
  BY DEF Configured, Cpus, Procs, Boot, Nobody, TicksChan, Table!Slots

\* A processor, the thread that it runs and the frame that it is in
LEMMA MineIs ==
  ASSUME Configured, SchedTypes, NEW ms, Sound(ms), NEW c \in Cpus
  PROVE  /\ Thread(c) \in Threads /\ Mine(ms, c) \in Mode /\ Len(ms[Thread(c)]) \in 1 .. 3
         /\ Len(code[Thread(c)]) = Len(ms[Thread(c)])
         /\ Top(c) \in Seq(Instr) /\ Left(Top(c), Mine(ms, c)) /\ Mine(ms, c).st # "dead"
         /\ on[c] = None => Thread(c) = c
         /\ on[c] # None => Thread(c) = on[c] /\ on[c] \in Procs
<1> DEFINE t == Thread(c)
<1>1. t \in Threads /\ (on[c] = None => t = c) /\ (on[c] # None => t = on[c] /\ on[c] \in Procs)
  BY DEF Thread, Threads, SchedTypes, None
<1> HIDE DEF t
<1>2. Stack(t, code[t], ms[t])
  BY <1>1 DEF Sound, Stacks
<1>3. Len(ms[t]) \in 1 .. 3
  BY <1>2 DEF Stack, Shaped
<1>4. ms[t][1] \in Mode /\ Left(code[t][1], ms[t][1]) /\ code[t][1] \in Seq(Instr) /\ Len(code[t]) = Len(ms[t])
  BY <1>2, <1>3 DEF Stack
<1>5. Views(cpus[c], Mine(ms, c))
  BY DEF Sound, Viewed
<1> QED  BY <1>1, <1>3, <1>4, <1>5 DEF Mine, Top, Views, t

\* Two processors run two threads.
LEMMA MinesDiffer ==
  ASSUME Configured, SchedTypes, NEW ms, Sound(ms), NEW c \in Cpus, NEW d \in Cpus, Thread(c) = Thread(d)
  PROVE  c = d
<1>1. (on[c] = None => Thread(c) = c) /\ (on[d] = None => Thread(d) = d)
      /\ (on[c] # None => Thread(c) = on[c] /\ on[c] \in Procs)
      /\ (on[d] # None => Thread(d) = on[d] /\ on[d] \in Procs)
  BY MineIs
<1>2. on[c] # None /\ on[c] = on[d] => c = d
  BY DEF Sound, Running
<1> QED  BY <1>1, <1>2, Numbers

\* What the properties call holding a lock is what the mode says.
LEMMA HoldsIs ==
  ASSUME Configured, SchedTypes, NEW ms, Sound(ms), NEW c \in Cpus, NEW l \in Lock
  PROVE  Holds(c, l) <=> Mine(ms, c).lock[l] \in Inside
<1>1. Mine(ms, c) \in Mode /\ Left(Top(c), Mine(ms, c)) /\ Mine(ms, c).st # "dead"
  BY MineIs
<1>2. Gives(Top(c), l) <=> Mine(ms, c).lock[l] \in Inside
  BY <1>1, GivesIs
<1> QED  BY <1>2, Zenon DEF Holds, Gives

\* A pair is its two parts.
LEMMA PairIs ==
  ASSUME NEW S, NEW T, NEW x \in S \X T
  PROVE  x = <<x[1], x[2]>>
  OBVIOUS

\* A processor at an instruction, and what its mode is then
LEMMA AtIs ==
  ASSUME Configured, SchedTypes, NEW ms, Sound(ms), NEW c \in Cpus, NEW op, At(c, op)
  PROVE  \E k \in Mode : /\ Leads(<<op, Arg(c)>>, Mine(ms, c), k) /\ Left(Tail(Top(c)), k)
                         /\ Tail(Top(c)) \in Seq(Instr)
<1>1. /\ Mine(ms, c) \in Mode /\ Left(Top(c), Mine(ms, c)) /\ Top(c) \in Seq(Instr) /\ Top(c) # << >>
      /\ Head(Top(c))[1] = op
  BY MineIs DEF At
<1>2. PICK n \in Mode : Path(Top(c), Mine(ms, c), n) /\ Final(n)
  BY <1>1 DEF Left
<1>3. PICK k \in Mode : Leads(Head(Top(c)), Mine(ms, c), k) /\ Path(Tail(Top(c)), k, n)
  BY <1>1, <1>2, Parted
<1>4. Head(Top(c)) = <<op, Arg(c)>>
  <2> DEFINE x == Head(Top(c))
  <2>1. x \in Instr
    BY <1>1
  <2>2. x = <<x[1], x[2]>>
    <3> HIDE DEF x
    <3> QED  BY <2>1, PairIs DEF Instr
  <2> QED  BY <1>1, <2>2 DEF Arg
<1>5. Tail(Top(c)) \in Seq(Instr)
  BY <1>1
<1> QED  BY <1>2, <1>3, <1>4, <1>5 DEF Left

\* A process has three frames at most, a processor two.
LEMMA ShapedLen ==
  ASSUME NEW t, NEW ms, Shaped(t, ms)
  PROVE  Len(ms) \in 1 .. 3 /\ Len(ms) <= 3 /\ (t \notin Procs => Len(ms) <= 2)
<1>1. \/ t \in Procs /\ Len(ms) \in {1, 2, 3}
      \/ Len(ms) \in {1, 2}
  BY DEF Shaped
<1> QED  BY <1>1

\* A frame with nothing left to do
LEMMA LeftNothing ==
  ASSUME NEW m, Left(<< >>, m)
  PROVE  Final(m)
<1>1. PICK n \in Mode : Path(<< >>, m, n) /\ Final(n)
  BY DEF Left
<1>2. PICK M \in [1 .. Len(<< >>) + 1 -> Mode] : M[1] = m /\ M[Len(<< >>) + 1] = n
  BY <1>1 DEF Path
<1>3. Len(<< >>) + 1 = 1
  OBVIOUS
<1> QED  BY <1>1, <1>2, <1>3

\* Between acquire and release a processor is alone, and who waits waits for somebody
\* that goes on.
LEMMA InvLocks == SchedInv => LocksRight
<1> SUFFICES ASSUME SchedInv PROVE LocksRight
  OBVIOUS
<1>1. Configured /\ SchedTypes /\ panicked = "no"
  BY DEF SchedInv
<1>2. PICK ms : Sound(ms)
  BY DEF SchedInv
<1>3. DOMAIN locks = Lock /\ "ptable" \in Lock /\ "time" \in Lock
  BY <1>1 DEF SchedTypes, Lock
<1>4. \A l \in Lock : Holders(l) = {c \in Cpus : Mine(ms, c).lock[l] \in Inside}
  BY <1>1, <1>2, HoldsIs DEF Holders
<1>5. \A l \in Lock : Cardinality(Holders(l)) <= 1 /\ (locks[l].locked <=> Holders(l) # {})
  <2> TAKE l \in Lock
  <2>1. /\ locks[l].locked <=> \E c \in Cpus : Mine(ms, c).lock[l] \in Inside
        /\ \A c, d \in Cpus : Mine(ms, c).lock[l] \in Inside /\ Mine(ms, d).lock[l] \in Inside => c = d
    BY <1>2 DEF Sound, Locked
  <2>2. Holders(l) = {} \/ \E h : Holders(l) = {h}
    BY <1>4, <2>1
  <2>3. Cardinality(Holders(l)) <= 1
    <3>1. Cardinality({}) = 0 /\ \A h : Cardinality({h}) = 1
      BY FS_EmptySet, FS_Singleton
    <3> QED  BY <2>2, <3>1
  <2> QED  BY <1>4, <2>1, <2>3
<1>6. ASSUME NEW l \in Lock, NEW h \in Holders(l)
      PROVE  ~cpus[h].IF /\ cpus[h].ncli > 0 /\ locks[l].cpu \in {h, Nobody}
  <2>1. h \in Cpus /\ Mine(ms, h).lock[l] \in Inside /\ Mine(ms, h) \in Mode
    BY <1>1, <1>2, <1>4, <1>6, MineIs
  <2>2. Count(Mine(ms, h)) > 0
    BY <2>1 DEF Count, Inside, Lock
  <2>3. ~cpus[h].IF /\ cpus[h].ncli > 0
    BY <1>2, <2>1, <2>2 DEF Sound, Viewed, Views
  <2>4. locks[l].cpu \in Cpus \cup {Nobody}
    BY <1>1 DEF SchedTypes
  <2>5. ASSUME locks[l].cpu \in Cpus PROVE locks[l].cpu = h
    <3>1. Mine(ms, locks[l].cpu).lock[l] = "held"
      BY <1>2, <2>5 DEF Sound, Locked
    <3> QED  BY <1>2, <2>1, <2>5, <3>1 DEF Sound, Locked, Inside
  <2> QED  BY <2>3, <2>4, <2>5
<1>7. ASSUME NEW l \in Lock, NEW c \in Cpus, Spins(c, l) PROVE Mine(ms, c).lock[l] = "pushed"
  <2>1. At(c, "xchg") /\ Arg(c) = l
    BY <1>7 DEF Spins
  <2>2. PICK k \in Mode : Leads(<<"xchg", l>>, Mine(ms, c), k)
    BY <1>1, <1>2, <2>1, AtIs
  <2> QED  BY <2>2 DEF Leads, Turns
<1>8. ASSUME NEW l \in Lock, NEW c \in Cpus, Spins(c, l), NEW h \in Holders(l)
      PROVE  h # c /\ ~Spins(h, "time") /\ (l = "ptable" => ~Spins(h, "ptable"))
  <2>1. h \in Cpus /\ Mine(ms, h).lock[l] \in Inside /\ Mine(ms, h) \in Mode
    BY <1>1, <1>2, <1>4, <1>8, MineIs
  <2>2. Mine(ms, c).lock[l] = "pushed"
    BY <1>7, <1>8
  <2>3. Lawful(Mine(ms, h))
    BY <2>1, ModeIs
  <2>4. Spins(h, "time") => Mine(ms, h).lock["time"] = "pushed"
    BY <1>3, <1>7, <2>1
  <2>5. Spins(h, "ptable") => Mine(ms, h).lock["ptable"] = "pushed"
    BY <1>3, <1>7, <2>1
  <2> QED  BY <2>1, <2>2, <2>3, <2>4, <2>5 DEF Lawful, Inside, Lock
<1> QED  BY <1>1, <1>3, <1>5, <1>6, <1>8, Zenon DEF LocksRight

\* Handlers are not interrupted, processes have a processor of their own, and nobody
\* sleeps for what has happened.
LEMMA InvThreads == SchedInv => ThreadsRight
<1> SUFFICES ASSUME SchedInv PROVE ThreadsRight
  OBVIOUS
<1>1. Configured /\ SchedTypes /\ panicked = "no"
  BY DEF SchedInv
<1>2. PICK ms : Sound(ms)
  BY DEF SchedInv
<1>3. ASSUME NEW c \in Cpus
      PROVE  /\ Len(code[Thread(c)]) <= IF on[c] = None THEN 2 ELSE 3
             /\ on[c] # None => ptable[on[c]].state \notin {"UNUSED", "EMBRYO"} /\ ~At(c, "panic")
             /\ on[c] # None /\ Top(c) = << >> => cpus[c].IF /\ cpus[c].ncli = 0
             /\ \A d \in Cpus : on[c] # None /\ on[c] = on[d] => c = d
  <2> DEFINE t == Thread(c)
             m == Mine(ms, c)
  <2>1. /\ t \in Threads /\ m \in Mode /\ Len(code[t]) = Len(ms[t]) /\ Left(Top(c), m) /\ m.st # "dead"
        /\ (on[c] = None => t = c) /\ (on[c] # None => t = on[c] /\ on[c] \in Procs)
    BY <1>1, <1>2, MineIs
  <2>2. Shaped(t, ms[t])
    BY <1>2, <2>1 DEF Sound, Stacks, Stack
  <2>3. Len(code[t]) <= IF on[c] = None THEN 2 ELSE 3
    <3>1. Len(ms[t]) <= 3 /\ (t \notin Procs => Len(ms[t]) <= 2)
      <4> HIDE DEF t
      <4> QED  BY <2>2, ShapedLen, Zenon
    <3> QED  BY <1>1, <2>1, <3>1, Numbers
  <2>4. on[c] # None => ptable[on[c]].state \notin {"UNUSED", "EMBRYO"} /\ \A d \in Cpus : on[c] = on[d] => c = d
    BY <1>2 DEF Sound, Running
  <2>5. ~At(c, "panic")
    <3> SUFFICES ASSUME At(c, "panic") PROVE FALSE
      OBVIOUS
    <3>1. PICK k \in Mode : Leads(<<"panic", Arg(c)>>, m, k)
      BY <1>1, <1>2, AtIs
    <3> HIDE DEF m
    <3> QED  BY <2>1, <3>1 DEF Leads
  <2>6. ASSUME on[c] # None, Top(c) = << >> PROVE cpus[c].IF /\ cpus[c].ncli = 0
    <3>1. Final(m)
      BY <2>1, <2>6, LeftNothing
    <3>2. m.kind \in {"user", "call", "trap"}
      BY <1>1, <2>1, <2>2, <2>6, Numbers DEF Shaped, Mine
    <3>3. m.kind = "user"
      BY <3>1, <3>2 DEF Final
    <3>4. Idle(m)
      BY <2>1, <3>3, ModeIs DEF Lawful
    <3>5. Views(cpus[c], m)
      BY <1>2 DEF Sound, Viewed
    <3> QED  BY <3>3, <3>4, <3>5 DEF Views, Count, Idle, Lock
  <2> QED  BY <2>3, <2>4, <2>5, <2>6
<1>4. ASSUME NEW p \in Procs
      PROVE  /\ ptable[p].state = "RUNNING" => \E c \in Cpus : on[c] = p
             /\ ptable[p].state = "SLEEPING" /\ ptable[p].chan = TicksChan =>
                  Passed(p) = 0 \/ locks["time"].locked
             /\ ptable[p].state = "SLEEPING" /\ ptable[p].chan = p => Table!Zombies(p) = {}
  <2>1. ptable[p].state = "RUNNING" => \E c \in Cpus : on[c] = p
    BY <1>2 DEF Sound, Off
  <2>2. /\ Sleeps(ms, p, TicksChan) => Passed(p) = 0 \/ Ticking(ms)
        /\ Sleeps(ms, p, p) => Table!Zombies(p) = {}
    BY <1>2 DEF Sound, Awaited
  <2>3. Ticking(ms) => locks["time"].locked
    <3> SUFFICES ASSUME NEW c \in Cpus, Mine(ms, c).tick PROVE locks["time"].locked
      BY DEF Ticking
    <3>1. Lawful(Mine(ms, c))
      BY <1>1, <1>2, MineIs, ModeIs
    <3>2. Mine(ms, c).lock["time"] \in Inside /\ "time" \in Lock
      BY <3>1 DEF Lawful, Inside, Lock
    <3> QED  BY <1>2, <3>2 DEF Sound, Locked
  <2> QED  BY <2>1, <2>2, <2>3 DEF Sleeps
<1> QED  BY <1>3, <1>4 DEF ThreadsRight

\* Registers stay registers when one of them is written.
LEMMA RegistersAre ==
  ASSUME NEW r, Registers(r)
  PROVE  /\ \A b \in BOOLEAN : Registers([r EXCEPT !.IF = b]) /\ Registers([r EXCEPT !.intena = b])
                             /\ Registers([r EXCEPT !.started = b])
         /\ \A n \in Nat : Registers([r EXCEPT !.ncli = n])
  BY DEF Registers

\* A program, and a scheduler between its rounds, has nothing left to do.
LEMMA LeftEmpty ==
  ASSUME NEW m \in Mode, m.kind \in {"user", "main", "base"}, Idle(m), m.child = 0
  PROVE  Left(<< >>, m)
<1>1. Path(<< >>, m, m)
  BY Empty
<1>2. Final(m)
  BY DEF Final
<1> QED  BY <1>1, <1>2 DEF Left

\* A thread with one frame
LEMMA StackOne ==
  ASSUME Configured, NEW t \in Threads, NEW s \in Seq(Instr), NEW m \in Mode, Left(s, m),
         m.kind = IF t \in Procs THEN "user" ELSE IF t = Boot THEN "main" ELSE "base"
  PROVE  Stack(t, <<s>>, <<m>>)
<1>1. /\ <<s>> \in Seq(Seq(Instr)) /\ <<m>> \in Seq(Mode) /\ Len(<<s>>) = 1 /\ Len(<<m>>) = 1
      /\ <<s>>[1] = s /\ <<m>>[1] = m
  OBVIOUS
<1>2. Shaped(t, <<m>>)
  <2>1. CASE t \in Procs
    BY <1>1, <2>1 DEF Shaped
  <2>2. CASE t \notin Procs
    BY <1>1, <2>2 DEF Shaped, Threads
  <2> QED  BY <2>1, <2>2
<1>3. \A i \in 1 .. Len(<<m>>) : Left(<<s>>[i], <<m>>[i]) /\ (i > 1 => Idle(<<m>>[i]))
  <2> SUFFICES ASSUME NEW i \in 1 .. 1 PROVE Left(<<s>>[i], <<m>>[i]) /\ (i > 1 => Idle(<<m>>[i]))
    BY <1>1
  <2>1. i = 1
    OBVIOUS
  <2> QED  BY <1>1, <2>1
<1> QED  BY <1>1, <1>2, <1>3 DEF Stack

\* A slot that is free
LEMMA FreeIs ==
  ASSUME Configured
  PROVE  /\ Table!Free \in Entries /\ Table!Free.state = "UNUSED" /\ Table!Free.parent = 0 /\ Table!Free.chan = 0
  BY Numbers DEF Table!Free, Entries, States, Configured

\* At the start the boot processor has its code, and nobody else has anything.
LEMMA InitInv == Configured /\ SchedInit => SchedInv
<1> SUFFICES ASSUME Configured, SchedInit PROVE SchedInv
  OBVIOUS
<1> DEFINE kindOf(t) == IF t \in Procs THEN "user" ELSE IF t = Boot THEN "main" ELSE "base"
           ms == [t \in Threads |-> <<Fresh(kindOf(t))>>]
<1>1. \A t \in Threads :
        LET m == Fresh(kindOf(t))
        IN /\ m \in Mode /\ Idle(m) /\ m.kind = kindOf(t) /\ m.st = "run" /\ m.child = 0 /\ m.want = 0
           /\ m.tick = FALSE /\ m.next = 1
  <2> TAKE t \in Threads
  <2>1. kindOf(t) \in Kinds
    BY DEF Kinds
  <2> HIDE DEF kindOf
  <2> QED  BY <2>1, FreshIs
<1>2. /\ cpus = [c \in Cpus |-> [IF |-> FALSE, ncli |-> 0, intena |-> FALSE, started |-> FALSE]]
      /\ on = [c \in Cpus |-> None]
      /\ code = [t \in Threads |-> IF t = Boot THEN <<Main>> ELSE << << >> >>]
      /\ locks = [l \in {"ptable", "time"} |-> [locked |-> FALSE, cpu |-> 1]]
      /\ ptable = [p \in Procs |-> Table!Free]
      /\ ticks = 0 /\ ticks0 = [p \in Procs |-> 0]
      /\ panicked = "no"
  BY DEF SchedInit
<1>3. /\ \A t \in Threads : ms[t] = <<Fresh(kindOf(t))>> /\ ms[t][1] = Fresh(kindOf(t)) /\ Len(ms[t]) = 1
      /\ \A c \in Cpus : Thread(c) = c /\ c \in Threads /\ Mine(ms, c) = Fresh(kindOf(c)) /\ c \notin Procs
  BY <1>2, Numbers DEF Thread, Threads, Mine, None
<1>4. Left(Main, Fresh("main")) /\ Main \in Seq(Instr) /\ << >> \in Seq(Instr)
  BY MainLeft DEF Left, Path
<1>5. \A t \in Threads : Stack(t, code[t], ms[t]) /\ code[t] \in Seq(Seq(Instr))
  <2> TAKE t \in Threads
  <2>1. CASE t = Boot
    <3>1. code[t] = <<Main>> /\ kindOf(t) = "main"
      BY <1>2, <2>1, Numbers
    <3> HIDE DEF ms, kindOf
    <3>2. Stack(t, code[t], ms[t])
      BY <1>1, <1>3, <1>4, <2>1, <3>1, StackOne, Numbers
    <3> QED  BY <3>2 DEF Stack
  <2>2. CASE t # Boot
    <3>1. code[t] = << << >> >> /\ kindOf(t) \in {"user", "base"}
      BY <1>2, <2>2
    <3>2. kindOf(t) = IF t \in Procs THEN "user" ELSE IF t = Boot THEN "main" ELSE "base"
      OBVIOUS
    <3> HIDE DEF ms, kindOf
    <3>3. Left(<< >>, Fresh(kindOf(t)))
      BY <1>1, <3>1, LeftEmpty
    <3>4. Stack(t, << << >> >>, <<Fresh(kindOf(t))>>)
      BY <1>1, <1>4, <3>2, <3>3, StackOne
    <3>5. Stack(t, code[t], ms[t])
      BY <1>3, <3>1, <3>4
    <3> QED  BY <3>5 DEF Stack
  <2> QED  BY <2>1, <2>2
<1>6. SchedTypes
  <2>1. cpus = [c \in Cpus |-> cpus[c]] /\ \A c \in Cpus : Registers(cpus[c])
    BY <1>2 DEF Registers
  <2>2. locks \in [Lock -> [locked : BOOLEAN, cpu : Cpus \cup {Nobody}]]
    BY <1>2 DEF Lock, Nobody
  <2>3. code \in [Threads -> Seq(Seq(Instr))]
    BY <1>2, <1>5
  <2>4. ptable \in [Procs -> Entries]
    BY <1>2, FreeIs
  <2> QED  BY <1>2, <2>1, <2>2, <2>3, <2>4 DEF SchedTypes, None
<1>7. ms \in Modes
  BY <1>1, <1>3 DEF Modes
<1>8. \A c \in Cpus : kindOf(c) \in {"main", "base"} /\ cpus[c].ncli = 0 /\ cpus[c].IF = FALSE
  BY <1>2, <1>3
<1> HIDE DEF ms, kindOf
<1>9. Viewed(ms)
  <2> SUFFICES ASSUME NEW c \in Cpus PROVE Views(cpus[c], Mine(ms, c))
    BY DEF Viewed
  <2> DEFINE m == Mine(ms, c)
  <2>1. m \in Mode /\ Idle(m) /\ m.kind \in {"main", "base"}
    BY <1>1, <1>3, <1>8
  <2> HIDE DEF m
  <2>2. Count(m) = 0 /\ m.st = "run"
    BY <2>1, IdleIs DEF Count
  <2>3. Views(cpus[c], m)
    BY <1>8, <2>1, <2>2 DEF Views
  <2> QED  BY <2>3 DEF m
<1>10. Locked(ms)
  <2>1. \A c \in Cpus : \A l \in Lock : Mine(ms, c).lock[l] = "out"
    BY <1>1, <1>3 DEF Idle
  <2>2. \A l \in Lock : locks[l].locked = FALSE /\ locks[l].cpu = Nobody
    BY <1>2 DEF Lock, Nobody
  <2> QED  BY <2>1, <2>2, Numbers DEF Locked, Inside
<1>11. Off(ms) /\ Running(ms)
  <2>1. \A c \in Cpus : on[c] = None
    BY <1>2
  <2>2. \A p \in Procs : ptable[p].state = "UNUSED" /\ code[p] = << << >> >>
    BY <1>2, FreeIs, Numbers DEF Threads
  <2> QED  BY <2>1, <2>2 DEF Off, Running
<1>12. Kids(ms)
  <2>1. \A t \in Threads : \A i \in DOMAIN ms[t] : ms[t][i].child = 0
    <3> TAKE t \in Threads
    <3>1. DOMAIN ms[t] = {1} /\ ms[t][1].child = 0
      BY <1>1, <1>3
    <3> QED  BY <3>1
  <2> QED  BY <2>1 DEF Kids
<1>13. Awaited(ms)
  <2>1. \A p \in Procs : ms[p][1].want = 0 /\ ptable[p].state = "UNUSED" /\ ptable[p].parent = 0 /\ p # 0
    BY <1>1, <1>2, <1>3, FreeIs, Numbers DEF Threads
  <2> QED  BY <2>1, Numbers DEF Awaited, Sleeps
<1>14. Boots(ms)
  <2>1. \A n \in 1 .. NCPU - 1 : -n \in Cpus /\ -n # Boot /\ -n \in Threads
    BY DEF Cpus, Boot, Threads, Configured
  <2> QED  BY <1>2, <1>8, <2>1 DEF Boots
<1> QED  BY <1>2, <1>5, <1>6, <1>7, <1>9, <1>10, <1>11, <1>12, <1>13, <1>14 DEF SchedInv, Sound, Stacks

-----------------------------------------------------------------------------
(* A step of a processor puts another mode in the place of its first *)

First(s, x) == [s EXCEPT ![1] = x]
Put(ms, t, k) == [ms EXCEPT ![t] = First(@, k)]

\* A sequence with another first element
LEMMA FirstIs ==
  ASSUME NEW S, NEW s \in Seq(S), Len(s) \in 1 .. 3, NEW x \in S
  PROVE  /\ First(s, x) \in Seq(S) /\ Len(First(s, x)) = Len(s) /\ First(s, x)[1] = x
         /\ \A i \in 1 .. Len(s) : i # 1 => First(s, x)[i] = s[i]
  BY DEF First

\* The same, for the code of a thread
LEMMA FirstCode ==
  ASSUME NEW s \in Seq(Seq(Instr)), Len(s) \in 1 .. 3, NEW x \in Seq(Instr)
  PROVE  /\ First(s, x) \in Seq(Seq(Instr)) /\ Len(First(s, x)) = Len(s) /\ First(s, x)[1] = x
         /\ \A i \in 1 .. Len(s) : i # 1 => First(s, x)[i] = s[i]
<1> DEFINE S == Seq(Instr)
<1>1. s \in Seq(S) /\ x \in S
  OBVIOUS
<1> HIDE DEF S
<1>2. First(s, x) \in Seq(S)
  BY <1>1, FirstIs
<1>3. /\ Len(First(s, x)) = Len(s) /\ First(s, x)[1] = x
      /\ \A i \in 1 .. Len(s) : i # 1 => First(s, x)[i] = s[i]
  BY <1>1, FirstIs
<1> QED  BY <1>2, <1>3 DEF S

\* The same, for its modes
LEMMA FirstMode ==
  ASSUME NEW s \in Seq(Mode), Len(s) \in 1 .. 3, NEW x \in Mode
  PROVE  /\ First(s, x) \in Seq(Mode) /\ Len(First(s, x)) = Len(s) /\ First(s, x)[1] = x
         /\ \A i \in 1 .. Len(s) : i # 1 => First(s, x)[i] = s[i]
  BY FirstIs

\* A thread whose first frame goes on is still a stack.
LEMMA StackPut ==
  ASSUME NEW t, NEW s, NEW m, Stack(t, s, m), NEW x \in Seq(Instr), NEW k \in Mode, Left(x, k), k.kind = m[1].kind
  PROVE  Stack(t, First(s, x), First(m, k))
<1>1. Len(m) \in 1 .. 3 /\ s \in Seq(Seq(Instr)) /\ m \in Seq(Mode) /\ Len(s) = Len(m)
  BY ShapedLen DEF Stack
<1>2. /\ First(s, x) \in Seq(Seq(Instr)) /\ Len(First(s, x)) = Len(s) /\ First(s, x)[1] = x
      /\ \A i \in 1 .. Len(s) : i # 1 => First(s, x)[i] = s[i]
  BY <1>1, FirstCode
<1>3. /\ First(m, k) \in Seq(Mode) /\ Len(First(m, k)) = Len(m) /\ First(m, k)[1] = k
      /\ \A i \in 1 .. Len(m) : i # 1 => First(m, k)[i] = m[i]
  BY <1>1, FirstMode
<1>4. \A i \in 1 .. Len(m) : Left(First(s, x)[i], First(m, k)[i]) /\ (i > 1 => Idle(First(m, k)[i]))
  BY <1>1, <1>2, <1>3 DEF Stack
<1>5. Shaped(t, First(m, k))
  <2>1. Shaped(t, m)
    BY DEF Stack
  <2> QED  BY <1>1, <1>3, <2>1 DEF Shaped
<1> QED  BY <1>1, <1>2, <1>3, <1>4, <1>5 DEF Stack

\* The modes when the thread t goes on to k
LEMMA PutIs ==
  ASSUME Configured, SchedTypes, NEW ms, Sound(ms), NEW t \in Threads, NEW k \in Mode
  PROVE  /\ Put(ms, t, k) \in Modes /\ Put(ms, t, k)[t] = First(ms[t], k)
         /\ Len(Put(ms, t, k)[t]) = Len(ms[t]) /\ Put(ms, t, k)[t][1] = k /\ Len(ms[t]) \in 1 .. 3
         /\ \A i \in 1 .. Len(ms[t]) : i # 1 => Put(ms, t, k)[t][i] = ms[t][i]
         /\ \A u \in Threads : u # t => Put(ms, t, k)[u] = ms[u]
<1>1. ms \in [Threads -> Seq(Mode)] /\ Stack(t, code[t], ms[t])
  BY DEF Sound, Modes, Stacks
<1>2. Len(ms[t]) \in 1 .. 3 /\ ms[t] \in Seq(Mode)
  BY <1>1, ShapedLen DEF Stack
<1>3. /\ First(ms[t], k) \in Seq(Mode) /\ Len(First(ms[t], k)) = Len(ms[t]) /\ First(ms[t], k)[1] = k
      /\ \A i \in 1 .. Len(ms[t]) : i # 1 => First(ms[t], k)[i] = ms[t][i]
  BY <1>2, FirstMode
<1>4. /\ Put(ms, t, k) \in [Threads -> Seq(Mode)] /\ Put(ms, t, k)[t] = First(ms[t], k)
      /\ \A u \in Threads : u # t => Put(ms, t, k)[u] = ms[u]
  BY <1>1, <1>3 DEF Put
<1> QED  BY <1>2, <1>3, <1>4 DEF Modes

\* The code when the thread of c goes on
LEMMA BecomeIs ==
  ASSUME Configured, SchedTypes, NEW ms, Sound(ms), NEW c \in Cpus, Top(c) # << >>, NEW x \in Seq(Instr)
  PROVE  /\ Become(c, x) \in [Threads -> Seq(Seq(Instr))]
         /\ Become(c, x)[Thread(c)] = First(code[Thread(c)], x \o Tail(Top(c)))
         /\ x \o Tail(Top(c)) \in Seq(Instr)
         /\ \A u \in Threads : u # Thread(c) => Become(c, x)[u] = code[u]
<1> DEFINE t == Thread(c)
<1>1. t \in Threads /\ Top(c) \in Seq(Instr) /\ Len(code[t]) \in 1 .. 3 /\ code \in [Threads -> Seq(Seq(Instr))]
  BY MineIs DEF SchedTypes
<1>2. x \o Tail(Top(c)) \in Seq(Instr)
  BY <1>1
<1>3. Become(c, x) = [code EXCEPT ![t] = First(code[t], x \o Tail(Top(c)))]
  BY <1>1 DEF Become, First, Top
<1>4. First(code[t], x \o Tail(Top(c))) \in Seq(Seq(Instr))
  BY <1>1, <1>2, FirstCode
<1> HIDE DEF t
<1> QED  BY <1>1, <1>2, <1>3, <1>4 DEF t

\* The stacks after such a step
LEMMA StacksPut ==
  ASSUME Configured, SchedTypes, NEW ms, Sound(ms), NEW c \in Cpus, NEW t, t = Thread(c), Top(c) # << >>,
         NEW x \in Seq(Instr), code' = Become(c, x), NEW k \in Mode, Left(x \o Tail(Top(c)), k),
         k.kind = Mine(ms, c).kind
  PROVE  /\ code' \in [Threads -> Seq(Seq(Instr))] /\ Stacks(Put(ms, t, k))'
         /\ \A u \in Threads : u # t => code'[u] = code[u]
<1>1. /\ code' \in [Threads -> Seq(Seq(Instr))] /\ x \o Tail(Top(c)) \in Seq(Instr)
      /\ code'[t] = First(code[t], x \o Tail(Top(c)))
      /\ \A u \in Threads : u # t => code'[u] = code[u]
  BY BecomeIs
<1>2. t \in Threads /\ Mine(ms, c) = ms[t][1] /\ \A u \in Threads : Stack(u, code[u], ms[u])
  BY MineIs DEF Mine, Sound, Stacks
<1>3. Put(ms, t, k)[t] = First(ms[t], k) /\ \A u \in Threads : u # t => Put(ms, t, k)[u] = ms[u]
  BY <1>2, PutIs
<1>4. Stack(t, code'[t], Put(ms, t, k)[t])
  <2> DEFINE y == x \o Tail(Top(c))
  <2>1. Stack(t, code[t], ms[t]) /\ y \in Seq(Instr) /\ Left(y, k) /\ k.kind = ms[t][1].kind
    BY <1>1, <1>2
  <2>2. code'[t] = First(code[t], y)
    BY <1>1
  <2> HIDE DEF y
  <2>3. Stack(t, First(code[t], y), First(ms[t], k))
    BY <2>1, StackPut
  <2> QED  BY <1>3, <2>2, <2>3
<1>5. \A u \in Threads : Stack(u, code'[u], Put(ms, t, k)[u])
  BY <1>1, <1>2, <1>3, <1>4
<1> QED  BY <1>1, <1>5 DEF Stacks

\* What the processors are at after a step that none of them leaves its thread in
LEMMA MinePut ==
  ASSUME Configured, SchedTypes, NEW ms, Sound(ms), NEW c \in Cpus, NEW t, t = Thread(c), NEW k \in Mode, on' = on
  PROVE  /\ Mine(Put(ms, t, k), c)' = k
         /\ \A d \in Cpus : d # c => Mine(Put(ms, t, k), d)' = Mine(ms, d) /\ Thread(d) # t
         /\ \A d \in Cpus : Thread(d)' = Thread(d)
<1>1. \A d \in Cpus : Thread(d)' = Thread(d)
  BY DEF Thread
<1>2. \A d \in Cpus : d # c => Thread(d) # t
  BY MinesDiffer
<1>3. \A d \in Cpus : Thread(d) \in Threads
  BY MineIs
<1>4. Put(ms, t, k)[t][1] = k /\ \A u \in Threads : u # t => Put(ms, t, k)[u] = ms[u]
  BY <1>3, PutIs
<1> QED  BY <1>1, <1>2, <1>3, <1>4 DEF Mine

\* A state of a process that is the same to the others, or nearly
Same(a, b) == a = b \/ (a = "SLEEPING" /\ b = "RUNNABLE")
Near(a, b) == a = b \/ (a \in {"EMBRYO", "SLEEPING"} /\ b = "RUNNABLE")

\* What the table says of the process that runs at k
Says(state, k) ==
  /\ state \in {"RUNNING", "RUNNABLE", "SLEEPING", "ZOMBIE"}
  /\ state = "RUNNING" <=> k.st \in {"run", "back"}
  /\ state = "ZOMBIE" <=> k.st = "dying"

\* A step of c from the modes ms to the modes P: c comes to k, the others stay.
Moves(ms, P, c, k) == Mine(P, c)' = k /\ \A d \in Cpus : d # c => Mine(P, d)' = Mine(ms, d)

\* The registers agree with the modes, when those of c do.
LEMMA ViewedMoves ==
  ASSUME NEW ms, Sound(ms), NEW c \in Cpus, NEW k, NEW P, Moves(ms, P, c, k),
         \A d \in Cpus : d # c => cpus'[d] = cpus[d], Views(cpus'[c], k)
  PROVE  Viewed(P)'
<1>1. Mine(P, c)' = k /\ \A d \in Cpus : d # c => Mine(P, d)' = Mine(ms, d)
  BY DEF Moves
<1>2. \A d \in Cpus : Views(cpus[d], Mine(ms, d))
  BY DEF Sound, Viewed
<1>3. \A d \in Cpus : Views(cpus'[d], Mine(P, d)')
  <2> TAKE d \in Cpus
  <2>1. CASE d = c
    BY <1>1, <2>1
  <2>2. CASE d # c
    BY <1>1, <1>2, <2>2
  <2> QED  BY <2>1, <2>2
<1> QED  BY <1>3 DEF Viewed

\* The modes m and k have the same locks.
LocksAlike(m, k) ==
  \A l \in Lock : /\ k.lock[l] \in Inside <=> m.lock[l] \in Inside
                  /\ k.lock[l] = "held" <=> m.lock[l] = "held"

\* The locks agree with the modes, when a step changes neither.
LEMMA LockedMoves ==
  ASSUME NEW ms, Sound(ms), NEW c \in Cpus, NEW k, NEW P, Moves(ms, P, c, k), locks' = locks, LocksAlike(Mine(ms, c), k)
  PROVE  Locked(P)'
<1>1. Mine(P, c)' = k /\ \A d \in Cpus : d # c => Mine(P, d)' = Mine(ms, d)
  BY DEF Moves
<1>2. \A d \in Cpus : \A l \in Lock :
        /\ Mine(P, d)'.lock[l] \in Inside <=> Mine(ms, d).lock[l] \in Inside
        /\ Mine(P, d)'.lock[l] = "held" <=> Mine(ms, d).lock[l] = "held"
  <2> TAKE d \in Cpus
  <2>1. CASE d = c
    BY <1>1, <2>1 DEF LocksAlike
  <2>2. CASE d # c
    BY <1>1, <2>2
  <2> QED  BY <2>1, <2>2
<1>3. Locked(ms)
  BY DEF Sound
<1> QED  BY <1>2, <1>3 DEF Locked

\* A process on no processor after a step
Waits(ms, P, p) ==
  \/ Near(ptable[p].state, ptable'[p].state) /\ code'[p] = code[p] /\ P[p] = ms[p]
  \/ ptable'[p].state = "EMBRYO" /\ Ready(P[p][1])
  \/ ptable'[p].state = "UNUSED" /\ code'[p] = << << >> >>

\* Who is on no processor goes on waiting where it may be resumed.
LEMMA OffMoves ==
  ASSUME Configured, SchedTypes, NEW ms, Sound(ms), NEW P, on' = on,
         \A d \in Cpus : on[d] # None => P[d] = ms[d],
         \A p \in Procs : (\A d \in Cpus : on[d] # p) => Waits(ms, P, p)
  PROVE  Off(P)'
<1>1. ASSUME NEW d \in Cpus, on[d] # None
      PROVE  Len(P[d]) = 1 /\ Inner(P[d][1])
  BY <1>1 DEF Sound, Off
<1>2. ASSUME NEW p \in Procs, \A d \in Cpus : on[d] # p
      PROVE  /\ ptable'[p].state # "RUNNING"
             /\ ptable'[p].state = "UNUSED" => code'[p] = << << >> >>
             /\ ptable'[p].state = "ZOMBIE" => P[p][1].st = "dead"
             /\ ptable'[p].state \in {"EMBRYO", "RUNNABLE", "SLEEPING"} => Ready(P[p][1])
  <2>1. /\ ptable[p].state # "RUNNING"
        /\ ptable[p].state = "UNUSED" => code[p] = << << >> >>
        /\ ptable[p].state = "ZOMBIE" => ms[p][1].st = "dead"
        /\ ptable[p].state \in {"EMBRYO", "RUNNABLE", "SLEEPING"} => Ready(ms[p][1])
    BY <1>2 DEF Sound, Off
  <2>2. Waits(ms, P, p)
    BY <1>2
  <2> QED  BY <2>1, <2>2 DEF Waits, Near
<1> QED  BY <1>1, <1>2 DEF Off

\* The same, when only what a processor runs goes on
LEMMA OffPut ==
  ASSUME Configured, SchedTypes, NEW ms, Sound(ms), NEW c \in Cpus, NEW t, t = Thread(c), NEW k \in Mode, on' = on,
         \A u \in Threads : u # t => code'[u] = code[u],
         \A p \in Procs : p # on[c] => Near(ptable[p].state, ptable'[p].state)
  PROVE  Off(Put(ms, t, k))'
<1>1. /\ \A d \in Cpus : (on[d] = None => Thread(d) = d) /\ (on[d] # None => Thread(d) = on[d] /\ on[d] \in Procs)
      /\ t \in Threads /\ Cpus \subseteq Threads /\ Procs \subseteq Threads
  BY MineIs DEF Threads
<1>2. \A u \in Threads : u # t => Put(ms, t, k)[u] = ms[u]
  BY <1>1, PutIs
<1>3. \A d \in Cpus : on[d] # None => Put(ms, t, k)[d] = ms[d]
  BY <1>1, <1>2, Numbers
<1>4. ASSUME NEW p \in Procs, \A d \in Cpus : on[d] # p PROVE Waits(ms, Put(ms, t, k), p)
  <2>1. p # t /\ p # on[c]
    BY <1>1, <1>4, Numbers
  <2> QED  BY <1>1, <1>2, <2>1 DEF Waits
<1> QED  BY <1>3, <1>4, OffMoves

\* The table agrees with what runs, when it does for c.
LEMMA RunningMoves ==
  ASSUME Configured, SchedTypes, NEW ms, Sound(ms), NEW c \in Cpus, NEW k, NEW P, Moves(ms, P, c, k), on' = on,
         \A p \in Procs : p # on[c] => Near(ptable[p].state, ptable'[p].state) \/ \A d \in Cpus : on[d] # p,
         on[c] # None => Says(ptable'[on[c]].state, k)
  PROVE  Running(P)'
<1>1. Mine(P, c)' = k /\ \A d \in Cpus : d # c => Mine(P, d)' = Mine(ms, d)
  BY DEF Moves
<1>2. \A d \in Cpus : on[d] # None => on[d] \in Procs
  BY MineIs
<1>3. \A d, e \in Cpus : on[d] # None /\ on[d] = on[e] => d = e
  BY DEF Sound, Running
<1>4. ASSUME NEW d \in Cpus, on[d] # None
      PROVE  Says(ptable'[on[d]].state, Mine(P, d)')
  <2>1. CASE d = c
    BY <1>1, <1>4, <2>1
  <2>2. CASE d # c
    <3>1. Says(ptable[on[d]].state, Mine(ms, d))
      BY <1>4 DEF Sound, Running, Says
    <3>2. Near(ptable[on[d]].state, ptable'[on[d]].state) /\ Mine(P, d)' = Mine(ms, d)
      BY <1>1, <1>2, <1>3, <1>4, <2>2
    <3> QED  BY <3>1, <3>2 DEF Says, Near
  <2> QED  BY <2>1, <2>2
<1> QED  BY <1>3, <1>4 DEF Running, Says

\* A slot in the making keeps its one maker, when t makes the same.
LEMMA KidsPut ==
  ASSUME Configured, SchedTypes, NEW ms, Sound(ms), NEW t \in Threads, NEW k \in Mode,
         \A p \in Procs : ptable[p].state = "EMBRYO" => ptable'[p].state = "EMBRYO",
         k.child = ms[t][1].child
  PROVE  Kids(Put(ms, t, k))'
<1> DEFINE P == Put(ms, t, k)
<1>1. t \in Threads
  OBVIOUS
<1>2. ms \in [Threads -> Seq(Mode)] /\ P \in [Threads -> Seq(Mode)] /\ Kids(ms)
  BY <1>1, PutIs DEF Sound, Modes
<1>3. ASSUME NEW u \in Threads
      PROVE  DOMAIN P[u] = DOMAIN ms[u] /\ \A i \in DOMAIN ms[u] : P[u][i].child = ms[u][i].child
  <2>1. CASE u = t
    <3>1. Len(P[t]) = Len(ms[t]) /\ P[t][1] = k /\ \A i \in 1 .. Len(ms[t]) : i # 1 => P[t][i] = ms[t][i]
      BY <1>1, PutIs
    <3>2. P[t] \in Seq(Mode) /\ ms[t] \in Seq(Mode)
      BY <1>1, <1>2
    <3> HIDE DEF P
    <3>3. DOMAIN P[t] = 1 .. Len(P[t]) /\ DOMAIN ms[t] = 1 .. Len(ms[t])
      BY <3>2
    <3> QED  BY <1>1, <2>1, <3>1, <3>3
  <2>2. CASE u # t
    BY <1>1, <2>2, PutIs
  <2> QED  BY <2>1, <2>2
<1>4. \A p \in Procs : ptable[p].state = "EMBRYO" => ptable'[p].state = "EMBRYO"
  OBVIOUS
<1> HIDE DEF P
<1>5. ASSUME NEW u \in Threads, NEW i \in DOMAIN ms[u], ms[u][i].child # 0
      PROVE  ms[u][i].child \in Procs
  <2>1. ms[u][i] \in Mode
    BY <1>2
  <2>2. ms[u][i].child \in 0 .. NPROC
    BY <2>1, ModeIs
  <2> QED  BY <1>5, <2>2 DEF Procs, Configured
<1>6. ASSUME NEW u \in Threads, NEW i \in DOMAIN P[u], P[u][i].child # 0
      PROVE  /\ ptable'[P[u][i].child].state = "EMBRYO"
             /\ \A v \in Threads : \A j \in DOMAIN P[v] : P[v][j].child = P[u][i].child => v = u /\ j = i
  <2>1. i \in DOMAIN ms[u] /\ P[u][i].child = ms[u][i].child
    BY <1>3
  <2>2. /\ ptable[ms[u][i].child].state = "EMBRYO"
        /\ \A v \in Threads : \A j \in DOMAIN ms[v] : ms[v][j].child = ms[u][i].child => v = u /\ j = i
    BY <1>2, <1>6, <2>1 DEF Kids
  <2> QED  BY <1>3, <1>4, <1>5, <1>6, <2>1, <2>2
<1> QED  BY <1>6 DEF Kids, P

\* Nobody sleeps for what has happened, when nothing has.
LEMMA AwaitedPut ==
  ASSUME Configured, SchedTypes, NEW ms, Sound(ms), NEW c \in Cpus, NEW t, t = Thread(c), NEW k \in Mode, on' = on,
         ptable' = ptable, ticks' = ticks, ticks0' = ticks0,
         k.want = Mine(ms, c).want, k.tick = Mine(ms, c).tick
  PROVE  Awaited(Put(ms, t, k))'
<1>1. /\ Mine(Put(ms, t, k), c)' = k
      /\ \A d \in Cpus : d # c => Mine(Put(ms, t, k), d)' = Mine(ms, d)
  BY MinePut
<1>2. t \in Threads /\ Mine(ms, c) = ms[t][1] /\ Procs \subseteq Threads
  BY MineIs DEF Mine, Threads
<1>3. \A p \in Procs : Put(ms, t, k)[p][1].want = ms[p][1].want
  BY <1>2, PutIs
<1>4. Ticking(Put(ms, t, k))' <=> Ticking(ms)
  <2>1. \A d \in Cpus : Mine(Put(ms, t, k), d)'.tick = Mine(ms, d).tick
    BY <1>1
  <2> QED  BY <2>1 DEF Ticking
<1>5. \A p \in Procs : Passed(p)' = Passed(p) /\ Table!Zombies(p)' = Table!Zombies(p)
  BY DEF Passed, Table!Zombies, Table!Children
<1>6. \A p \in Procs : \A chan : Sleeps(Put(ms, t, k), p, chan)' <=> Sleeps(ms, p, chan)
  BY <1>3 DEF Sleeps
<1>7. Awaited(ms)
  BY DEF Sound
<1> QED  BY <1>4, <1>5, <1>6, <1>7 DEF Awaited

\* A processor that does something has been started.
Last(ms) == ms[Boot][Len(ms[Boot])].next

\* A processor that is not started does nothing, when another takes the step.
LEMMA BootsMoves ==
  ASSUME Configured, SchedTypes, NEW ms, Sound(ms), NEW c \in Cpus, NEW P, Last(P) = Last(ms),
         \A d \in Cpus : d # c => cpus'[d] = cpus[d] /\ on'[d] = on[d],
         \A d \in Cpus : d # Thread(c) => code'[d] = code[d],
         Top(c) # << >> \/ on[c] # None \/ cpus[c].IF
  PROVE  Boots(P)'
<1> SUFFICES ASSUME NEW n \in 1 .. NCPU - 1, n >= Last(ms)
             PROVE  code'[-n] = << << >> >> /\ ~cpus'[-n].IF /\ on'[-n] = None
  BY DEF Boots, Last
<1>1. code[-n] = << << >> >> /\ ~cpus[-n].IF /\ on[-n] = None
  BY DEF Sound, Boots, Last
<1>2. -n \in Cpus
  BY DEF Cpus, Boot, Configured
<1>3. Thread(-n) = -n
  BY <1>1 DEF Thread
<1>4. c # -n
  BY <1>1, <1>3 DEF Top
<1>5. Thread(c) # -n
  BY <1>2, <1>3, <1>4, MinesDiffer
<1> QED  BY <1>1, <1>2, <1>4, <1>5

\* The last processor started is the same, when the boot processor starts none.
LEMMA LastPut ==
  ASSUME Configured, SchedTypes, NEW ms, Sound(ms), NEW t \in Threads, NEW k \in Mode, k.next = ms[t][1].next
  PROVE  Last(Put(ms, t, k)) = Last(ms)
<1>1. Boot \in Threads
  BY Numbers DEF Threads
<1>2. CASE t = Boot
  <2>1. /\ Len(Put(ms, t, k)[t]) = Len(ms[t]) /\ Put(ms, t, k)[t][1] = k /\ Len(ms[t]) \in 1 .. 3
        /\ \A i \in 1 .. Len(ms[t]) : i # 1 => Put(ms, t, k)[t][i] = ms[t][i]
    BY PutIs
  <2>2. CASE Len(ms[t]) = 1
    BY <1>2, <2>1, <2>2 DEF Last
  <2>3. CASE Len(ms[t]) # 1
    BY <1>2, <2>1, <2>3 DEF Last
  <2> QED  BY <2>2, <2>3
<1>3. CASE t # Boot
  BY <1>1, <1>3, PutIs DEF Last
<1> QED  BY <1>2, <1>3

\* What a step of one processor keeps
LEMMA Kept ==
  ASSUME Configured, SchedTypes, NEW ms, Sound(ms), NEW c \in Cpus, NEW t, t = Thread(c),
         Top(c) # << >>, NEW x \in Seq(Instr), code' = Become(c, x), NEW k \in Mode, Left(x \o Tail(Top(c)), k),
         k.kind = Mine(ms, c).kind, k.child = Mine(ms, c).child, k.next = Mine(ms, c).next,
         on' = on, \A d \in Cpus : d # c => cpus'[d] = cpus[d], Views(cpus'[c], k),
         \A p \in Procs : p # on[c] => Same(ptable[p].state, ptable'[p].state),
         on[c] # None => Says(ptable'[on[c]].state, k),
         Locked(Put(ms, t, k))', Awaited(Put(ms, t, k))',
         cpus' = [d \in Cpus |-> cpus'[d]], Registers(cpus'[c]),
         locks' \in [Lock -> [locked : BOOLEAN, cpu : Cpus \cup {Nobody}]],
         ptable' \in [Procs -> Entries], ticks' \in Int, ticks0' \in [Procs -> Int]
  PROVE  SchedTypes' /\ \E ms2 : Sound(ms2)'
<1>1. t \in Threads /\ Mine(ms, c) = ms[t][1] /\ Cpus \subseteq Threads
  BY MineIs DEF Mine, Threads
<1>2. /\ code' \in [Threads -> Seq(Seq(Instr))] /\ Stacks(Put(ms, t, k))'
      /\ \A u \in Threads : u # t => code'[u] = code[u]
  BY StacksPut
<1>3. Viewed(Put(ms, t, k))' /\ Off(Put(ms, t, k))' /\ Running(Put(ms, t, k))' /\ Kids(Put(ms, t, k))'
      /\ Boots(Put(ms, t, k))'
  <2>1. Moves(ms, Put(ms, t, k), c, k)
    BY MinePut DEF Moves
  <2>2. Viewed(Put(ms, t, k))'
    BY <2>1, ViewedMoves
  <2>3. \A p \in Procs : p # on[c] => Near(ptable[p].state, ptable'[p].state)
    BY DEF Same, Near
  <2>4. Off(Put(ms, t, k))'
    BY <1>2, <2>3, OffPut
  <2>5. Running(Put(ms, t, k))'
    BY <2>1, <2>3, RunningMoves
  <2>6. ASSUME NEW p \in Procs, ptable[p].state = "EMBRYO" PROVE ptable'[p].state = "EMBRYO"
    <3>1. on[c] # None => ptable[on[c]].state # "EMBRYO"
      BY DEF Sound, Running
    <3>2. p # on[c]
      BY <2>6, <3>1, Numbers DEF None
    <3>3. Same(ptable[p].state, ptable'[p].state)
      BY <3>2
    <3> QED  BY <2>6, <3>3 DEF Same
  <2>7. Kids(Put(ms, t, k))'
    BY <1>1, <2>6, KidsPut
  <2>8. Last(Put(ms, t, k)) = Last(ms)
    BY <1>1, LastPut
  <2>9. Boots(Put(ms, t, k))'
    BY <1>1, <1>2, <2>8, BootsMoves
  <2> QED  BY <2>2, <2>4, <2>5, <2>7, <2>9
<1>4. Put(ms, t, k) \in Modes
  BY <1>1, PutIs
<1>5. SchedTypes'
  <2>1. \A d \in Cpus : Registers(cpus'[d])
    BY DEF SchedTypes
  <2> QED  BY <1>2, <2>1 DEF SchedTypes
<1>6. Sound(Put(ms, t, k))'
  BY <1>2, <1>3, <1>4 DEF Sound
<1> QED  BY <1>5, <1>6

-----------------------------------------------------------------------------
(* Steps that take and leave the locks *)

\* A processor at an instruction, and the mode that it goes to
LEMMA Acting ==
  ASSUME Configured, SchedTypes, NEW ms, Sound(ms), NEW c \in Cpus, NEW op, At(c, op)
  PROVE  \E k \in Mode :
           /\ Leads(<<op, Arg(c)>>, Mine(ms, c), k) /\ Left(<< >> \o Tail(Top(c)), k) /\ Left(Tail(Top(c)), k)
           /\ Top(c) # << >> /\ Mine(ms, c) \in Mode /\ Views(cpus[c], Mine(ms, c)) /\ Registers(cpus[c])
           /\ (on[c] # None => Says(ptable[on[c]].state, Mine(ms, c)))
<1>1. PICK k \in Mode : /\ Leads(<<op, Arg(c)>>, Mine(ms, c), k) /\ Left(Tail(Top(c)), k)
                        /\ Tail(Top(c)) \in Seq(Instr)
  BY AtIs
<1>2. << >> \o Tail(Top(c)) = Tail(Top(c))
  BY <1>1
<1>3. Top(c) # << >>
  BY DEF At
<1>4. Views(cpus[c], Mine(ms, c)) /\ (on[c] # None => Says(ptable[on[c]].state, Mine(ms, c)))
  BY DEF Sound, Viewed, Running, Says
<1>5. Registers(cpus[c])
  BY DEF SchedTypes
<1>6. Mine(ms, c) \in Mode
  BY MineIs
<1> QED  BY <1>1, <1>2, <1>3, <1>4, <1>5, <1>6

\* The registers of one processor change.
LEMMA CpusIs ==
  ASSUME SchedTypes, NEW c \in Cpus, NEW r, Registers(r), cpus' = [cpus EXCEPT ![c] = r]
  PROVE  /\ cpus'[c] = r /\ Registers(cpus'[c]) /\ cpus' = [d \in Cpus |-> cpus'[d]]
         /\ \A d \in Cpus : d # c => cpus'[d] = cpus[d]
<1>1. cpus = [d \in Cpus |-> cpus[d]]
  BY DEF SchedTypes
<1> QED  BY <1>1

\* A step that writes no register
LEMMA CpusSame ==
  ASSUME SchedTypes, NEW c \in Cpus, cpus' = cpus
  PROVE  /\ Registers(cpus'[c]) /\ cpus' = [d \in Cpus |-> cpus'[d]]
         /\ \A d \in Cpus : d # c => cpus'[d] = cpus[d]
  BY DEF SchedTypes

\* A step that leaves the table and the clock alone
LEMMA KeptStill ==
  ASSUME Configured, SchedTypes, NEW ms, Sound(ms), NEW c \in Cpus, NEW t, t = Thread(c),
         Top(c) # << >>, NEW x \in Seq(Instr), code' = Become(c, x), NEW k \in Mode, Left(x \o Tail(Top(c)), k),
         k.kind = Mine(ms, c).kind, k.child = Mine(ms, c).child, k.next = Mine(ms, c).next,
         k.want = Mine(ms, c).want, k.tick = Mine(ms, c).tick,
         on[c] # None => Says(ptable[on[c]].state, k),
         on' = on, \A d \in Cpus : d # c => cpus'[d] = cpus[d], Views(cpus'[c], k),
         Locked(Put(ms, t, k))', cpus' = [d \in Cpus |-> cpus'[d]], Registers(cpus'[c]),
         locks' \in [Lock -> [locked : BOOLEAN, cpu : Cpus \cup {Nobody}]],
         ptable' = ptable, ticks' = ticks, ticks0' = ticks0
  PROVE  SchedTypes' /\ \E ms2 : Sound(ms2)'
<1>1. Awaited(Put(ms, t, k))'
  BY AwaitedPut
<1>2. /\ \A p \in Procs : p # on[c] => Same(ptable[p].state, ptable'[p].state)
      /\ on[c] # None => Says(ptable'[on[c]].state, k)
  BY DEF Same
<1>3. ptable' \in [Procs -> Entries] /\ ticks' \in Int /\ ticks0' \in [Procs -> Int]
  BY DEF SchedTypes
<1> QED  BY <1>1, <1>2, <1>3, Kept

\* The step puts x in the place of the instruction, for k.
Goes(c, x, k) == Top(c) # << >> /\ code' = Become(c, x) /\ x \in Seq(Instr) /\ Left(x \o Tail(Top(c)), k)

\* It changes the registers of one processor only.
Rewired(c, k) ==
  /\ cpus' = [d \in Cpus |-> cpus'[d]] /\ \A d \in Cpus : d # c => cpus'[d] = cpus[d]
  /\ Registers(cpus'[c]) /\ Views(cpus'[c], k)

Alike(m, k) == k.kind = m.kind /\ k.child = m.child /\ k.next = m.next

\* It takes no lock and gives none.
Quiet(m, k) ==
  Alike(m, k) /\ k.want = m.want /\ k.tick = m.tick /\ LocksAlike(m, k)

\* The same for the locks
LEMMA KeptQuiet ==
  ASSUME Configured, SchedTypes, NEW ms, Sound(ms), NEW c \in Cpus, NEW k \in Mode, NEW x, Goes(c, x, k),
         Rewired(c, k), Quiet(Mine(ms, c), k), on[c] # None => Says(ptable[on[c]].state, k),
         on' = on, locks' = locks, ptable' = ptable, ticks' = ticks, ticks0' = ticks0
  PROVE  SchedTypes' /\ \E ms2 : Sound(ms2)'
<1> PICK t : t = Thread(c)
  OBVIOUS
<1>1. /\ Top(c) # << >> /\ code' = Become(c, x) /\ x \in Seq(Instr) /\ Left(x \o Tail(Top(c)), k)
  BY DEF Goes
<1>2. /\ cpus' = [d \in Cpus |-> cpus'[d]] /\ \A d \in Cpus : d # c => cpus'[d] = cpus[d]
      /\ Registers(cpus'[c]) /\ Views(cpus'[c], k)
  BY DEF Rewired
<1>3. /\ k.kind = Mine(ms, c).kind /\ k.child = Mine(ms, c).child /\ k.next = Mine(ms, c).next
      /\ k.want = Mine(ms, c).want /\ k.tick = Mine(ms, c).tick
  BY DEF Quiet, Alike
<1>4. Locked(Put(ms, t, k))'
  BY MinePut, LockedMoves DEF Quiet, Moves
<1>5. locks' \in [Lock -> [locked : BOOLEAN, cpu : Cpus \cup {Nobody}]]
  BY DEF SchedTypes
<1> QED  BY <1>1, <1>2, <1>3, <1>4, <1>5, KeptStill

\* A lock goes from one phase to another.
LEMMA Turning ==
  ASSUME NEW m \in Mode, NEW k \in Mode, NEW l, NEW from \in Phases, NEW to \in Phases, from # to,
         Turns(m, k, l, from, to)
  PROVE  /\ l \in Lock /\ m.lock[l] = from
         /\ \A j \in Lock : k.lock[j] = IF j = l THEN to ELSE m.lock[j]
         /\ k.kind = m.kind /\ k.st = m.st /\ k.child = m.child /\ k.want = m.want
         /\ k.tick = m.tick /\ k.next = m.next /\ m.kind # "user"
         /\ Count(m) \in Nat /\ Count(k) = Count(m) + (IF from = "out" THEN 1 ELSE 0) - (IF to = "out" THEN 1 ELSE 0)
<1>1. m \in Records /\ Lawful(m) /\ Lawful(k)
  BY ModeIs
<1>2. /\ l \in Lock /\ m.lock[l] = from /\ k.lock[l] = to
      /\ \A j \in Lock \ {l} : k.lock[j] = m.lock[j]
      /\ k.kind = m.kind /\ k.st = m.st /\ k.child = m.child /\ k.want = m.want
      /\ k.tick = m.tick /\ k.next = m.next
  BY <1>1, TurnsAre
<1>3. m.kind # "user"
  BY <1>1, <1>2 DEF Lawful, Idle
<1>4. Count(m) \in Nat /\ Count(k) = Count(m) + (IF from = "out" THEN 1 ELSE 0) - (IF to = "out" THEN 1 ELSE 0)
  BY <1>2 DEF Count, Lock
<1> QED  BY <1>2, <1>3, <1>4

\* Between pushcli and popcli, where the registers stay
LEMMA ViewsTurn ==
  ASSUME NEW r, NEW m \in Mode, NEW k \in Mode, NEW l, NEW from \in Phases \ {"out"}, NEW to \in Phases \ {"out"},
         from # to, Turns(m, k, l, from, to), Views(r, m)
  PROVE  Views(r, k)
<1>1. from \in Phases /\ to \in Phases /\ from # "out" /\ to # "out" /\ m \in Records
  BY ModeIs
<1>2. /\ l \in Lock /\ m.lock[l] = from /\ k.lock[l] = to /\ k.kind = m.kind /\ k.st = m.st
      /\ \A j \in Lock \ {l} : k.lock[j] = m.lock[j]
  BY <1>1, TurnsAre
<1>3. Count(k) = Count(m)
  BY <1>1, <1>2 DEF Count, Lock
<1> QED  BY <1>2, <1>3 DEF Views

\* pushcli: the processor is not the holder of the lock, so that acquire does not panic.
LEMMA StepPushcli ==
  ASSUME Configured, SchedTypes, panicked = "no", NEW ms, Sound(ms), NEW c \in Cpus, Pushcli(c)
  PROVE  SchedTypes' /\ panicked' = "no" /\ \E ms2 : Sound(ms2)'
<1> DEFINE m == Mine(ms, c)
<1> PICK t : t = Thread(c)
  OBVIOUS
<1>1. At(c, "pushcli")
  BY DEF Pushcli
<1>2. PICK k \in Mode :
        /\ Leads(<<"pushcli", Arg(c)>>, m, k) /\ Left(<< >> \o Tail(Top(c)), k)
        /\ Top(c) # << >> /\ m \in Mode /\ Views(cpus[c], m) /\ Registers(cpus[c])
        /\ (on[c] # None => Says(ptable[on[c]].state, m))
  BY <1>1, Acting
<1>3. Turns(m, k, Arg(c), "out", "pushed")
  BY <1>2 DEF Leads
<1>4. /\ Arg(c) \in Lock /\ m.lock[Arg(c)] = "out"
      /\ \A j \in Lock : k.lock[j] = IF j = Arg(c) THEN "pushed" ELSE m.lock[j]
      /\ k.kind = m.kind /\ k.st = m.st /\ k.child = m.child /\ k.want = m.want
      /\ k.tick = m.tick /\ k.next = m.next /\ m.kind # "user"
      /\ Count(m) \in Nat /\ Count(k) = Count(m) + 1
  BY <1>2, <1>3, Turning DEF Phases
<1>5. ~holding(c, Arg(c))
  BY <1>4 DEF Sound, Locked, holding
<1>6. /\ code' = Become(c, << >>) /\ panicked' = panicked /\ cpus' = Pushed(c)
      /\ on' = on /\ locks' = locks /\ ptable' = ptable /\ ticks' = ticks /\ ticks0' = ticks0
  BY <1>5 DEF Pushcli, Done
<1> DEFINE r == [cpus[c] EXCEPT !.IF = FALSE, !.ncli = @ + 1, !.intena = IF cpus[c].ncli = 0 THEN cpus[c].IF ELSE @]
<1>7. cpus' = [cpus EXCEPT ![c] = r]
  BY <1>6 DEF Pushed, SchedTypes
<1>8. /\ r.IF = FALSE /\ r.ncli = cpus[c].ncli + 1
      /\ r.intena = (IF cpus[c].ncli = 0 THEN cpus[c].IF ELSE cpus[c].intena) /\ Registers(r)
  <2> DEFINE e == IF cpus[c].ncli = 0 THEN cpus[c].IF ELSE cpus[c].intena
  <2>1. e \in BOOLEAN /\ Registers(cpus[c])
    BY <1>2 DEF Registers
  <2>2. r = [cpus[c] EXCEPT !.IF = FALSE, !.ncli = cpus[c].ncli + 1, !.intena = e]
    OBVIOUS
  <2> HIDE DEF r, e
  <2>3. PICK q : q = cpus[c]
    OBVIOUS
  <2>4. r = [q EXCEPT !.IF = FALSE, !.ncli = q.ncli + 1, !.intena = e]
    BY <2>2, <2>3
  <2>5. q = [IF |-> q.IF, ncli |-> q.ncli, intena |-> q.intena, started |-> q.started] /\ q.started \in BOOLEAN
        /\ q.ncli \in Nat
    BY <2>1, <2>3 DEF Registers
  <2>6. r = [IF |-> FALSE, ncli |-> q.ncli + 1, intena |-> e, started |-> q.started]
    BY <2>4, <2>5
  <2>7. r.IF = FALSE /\ r.ncli = q.ncli + 1 /\ r.intena = e /\ r.started = q.started
    BY <2>6
  <2>8. r = [IF |-> r.IF, ncli |-> r.ncli, intena |-> r.intena, started |-> r.started]
    BY <2>6, <2>7, Zenon
  <2>9. r.IF \in BOOLEAN /\ r.ncli \in Nat /\ r.intena \in BOOLEAN /\ r.started \in BOOLEAN
    <3>1. r.ncli \in Nat
      BY <2>5, <2>7
    <3>2. r.IF \in BOOLEAN
      BY <2>7, Zenon
    <3>3. r.intena \in BOOLEAN /\ r.started \in BOOLEAN
      BY <2>1, <2>5, <2>7, Zenon
    <3> QED  BY <3>1, <3>2, <3>3
  <2>10. Registers(r)
    BY <2>8, <2>9 DEF Registers
  <2> QED  BY <2>3, <2>7, <2>10 DEF e
<1> HIDE DEF r, m
<1>9. /\ cpus'[c] = r /\ Registers(cpus'[c]) /\ cpus' = [d \in Cpus |-> cpus'[d]]
      /\ \A d \in Cpus : d # c => cpus'[d] = cpus[d]
  BY <1>7, <1>8, CpusIs
<1>10. Views(r, k)
  BY <1>2, <1>4, <1>8 DEF Views, Registers
<1>11. Quiet(m, k) /\ Rewired(c, k)
  BY <1>4, <1>9, <1>10 DEF Quiet, Alike, LocksAlike, Rewired, Inside
<1>12. on[c] # None => Says(ptable[on[c]].state, k)
  BY <1>2, <1>4 DEF Says
<1>13. Goes(c, << >>, k)
  BY <1>2, <1>6 DEF Goes
<1> QED  BY <1>6, <1>11, <1>12, <1>13, KeptQuiet DEF m

Passes(m, k, a, to) == a \in Lock /\ \A j \in Lock : k.lock[j] = IF j = a THEN to ELSE m.lock[j]

\* What the entry of the lock a says when the processor c is in the phase to
Tells(ms, c, a, to, e) ==
  /\ e \in [locked : BOOLEAN, cpu : Cpus \cup {Nobody}]
  /\ e.locked <=> (to \in Inside \/ \E d \in Cpus : d # c /\ Mine(ms, d).lock[a] \in Inside)
  /\ to \in Inside => \A d \in Cpus : d # c => Mine(ms, d).lock[a] \notin Inside
  /\ e.cpu = c <=> to = "held"
  /\ \A d \in Cpus : d # c => (e.cpu = d <=> Mine(ms, d).lock[a] = "held")

\* The entry of a lock changes with the phase of one processor.
LEMMA LockedTurn ==
  ASSUME Configured, SchedTypes, NEW ms, Sound(ms), NEW c \in Cpus, NEW t, t = Thread(c), NEW k \in Mode, on' = on,
         NEW a, NEW to, Passes(Mine(ms, c), k, a, to),
         NEW e, locks' = [locks EXCEPT ![a] = e], Tells(ms, c, a, to, e)
  PROVE  /\ Locked(Put(ms, t, k))'
         /\ locks' \in [Lock -> [locked : BOOLEAN, cpu : Cpus \cup {Nobody}]]
<1>0. /\ a \in Lock /\ \A j \in Lock : k.lock[j] = IF j = a THEN to ELSE Mine(ms, c).lock[j]
      /\ e \in [locked : BOOLEAN, cpu : Cpus \cup {Nobody}]
      /\ e.locked <=> (to \in Inside \/ \E d \in Cpus : d # c /\ Mine(ms, d).lock[a] \in Inside)
      /\ to \in Inside => \A d \in Cpus : d # c => Mine(ms, d).lock[a] \notin Inside
      /\ e.cpu = c <=> to = "held"
      /\ \A d \in Cpus : d # c => (e.cpu = d <=> Mine(ms, d).lock[a] = "held")
  BY DEF Passes, Tells
<1>1. /\ Mine(Put(ms, t, k), c)' = k
      /\ \A d \in Cpus : d # c => Mine(Put(ms, t, k), d)' = Mine(ms, d)
  BY MinePut
<1>2. locks \in [Lock -> [locked : BOOLEAN, cpu : Cpus \cup {Nobody}]]
  BY DEF SchedTypes
<1>3. locks' \in [Lock -> [locked : BOOLEAN, cpu : Cpus \cup {Nobody}]] /\ locks'[a] = e
      /\ \A l \in Lock : l # a => locks'[l] = locks[l]
  BY <1>0, <1>2
<1> DEFINE N(d) == Mine(Put(ms, t, k), d)'
<1>4. ASSUME NEW l \in Lock
      PROVE  /\ locks'[l].locked <=> \E d \in Cpus : N(d).lock[l] \in Inside
             /\ \A d, f \in Cpus : N(d).lock[l] \in Inside /\ N(f).lock[l] \in Inside => d = f
             /\ \A d \in Cpus : locks'[l].cpu = d <=> N(d).lock[l] = "held"
  <2>1. /\ locks[l].locked <=> \E d \in Cpus : Mine(ms, d).lock[l] \in Inside
        /\ \A d, f \in Cpus : Mine(ms, d).lock[l] \in Inside /\ Mine(ms, f).lock[l] \in Inside => d = f
        /\ \A d \in Cpus : locks[l].cpu = d <=> Mine(ms, d).lock[l] = "held"
    BY DEF Sound, Locked
  <2>2. /\ N(c).lock[l] = IF l = a THEN to ELSE Mine(ms, c).lock[l]
        /\ \A d \in Cpus : d # c => N(d).lock[l] = Mine(ms, d).lock[l]
    BY <1>0, <1>1
  <2> HIDE DEF N
  <2>3. CASE l = a
    <3>1. N(c).lock[l] = to /\ locks'[l] = e
      BY <1>3, <2>2, <2>3
    <3> QED  BY <1>0, <2>1, <2>2, <2>3, <3>1
  <2>4. CASE l # a
    <3>1. locks'[l] = locks[l] /\ \A d \in Cpus : N(d).lock[l] = Mine(ms, d).lock[l]
      BY <1>3, <2>2, <2>4
    <3> QED  BY <2>1, <3>1
  <2> QED  BY <2>3, <2>4
<1> QED  BY <1>3, <1>4 DEF Locked

\* No code is a sequence of instructions.
LEMMA Spaced == << >> \in Seq(Instr)
  OBVIOUS

\* A lock that this processor has
LEMMA HasLock ==
  ASSUME Configured, SchedTypes, NEW ms, Sound(ms), NEW c \in Cpus, NEW a \in Lock
  PROVE  /\ locks[a] \in [locked : BOOLEAN, cpu : Cpus \cup {Nobody}] /\ Nobody \notin Cpus
         /\ locks[a].locked <=> \E d \in Cpus : Mine(ms, d).lock[a] \in Inside
         /\ Mine(ms, c).lock[a] \in Inside => \A d \in Cpus : d # c => Mine(ms, d).lock[a] \notin Inside
         /\ \A d \in Cpus : locks[a].cpu = d <=> Mine(ms, d).lock[a] = "held"
         /\ "held" \in Inside /\ "locked" \in Inside /\ "forgot" \in Inside /\ "open" \notin Inside /\ "pushed" \notin Inside
  BY Numbers DEF Sound, Locked, SchedTypes, Inside

\* A step that turns one lock, and writes down who holds it
LEMMA TurnStep ==
  ASSUME Configured, SchedTypes, NEW ms, Sound(ms), NEW c \in Cpus, NEW k \in Mode, Left(<< >> \o Tail(Top(c)), k),
         Top(c) # << >>, NEW a, NEW from \in Phases \ {"out"}, NEW to \in Phases \ {"out"}, from # to,
         Turns(Mine(ms, c), k, a, from, to), NEW e, Tells(ms, c, a, to, e), locks' = [locks EXCEPT ![a] = e],
         code' = Become(c, << >>), cpus' = cpus, on' = on, ptable' = ptable, ticks' = ticks, ticks0' = ticks0
  PROVE  SchedTypes' /\ \E ms2 : Sound(ms2)'
<1> DEFINE m == Mine(ms, c)
<1> PICK t : t = Thread(c)
  OBVIOUS
<1>1. m \in Mode /\ Views(cpus[c], m) /\ (on[c] # None => Says(ptable[on[c]].state, m))
  BY MineIs DEF Sound, Viewed, Running, Says
<1>2. from \in Phases /\ to \in Phases /\ m \in Records
  BY <1>1, ModeIs
<1>3. /\ a \in Lock /\ m.lock[a] = from /\ k.lock[a] = to
      /\ \A j \in Lock \ {a} : k.lock[j] = m.lock[j]
      /\ k.kind = m.kind /\ k.st = m.st /\ k.child = m.child /\ k.want = m.want
      /\ k.tick = m.tick /\ k.next = m.next
  BY <1>2, TurnsAre
<1>4. Passes(m, k, a, to)
  BY <1>3 DEF Passes
<1>5. Views(cpus[c], k)
  BY <1>1, ViewsTurn
<1>6. /\ Locked(Put(ms, t, k))'
      /\ locks' \in [Lock -> [locked : BOOLEAN, cpu : Cpus \cup {Nobody}]]
  BY <1>4, LockedTurn
<1>7. Registers(cpus'[c]) /\ cpus' = [d \in Cpus |-> cpus'[d]] /\ \A d \in Cpus : d # c => cpus'[d] = cpus[d]
  BY CpusSame
<1>8. on[c] # None => Says(ptable[on[c]].state, k)
  BY <1>1, <1>3 DEF Says
<1> HIDE DEF m
<1> QED  BY <1>1, <1>3, <1>5, <1>6, <1>7, <1>8, Spaced, KeptStill DEF m

\* xchg: the processor that finds the lock free is its only holder.
LEMMA StepXchg ==
  ASSUME Configured, SchedTypes, panicked = "no", NEW ms, Sound(ms), NEW c \in Cpus, Xchg(c)
  PROVE  SchedTypes' /\ panicked' = "no" /\ \E ms2 : Sound(ms2)'
<1> PICK a : a = Arg(c)
  OBVIOUS
<1>1. At(c, "xchg")
  BY DEF Xchg
<1>2. PICK k \in Mode : /\ Leads(<<"xchg", a>>, Mine(ms, c), k) /\ Left(<< >> \o Tail(Top(c)), k)
                        /\ Top(c) # << >> /\ Mine(ms, c) \in Mode
  BY <1>1, Acting
<1> PICK from : from = "pushed"
  OBVIOUS
<1> PICK to : to = "locked"
  OBVIOUS
<1>3. /\ Turns(Mine(ms, c), k, a, from, to) /\ from \in Phases \ {"out"} /\ to \in Phases \ {"out"} /\ from # to
      /\ a \in Lock /\ Mine(ms, c).lock[a] = from
  BY <1>2 DEF Leads, Turns, Phases
<1>4. /\ locks[a] \in [locked : BOOLEAN, cpu : Cpus \cup {Nobody}] /\ Nobody \notin Cpus
      /\ locks[a].locked <=> \E d \in Cpus : Mine(ms, d).lock[a] \in Inside
      /\ Mine(ms, c).lock[a] \in Inside => \A d \in Cpus : d # c => Mine(ms, d).lock[a] \notin Inside
      /\ \A d \in Cpus : locks[a].cpu = d <=> Mine(ms, d).lock[a] = "held"
      /\ "held" \in Inside /\ "locked" \in Inside /\ "forgot" \in Inside /\ "open" \notin Inside /\ "pushed" \notin Inside
  BY <1>3, HasLock
<1> PICK e : e = [locks[a] EXCEPT !.locked = TRUE]
  OBVIOUS
<1>6. /\ code' = Become(c, << >>) /\ panicked' = panicked /\ cpus' = cpus /\ ~locks[a].locked
      /\ on' = on /\ locks' = [locks EXCEPT ![a] = e] /\ ptable' = ptable /\ ticks' = ticks /\ ticks0' = ticks0
  BY DEF Xchg, Done
<1>7. Tells(ms, c, a, to, e)
  BY <1>3, <1>4, <1>6 DEF Tells
<1> QED  BY <1>2, <1>3, <1>6, <1>7, TurnStep

\* acquire writes down the holder.
LEMMA StepRecord ==
  ASSUME Configured, SchedTypes, panicked = "no", NEW ms, Sound(ms), NEW c \in Cpus, Record(c)
  PROVE  SchedTypes' /\ panicked' = "no" /\ \E ms2 : Sound(ms2)'
<1> PICK a : a = Arg(c)
  OBVIOUS
<1>1. At(c, "record")
  BY DEF Record
<1>2. PICK k \in Mode : /\ Leads(<<"record", a>>, Mine(ms, c), k) /\ Left(<< >> \o Tail(Top(c)), k)
                        /\ Top(c) # << >> /\ Mine(ms, c) \in Mode
  BY <1>1, Acting
<1> PICK from : from = "locked"
  OBVIOUS
<1> PICK to : to = "held"
  OBVIOUS
<1>3. /\ Turns(Mine(ms, c), k, a, from, to) /\ from \in Phases \ {"out"} /\ to \in Phases \ {"out"} /\ from # to
      /\ a \in Lock /\ Mine(ms, c).lock[a] = from
  BY <1>2 DEF Leads, Turns, Phases
<1>4. /\ locks[a] \in [locked : BOOLEAN, cpu : Cpus \cup {Nobody}] /\ Nobody \notin Cpus
      /\ locks[a].locked <=> \E d \in Cpus : Mine(ms, d).lock[a] \in Inside
      /\ Mine(ms, c).lock[a] \in Inside => \A d \in Cpus : d # c => Mine(ms, d).lock[a] \notin Inside
      /\ \A d \in Cpus : locks[a].cpu = d <=> Mine(ms, d).lock[a] = "held"
      /\ "held" \in Inside /\ "locked" \in Inside /\ "forgot" \in Inside /\ "open" \notin Inside /\ "pushed" \notin Inside
  BY <1>3, HasLock
<1> PICK e : e = [locks[a] EXCEPT !.cpu = c]
  OBVIOUS
<1>6. /\ code' = Become(c, << >>) /\ panicked' = panicked /\ cpus' = cpus 
      /\ on' = on /\ locks' = [locks EXCEPT ![a] = e] /\ ptable' = ptable /\ ticks' = ticks /\ ticks0' = ticks0
  BY DEF Record, Done
<1>7. Tells(ms, c, a, to, e)
  BY <1>3, <1>4, <1>6 DEF Tells
<1> QED  BY <1>2, <1>3, <1>6, <1>7, TurnStep

\* release finds that the processor holds the lock, and does not panic.
LEMMA StepForget ==
  ASSUME Configured, SchedTypes, panicked = "no", NEW ms, Sound(ms), NEW c \in Cpus, Forget(c)
  PROVE  SchedTypes' /\ panicked' = "no" /\ \E ms2 : Sound(ms2)'
<1> PICK a : a = Arg(c)
  OBVIOUS
<1>1. At(c, "forget")
  BY DEF Forget
<1>2. PICK k \in Mode : /\ Leads(<<"forget", a>>, Mine(ms, c), k) /\ Left(<< >> \o Tail(Top(c)), k)
                        /\ Top(c) # << >> /\ Mine(ms, c) \in Mode
  BY <1>1, Acting
<1> PICK from : from = "held"
  OBVIOUS
<1> PICK to : to = "forgot"
  OBVIOUS
<1>3. /\ Turns(Mine(ms, c), k, a, from, to) /\ from \in Phases \ {"out"} /\ to \in Phases \ {"out"} /\ from # to
      /\ a \in Lock /\ Mine(ms, c).lock[a] = from
  BY <1>2 DEF Leads, Turns, Phases
<1>4. /\ locks[a] \in [locked : BOOLEAN, cpu : Cpus \cup {Nobody}] /\ Nobody \notin Cpus
      /\ locks[a].locked <=> \E d \in Cpus : Mine(ms, d).lock[a] \in Inside
      /\ Mine(ms, c).lock[a] \in Inside => \A d \in Cpus : d # c => Mine(ms, d).lock[a] \notin Inside
      /\ \A d \in Cpus : locks[a].cpu = d <=> Mine(ms, d).lock[a] = "held"
      /\ "held" \in Inside /\ "locked" \in Inside /\ "forgot" \in Inside /\ "open" \notin Inside /\ "pushed" \notin Inside
  BY <1>3, HasLock
<1> PICK e : e = [locks[a] EXCEPT !.cpu = Nobody]
  OBVIOUS
<1>5. holding(c, a)
  BY <1>3, <1>4 DEF holding
<1>6. /\ code' = Become(c, << >>) /\ panicked' = panicked /\ cpus' = cpus
      /\ on' = on /\ locks' = [locks EXCEPT ![a] = e] /\ ptable' = ptable /\ ticks' = ticks /\ ticks0' = ticks0
  BY <1>5 DEF Forget, Done
<1>7. Tells(ms, c, a, to, e)
  BY <1>3, <1>4, <1>6 DEF Tells
<1> QED  BY <1>2, <1>3, <1>6, <1>7, TurnStep

\* release leaves the lock to others.
LEMMA StepUnlock ==
  ASSUME Configured, SchedTypes, panicked = "no", NEW ms, Sound(ms), NEW c \in Cpus, Unlock(c)
  PROVE  SchedTypes' /\ panicked' = "no" /\ \E ms2 : Sound(ms2)'
<1> PICK a : a = Arg(c)
  OBVIOUS
<1>1. At(c, "unlock")
  BY DEF Unlock
<1>2. PICK k \in Mode : /\ Leads(<<"unlock", a>>, Mine(ms, c), k) /\ Left(<< >> \o Tail(Top(c)), k)
                        /\ Top(c) # << >> /\ Mine(ms, c) \in Mode
  BY <1>1, Acting
<1> PICK from : from = "forgot"
  OBVIOUS
<1> PICK to : to = "open"
  OBVIOUS
<1>3. /\ Turns(Mine(ms, c), k, a, from, to) /\ from \in Phases \ {"out"} /\ to \in Phases \ {"out"} /\ from # to
      /\ a \in Lock /\ Mine(ms, c).lock[a] = from
  BY <1>2 DEF Leads, Turns, Phases
<1>4. /\ locks[a] \in [locked : BOOLEAN, cpu : Cpus \cup {Nobody}] /\ Nobody \notin Cpus
      /\ locks[a].locked <=> \E d \in Cpus : Mine(ms, d).lock[a] \in Inside
      /\ Mine(ms, c).lock[a] \in Inside => \A d \in Cpus : d # c => Mine(ms, d).lock[a] \notin Inside
      /\ \A d \in Cpus : locks[a].cpu = d <=> Mine(ms, d).lock[a] = "held"
      /\ "held" \in Inside /\ "locked" \in Inside /\ "forgot" \in Inside /\ "open" \notin Inside /\ "pushed" \notin Inside
  BY <1>3, HasLock
<1> PICK e : e = [locks[a] EXCEPT !.locked = FALSE]
  OBVIOUS
<1>6. /\ code' = Become(c, << >>) /\ panicked' = panicked /\ cpus' = cpus 
      /\ on' = on /\ locks' = [locks EXCEPT ![a] = e] /\ ptable' = ptable /\ ticks' = ticks /\ ticks0' = ticks0
  BY DEF Unlock, Done
<1>7. Tells(ms, c, a, to, e)
  BY <1>3, <1>4, <1>6 DEF Tells
<1> QED  BY <1>2, <1>3, <1>6, <1>7, TurnStep

\* Which frames processes have, and which the processors
LEMMA KindIs ==
  ASSUME Configured, SchedTypes, NEW ms, Sound(ms), NEW c \in Cpus
  PROVE  /\ Mine(ms, c).kind \in {"call", "trap", "user"} => on[c] # None /\ on[c] \in Procs /\ Thread(c) = on[c]
         /\ Mine(ms, c).kind \in {"main", "base", "irq"} => on[c] = None /\ Thread(c) = c
         /\ Mine(ms, c).kind \in {"main", "base"} => Len(ms[c]) = 1 /\ Mine(ms, c) = ms[c][1]
         /\ Mine(ms, c).kind # "gone"
<1>1. /\ Thread(c) \in Threads /\ (on[c] = None => Thread(c) = c)
      /\ (on[c] # None => Thread(c) = on[c] /\ on[c] \in Procs)
  BY MineIs
<1>2. Shaped(Thread(c), ms[Thread(c)])
  BY <1>1 DEF Sound, Stacks, Stack
<1> QED  BY <1>1, <1>2, Numbers DEF Shaped, Mine

\* A processor goes on in the same mode.
LEMMA SameMode ==
  ASSUME Configured, SchedTypes, NEW ms, Sound(ms), NEW c \in Cpus, NEW k, k = Mine(ms, c), NEW x,
         Goes(c, x, k), Rewired(c, k),
         on' = on, locks' = locks, ptable' = ptable, ticks' = ticks, ticks0' = ticks0
  PROVE  SchedTypes' /\ \E ms2 : Sound(ms2)'
<1>1. k \in Mode /\ (on[c] # None => Says(ptable[on[c]].state, k))
  BY MineIs DEF Sound, Running, Says
<1>2. Quiet(Mine(ms, c), k)
  BY DEF Quiet, Alike, LocksAlike
<1> QED  BY <1>1, <1>2, KeptQuiet

\* popcli: interrupts are off and counted, and come on with the last lock.
LEMMA StepPopcli ==
  ASSUME Configured, SchedTypes, panicked = "no", NEW ms, Sound(ms), NEW c \in Cpus, Popcli(c)
  PROVE  SchedTypes' /\ panicked' = "no" /\ \E ms2 : Sound(ms2)'
<1> DEFINE m == Mine(ms, c)
<1> PICK t : t = Thread(c)
  OBVIOUS
<1>1. At(c, "popcli")
  BY DEF Popcli
<1>2. PICK k \in Mode :
        /\ Leads(<<"popcli", Arg(c)>>, m, k) /\ Left(<< >> \o Tail(Top(c)), k)
        /\ Top(c) # << >> /\ m \in Mode /\ Views(cpus[c], m) /\ Registers(cpus[c])
        /\ (on[c] # None => Says(ptable[on[c]].state, m))
  BY <1>1, Acting
<1>3. Turns(m, k, Arg(c), "open", "out")
  BY <1>2 DEF Leads
<1>4. /\ Arg(c) \in Lock /\ m.lock[Arg(c)] = "open"
      /\ \A j \in Lock : k.lock[j] = IF j = Arg(c) THEN "out" ELSE m.lock[j]
      /\ k.kind = m.kind /\ k.st = m.st /\ k.child = m.child /\ k.want = m.want
      /\ k.tick = m.tick /\ k.next = m.next /\ m.kind # "user"
      /\ Count(m) \in Nat /\ Count(k) = Count(m) - 1
  BY <1>2, <1>3, Turning DEF Phases
<1>5. Count(m) > 0 /\ Count(k) \in Nat /\ m.st = "run"
  <2>1. Count(m) > 0 /\ Count(k) >= 0
    BY <1>4 DEF Count, Lock
  <2>2. m.st = "run"
    BY <1>2, <1>4, ModeIs DEF Lawful, Ours, Lock
  <2> QED  BY <1>4, <2>1, <2>2
<1>6. ~cpus[c].IF /\ cpus[c].ncli = Count(m) /\ cpus[c].ncli # 0
  BY <1>2, <1>5 DEF Views, Registers
<1> PICK r : r = [cpus[c] EXCEPT !.ncli = @ - 1, !.IF = cpus[c].ncli = 1 /\ cpus[c].intena]
  OBVIOUS
<1>7. /\ code' = Become(c, << >>) /\ panicked' = panicked /\ cpus' = [cpus EXCEPT ![c] = r]
      /\ on' = on /\ locks' = locks /\ ptable' = ptable /\ ticks' = ticks /\ ticks0' = ticks0
  <2>1. cpus' = [cpus EXCEPT ![c].ncli = @ - 1, ![c].IF = cpus[c].ncli = 1 /\ cpus[c].intena]
    BY <1>6 DEF Popcli
  <2>2. cpus = [d \in Cpus |-> cpus[d]]
    BY DEF SchedTypes
  <2>3. cpus' = [cpus EXCEPT ![c] = r]
    BY <2>1, <2>2
  <2> QED  BY <1>6, <2>3 DEF Popcli, Done
<1>8. (r.IF <=> (cpus[c].ncli = 1 /\ cpus[c].intena)) /\ r.ncli = cpus[c].ncli - 1 /\ r.intena = cpus[c].intena
      /\ Registers(r)
  <2> PICK q : q = cpus[c]
    OBVIOUS
  <2> PICK e : e = (q.ncli = 1 /\ q.intena)
    OBVIOUS
  <2>1. /\ q = [IF |-> q.IF, ncli |-> q.ncli, intena |-> q.intena, started |-> q.started]
        /\ q.ncli \in Nat /\ q.intena \in BOOLEAN /\ q.started \in BOOLEAN /\ e \in BOOLEAN /\ q.ncli - 1 \in Nat
    BY <1>2, <1>5, <1>6 DEF Registers
  <2>2. r = [q EXCEPT !.ncli = q.ncli - 1, !.IF = e]
    BY <2>1
  <2>3. r = [IF |-> e, ncli |-> q.ncli - 1, intena |-> q.intena, started |-> q.started]
    BY <2>1, <2>2
  <2>4. r.IF = e /\ r.ncli = q.ncli - 1 /\ r.intena = q.intena /\ r.started = q.started
    BY <2>3
  <2>5. r = [IF |-> r.IF, ncli |-> r.ncli, intena |-> r.intena, started |-> r.started]
    BY <2>3, <2>4, Zenon
  <2>6. r.IF \in BOOLEAN /\ r.ncli \in Nat /\ r.intena \in BOOLEAN /\ r.started \in BOOLEAN
    BY <2>1, <2>4
  <2>7. Registers(r)
    BY <2>5, <2>6 DEF Registers
  <2> QED  BY <2>1, <2>4, <2>7
<1>9. /\ cpus'[c] = r /\ Registers(cpus'[c]) /\ cpus' = [d \in Cpus |-> cpus'[d]]
      /\ \A d \in Cpus : d # c => cpus'[d] = cpus[d]
  BY <1>7, <1>8, CpusIs
<1>10. Views(r, k)
  BY <1>2, <1>4, <1>5, <1>6, <1>8 DEF Views
<1>11. Quiet(m, k) /\ Rewired(c, k)
  BY <1>4, <1>9, <1>10 DEF Quiet, Alike, LocksAlike, Rewired, Inside
<1>12. on[c] # None => Says(ptable[on[c]].state, k)
  BY <1>2, <1>4 DEF Says
<1>13. Goes(c, << >>, k)
  BY <1>2, <1>7 DEF Goes
<1> QED  BY <1>7, <1>11, <1>12, <1>13, KeptQuiet DEF m

-----------------------------------------------------------------------------
(* Steps that change nothing but the registers and the code *)

\* x leaves the mode where it is, and then comes what is left.
LEMMA LeftOn ==
  ASSUME Configured, SchedTypes, NEW ms, Sound(ms), NEW c \in Cpus, NEW k, Left(Tail(Top(c)), k), Top(c) # << >>,
         NEW x, Path(x, k, k), code' = Become(c, x)
  PROVE  Goes(c, x, k)
<1>1. Left(x \o Tail(Top(c)), k) /\ x \in Seq(Instr)
  BY LeftJoined DEF Path
<1> QED  BY <1>1 DEF Goes

\* sti: the scheduler is open to interrupts when it holds nothing.
LEMMA StepSti ==
  ASSUME Configured, SchedTypes, panicked = "no", NEW ms, Sound(ms), NEW c \in Cpus, Sti(c)
  PROVE  SchedTypes' /\ panicked' = "no" /\ \E ms2 : Sound(ms2)'
<1> PICK m : m = Mine(ms, c)
  OBVIOUS
<1>1. At(c, "sti")
  BY DEF Sti
<1>2. PICK k \in Mode :
        /\ Leads(<<"sti", Arg(c)>>, m, k) /\ Left(Tail(Top(c)), k)
        /\ Top(c) # << >> /\ m \in Mode /\ Views(cpus[c], m) /\ Registers(cpus[c])
  BY <1>1, Acting
<1>3. m.kind \in {"main", "base"} /\ Idle(m) /\ k = m
  BY <1>2 DEF Leads
<1> PICK x : x = Acquire("ptable") \o << <<"scan", 1>> >> \o Release("ptable") \o Scheduler
  OBVIOUS
<1>4. Path(x, m, m)
  BY <1>2, <1>3, LoopPath
<1>5. /\ code' = Become(c, x) /\ panicked' = panicked /\ cpus' = [cpus EXCEPT ![c].IF = TRUE]
      /\ on' = on /\ locks' = locks /\ ptable' = ptable /\ ticks' = ticks /\ ticks0' = ticks0
  BY DEF Sti
<1>6. Goes(c, x, m)
  BY <1>2, <1>3, <1>4, <1>5, LeftOn
<1> PICK r : r = [cpus[c] EXCEPT !.IF = TRUE]
  OBVIOUS
<1>7. cpus' = [cpus EXCEPT ![c] = r]
  BY <1>5 DEF SchedTypes
<1>8. Registers(r) /\ r.IF /\ r.ncli = cpus[c].ncli /\ r.intena = cpus[c].intena
  <2>1. Registers(r)
    BY <1>2, RegistersAre
  <2> QED  BY <1>2, <2>1 DEF Registers
<1>9. Views(r, m)
  <2>1. m.lock["ptable"] = "out" /\ m.lock["time"] = "out"
    BY <1>2, <1>3, IdleIs
  <2> QED  BY <1>2, <1>3, <1>8, <2>1 DEF Views, Count
<1>10. Rewired(c, m)
  BY <1>7, <1>8, <1>9, CpusIs DEF Rewired
<1> QED  BY <1>5, <1>6, <1>10, SameMode

\* A processor tells that it is started.
LEMMA StepStarted ==
  ASSUME Configured, SchedTypes, panicked = "no", NEW ms, Sound(ms), NEW c \in Cpus, Started(c)
  PROVE  SchedTypes' /\ panicked' = "no" /\ \E ms2 : Sound(ms2)'
<1> PICK m : m = Mine(ms, c)
  OBVIOUS
<1>1. At(c, "started")
  BY DEF Started
<1>2. PICK k \in Mode :
        /\ Leads(<<"started", Arg(c)>>, m, k) /\ Left(<< >> \o Tail(Top(c)), k)
        /\ Top(c) # << >> /\ m \in Mode /\ Views(cpus[c], m) /\ Registers(cpus[c])
  BY <1>1, Acting
<1>3. k = m
  BY <1>2 DEF Leads
<1>4. /\ code' = Become(c, << >>) /\ panicked' = panicked /\ cpus' = [cpus EXCEPT ![c].started = TRUE]
      /\ on' = on /\ locks' = locks /\ ptable' = ptable /\ ticks' = ticks /\ ticks0' = ticks0
  BY DEF Started, Done
<1>5. Goes(c, << >>, m)
  BY <1>2, <1>3, <1>4 DEF Goes
<1> PICK r : r = [cpus[c] EXCEPT !.started = TRUE]
  OBVIOUS
<1>6. cpus' = [cpus EXCEPT ![c] = r]
  BY <1>4 DEF SchedTypes
<1>7. Registers(r) /\ (r.IF <=> cpus[c].IF) /\ r.ncli = cpus[c].ncli /\ r.intena = cpus[c].intena
  <2>1. Registers(r)
    BY <1>2, RegistersAre
  <2> QED  BY <1>2, <2>1 DEF Registers
<1>8. Views(r, m)
  BY <1>2, <1>7 DEF Views
<1>9. Rewired(c, m)
  BY <1>6, <1>7, <1>8, CpusIs DEF Rewired
<1> QED  BY <1>4, <1>5, <1>9, SameMode

\* The boot processor goes on to the next one.
LEMMA StepAwait ==
  ASSUME Configured, SchedTypes, panicked = "no", NEW ms, Sound(ms), NEW c \in Cpus, Await(c)
  PROVE  SchedTypes' /\ panicked' = "no" /\ \E ms2 : Sound(ms2)'
<1> PICK m : m = Mine(ms, c)
  OBVIOUS
<1>1. At(c, "await")
  BY DEF Await
<1>2. PICK k \in Mode :
        /\ Leads(<<"await", Arg(c)>>, m, k) /\ Left(<< >> \o Tail(Top(c)), k)
        /\ Top(c) # << >> /\ m \in Mode /\ Views(cpus[c], m) /\ Registers(cpus[c])
  BY <1>1, Acting
<1>3. k = m
  BY <1>2 DEF Leads
<1>4. /\ code' = Become(c, << >>) /\ panicked' = panicked /\ cpus' = cpus
      /\ on' = on /\ locks' = locks /\ ptable' = ptable /\ ticks' = ticks /\ ticks0' = ticks0
  BY DEF Await, Done
<1>5. Goes(c, << >>, m)
  BY <1>2, <1>3, <1>4 DEF Goes
<1>6. Rewired(c, m)
  BY <1>2, <1>4, CpusSame DEF Rewired
<1> QED  BY <1>4, <1>5, <1>6, SameMode

\* The end of trap yields for a process that is RUNNING, which it holds nothing for.
LEMMA StepSlice ==
  ASSUME Configured, SchedTypes, panicked = "no", NEW ms, Sound(ms), NEW c \in Cpus, Slice(c)
  PROVE  SchedTypes' /\ panicked' = "no" /\ \E ms2 : Sound(ms2)'
<1> PICK m : m = Mine(ms, c)
  OBVIOUS
<1>1. At(c, "slice")
  BY DEF Slice
<1>2. PICK k \in Mode :
        /\ Leads(<<"slice", Arg(c)>>, m, k) /\ Left(Tail(Top(c)), k)
        /\ Top(c) # << >> /\ m \in Mode /\ Views(cpus[c], m) /\ Registers(cpus[c])
  BY <1>1, Acting
<1>3. k = m /\ m.kind \in {"trap", "irq"} /\ Idle(m)
  BY <1>2 DEF Leads
<1> PICK x : x = IF on[c] # None /\ ptable[on[c]].state = "RUNNING" THEN Yield ELSE << >>
  OBVIOUS
<1>4. Path(x, m, m)
  <2>1. CASE on[c] # None
    <3>1. m.kind = "trap"
      BY <1>3, <2>1, KindIs
    <3>2. Path(Yield, m, m) /\ Path(<< >>, m, m)
      BY <1>2, <1>3, <3>1, YieldPath, Empty
    <3> QED  BY <3>2
  <2>2. CASE on[c] = None
    BY <1>2, <2>2, Empty
  <2> QED  BY <2>1, <2>2
<1>5. /\ code' = Become(c, x) /\ panicked' = panicked /\ cpus' = cpus
      /\ on' = on /\ locks' = locks /\ ptable' = ptable /\ ticks' = ticks /\ ticks0' = ticks0
  BY DEF Slice
<1>6. Goes(c, x, m)
  BY <1>2, <1>3, <1>4, <1>5, LeftOn
<1>7. Rewired(c, m)
  BY <1>2, <1>5, CpusSame DEF Rewired
<1> QED  BY <1>5, <1>6, <1>7, SameMode

\* sched restores the intena of the thread.
LEMMA StepRestore ==
  ASSUME Configured, SchedTypes, panicked = "no", NEW ms, Sound(ms), NEW c \in Cpus, Restore(c)
  PROVE  SchedTypes' /\ panicked' = "no" /\ \E ms2 : Sound(ms2)'
<1> PICK m : m = Mine(ms, c)
  OBVIOUS
<1> PICK a : a = Arg(c)
  OBVIOUS
<1>1. At(c, "intena")
  BY DEF Restore
<1>2. PICK k \in Mode :
        /\ Leads(<<"intena", a>>, m, k) /\ Left(<< >> \o Tail(Top(c)), k)
        /\ Top(c) # << >> /\ m \in Mode /\ Views(cpus[c], m) /\ Registers(cpus[c])
        /\ (on[c] # None => Says(ptable[on[c]].state, m))
  BY <1>1, Acting
<1>3. a \in BOOLEAN /\ (m.kind = "trap" => a = FALSE) /\ m.st = "back" /\ k = [m EXCEPT !.st = "run"]
  BY <1>2 DEF Leads, Views
<1>4. m \in Records /\ Lawful(m)
  BY <1>2, ModeIs
<1>5. /\ k.lock = m.lock /\ k.kind = m.kind /\ k.st = "run" /\ k.child = m.child /\ k.want = m.want
      /\ k.tick = m.tick /\ k.next = m.next /\ m.kind \in {"call", "trap", "gone"}
  BY <1>3, <1>4 DEF Records, Lawful
<1>6. /\ code' = Become(c, << >>) /\ panicked' = panicked /\ cpus' = [cpus EXCEPT ![c].intena = a]
      /\ on' = on /\ locks' = locks /\ ptable' = ptable /\ ticks' = ticks /\ ticks0' = ticks0
  BY DEF Restore, Done
<1>7. Goes(c, << >>, k)
  BY <1>2, <1>6, Spaced DEF Goes
<1> PICK r : r = [cpus[c] EXCEPT !.intena = a]
  OBVIOUS
<1>8. cpus' = [cpus EXCEPT ![c] = r]
  BY <1>6 DEF SchedTypes
<1>9. Registers(r) /\ (r.IF <=> cpus[c].IF) /\ r.ncli = cpus[c].ncli /\ r.intena = a
  <2>1. Registers(r)
    BY <1>2, <1>3, RegistersAre
  <2> QED  BY <1>2, <2>1 DEF Registers
<1>10. Views(r, k)
  <2>1. Count(k) = Count(m)
    BY <1>5 DEF Count
  <2> QED  BY <1>2, <1>3, <1>5, <1>9, <2>1 DEF Views
<1>11. Rewired(c, k) /\ Quiet(m, k)
  BY <1>5, <1>8, <1>9, <1>10, CpusIs DEF Rewired, Quiet, Alike, LocksAlike
<1>12. on[c] # None => Says(ptable[on[c]].state, k)
  BY <1>2, <1>3, <1>5 DEF Says
<1> QED  BY <1>6, <1>7, <1>11, <1>12, KeptQuiet

-----------------------------------------------------------------------------
(* Steps that change the table or the clock *)

\* The table after a step of c, which goes on at k
Tabled(c, k) ==
  /\ ptable' \in [Procs -> Entries] /\ \A p \in Procs : p # on[c] => Same(ptable[p].state, ptable'[p].state)
  /\ on[c] # None => Says(ptable'[on[c]].state, k)

\* A step that writes the entry of its own process, and no lock
LEMMA KeptTable ==
  ASSUME Configured, SchedTypes, NEW ms, Sound(ms), NEW c \in Cpus, NEW t, t = Thread(c), NEW k \in Mode,
         NEW x, Goes(c, x, k), Rewired(c, k), Alike(Mine(ms, c), k), k.lock = Mine(ms, c).lock, Tabled(c, k),
         Awaited(Put(ms, t, k))', on' = on, locks' = locks, ticks' \in Int, ticks0' \in [Procs -> Int]
  PROVE  SchedTypes' /\ \E ms2 : Sound(ms2)'
<1>1. /\ Top(c) # << >> /\ code' = Become(c, x) /\ x \in Seq(Instr) /\ Left(x \o Tail(Top(c)), k)
  BY DEF Goes
<1>2. /\ cpus' = [d \in Cpus |-> cpus'[d]] /\ \A d \in Cpus : d # c => cpus'[d] = cpus[d]
      /\ Registers(cpus'[c]) /\ Views(cpus'[c], k)
  BY DEF Rewired
<1>3. k.kind = Mine(ms, c).kind /\ k.child = Mine(ms, c).child /\ k.next = Mine(ms, c).next
  BY DEF Alike
<1>4. Locked(Put(ms, t, k))'
  BY MinePut, LockedMoves DEF Moves, LocksAlike
<1>5. locks' \in [Lock -> [locked : BOOLEAN, cpu : Cpus \cup {Nobody}]]
  BY DEF SchedTypes
<1>6. /\ ptable' \in [Procs -> Entries] /\ (on[c] # None => Says(ptable'[on[c]].state, k))
      /\ \A p \in Procs : p # on[c] => Same(ptable[p].state, ptable'[p].state)
  BY DEF Tabled
<1> QED  BY <1>1, <1>2, <1>3, <1>4, <1>5, <1>6, Kept

\* Who sleeps, after a step of c
LEMMA SleepsPut ==
  ASSUME Configured, SchedTypes, NEW ms, Sound(ms), NEW t \in Threads, NEW k \in Mode
  PROVE  /\ \A p \in Procs : \A chan :
              /\ p # t => (Sleeps(Put(ms, t, k), p, chan)'
                             <=> ms[p][1].want = chan \/ (ptable'[p].state = "SLEEPING" /\ ptable'[p].chan = chan))
              /\ p = t => (Sleeps(Put(ms, t, k), p, chan)'
                             <=> k.want = chan \/ (ptable'[p].state = "SLEEPING" /\ ptable'[p].chan = chan))
<1>1. Put(ms, t, k)[t][1] = k /\ \A u \in Threads : u # t => Put(ms, t, k)[u] = ms[u]
  BY PutIs
<1>2. Procs \subseteq Threads
  BY DEF Threads
<1> QED  BY <1>1, <1>2 DEF Sleeps

\* Nobody else begins to sleep when t goes on.
LEMMA SleepsLess ==
  ASSUME Configured, SchedTypes, NEW ms, Sound(ms), NEW t \in Threads, NEW k \in Mode, NEW p \in Procs,
         p = t => k.want = ms[t][1].want,
         ptable'[p].state = "SLEEPING" => ptable[p].state = "SLEEPING" /\ ptable'[p].chan = ptable[p].chan
  PROVE  \A chan : Sleeps(Put(ms, t, k), p, chan)' => Sleeps(ms, p, chan)
<1>1. \A chan : Sleeps(Put(ms, t, k), p, chan)'
                 => ms[p][1].want = chan \/ (ptable'[p].state = "SLEEPING" /\ ptable'[p].chan = chan)
  BY SleepsPut
<1>2. \A chan : ms[p][1].want = chan \/ (ptable[p].state = "SLEEPING" /\ ptable[p].chan = chan) => Sleeps(ms, p, chan)
  BY DEF Sleeps
<1> QED  BY <1>1, <1>2

\* A tick that has not woken anybody is still on its way.
LEMMA TickingPut ==
  ASSUME Configured, SchedTypes, NEW ms, Sound(ms), NEW c \in Cpus, NEW t, t = Thread(c), NEW k \in Mode, on' = on
  PROVE  /\ k.tick => Ticking(Put(ms, t, k))'
         /\ Ticking(ms) /\ (Mine(ms, c).tick => k.tick) => Ticking(Put(ms, t, k))'
<1>1. /\ Mine(Put(ms, t, k), c)' = k
      /\ \A d \in Cpus : d # c => Mine(Put(ms, t, k), d)' = Mine(ms, d)
  BY MinePut
<1>2. k.tick => Ticking(Put(ms, t, k))'
  BY <1>1 DEF Ticking
<1>3. ASSUME Ticking(ms), Mine(ms, c).tick => k.tick PROVE Ticking(Put(ms, t, k))'
  <2>1. PICK d \in Cpus : Mine(ms, d).tick
    BY <1>3 DEF Ticking
  <2>2. Mine(Put(ms, t, k), d)'.tick
    BY <1>1, <1>3, <2>1
  <2> QED  BY <2>2 DEF Ticking
<1> QED  BY <1>2, <1>3

\* The process of a call that runs does not sleep.
LEMMA CallIs ==
  ASSUME Configured, SchedTypes, NEW ms, Sound(ms), NEW c \in Cpus, Mine(ms, c).kind = "call", Mine(ms, c).st = "run"
  PROVE  on[c] \in Procs /\ on[c] # None /\ Thread(c) = on[c] /\ ptable[on[c]].state = "RUNNING" /\ on[c] \in Threads
<1>1. on[c] \in Procs /\ on[c] # None /\ Thread(c) = on[c]
  BY KindIs
<1> QED  BY <1>1 DEF Sound, Running, Threads

\* The table stays.
LEMMA TabledSame ==
  ASSUME Configured, SchedTypes, NEW ms, Sound(ms), NEW c \in Cpus, NEW k \in Mode,
         k.st = Mine(ms, c).st, ptable' = ptable
  PROVE  Tabled(c, k)
  BY DEF Tabled, SchedTypes, Same, Says, Sound, Running

\* sys_sleep reads ticks with tickslock held.
LEMMA StepTicks0 ==
  ASSUME Configured, SchedTypes, panicked = "no", NEW ms, Sound(ms), NEW c \in Cpus, Ticks0(c)
  PROVE  SchedTypes' /\ panicked' = "no" /\ \E ms2 : Sound(ms2)'
<1> PICK m : m = Mine(ms, c)
  OBVIOUS
<1> PICK t : t = Thread(c)
  OBVIOUS
<1>1. At(c, "ticks0")
  BY DEF Ticks0
<1>2. PICK k \in Mode :
        /\ Leads(<<"ticks0", Arg(c)>>, m, k) /\ Left(<< >> \o Tail(Top(c)), k)
        /\ Top(c) # << >> /\ m \in Mode /\ Views(cpus[c], m) /\ Registers(cpus[c])
  BY <1>1, Acting
<1>3. k = m /\ m.kind = "call" /\ m.want = 0 /\ m.lock["ptable"] = "out"
  BY <1>2 DEF Leads
<1>4. m.st = "run"
  BY <1>2, <1>3, ModeIs DEF Lawful, Ours
<1>5. t \in Procs /\ t = on[c] /\ ptable[t].state = "RUNNING" /\ t \in Threads
  BY <1>3, <1>4, CallIs
<1>6. /\ code' = Become(c, << >>) /\ panicked' = panicked /\ cpus' = cpus /\ ticks0' = [ticks0 EXCEPT ![t] = ticks]
      /\ on' = on /\ locks' = locks /\ ptable' = ptable /\ ticks' = ticks
  BY <1>5 DEF Ticks0, Done
<1>7. Goes(c, << >>, m) /\ Rewired(c, m) /\ Alike(m, m) /\ Tabled(c, m)
  BY <1>2, <1>3, <1>6, CpusSame, TabledSame DEF Goes, Rewired, Alike
<1>8. Awaited(Put(ms, t, m))'
  <2>1. ASSUME NEW p \in Procs
        PROVE  /\ Sleeps(Put(ms, t, m), p, TicksChan)' => Passed(p)' = 0 \/ Ticking(Put(ms, t, m))'
               /\ Sleeps(Put(ms, t, m), p, p)' => Table!Zombies(p)' = {}
               /\ ptable'[p].parent = p => p = 1
    <3>1. /\ Sleeps(ms, p, TicksChan) => Passed(p) = 0 \/ Ticking(ms)
          /\ Sleeps(ms, p, p) => Table!Zombies(p) = {}
          /\ ptable[p].parent = p => p = 1
      BY DEF Sound, Awaited
    <3>2. Table!Zombies(p)' = Table!Zombies(p)
      BY <1>6 DEF Table!Zombies, Table!Children
    <3>3. CASE p = t
      BY <1>2, <1>3, <1>5, <1>6, <3>1, <3>3, SleepsPut, Numbers
    <3>4. CASE p # t
      <4>1. Passed(p)' = Passed(p)
        BY <1>6, <3>4 DEF Passed, SchedTypes
      <4>2. Ticking(ms) => Ticking(Put(ms, t, m))'
        BY <1>2, <1>6, TickingPut
      <4>3. \A chan : Sleeps(Put(ms, t, m), p, chan)' => Sleeps(ms, p, chan)
        BY <1>2, <1>5, <1>6, <3>4, SleepsLess
      <4> QED  BY <1>6, <3>1, <3>2, <4>1, <4>2, <4>3
    <3> QED  BY <3>3, <3>4
  <2> QED  BY <2>1 DEF Awaited
<1>9. ticks' \in Int /\ ticks0' \in [Procs -> Int]
  BY <1>6 DEF SchedTypes
<1> QED  BY <1>2, <1>6, <1>7, <1>8, <1>9, KeptTable

\* A mode of a process that is about to sleep
LEMMA WantingIs ==
  ASSUME NEW m \in Mode, NEW w
  PROVE  /\ Wanting(m, w).lock = m.lock /\ Wanting(m, w).kind = m.kind /\ Wanting(m, w).st = m.st
         /\ Wanting(m, w).child = m.child /\ Wanting(m, w).want = w /\ Wanting(m, w).tick = m.tick
         /\ Wanting(m, w).next = m.next
  BY DEF Wanting, Mode, Records

\* Less than one tick is none.
LEMMA PassedIs ==
  ASSUME Configured, SchedTypes, NEW p \in Procs, Passed(p) < 1
  PROVE  Passed(p) = 0
<1>1. (ticks - ticks0[p]) \in Int
  BY DEF SchedTypes
<1>2. Passed(p) \in 0 .. TickWrap - 1
  BY <1>1 DEF Passed, Configured
<1> QED  BY <1>2 DEF Configured

\* sys_sleep goes to sleep only while no tick has passed.
LEMMA StepSlept ==
  ASSUME Configured, SchedTypes, panicked = "no", NEW ms, Sound(ms), NEW c \in Cpus, Slept(c)
  PROVE  SchedTypes' /\ panicked' = "no" /\ \E ms2 : Sound(ms2)'
<1> PICK m : m = Mine(ms, c)
  OBVIOUS
<1> PICK t : t = Thread(c)
  OBVIOUS
<1>1. At(c, "slept")
  BY DEF Slept
<1>2. PICK n \in Mode :
        /\ Leads(<<"slept", Arg(c)>>, m, n) /\ Left(<< >> \o Tail(Top(c)), n) /\ Left(Tail(Top(c)), n)
        /\ Top(c) # << >> /\ m \in Mode /\ Views(cpus[c], m) /\ Registers(cpus[c])
  BY <1>1, Acting
<1>3. n = m /\ m.kind = "call" /\ m.want = 0 /\ m.lock["ptable"] = "out" /\ m.lock["time"] = "held" /\ ~m.tick /\ Arg(c) = 1
  BY <1>2 DEF Leads
<1>4. m.st = "run"
  BY <1>2, <1>3, ModeIs DEF Lawful, Ours
<1>5. t \in Procs /\ t = on[c] /\ ptable[t].state = "RUNNING" /\ t \in Threads
  BY <1>3, <1>4, CallIs
<1>6. /\ panicked' = panicked /\ cpus' = cpus /\ ticks0' = ticks0
      /\ on' = on /\ locks' = locks /\ ptable' = ptable /\ ticks' = ticks
  BY DEF Slept
<1>7. CASE Passed(t) < 1
  <2> PICK x : x = SleepOn(TicksChan, "time") \o << <<"slept", 1>> >>
    OBVIOUS
  <2> PICK k : k = Wanting(m, TicksChan)
    OBVIOUS
  <2>1. k \in Mode /\ Path(x, k, m)
    BY <1>2, <1>3, <1>4, TicksPath
  <2>2. /\ k.lock = m.lock /\ k.kind = m.kind /\ k.st = m.st /\ k.child = m.child /\ k.want = TicksChan
        /\ k.tick = m.tick /\ k.next = m.next
    BY <1>2, WantingIs
  <2>3. code' = Become(c, x)
    BY <1>3, <1>5, <1>7 DEF Slept
  <2>4. Goes(c, x, k)
    <3>1. Left(Tail(Top(c)), m)
      BY <1>2, <1>3
    <3>2. Left(x \o Tail(Top(c)), k)
      BY <2>1, <3>1, LeftJoined
    <3>3. x \in Seq(Instr)
      BY <2>1 DEF Path
    <3> QED  BY <1>2, <2>3, <3>2, <3>3 DEF Goes
  <2>5. Views(cpus[c], k)
    BY <1>2, <2>2 DEF Views, Count
  <2>6. Rewired(c, k) /\ Alike(m, k) /\ Tabled(c, k)
    BY <1>6, <2>1, <2>2, <2>5, CpusSame, TabledSame DEF Rewired, Alike
  <2>7. Awaited(Put(ms, t, k))'
    <3>1. ASSUME NEW p \in Procs
          PROVE  /\ Sleeps(Put(ms, t, k), p, TicksChan)' => Passed(p)' = 0 \/ Ticking(Put(ms, t, k))'
                 /\ Sleeps(Put(ms, t, k), p, p)' => Table!Zombies(p)' = {}
                 /\ ptable'[p].parent = p => p = 1
      <4>1. /\ Sleeps(ms, p, TicksChan) => Passed(p) = 0 \/ Ticking(ms)
            /\ Sleeps(ms, p, p) => Table!Zombies(p) = {}
            /\ ptable[p].parent = p => p = 1
        BY DEF Sound, Awaited
      <4>2. Table!Zombies(p)' = Table!Zombies(p) /\ Passed(p)' = Passed(p)
        BY <1>6 DEF Table!Zombies, Table!Children, Passed
      <4>3. CASE p = t
        BY <1>5, <1>6, <1>7, <2>1, <2>2, <4>1, <4>2, <4>3, PassedIs, SleepsPut, Numbers
      <4>4. CASE p # t
        <5>1. Ticking(ms) => Ticking(Put(ms, t, k))'
          BY <1>6, <2>1, <2>2, TickingPut
        <5>2. \A chan : Sleeps(Put(ms, t, k), p, chan)' => Sleeps(ms, p, chan)
          BY <1>5, <1>6, <2>1, <4>4, SleepsLess
        <5> QED  BY <1>6, <4>1, <4>2, <5>1, <5>2
      <4> QED  BY <4>3, <4>4
    <3> QED  BY <3>1 DEF Awaited
  <2>8. ticks' \in Int /\ ticks0' \in [Procs -> Int]
    BY <1>6 DEF SchedTypes
  <2> QED  BY <1>6, <2>1, <2>2, <2>4, <2>6, <2>7, <2>8, KeptTable
<1>8. CASE ~(Passed(t) < 1)
  <2>1. code' = Become(c, << >>)
    BY <1>3, <1>5, <1>8 DEF Slept
  <2>2. Goes(c, << >>, m) /\ Rewired(c, m)
    BY <1>2, <1>3, <1>6, <2>1, CpusSame DEF Goes, Rewired
  <2> QED  BY <1>6, <2>2, SameMode
<1> QED  BY <1>7, <1>8

\* The clock counts with tickslock held, and will wake up who sleeps.
LEMMA StepTick ==
  ASSUME Configured, SchedTypes, panicked = "no", NEW ms, Sound(ms), NEW c \in Cpus, Tick(c)
  PROVE  SchedTypes' /\ panicked' = "no" /\ \E ms2 : Sound(ms2)'
<1> PICK m : m = Mine(ms, c)
  OBVIOUS
<1> PICK t : t = Thread(c)
  OBVIOUS
<1>1. At(c, "tick")
  BY DEF Tick
<1>2. PICK k \in Mode :
        /\ Leads(<<"tick", Arg(c)>>, m, k) /\ Left(<< >> \o Tail(Top(c)), k)
        /\ Top(c) # << >> /\ m \in Mode /\ Views(cpus[c], m) /\ Registers(cpus[c])
  BY <1>1, Acting
<1>3. k = [m EXCEPT !.tick = TRUE]
  BY <1>2 DEF Leads
<1>4. /\ k.lock = m.lock /\ k.kind = m.kind /\ k.st = m.st /\ k.child = m.child /\ k.want = m.want
      /\ k.tick /\ k.next = m.next
  BY <1>2, <1>3, ModeIs DEF Records
<1>5. /\ code' = Become(c, << >>) /\ panicked' = panicked /\ cpus' = cpus /\ ticks0' = ticks0
      /\ on' = on /\ locks' = locks /\ ptable' = ptable /\ ticks' = (ticks + 1) % TickWrap
  BY DEF Tick, Done
<1>6. Views(cpus[c], k)
  BY <1>2, <1>4 DEF Views, Count
<1>7. Goes(c, << >>, k) /\ Rewired(c, k) /\ Alike(m, k) /\ Tabled(c, k)
  BY <1>2, <1>4, <1>5, <1>6, CpusSame, TabledSame, Spaced DEF Goes, Rewired, Alike
<1>8. Awaited(Put(ms, t, k))'
  <2>1. Ticking(Put(ms, t, k))'
    BY <1>4, <1>5, TickingPut
  <2>2. ASSUME NEW p \in Procs
        PROVE  /\ Sleeps(Put(ms, t, k), p, p)' => Table!Zombies(p)' = {}
               /\ ptable'[p].parent = p => p = 1
    <3>1. /\ Sleeps(ms, p, p) => Table!Zombies(p) = {}
          /\ ptable[p].parent = p => p = 1
      BY DEF Sound, Awaited
    <3>2. Table!Zombies(p)' = Table!Zombies(p)
      BY <1>5 DEF Table!Zombies, Table!Children
    <3>3. t \in Threads /\ k.want = ms[t][1].want
      BY <1>4, MineIs DEF Mine
    <3>4. \A chan : Sleeps(Put(ms, t, k), p, chan)' => Sleeps(ms, p, chan)
      BY <1>5, <3>3, SleepsLess
    <3> QED  BY <1>5, <3>1, <3>2, <3>4
  <2> QED  BY <2>1, <2>2 DEF Awaited
<1>9. ticks' \in Int /\ ticks0' \in [Procs -> Int]
  BY <1>5 DEF SchedTypes, Configured
<1> QED  BY <1>2, <1>4, <1>5, <1>7, <1>8, <1>9, KeptTable

\* While a processor has ptable.lock nobody else is about to sleep, but in sys_sleep
\* with tickslock.
LEMMA NoWants ==
  ASSUME Configured, SchedTypes, NEW ms, Sound(ms), NEW c \in Cpus, Mine(ms, c).lock["ptable"] = "held",
         NEW p \in Procs, p # Thread(c), ms[p][1].want # 0
  PROVE  ms[p][1].want = TicksChan /\ Mine(ms, c).lock["time"] # "held"
<1>1. p \in Threads
  BY DEF Threads
<1>2. Stack(p, code[p], ms[p])
  BY <1>1 DEF Sound, Stacks
<1>3. ms[p][1] \in Mode /\ Lawful(ms[p][1]) /\ Len(ms[p]) \in 1 .. 3 /\ Left(code[p][1], ms[p][1])
  BY <1>2, ShapedLen, ModeIs DEF Stack
<1>4. ms[p][1].kind = "call" /\ (ms[p][1].lock["ptable"] = "held"
        \/ (ms[p][1].lock["time"] = "held" /\ ms[p][1].want = TicksChan))
  BY <1>3 DEF Lawful
<1>5. PICK d \in Cpus : on[d] = p
  <2> SUFFICES ASSUME \A d \in Cpus : on[d] # p PROVE FALSE
    OBVIOUS
  <2>1. /\ ptable[p].state # "RUNNING"
        /\ ptable[p].state = "UNUSED" => code[p] = << << >> >>
        /\ ptable[p].state = "ZOMBIE" => ms[p][1].st = "dead"
        /\ ptable[p].state \in {"EMBRYO", "RUNNABLE", "SLEEPING"} => Ready(ms[p][1])
    BY DEF Sound, Off
  <2>2. ptable[p].state \in States
    BY DEF SchedTypes, Entries
  <2>3. ptable[p].state = "UNUSED"
    BY <1>3, <2>1, <2>2 DEF States, Ready, Lawful
  <2>4. code[p][1] = << >>
    BY <2>1, <2>3
  <2>5. Final(ms[p][1])
    BY <1>3, <2>4, LeftNothing
  <2> QED  BY <1>4, <2>5 DEF Final
<1>6. d # c /\ Mine(ms, d) = ms[p][1]
  <2>1. Thread(d) = p
    BY <1>5, Numbers DEF Thread, None
  <2> QED  BY <2>1 DEF Mine
<1>7. \A l \in Lock : Mine(ms, c).lock[l] \in Inside /\ Mine(ms, d).lock[l] \in Inside => c = d
  BY DEF Sound, Locked
<1> QED  BY <1>4, <1>6, <1>7 DEF Inside, Lock

\* Fewer sleep, and what they wait for has not come.
Fewer(ms, P) == \A p \in Procs : \A chan \in 1 .. TicksChan : Sleeps(P, p, chan)' => Sleeps(ms, p, chan)

SameZombies ==
  \A z \in Procs : /\ ptable'[z].state = "ZOMBIE" => ptable[z].state = "ZOMBIE" /\ ptable'[z].parent = ptable[z].parent
                   /\ ptable'[z].parent = z => ptable[z].parent = z

\* Nobody sleeps for what has happened, when fewer sleep.
LEMMA AwaitedLess ==
  ASSUME Configured, SchedTypes, NEW ms, Sound(ms), NEW P, ticks' = ticks, ticks0' = ticks0,
         Ticking(ms) => Ticking(P)', Fewer(ms, P), SameZombies
  PROVE  Awaited(P)'
<1>1. ASSUME NEW p \in Procs
      PROVE  /\ Sleeps(P, p, TicksChan)' => Passed(p)' = 0 \/ Ticking(P)'
             /\ Sleeps(P, p, p)' => Table!Zombies(p)' = {}
             /\ ptable'[p].parent = p => p = 1
  <2>1. /\ Sleeps(ms, p, TicksChan) => Passed(p) = 0 \/ Ticking(ms)
        /\ Sleeps(ms, p, p) => Table!Zombies(p) = {}
        /\ ptable[p].parent = p => p = 1
    BY DEF Sound, Awaited
  <2>2. Passed(p)' = Passed(p)
    BY DEF Passed
  <2>3. TicksChan \in 1 .. TicksChan /\ p \in 1 .. TicksChan
    BY DEF TicksChan, Procs, Configured
  <2>4. /\ Sleeps(P, p, TicksChan)' => Sleeps(ms, p, TicksChan)
        /\ Sleeps(P, p, p)' => Sleeps(ms, p, p)
    BY <2>3 DEF Fewer
  <2>5. Table!Zombies(p) = {} => Table!Zombies(p)' = {}
    BY Numbers DEF SameZombies, Table!Zombies, Table!Children
  <2> QED  BY <2>1, <2>2, <2>4, <2>5 DEF SameZombies
<1> QED  BY <1>1 DEF Awaited

\* An entry of the table stays one when a field is written.
LEMMA EntryIs ==
  ASSUME NEW e \in Entries
  PROVE  /\ \A s \in States : [e EXCEPT !.state = s] \in Entries
         /\ \A q \in 0 .. NPROC : [e EXCEPT !.parent = q] \in Entries
         /\ \A q \in 0 .. TicksChan : [e EXCEPT !.chan = q] \in Entries
         /\ e.state \in States /\ e.parent \in 0 .. NPROC /\ e.chan \in 0 .. TicksChan
  BY DEF Entries

\* yield makes the process RUNNABLE, with ptable.lock held until it stops.
LEMMA StepGive ==
  ASSUME Configured, SchedTypes, panicked = "no", NEW ms, Sound(ms), NEW c \in Cpus, Give(c)
  PROVE  SchedTypes' /\ panicked' = "no" /\ \E ms2 : Sound(ms2)'
<1> PICK m : m = Mine(ms, c)
  OBVIOUS
<1> PICK t : t = Thread(c)
  OBVIOUS
<1>1. At(c, "give")
  BY DEF Give
<1>2. PICK k \in Mode :
        /\ Leads(<<"give", Arg(c)>>, m, k) /\ Left(<< >> \o Tail(Top(c)), k)
        /\ Top(c) # << >> /\ m \in Mode /\ Views(cpus[c], m) /\ Registers(cpus[c])
  BY <1>1, Acting
<1>3. k = [m EXCEPT !.st = "stop"] /\ Inner(m) /\ m.kind \in {"call", "trap"}
  BY <1>2 DEF Leads
<1>4. /\ k.lock = m.lock /\ k.kind = m.kind /\ k.st = "stop" /\ k.child = m.child /\ k.want = m.want /\ m.st = "run"
      /\ k.tick = m.tick /\ k.next = m.next
  BY <1>2, <1>3, ModeIs DEF Records, Inner
<1>5. t \in Procs /\ t = on[c] /\ t \in Threads /\ m = ms[t][1]
  BY <1>3, KindIs DEF Threads, Mine
<1>6. /\ code' = Become(c, << >>) /\ panicked' = panicked /\ cpus' = cpus /\ ticks' = ticks /\ ticks0' = ticks0
      /\ on' = on /\ locks' = locks /\ ptable' = [ptable EXCEPT ![t] = [ptable[t] EXCEPT !.state = "RUNNABLE"]]
  BY <1>5 DEF Give, Done
<1>7. /\ ptable' \in [Procs -> Entries] /\ \A p \in Procs : p # t => ptable'[p] = ptable[p]
      /\ ptable'[t].state = "RUNNABLE" /\ ptable'[t].parent = ptable[t].parent
  <2>1. ptable \in [Procs -> Entries] /\ "RUNNABLE" \in States
    BY DEF SchedTypes, States
  <2>2. [ptable[t] EXCEPT !.state = "RUNNABLE"] \in Entries
    BY <1>5, <2>1, EntryIs
  <2> QED  BY <1>5, <1>6, <2>1, <2>2 DEF Entries
<1>8. Views(cpus[c], k)
  BY <1>2, <1>4 DEF Views, Count
<1>9. Goes(c, << >>, k) /\ Rewired(c, k) /\ Alike(m, k)
  BY <1>2, <1>4, <1>6, <1>8, CpusSame, Spaced DEF Goes, Rewired, Alike
<1>10. Tabled(c, k)
  BY <1>4, <1>5, <1>7 DEF Tabled, Same, Says
<1>11. Awaited(Put(ms, t, k))'
  <2>1. Fewer(ms, Put(ms, t, k))
    BY <1>4, <1>5, <1>7, SleepsLess DEF Fewer
  <2>2. SameZombies
    BY <1>7 DEF SameZombies
  <2>3. Ticking(ms) => Ticking(Put(ms, t, k))'
    BY <1>4, <1>6, TickingPut
  <2> QED  BY <1>6, <2>1, <2>2, <2>3, AwaitedLess
<1>12. ticks' \in Int /\ ticks0' \in [Procs -> Int]
  BY <1>6 DEF SchedTypes
<1> QED  BY <1>2, <1>4, <1>6, <1>9, <1>10, <1>11, <1>12, KeptTable

\* sleep makes the process SLEEPING, for a thing that has not happened.
LEMMA StepDoze ==
  ASSUME Configured, SchedTypes, panicked = "no", NEW ms, Sound(ms), NEW c \in Cpus, Doze(c)
  PROVE  SchedTypes' /\ panicked' = "no" /\ \E ms2 : Sound(ms2)'
<1> PICK m : m = Mine(ms, c)
  OBVIOUS
<1> PICK t : t = Thread(c)
  OBVIOUS
<1> PICK a : a = Arg(c)
  OBVIOUS
<1>1. At(c, "doze")
  BY DEF Doze
<1>2. PICK k \in Mode :
        /\ Leads(<<"doze", a>>, m, k) /\ Left(<< >> \o Tail(Top(c)), k)
        /\ Top(c) # << >> /\ m \in Mode /\ Views(cpus[c], m) /\ Registers(cpus[c])
  BY <1>1, Acting
<1>3. k = [m EXCEPT !.st = "stop", !.want = 0] /\ Ours(m) /\ m.kind = "call" /\ m.st = "run" /\ m.want = a /\ a # 0
  BY <1>2 DEF Leads
<1>4. /\ k.lock = m.lock /\ k.kind = m.kind /\ k.st = "stop" /\ k.child = m.child /\ k.want = 0
      /\ k.tick = m.tick /\ k.next = m.next /\ a \in 0 .. TicksChan
  BY <1>2, <1>3, ModeIs DEF Records
<1>5. t \in Procs /\ t = on[c] /\ t \in Threads /\ m = ms[t][1]
  BY <1>3, KindIs DEF Threads, Mine
<1>6. /\ code' = Become(c, << >>) /\ panicked' = panicked /\ cpus' = cpus /\ ticks' = ticks /\ ticks0' = ticks0
      /\ on' = on /\ locks' = locks /\ ptable' = Table!Sleep(ptable, t, a)
  BY <1>5 DEF Doze, Done
<1>7. /\ ptable' \in [Procs -> Entries] /\ \A p \in Procs : p # t => ptable'[p] = ptable[p]
      /\ ptable'[t].state = "SLEEPING" /\ ptable'[t].parent = ptable[t].parent /\ ptable'[t].chan = a
  <2>1. ptable \in [Procs -> Entries]
    BY DEF SchedTypes
  <2> PICK e : e = [ptable[t] EXCEPT !.chan = a, !.state = "SLEEPING"]
    OBVIOUS
  <2>2. e \in Entries /\ e.state = "SLEEPING" /\ e.chan = a /\ e.parent = ptable[t].parent
    <3>1. ptable[t] \in Entries
      BY <1>5, <2>1
    <3> QED  BY <1>4, <3>1 DEF Entries, States
  <2>3. ptable' = [ptable EXCEPT ![t] = e]
    BY <1>5, <1>6, <2>1 DEF Table!Sleep
  <2> QED  BY <1>5, <2>1, <2>2, <2>3
<1>8. Views(cpus[c], k)
  BY <1>2, <1>3, <1>4 DEF Views, Count
<1>9. Goes(c, << >>, k) /\ Rewired(c, k) /\ Alike(m, k)
  BY <1>2, <1>4, <1>6, <1>8, CpusSame, Spaced DEF Goes, Rewired, Alike
<1>10. Tabled(c, k)
  BY <1>4, <1>5, <1>7 DEF Tabled, Same, Says
<1>11. Awaited(Put(ms, t, k))'
  <2>1. Fewer(ms, Put(ms, t, k))
    <3> SUFFICES ASSUME NEW p \in Procs, NEW chan \in 1 .. TicksChan, Sleeps(Put(ms, t, k), p, chan)'
                 PROVE  Sleeps(ms, p, chan)
      BY DEF Fewer
    <3>1. CASE p = t
      <4>1. k.want = chan \/ (ptable'[p].state = "SLEEPING" /\ ptable'[p].chan = chan)
        BY <1>5, <3>1, SleepsPut
      <4>2. ms[p][1].want = chan
        BY <1>3, <1>4, <1>5, <1>7, <3>1, <4>1
      <4> QED  BY <4>2 DEF Sleeps
    <3>2. CASE p # t
      BY <1>5, <1>7, <3>2, SleepsLess
    <3> QED  BY <3>1, <3>2
  <2>2. SameZombies
    BY <1>7 DEF SameZombies
  <2>3. Ticking(ms) => Ticking(Put(ms, t, k))'
    BY <1>4, <1>6, TickingPut
  <2> QED  BY <1>6, <2>1, <2>2, <2>3, AwaitedLess
<1>12. ticks' \in Int /\ ticks0' \in [Procs -> Int]
  BY <1>6 DEF SchedTypes
<1> QED  BY <1>2, <1>4, <1>6, <1>9, <1>10, <1>11, <1>12, KeptTable

\* Who sleeps for chan can run.
LEMMA WakenIs ==
  ASSUME Configured, NEW T \in [Procs -> Entries], NEW chan
  PROVE  /\ Table!Wakeup1(T, chan) \in [Procs -> Entries]
         /\ \A s \in Procs : /\ Table!Wakeup1(T, chan)[s].parent = T[s].parent
                             /\ Same(T[s].state, Table!Wakeup1(T, chan)[s].state)
                             /\ Table!Wakeup1(T, chan)[s].state = "SLEEPING" =>
                                  /\ T[s].state = "SLEEPING" /\ T[s].chan # chan
                                  /\ Table!Wakeup1(T, chan)[s].chan = T[s].chan
<1> DEFINE W(s) == IF T[s].state = "SLEEPING" /\ T[s].chan = chan
                   THEN [T[s] EXCEPT !.state = "RUNNABLE", !.chan = 0] ELSE T[s]
<1>1. Table!Wakeup1(T, chan) = [s \in Procs |-> W(s)]
  BY Numbers DEF Table!Wakeup1
<1>2. ASSUME NEW s \in Procs
      PROVE  /\ W(s) \in Entries /\ W(s).parent = T[s].parent /\ Same(T[s].state, W(s).state)
             /\ W(s).state = "SLEEPING" => T[s].state = "SLEEPING" /\ T[s].chan # chan /\ W(s).chan = T[s].chan
  <2>1. T[s] \in Entries
    OBVIOUS
  <2>2. CASE T[s].state = "SLEEPING" /\ T[s].chan = chan
    <3> PICK e : e = [T[s] EXCEPT !.state = "RUNNABLE", !.chan = 0]
      OBVIOUS
    <3>1. e \in Entries /\ e.parent = T[s].parent /\ e.state = "RUNNABLE"
      <4> PICK f : f = [T[s] EXCEPT !.state = "RUNNABLE"]
        OBVIOUS
      <4>0. "RUNNABLE" \in States /\ 0 \in 0 .. TicksChan
        BY Numbers DEF States
      <4>1. f \in Entries /\ 0 \in 0 .. TicksChan
        BY <2>1, <4>0, EntryIs
      <4>2. f.parent = T[s].parent /\ f.state = "RUNNABLE" /\ e = [f EXCEPT !.chan = 0]
        BY <2>1 DEF Entries
      <4>3. e \in Entries
        BY <4>1, <4>2, EntryIs
      <4>4. e.parent = f.parent /\ e.state = f.state
        BY <4>1, <4>2 DEF Entries
      <4> QED  BY <4>2, <4>3, <4>4
    <3>2. W(s) = e
      BY <2>2
    <3> QED  BY <2>2, <3>1, <3>2 DEF Same
  <2>3. CASE ~(T[s].state = "SLEEPING" /\ T[s].chan = chan)
    <3>1. W(s) = T[s]
      BY <2>3
    <3> HIDE DEF W
    <3> QED  BY <2>1, <2>3, <3>1 DEF Same
  <2> QED  BY <2>2, <2>3
<1> HIDE DEF W
<1> QED  BY <1>1, <1>2

\* wakeup1 lets those run who sleep for the channel.
LEMMA StepWakeup1 ==
  ASSUME Configured, SchedTypes, panicked = "no", NEW ms, Sound(ms), NEW c \in Cpus, Wakeup1(c)
  PROVE  SchedTypes' /\ panicked' = "no" /\ \E ms2 : Sound(ms2)'
<1> PICK m : m = Mine(ms, c)
  OBVIOUS
<1> PICK t : t = Thread(c)
  OBVIOUS
<1> PICK a : a = Arg(c)
  OBVIOUS
<1>1. At(c, "wakeup1")
  BY DEF Wakeup1
<1>2. PICK k \in Mode :
        /\ Leads(<<"wakeup1", a>>, m, k) /\ Left(<< >> \o Tail(Top(c)), k)
        /\ Top(c) # << >> /\ m \in Mode /\ Views(cpus[c], m) /\ Registers(cpus[c])
        /\ (on[c] # None => Says(ptable[on[c]].state, m))
  BY <1>1, Acting
<1>3. /\ a \in 1 .. TicksChan /\ m.lock["ptable"] = "held" /\ m.st = "run" /\ m.want = 0
      /\ k = [m EXCEPT !.tick = m.tick /\ a # TicksChan]
  BY <1>2 DEF Leads
<1>4. /\ k.lock = m.lock /\ k.kind = m.kind /\ k.st = m.st /\ k.child = m.child /\ k.want = 0
      /\ (k.tick <=> m.tick /\ a # TicksChan) /\ k.next = m.next /\ Lawful(m)
  BY <1>2, <1>3, ModeIs DEF Records
<1>5. t \in Threads /\ m = ms[t][1] /\ (on[c] # None => t = on[c])
  BY MineIs DEF Mine
<1>6. /\ code' = Become(c, << >>) /\ panicked' = panicked /\ cpus' = cpus /\ ticks' = ticks /\ ticks0' = ticks0
      /\ on' = on /\ locks' = locks /\ ptable' = Table!Wakeup1(ptable, a)
  BY DEF Wakeup1, Done
<1>7. /\ ptable' \in [Procs -> Entries]
      /\ \A s \in Procs : /\ ptable'[s].parent = ptable[s].parent /\ Same(ptable[s].state, ptable'[s].state)
                          /\ ptable'[s].state = "SLEEPING" =>
                               ptable[s].state = "SLEEPING" /\ ptable[s].chan # a /\ ptable'[s].chan = ptable[s].chan
  BY <1>6, WakenIs DEF SchedTypes
<1>8. Views(cpus[c], k)
  BY <1>2, <1>4 DEF Views, Count
<1>9. Goes(c, << >>, k) /\ Rewired(c, k) /\ Alike(m, k)
  BY <1>2, <1>4, <1>6, <1>8, CpusSame, Spaced DEF Goes, Rewired, Alike
<1>10. Tabled(c, k)
  <2>1. on[c] # None => on[c] \in Procs
    BY MineIs
  <2> QED  BY <1>2, <1>3, <1>4, <1>7, <2>1 DEF Tabled, Same, Says
<1>11. Awaited(Put(ms, t, k))'
  <2>1. Fewer(ms, Put(ms, t, k))
    BY <1>3, <1>4, <1>5, <1>7, SleepsLess DEF Fewer
  <2>2. SameZombies
    BY <1>7 DEF SameZombies, Same
  <2>3. CASE m.tick => k.tick
    <3>1. Ticking(ms) => Ticking(Put(ms, t, k))'
      BY <1>6, <2>3, TickingPut
    <3> QED  BY <1>6, <2>1, <2>2, <3>1, AwaitedLess
  <2>4. CASE m.tick /\ ~k.tick
    <3>1. a = TicksChan /\ m.lock["time"] = "held"
      BY <1>4, <2>4 DEF Lawful
    <3>2. ASSUME NEW p \in Procs
          PROVE  /\ ~Sleeps(Put(ms, t, k), p, TicksChan)'
                 /\ Sleeps(Put(ms, t, k), p, p)' => Table!Zombies(p)' = {}
                 /\ ptable'[p].parent = p => p = 1
      <4>1. /\ Sleeps(ms, p, p) => Table!Zombies(p) = {}
            /\ ptable[p].parent = p => p = 1
        BY DEF Sound, Awaited
      <4>2. p \in 1 .. TicksChan /\ TicksChan # 0
        BY Numbers
      <4>3. Sleeps(Put(ms, t, k), p, p)' => Sleeps(ms, p, p)
        BY <2>1, <4>2 DEF Fewer
      <4>4. Table!Zombies(p) = {} => Table!Zombies(p)' = {}
        BY <2>2, Numbers DEF SameZombies, Table!Zombies, Table!Children
      <4>5. ~(ptable'[p].state = "SLEEPING" /\ ptable'[p].chan = TicksChan)
        BY <1>7, <3>1
      <4>6. ~Sleeps(Put(ms, t, k), p, TicksChan)'
        <5>1. CASE p = t
          BY <1>4, <1>5, <4>2, <4>5, <5>1, SleepsPut
        <5>2. CASE p # t
          <6>1. ms[p][1].want = 0 \/ ms[p][1].want # TicksChan
            BY <1>3, <3>1, <5>2, NoWants
          <6> QED  BY <1>5, <4>2, <4>5, <5>2, <6>1, SleepsPut
        <5> QED  BY <5>1, <5>2
      <4> QED  BY <1>7, <4>1, <4>3, <4>4, <4>6
    <3> QED  BY <3>2 DEF Awaited
  <2> QED  BY <2>3, <2>4
<1>12. ticks' \in Int /\ ticks0' \in [Procs -> Int]
  BY <1>6 DEF SchedTypes
<1> QED  BY <1>2, <1>4, <1>6, <1>9, <1>10, <1>11, <1>12, KeptTable

\* The children of p pass to init, which does not sleep on if one has ended.
LEMMA AbandonIs ==
  ASSUME Configured, NEW T \in [Procs -> Entries], NEW p \in Procs
  PROVE  /\ Table!Abandon(T, p) \in [Procs -> Entries]
         /\ \A s \in Procs :
              /\ Table!Abandon(T, p)[s].parent = IF T[s].parent = p THEN 1 ELSE T[s].parent
              /\ Same(T[s].state, Table!Abandon(T, p)[s].state)
              /\ Table!Abandon(T, p)[s].state = "SLEEPING" =>
                   /\ T[s].state = "SLEEPING" /\ Table!Abandon(T, p)[s].chan = T[s].chan
                   /\ \A z \in Procs : T[z].parent = p /\ T[z].state = "ZOMBIE" => T[s].chan # 1
<1> DEFINE orphans == {s \in Procs : T[s].parent = p}
           passed == [s \in Procs |-> IF s \in orphans THEN [T[s] EXCEPT !.parent = 1] ELSE T[s]]
           A == Table!Abandon(T, p)
<1>1. A = IF \E s \in orphans : T[s].state = "ZOMBIE" THEN Table!Wakeup1(passed, 1) ELSE passed
  BY Numbers DEF Table!Abandon, Table!initproc
<1>2. \A s \in Procs : /\ passed[s] \in Entries /\ passed[s].state = T[s].state /\ passed[s].chan = T[s].chan
                       /\ passed[s].parent = IF T[s].parent = p THEN 1 ELSE T[s].parent
  <2> TAKE s \in Procs
  <2> HIDE DEF A
  <2>1. T[s] \in Entries /\ 1 \in 0 .. NPROC
    BY DEF Configured
  <2> PICK e : e = [T[s] EXCEPT !.parent = 1]
    OBVIOUS
  <2>2. e \in Entries
    BY <2>1, EntryIs
  <2>3. e.parent = 1 /\ e.state = T[s].state /\ e.chan = T[s].chan
    BY <2>1 DEF Entries
  <2>4. passed[s] = IF T[s].parent = p THEN e ELSE T[s]
    OBVIOUS
  <2> HIDE DEF passed
  <2> QED  BY <2>1, <2>2, <2>3, <2>4
<1>3. passed \in [Procs -> Entries]
  BY <1>2
<1> HIDE DEF passed, A
<1>4. CASE \E s \in orphans : T[s].state = "ZOMBIE"
  <2>1. A = Table!Wakeup1(passed, 1)
    BY <1>1, <1>4
  <2>2. /\ A \in [Procs -> Entries]
        /\ \A s \in Procs : /\ A[s].parent = passed[s].parent /\ Same(passed[s].state, A[s].state)
                            /\ A[s].state = "SLEEPING" =>
                                 passed[s].state = "SLEEPING" /\ passed[s].chan # 1 /\ A[s].chan = passed[s].chan
    BY <1>3, <2>1, WakenIs
  <2> QED  BY <1>2, <2>2 DEF A
<1>5. CASE ~\E s \in orphans : T[s].state = "ZOMBIE"
  <2>1. A = passed
    BY <1>1, <1>5
  <2> QED  BY <1>2, <1>3, <1>5, <2>1 DEF A, Same
<1> QED  BY <1>4, <1>5

\* The end of p: what becomes of the table T
Ended(T, p, q) == [Table!Abandon(Table!Wakeup1(T, q), p) EXCEPT ![p].state = "ZOMBIE"]

\* What becomes of the entries
LEMMA ExitIs ==
  ASSUME Configured, NEW T \in [Procs -> Entries], NEW p \in Procs, NEW q,
         NEW U, U = Ended(T, p, q)
  PROVE  /\ U \in [Procs -> Entries] /\ U[p].state = "ZOMBIE"
         /\ \A s \in Procs : U[s].parent = IF T[s].parent = p THEN 1 ELSE T[s].parent
         /\ \A s \in Procs : s # p => Same(T[s].state, U[s].state)
         /\ \A s \in Procs : U[s].state = "SLEEPING" =>
              /\ T[s].state = "SLEEPING" /\ U[s].chan = T[s].chan /\ T[s].chan # q
              /\ \A z \in Procs : T[z].parent = p /\ T[z].state = "ZOMBIE" => T[s].chan # 1
<1> PICK V : V = Table!Wakeup1(T, q)
  OBVIOUS
<1> PICK A : A = Table!Abandon(V, p)
  OBVIOUS
<1>1. /\ V \in [Procs -> Entries]
      /\ \A s \in Procs : /\ V[s].parent = T[s].parent /\ Same(T[s].state, V[s].state)
                          /\ V[s].state = "SLEEPING" => T[s].state = "SLEEPING" /\ T[s].chan # q /\ V[s].chan = T[s].chan
  BY WakenIs
<1>2. /\ A \in [Procs -> Entries]
      /\ \A s \in Procs :
           /\ A[s].parent = IF V[s].parent = p THEN 1 ELSE V[s].parent
           /\ Same(V[s].state, A[s].state)
           /\ A[s].state = "SLEEPING" =>
                /\ V[s].state = "SLEEPING" /\ A[s].chan = V[s].chan
                /\ \A z \in Procs : V[z].parent = p /\ V[z].state = "ZOMBIE" => V[s].chan # 1
  BY <1>1, AbandonIs
<1> PICK e : e = [A[p] EXCEPT !.state = "ZOMBIE"]
  OBVIOUS
<1>3. U = [A EXCEPT ![p] = e]
  BY <1>2 DEF Ended
<1>4. e \in Entries /\ e.state = "ZOMBIE" /\ e.parent = A[p].parent
  <2>1. A[p] \in Entries /\ "ZOMBIE" \in States
    BY <1>2 DEF States
  <2>2. e \in Entries
    BY <2>1, EntryIs
  <2> QED  BY <2>1, <2>2 DEF Entries
<1>5. U \in [Procs -> Entries] /\ U[p] = e /\ \A s \in Procs : s # p => U[s] = A[s]
  BY <1>2, <1>3, <1>4
<1>6. \A z \in Procs : T[z].state = "ZOMBIE" => V[z].state = "ZOMBIE"
  BY <1>1 DEF Same
<1>7. \A s \in Procs : U[s].parent = A[s].parent /\ (s # p => U[s] = A[s])
  BY <1>4, <1>5
<1>8. \A s \in Procs : U[s].parent = IF T[s].parent = p THEN 1 ELSE T[s].parent
  BY <1>1, <1>2, <1>7
<1>9. \A s \in Procs : s # p => Same(T[s].state, U[s].state)
  BY <1>1, <1>2, <1>7 DEF Same
<1>10. ASSUME NEW s \in Procs, U[s].state = "SLEEPING"
       PROVE  /\ T[s].state = "SLEEPING" /\ U[s].chan = T[s].chan /\ T[s].chan # q
              /\ \A z \in Procs : T[z].parent = p /\ T[z].state = "ZOMBIE" => T[s].chan # 1
  <2>1. s # p
    BY <1>4, <1>5, <1>10
  <2>2. /\ V[s].state = "SLEEPING" /\ U[s].chan = V[s].chan
        /\ \A z \in Procs : V[z].parent = p /\ V[z].state = "ZOMBIE" => V[s].chan # 1
    BY <1>2, <1>5, <1>10, <2>1
  <2>3. T[s].state = "SLEEPING" /\ T[s].chan # q /\ V[s].chan = T[s].chan
    BY <1>1, <2>2
  <2> QED  BY <1>1, <1>6, <2>2, <2>3
<1> QED  BY <1>4, <1>5, <1>8, <1>9, <1>10

\* exit wakes up the parent, and init for the children that have ended.
LEMMA StepExit ==
  ASSUME Configured, SchedTypes, panicked = "no", NEW ms, Sound(ms), NEW c \in Cpus, Exit(c)
  PROVE  SchedTypes' /\ panicked' = "no" /\ \E ms2 : Sound(ms2)'
<1> PICK m : m = Mine(ms, c)
  OBVIOUS
<1> PICK t : t = Thread(c)
  OBVIOUS
<1>1. At(c, "exit")
  BY DEF Exit
<1>2. PICK k \in Mode :
        /\ Leads(<<"exit", Arg(c)>>, m, k) /\ Left(<< >> \o Tail(Top(c)), k)
        /\ Top(c) # << >> /\ m \in Mode /\ Views(cpus[c], m) /\ Registers(cpus[c])
  BY <1>1, Acting
<1>3. k = [m EXCEPT !.st = "dying"] /\ Inner(m) /\ m.kind = "call"
  BY <1>2 DEF Leads
<1>4. /\ k.lock = m.lock /\ k.kind = m.kind /\ k.st = "dying" /\ k.child = m.child /\ k.want = 0 /\ m.st = "run"
      /\ k.tick = m.tick /\ k.next = m.next /\ m.lock["ptable"] = "held" /\ m.want = 0
  BY <1>2, <1>3, ModeIs DEF Records, Inner, Ours
<1>5. t \in Procs /\ t = on[c] /\ t \in Threads /\ m = ms[t][1] /\ ptable[t].state = "RUNNING"
  BY <1>3, <1>4, CallIs DEF Mine
<1> PICK q : q = ptable[t].parent
  OBVIOUS
<1>6. /\ code' = Become(c, << >>) /\ panicked' = panicked /\ cpus' = cpus /\ ticks' = ticks /\ ticks0' = ticks0
      /\ on' = on /\ locks' = locks
      /\ ptable' = [Table!Abandon(Table!Wakeup1(ptable, q), t) EXCEPT ![t].state = "ZOMBIE"]
  BY <1>5 DEF Exit, Done
<1>7. /\ ptable' \in [Procs -> Entries] /\ ptable'[t].state = "ZOMBIE"
      /\ \A s \in Procs : ptable'[s].parent = IF ptable[s].parent = t THEN 1 ELSE ptable[s].parent
      /\ \A s \in Procs : s # t => Same(ptable[s].state, ptable'[s].state)
      /\ \A s \in Procs : ptable'[s].state = "SLEEPING" =>
           /\ ptable[s].state = "SLEEPING" /\ ptable'[s].chan = ptable[s].chan /\ ptable[s].chan # q
           /\ \A z \in Procs : ptable[z].parent = t /\ ptable[z].state = "ZOMBIE" => ptable[s].chan # 1
  <2>1. ptable \in [Procs -> Entries]
    BY DEF SchedTypes
  <2> PICK T : T = ptable
    OBVIOUS
  <2> PICK U : U = ptable'
    OBVIOUS
  <2>2. T \in [Procs -> Entries] /\ U = Ended(T, t, q)
    BY <1>6, <2>1 DEF Ended
  <2>3. /\ U \in [Procs -> Entries] /\ U[t].state = "ZOMBIE"
        /\ \A s \in Procs : U[s].parent = IF T[s].parent = t THEN 1 ELSE T[s].parent
        /\ \A s \in Procs : s # t => Same(T[s].state, U[s].state)
        /\ \A s \in Procs : U[s].state = "SLEEPING" =>
             /\ T[s].state = "SLEEPING" /\ U[s].chan = T[s].chan /\ T[s].chan # q
             /\ \A z \in Procs : T[z].parent = t /\ T[z].state = "ZOMBIE" => T[s].chan # 1
    BY <1>5, <2>2, ExitIs
  <2> QED  BY <2>3
<1>8. Views(cpus[c], k)
  BY <1>2, <1>3, <1>4 DEF Views, Count
<1>9. Goes(c, << >>, k) /\ Rewired(c, k) /\ Alike(m, k)
  BY <1>2, <1>4, <1>6, <1>8, CpusSame, Spaced DEF Goes, Rewired, Alike
<1>10. Tabled(c, k)
  BY <1>4, <1>5, <1>7 DEF Tabled, Same, Says
<1>11. Awaited(Put(ms, t, k))'
  <2>1. Ticking(ms) => Ticking(Put(ms, t, k))'
    BY <1>4, <1>6, TickingPut
  <2>2. ASSUME NEW p \in Procs
        PROVE  /\ Sleeps(Put(ms, t, k), p, TicksChan)' => Passed(p)' = 0 \/ Ticking(Put(ms, t, k))'
               /\ Sleeps(Put(ms, t, k), p, p)' => Table!Zombies(p)' = {}
               /\ ptable'[p].parent = p => p = 1
    <3>1. /\ Sleeps(ms, p, TicksChan) => Passed(p) = 0 \/ Ticking(ms)
          /\ Sleeps(ms, p, p) => Table!Zombies(p) = {}
          /\ ptable[p].parent = p => p = 1
      BY DEF Sound, Awaited
    <3>2. Passed(p)' = Passed(p)
      BY <1>6 DEF Passed
    <3>3. p = t => k.want = ms[t][1].want
      BY <1>4, <1>5
    <3>4. \A chan : Sleeps(Put(ms, t, k), p, chan)' => Sleeps(ms, p, chan)
      BY <1>5, <1>7, <3>3, SleepsLess
    <3>5. ASSUME Sleeps(Put(ms, t, k), p, p)' PROVE Table!Zombies(p)' = {}
      <4>1. p # 0 /\ p # TicksChan
        BY Numbers
      <4>2. p # t
        BY <1>4, <1>5, <1>7, <3>5, <4>1, SleepsPut
      <4>3. ms[p][1].want # p
        BY <1>4, <4>1, <4>2, NoWants
      <4>4. ptable'[p].state = "SLEEPING" /\ ptable'[p].chan = p
        BY <1>5, <3>5, <4>2, <4>3, SleepsPut
      <4>5. p # q /\ \A z \in Procs : ptable[z].parent = t /\ ptable[z].state = "ZOMBIE" => p # 1
        BY <1>7, <4>4
      <4>6. Table!Zombies(p) = {}
        BY <3>1, <3>4, <3>5
      <4>7. ASSUME NEW z \in Procs, ptable'[z].parent = p, ptable'[z].state = "ZOMBIE" PROVE FALSE
        <5>1. CASE z = t
          <6>1. ptable[t].parent = t => t = 1
            BY <1>5 DEF Sound, Awaited
          <6> QED  BY <1>5, <1>7, <4>2, <4>5, <4>7, <5>1, <6>1
        <5>2. CASE z # t
          <6>1. ptable[z].state = "ZOMBIE"
            BY <1>7, <4>7, <5>2 DEF Same
          <6>2. ptable[z].parent # t
            BY <1>7, <4>5, <4>7, <6>1
          <6>3. ptable[z].parent = p
            BY <1>7, <4>7, <6>2
          <6> QED  BY <4>6, <6>1, <6>3, Numbers DEF Table!Zombies, Table!Children
        <5> QED  BY <5>1, <5>2
      <4> QED  BY <4>7, Numbers DEF Table!Zombies, Table!Children
    <3>6. ptable'[p].parent = p => p = 1
      BY <1>7, <3>1
    <3> QED  BY <2>1, <3>1, <3>2, <3>4, <3>5, <3>6
  <2> QED  BY <2>2 DEF Awaited
<1>12. ticks' \in Int /\ ticks0' \in [Procs -> Int]
  BY <1>6 DEF SchedTypes
<1> QED  BY <1>2, <1>4, <1>6, <1>9, <1>10, <1>11, <1>12, KeptTable

\* A slot whose making ends, and the others
LEMMA KidsDone ==
  ASSUME Configured, SchedTypes, NEW ms, Sound(ms), NEW t \in Threads, NEW k \in Mode, k.child = 0,
         NEW a, ms[t][1].child = a, a # 0,
         \A p \in Procs : p # a /\ ptable[p].state = "EMBRYO" => ptable'[p].state = "EMBRYO"
  PROVE  Kids(Put(ms, t, k))'
<1> PICK P : P = Put(ms, t, k)
  OBVIOUS
<1>1. ms \in [Threads -> Seq(Mode)] /\ P \in [Threads -> Seq(Mode)] /\ Kids(ms)
  BY PutIs DEF Sound, Modes
<1>2. /\ Len(P[t]) = Len(ms[t]) /\ P[t][1] = k /\ \A i \in 1 .. Len(ms[t]) : i # 1 => P[t][i] = ms[t][i]
      /\ Len(ms[t]) \in 1 .. 3 /\ \A u \in Threads : u # t => P[u] = ms[u]
  BY PutIs
<1>3. DOMAIN P[t] = 1 .. Len(P[t]) /\ DOMAIN ms[t] = 1 .. Len(ms[t])
  BY <1>1
<1>4. ASSUME NEW u \in Threads, NEW i \in DOMAIN P[u], P[u][i].child # 0
      PROVE  i \in DOMAIN ms[u] /\ P[u][i].child = ms[u][i].child /\ ~(u = t /\ i = 1)
  <2>1. CASE u = t
    BY <1>2, <1>3, <1>4, <2>1
  <2>2. CASE u # t
    BY <1>2, <1>4, <2>2
  <2> QED  BY <2>1, <2>2
<1>5. t \in Threads /\ 1 \in DOMAIN ms[t]
  BY <1>2, <1>3
<1>6. ASSUME NEW u \in Threads, NEW i \in DOMAIN P[u], P[u][i].child # 0
      PROVE  /\ ptable'[P[u][i].child].state = "EMBRYO"
             /\ \A v \in Threads : \A j \in DOMAIN P[v] : P[v][j].child = P[u][i].child => v = u /\ j = i
  <2> PICK b : b = ms[u][i].child
    OBVIOUS
  <2>1. i \in DOMAIN ms[u] /\ P[u][i].child = b /\ ~(u = t /\ i = 1) /\ b # 0
    BY <1>4, <1>6
  <2>2. /\ ptable[b].state = "EMBRYO"
        /\ \A v \in Threads : \A j \in DOMAIN ms[v] : ms[v][j].child = b => v = u /\ j = i
    BY <1>1, <2>1 DEF Kids
  <2>3. b \in Procs
    <3>1. ms[u][i] \in Mode
      BY <1>1, <2>1
    <3>2. b \in 0 .. NPROC
      BY <3>1, ModeIs
    <3> QED  BY <2>1, <3>2 DEF Procs, Configured
  <2>4. b # a
    BY <1>5, <2>1, <2>2
  <2>5. \A v \in Threads : \A j \in DOMAIN P[v] : P[v][j].child = b => v = u /\ j = i
    BY <1>4, <2>1, <2>2
  <2> QED  BY <2>1, <2>2, <2>3, <2>4, <2>5
<1>7. Kids(P)'
  BY <1>6 DEF Kids
<1> QED  BY <1>7

\* A step that changes no lock, and which slots are made
LEMMA KeptKids ==
  ASSUME Configured, SchedTypes, NEW ms, Sound(ms), NEW c \in Cpus, NEW t, t = Thread(c), NEW k \in Mode,
         NEW x, Goes(c, x, k), Rewired(c, k), k.kind = Mine(ms, c).kind, k.next = Mine(ms, c).next,
         k.lock = Mine(ms, c).lock, ptable' \in [Procs -> Entries],
         \A p \in Procs : p # on[c] => Near(ptable[p].state, ptable'[p].state),
         on[c] # None => Says(ptable'[on[c]].state, k),
         Kids(Put(ms, t, k))', Awaited(Put(ms, t, k))', on' = on, locks' = locks, ticks' \in Int, ticks0' \in [Procs -> Int]
  PROVE  SchedTypes' /\ \E ms2 : Sound(ms2)'
<1>0. t \in Threads /\ Mine(ms, c) = ms[t][1] /\ Cpus \subseteq Threads
  BY MineIs DEF Mine, Threads
<1>1. /\ Top(c) # << >> /\ code' = Become(c, x) /\ x \in Seq(Instr) /\ Left(x \o Tail(Top(c)), k)
  BY DEF Goes
<1>2. /\ cpus' = [d \in Cpus |-> cpus'[d]] /\ \A d \in Cpus : d # c => cpus'[d] = cpus[d]
      /\ Registers(cpus'[c]) /\ Views(cpus'[c], k)
  BY DEF Rewired
<1>3. Moves(ms, Put(ms, t, k), c, k)
  BY MinePut DEF Moves
<1>4. /\ code' \in [Threads -> Seq(Seq(Instr))] /\ Stacks(Put(ms, t, k))'
      /\ \A u \in Threads : u # t => code'[u] = code[u]
  BY <1>1, StacksPut
<1>5. Viewed(Put(ms, t, k))'
  BY <1>2, <1>3, ViewedMoves
<1>6. Locked(Put(ms, t, k))'
  BY <1>3, LockedMoves DEF LocksAlike
<1>7. Off(Put(ms, t, k))'
  BY <1>4, OffPut
<1>8. Running(Put(ms, t, k))'
  BY <1>3, RunningMoves
<1>9. Boots(Put(ms, t, k))'
  <2>1. Last(Put(ms, t, k)) = Last(ms)
    BY <1>0, LastPut
  <2>2. \A d \in Cpus : d # Thread(c) => code'[d] = code[d]
    BY <1>0, <1>4
  <2> QED  BY <1>1, <1>2, <2>1, <2>2, BootsMoves
<1>10. Put(ms, t, k) \in Modes
  BY <1>0, PutIs
<1>11. SchedTypes'
  <2>1. \A d \in Cpus : Registers(cpus'[d])
    BY <1>2 DEF SchedTypes
  <2> QED  BY <1>2, <1>4, <2>1 DEF SchedTypes
<1>12. Sound(Put(ms, t, k))'
  BY <1>4, <1>5, <1>6, <1>7, <1>8, <1>9, <1>10 DEF Sound
<1> QED  BY <1>11, <1>12

\* fork lets the child run.
LEMMA StepRunnable ==
  ASSUME Configured, SchedTypes, panicked = "no", NEW ms, Sound(ms), NEW c \in Cpus, Runnable(c)
  PROVE  SchedTypes' /\ panicked' = "no" /\ \E ms2 : Sound(ms2)'
<1> PICK m : m = Mine(ms, c)
  OBVIOUS
<1> PICK t : t = Thread(c)
  OBVIOUS
<1> PICK a : a = Arg(c)
  OBVIOUS
<1>1. At(c, "runnable")
  BY DEF Runnable
<1>2. PICK k \in Mode :
        /\ Leads(<<"runnable", a>>, m, k) /\ Left(<< >> \o Tail(Top(c)), k)
        /\ Top(c) # << >> /\ m \in Mode /\ Views(cpus[c], m) /\ Registers(cpus[c])
        /\ (on[c] # None => Says(ptable[on[c]].state, m))
  BY <1>1, Acting
<1>3. Inner(m) /\ m.child = a /\ a # 0 /\ k = [m EXCEPT !.child = 0]
  BY <1>2 DEF Leads
<1>4. /\ k.lock = m.lock /\ k.kind = m.kind /\ k.st = m.st /\ k.child = 0 /\ k.want = m.want
      /\ k.tick = m.tick /\ k.next = m.next /\ a \in 0 .. NPROC
  BY <1>2, <1>3, ModeIs DEF Records
<1>5. t \in Threads /\ m = ms[t][1] /\ (on[c] # None => on[c] \in Procs) /\ Len(ms[t]) \in 1 .. 3 /\ a \in Procs
  BY <1>3, <1>4, MineIs DEF Mine, Procs, Configured
<1>6. /\ code' = Become(c, << >>) /\ panicked' = panicked /\ cpus' = cpus /\ ticks' = ticks /\ ticks0' = ticks0
      /\ on' = on /\ locks' = locks /\ ptable' = [ptable EXCEPT ![a] = [ptable[a] EXCEPT !.state = "RUNNABLE"]]
  BY DEF Runnable, Done
<1>7. /\ ptable' \in [Procs -> Entries] /\ \A p \in Procs : p # a => ptable'[p] = ptable[p]
      /\ ptable'[a].state = "RUNNABLE" /\ ptable'[a].parent = ptable[a].parent
  <2>1. ptable \in [Procs -> Entries] /\ "RUNNABLE" \in States
    BY DEF SchedTypes, States
  <2>2. [ptable[a] EXCEPT !.state = "RUNNABLE"] \in Entries
    BY <1>5, <2>1, EntryIs
  <2> QED  BY <1>5, <1>6, <2>1, <2>2 DEF Entries
<1>8. ptable[a].state = "EMBRYO"
  <2>1. 1 \in DOMAIN ms[t]
    BY <1>5 DEF Sound, Modes
  <2> QED  BY <1>3, <1>5, <2>1 DEF Sound, Kids
<1>9. a # on[c]
  <2>1. on[c] # None => ptable[on[c]].state # "EMBRYO"
    BY DEF Sound, Running
  <2> QED  BY <1>5, <1>8, <2>1, Numbers DEF None
<1>10. Views(cpus[c], k)
  BY <1>2, <1>4 DEF Views, Count
<1>11. Goes(c, << >>, k) /\ Rewired(c, k)
  BY <1>2, <1>6, <1>10, CpusSame, Spaced DEF Goes, Rewired
<1>12. /\ \A p \in Procs : p # on[c] => Near(ptable[p].state, ptable'[p].state)
       /\ on[c] # None => Says(ptable'[on[c]].state, k)
  BY <1>2, <1>4, <1>5, <1>7, <1>8, <1>9 DEF Near, Says
<1>13. Kids(Put(ms, t, k))'
  <2>1. \A p \in Procs : p # a /\ ptable[p].state = "EMBRYO" => ptable'[p].state = "EMBRYO"
    BY <1>7
  <2>2. k.child = 0 /\ ms[t][1].child = a /\ a # 0 /\ t \in Threads
    BY <1>3, <1>4, <1>5
  <2> QED  BY <2>1, <2>2, KidsDone
<1>14. Awaited(Put(ms, t, k))'
  <2>1. Fewer(ms, Put(ms, t, k))
    BY <1>4, <1>5, <1>7, SleepsLess DEF Fewer
  <2>2. SameZombies
    BY <1>7 DEF SameZombies
  <2>3. Ticking(ms) => Ticking(Put(ms, t, k))'
    BY <1>4, <1>6, TickingPut
  <2> QED  BY <1>6, <2>1, <2>2, <2>3, AwaitedLess
<1>15. ticks' \in Int /\ ticks0' \in [Procs -> Int]
  BY <1>6 DEF SchedTypes
<1> QED  BY <1>4, <1>6, <1>7, <1>11, <1>12, <1>13, <1>14, <1>15, KeptKids

-----------------------------------------------------------------------------
(* Steps that begin and end the thread of another process *)

\* No processor runs s.
Parked(s) == \A d \in Cpus : on[d] # s

Two(ms, t, k, s, z) == [Put(ms, t, k) EXCEPT ![s] = z]

\* The modes when the thread of c goes on to k, and that of s, on no processor, is z
LEMMA TwoIs ==
  ASSUME Configured, SchedTypes, NEW ms, Sound(ms), NEW c \in Cpus, NEW t, t = Thread(c), NEW k \in Mode,
         NEW s \in Procs, Parked(s), NEW z \in Seq(Mode), NEW P, P = Two(ms, t, k, s, z)
  PROVE  /\ P \in Modes /\ P[s] = z /\ s # t /\ s \in Threads /\ s # Boot /\ t \in Threads
         /\ \A u \in Threads : u # s => P[u] = Put(ms, t, k)[u]
         /\ \A u \in Threads : u # s /\ u # t => P[u] = ms[u]
         /\ P[t][1] = k /\ Len(P[t]) = Len(ms[t]) /\ Len(ms[t]) \in 1 .. 3
         /\ \A i \in 1 .. Len(ms[t]) : i # 1 => P[t][i] = ms[t][i]
         /\ on' = on => Moves(ms, P, c, k)
<1>1. t \in Threads /\ (on[c] = None => t = c) /\ (on[c] # None => t = on[c])
  BY MineIs
<1>2. s # t /\ s \in Threads /\ s # Boot
  BY <1>1, Numbers DEF Threads, Parked
<1>3. /\ Put(ms, t, k) \in Modes /\ Put(ms, t, k)[t][1] = k /\ \A u \in Threads : u # t => Put(ms, t, k)[u] = ms[u]
      /\ Len(Put(ms, t, k)[t]) = Len(ms[t]) /\ Len(ms[t]) \in 1 .. 3
      /\ \A i \in 1 .. Len(ms[t]) : i # 1 => Put(ms, t, k)[t][i] = ms[t][i]
  BY <1>1, PutIs
<1>4. P \in Modes /\ P[s] = z /\ \A u \in Threads : u # s => P[u] = Put(ms, t, k)[u]
  BY <1>2, <1>3 DEF Two, Modes
<1>5. ASSUME on' = on PROVE Moves(ms, P, c, k)
  <2>1. /\ Mine(Put(ms, t, k), c)' = k
        /\ \A d \in Cpus : d # c => Mine(Put(ms, t, k), d)' = Mine(ms, d) /\ Thread(d) # t
        /\ \A d \in Cpus : Thread(d)' = Thread(d)
    BY <1>5, MinePut
  <2>2. \A d \in Cpus : Thread(d) \in Threads /\ Thread(d) # s
    BY MineIs, Numbers DEF Parked
  <2>3. \A d \in Cpus : Mine(P, d)' = Mine(Put(ms, t, k), d)'
    BY <1>4, <2>1, <2>2 DEF Mine
  <2> QED  BY <2>1, <2>3 DEF Moves
<1> QED  BY <1>1, <1>2, <1>3, <1>4, <1>5

\* A tick on its way stays so when c keeps its own.
LEMMA TickingMoves ==
  ASSUME NEW ms, NEW P, NEW c \in Cpus, NEW k, Moves(ms, P, c, k), k.tick = Mine(ms, c).tick
  PROVE  Ticking(ms) => Ticking(P)'
<1> SUFFICES ASSUME NEW d \in Cpus, Mine(ms, d).tick PROVE Ticking(P)'
  BY DEF Ticking
<1>1. Mine(P, d)'.tick
  BY DEF Moves
<1> QED  BY <1>1 DEF Ticking

\* A slot has one maker, who is c for s.
LEMMA KidsTwo ==
  ASSUME Configured, SchedTypes, NEW ms, Sound(ms), NEW c \in Cpus, NEW t, t = Thread(c), NEW k \in Mode,
         NEW s \in Procs, Parked(s), NEW z \in Seq(Mode), NEW P, P = Two(ms, t, k, s, z),
         \A i \in 1 .. Len(z) : z[i].child = 0,
         \A p \in Procs : ptable[p].state = "EMBRYO" => ptable'[p].state = "EMBRYO",
         \/ k.child = ms[t][1].child
         \/ k.child = s /\ ptable[s].state = "UNUSED" /\ ptable'[s].state = "EMBRYO"
  PROVE  Kids(P)'
<1>1. /\ P \in Modes /\ P[s] = z /\ s # t /\ s \in Threads /\ t \in Threads
      /\ \A u \in Threads : u # s /\ u # t => P[u] = ms[u]
      /\ P[t][1] = k /\ Len(P[t]) = Len(ms[t])
      /\ \A i \in 1 .. Len(ms[t]) : i # 1 => P[t][i] = ms[t][i]
  BY TwoIs
<1>2. ms \in [Threads -> Seq(Mode)] /\ P \in [Threads -> Seq(Mode)] /\ Kids(ms)
  BY <1>1 DEF Sound, Modes
<1>3. \A u \in Threads : DOMAIN P[u] = 1 .. Len(P[u]) /\ DOMAIN ms[u] = 1 .. Len(ms[u])
  BY <1>2
<1>4. ASSUME NEW u \in Threads, NEW i \in DOMAIN P[u], P[u][i].child # 0
      PROVE  \/ i \in DOMAIN ms[u] /\ P[u][i].child = ms[u][i].child /\ P[u][i].child \in Procs
             \/ u = t /\ i = 1 /\ P[u][i].child = s /\ ptable[s].state = "UNUSED" /\ ptable'[s].state = "EMBRYO"
  <2>1. CASE u = s
    BY <1>1, <1>3, <1>4, <2>1
  <2>2. CASE u = t /\ i = 1 /\ k.child = s /\ ptable[s].state = "UNUSED" /\ ptable'[s].state = "EMBRYO"
    BY <1>1, <2>2
  <2>3. CASE u # s /\ ~(u = t /\ i = 1 /\ k.child = s /\ ptable[s].state = "UNUSED" /\ ptable'[s].state = "EMBRYO")
    <3>1. i \in DOMAIN ms[u] /\ P[u][i].child = ms[u][i].child
      <4>1. CASE u = t
        BY <1>1, <1>3, <2>3, <4>1
      <4>2. CASE u # t
        BY <1>1, <2>3, <4>2
      <4> QED  BY <4>1, <4>2
    <3>2. ms[u][i] \in Mode
      BY <1>2, <3>1
    <3>3. ms[u][i].child \in 0 .. NPROC
      BY <3>2, ModeIs
    <3> QED  BY <1>4, <3>1, <3>3 DEF Procs, Configured
  <2> QED  BY <2>1, <2>2, <2>3
<1>5. ASSUME NEW u \in Threads, NEW i \in DOMAIN P[u], P[u][i].child # 0
      PROVE  /\ ptable'[P[u][i].child].state = "EMBRYO"
             /\ \A v \in Threads : \A j \in DOMAIN P[v] : P[v][j].child = P[u][i].child => v = u /\ j = i
  <2> PICK b : b = P[u][i].child
    OBVIOUS
  <2>0. b # 0
    BY <1>5
  <2>1. \/ i \in DOMAIN ms[u] /\ b = ms[u][i].child /\ b \in Procs
        \/ u = t /\ i = 1 /\ b = s /\ ptable[s].state = "UNUSED" /\ ptable'[s].state = "EMBRYO"
    BY <1>4, <1>5
  <2>2. ASSUME NEW v \in Threads, NEW j \in DOMAIN P[v], P[v][j].child = b
        PROVE  \/ j \in DOMAIN ms[v] /\ b = ms[v][j].child /\ b \in Procs
               \/ v = t /\ j = 1 /\ b = s /\ ptable[s].state = "UNUSED" /\ ptable'[s].state = "EMBRYO"
    BY <1>4, <2>0, <2>2
  <2>3. CASE i \in DOMAIN ms[u] /\ b = ms[u][i].child /\ b \in Procs
    <3>1. /\ ptable[b].state = "EMBRYO"
          /\ \A v \in Threads : \A j \in DOMAIN ms[v] : ms[v][j].child = b => v = u /\ j = i
      BY <1>2, <2>0, <2>3 DEF Kids
    <3>2. \A v \in Threads : \A j \in DOMAIN P[v] : P[v][j].child = b => v = u /\ j = i
      BY <2>2, <3>1
    <3> QED  BY <2>3, <3>1, <3>2
  <2>4. CASE u = t /\ i = 1 /\ b = s /\ ptable[s].state = "UNUSED" /\ ptable'[s].state = "EMBRYO"
    <3>1. ASSUME NEW v \in Threads, NEW j \in DOMAIN P[v], P[v][j].child = b
          PROVE  v = u /\ j = i
      <4>1. ~(j \in DOMAIN ms[v] /\ b = ms[v][j].child)
        BY <1>2, <2>0, <2>4 DEF Kids
      <4> QED  BY <2>2, <2>4, <3>1, <4>1
    <3> QED  BY <2>4, <3>1
  <2> QED  BY <2>1, <2>3, <2>4
<1> QED  BY <1>5 DEF Kids

\* c goes on, and the thread of s begins or ends.
LEMMA KeptTwo ==
  ASSUME Configured, SchedTypes, NEW ms, Sound(ms), NEW c \in Cpus, NEW t, t = Thread(c), NEW k \in Mode,
         NEW s \in Procs, Parked(s), NEW z, NEW y, Stack(s, y, z),
         NEW P, P = Two(ms, t, k, s, z),
         NEW x \in Seq(Instr), Top(c) # << >>, Left(x \o Tail(Top(c)), k), code' = [Become(c, x) EXCEPT ![s] = y],
         k.kind = Mine(ms, c).kind, k.next = Mine(ms, c).next, k.lock = Mine(ms, c).lock, k.st = Mine(ms, c).st,
         ptable' \in [Procs -> Entries], \A p \in Procs : p # s => ptable'[p] = ptable[p], Waits(ms, P, s),
         Kids(P)', Awaited(P)',
         cpus' = cpus, on' = on, locks' = locks, ticks' = ticks, ticks0' = ticks0
  PROVE  SchedTypes' /\ \E ms2 : Sound(ms2)'
<1>0. z \in Seq(Mode) /\ y \in Seq(Seq(Instr))
  BY DEF Stack
<1>1. /\ P \in Modes /\ P[s] = z /\ s # t /\ s \in Threads /\ s # Boot /\ t \in Threads
      /\ \A u \in Threads : u # s => P[u] = Put(ms, t, k)[u]
      /\ \A u \in Threads : u # s /\ u # t => P[u] = ms[u]
      /\ Moves(ms, P, c, k)
  BY <1>0, TwoIs
<1>2. /\ Become(c, x) \in [Threads -> Seq(Seq(Instr))] /\ x \o Tail(Top(c)) \in Seq(Instr)
      /\ Become(c, x)[t] = First(code[t], x \o Tail(Top(c)))
      /\ \A u \in Threads : u # t => Become(c, x)[u] = code[u]
  BY BecomeIs
<1>3. /\ code' \in [Threads -> Seq(Seq(Instr))] /\ code'[s] = y
      /\ \A u \in Threads : u # s => code'[u] = Become(c, x)[u]
  BY <1>0, <1>1, <1>2
<1>4. Mine(ms, c) = ms[t][1] /\ \A u \in Threads : Stack(u, code[u], ms[u])
  BY DEF Mine, Sound, Stacks
<1>5. Stacks(P)'
  <2>1. Stack(t, code'[t], P[t])
    <3> PICK w : w = x \o Tail(Top(c))
      OBVIOUS
    <3>1. Stack(t, code[t], ms[t]) /\ w \in Seq(Instr) /\ Left(w, k) /\ k.kind = ms[t][1].kind
      BY <1>1, <1>2, <1>4
    <3>2. Stack(t, First(code[t], w), First(ms[t], k))
      BY <3>1, StackPut
    <3>3. code'[t] = First(code[t], w)
      BY <1>1, <1>2, <1>3
    <3>4. Put(ms, t, k)[t] = First(ms[t], k)
      BY <1>1, PutIs
    <3>5. P[t] = First(ms[t], k)
      BY <1>1, <3>4
    <3> QED  BY <3>2, <3>3, <3>5
  <2>2. \A u \in Threads : u # s /\ u # t => Stack(u, code'[u], P[u])
    BY <1>1, <1>2, <1>3, <1>4
  <2>3. \A u \in Threads : Stack(u, code'[u], P[u])
    BY <1>1, <1>3, <2>1, <2>2
  <2> QED  BY <2>3 DEF Stacks
<1>6. Views(cpus[c], k)
  BY DEF Sound, Viewed, Views, Count
<1>7. Viewed(P)'
  BY <1>1, <1>6, ViewedMoves
<1>8. Locked(P)'
  BY <1>1, LockedMoves DEF LocksAlike
<1>9. Off(P)'
  <2>1. ASSUME NEW d \in Cpus, on[d] # None PROVE P[d] = ms[d]
    <3>1. d # t /\ d # s /\ d \in Threads
      BY <2>1, MineIs, MinesDiffer, Numbers DEF Threads, Thread
    <3> QED  BY <1>1, <3>1
  <2>2. ASSUME NEW p \in Procs, \A d \in Cpus : on[d] # p PROVE Waits(ms, P, p)
    <3>1. CASE p = s
      BY <3>1
    <3>2. CASE p # s
      <4>1. p # t /\ p \in Threads
        <5>1. (on[c] = None => t = c) /\ (on[c] # None => t = on[c])
          BY MineIs
        <5> QED  BY <2>2, <5>1, Numbers DEF Threads
      <4> QED  BY <1>1, <1>2, <1>3, <3>2, <4>1 DEF Waits, Near
    <3> QED  BY <3>1, <3>2
  <2> QED  BY <2>1, <2>2, OffMoves
<1>10. Running(P)'
  <2>1. \A p \in Procs : p # on[c] => Near(ptable[p].state, ptable'[p].state) \/ \A d \in Cpus : on[d] # p
    BY DEF Near, Parked
  <2>2. on[c] # None => Says(ptable'[on[c]].state, k)
    <3>1. on[c] # None => on[c] \in Procs /\ on[c] # s
      BY MineIs DEF Parked
    <3>2. on[c] # None => ptable'[on[c]] = ptable[on[c]]
      BY <3>1
    <3>3. on[c] # None => Says(ptable[on[c]].state, Mine(ms, c))
      BY DEF Says, Sound, Running
    <3> QED  BY <3>2, <3>3 DEF Says
  <2> QED  BY <1>1, <2>1, <2>2, RunningMoves
<1>11. Boots(P)'
  <2>1. Last(P) = Last(ms)
    <3>1. Last(Put(ms, t, k)) = Last(ms)
      BY <1>1, <1>4, LastPut
    <3>2. Boot \in Threads
      BY Numbers DEF Threads
    <3> QED  BY <1>1, <3>1, <3>2 DEF Last
  <2>2. \A d \in Cpus : d # Thread(c) => code'[d] = code[d]
    BY <1>1, <1>2, <1>3, Numbers DEF Threads
  <2> QED  BY <2>1, <2>2, BootsMoves
<1>12. SchedTypes'
  BY <1>3 DEF SchedTypes
<1>13. Sound(P)'
  BY <1>1, <1>5, <1>7, <1>8, <1>9, <1>10, <1>11 DEF Sound
<1> QED  BY <1>12, <1>13

\* Nobody sleeps for more than before when s, which does not sleep, begins or ends.
LEMMA AwaitedTwo ==
  ASSUME Configured, SchedTypes, NEW ms, Sound(ms), NEW c \in Cpus, NEW t, t = Thread(c), NEW k \in Mode,
         NEW s \in Procs, Parked(s), NEW z \in Seq(Mode), NEW P, P = Two(ms, t, k, s, z),
         z[1].want = 0, k.want = ms[t][1].want, k.tick = ms[t][1].tick,
         \A p \in Procs : p # s => ptable'[p] = ptable[p],
         ptable'[s].state \in {"UNUSED", "EMBRYO"}, ptable'[s].parent # s,
         on' = on, ticks' = ticks, ticks0' = ticks0
  PROVE  Awaited(P)'
<1>1. /\ P[s] = z /\ s # t /\ t \in Threads /\ P[t][1] = k
      /\ \A u \in Threads : u # s /\ u # t => P[u] = ms[u]
      /\ Moves(ms, P, c, k)
  BY TwoIs
<1>2. Fewer(ms, P)
  <2> SUFFICES ASSUME NEW p \in Procs, NEW chan \in 1 .. TicksChan, Sleeps(P, p, chan)' PROVE Sleeps(ms, p, chan)
    BY DEF Fewer
  <2>1. P[p][1].want = chan \/ (ptable'[p].state = "SLEEPING" /\ ptable'[p].chan = chan)
    BY DEF Sleeps
  <2>2. CASE p = s
    BY <1>1, <2>1, <2>2
  <2>3. CASE p # s
    <3>1. P[p][1].want = ms[p][1].want
      BY <1>1, <2>3 DEF Threads
    <3> QED  BY <2>1, <2>3, <3>1 DEF Sleeps
  <2> QED  BY <2>2, <2>3
<1>3. SameZombies
  BY DEF SameZombies
<1>4. Ticking(ms) => Ticking(P)'
  <2>1. k.tick = Mine(ms, c).tick
    BY DEF Mine
  <2> QED  BY <1>1, <2>1, TickingMoves
<1> QED  BY <1>2, <1>3, <1>4, AwaitedLess

\* A new process begins as if it had called.
LEMMA NewStack ==
  ASSUME Configured, NEW s \in Procs
  PROVE  LET h == WithLock(Fresh("call"), "ptable", "held")
         IN /\ Stack(s, <<ForkRet, << >> >>, <<h, Fresh("user")>>) /\ Ready(h)
            /\ h.child = 0 /\ h.want = 0 /\ Fresh("user").child = 0
<1> PICK h : h = WithLock(Fresh("call"), "ptable", "held")
  OBVIOUS
<1> PICK f : f = Fresh("user")
  OBVIOUS
<1>1. h \in Mode /\ Inner(h) /\ h.kind = "call" /\ h.child = 0 /\ Left(ForkRet, h)
  BY ForkRetLeft
<1>2. f \in Mode /\ Idle(f) /\ f.kind = "user" /\ f.child = 0
  BY FreshIs DEF Kinds
<1>3. Left(<< >>, f)
  BY <1>2, LeftEmpty
<1>4. ForkRet \in Seq(Instr) /\ << >> \in Seq(Instr)
  BY <1>1, Spaced DEF Left, Path
<1> PICK r : r = ForkRet
  OBVIOUS
<1> PICK e : e = << >>
  OBVIOUS
<1> PICK y : y = <<r, e>>
  OBVIOUS
<1> PICK z : z = <<h, f>>
  OBVIOUS
<1>5. /\ y \in Seq(Seq(Instr)) /\ z \in Seq(Mode) /\ Len(y) = 2 /\ Len(z) = 2
      /\ y[1] = r /\ y[2] = e /\ z[1] = h /\ z[2] = f
  BY <1>1, <1>2, <1>4
<1>6. Left(y[1], z[1]) /\ Left(y[2], z[2]) /\ Idle(z[2])
  BY <1>1, <1>2, <1>3, <1>5
<1>7. \A i \in 1 .. Len(z) : Left(y[i], z[i]) /\ (i > 1 => Idle(z[i]))
  <2> TAKE i \in 1 .. Len(z)
  <2>1. i = 1 \/ i = 2
    BY <1>5
  <2> QED  BY <1>6, <2>1
<1>8. Shaped(s, z)
  BY <1>1, <1>2, <1>5 DEF Shaped
<1>9. Stack(s, y, z)
  BY <1>5, <1>7, <1>8 DEF Stack
<1>10. Ready(h) /\ h.want = 0
  BY <1>1 DEF Inner, Ready
<1> QED  BY <1>1, <1>2, <1>9, <1>10

\* allocproc takes a slot that nobody makes or runs.
LEMMA StepAllocProc ==
  ASSUME Configured, SchedTypes, panicked = "no", NEW ms, Sound(ms), NEW c \in Cpus, AllocProc(c)
  PROVE  SchedTypes' /\ panicked' = "no" /\ \E ms2 : Sound(ms2)'
<1> PICK m : m = Mine(ms, c)
  OBVIOUS
<1> PICK t : t = Thread(c)
  OBVIOUS
<1>1. At(c, "allocproc")
  BY DEF AllocProc
<1>2. PICK n \in Mode :
        /\ Leads(<<"allocproc", Arg(c)>>, m, n) /\ Left(<< >> \o Tail(Top(c)), n) /\ Left(Tail(Top(c)), n)
        /\ Top(c) # << >> /\ m \in Mode /\ Views(cpus[c], m) /\ Registers(cpus[c])
  BY <1>1, Acting
<1>3. Inner(m) /\ m.kind \in {"main", "call"} /\ m.child = 0 /\ n = m
  BY <1>2 DEF Leads
<1>4. /\ panicked' = panicked /\ cpus' = cpus /\ ticks0' = ticks0
      /\ on' = on /\ locks' = locks /\ ticks' = ticks
  BY DEF AllocProc
<1>5. CASE Table!Unused = {}
  <2>3. code' = Become(c, << >>) /\ ptable' = ptable
    BY <1>5 DEF AllocProc, Done
  <2>8. Goes(c, << >>, m) /\ Rewired(c, m)
    BY <1>2, <1>3, <1>4, <2>3, CpusSame, Spaced DEF Goes, Rewired
  <2> QED  BY <1>4, <2>3, <2>8, SameMode
<1>6. CASE Table!Unused # {}
  <2> PICK s : s = CHOOSE u \in Table!Unused : \A v \in Table!Unused : u <= v
    OBVIOUS
  <2>3. s \in Procs /\ ptable[s].state = "UNUSED"
    <3>1. Table!Unused \in SUBSET Nat /\ Table!Unused \subseteq Procs /\ \A u \in Table!Unused : ptable[u].state = "UNUSED"
      BY Numbers DEF Table!Unused
    <3>2. \E u \in Table!Unused : \A v \in Table!Unused : u <= v
      BY <1>6, <3>1, LeastNumber
    <3>3. s \in Table!Unused
      BY <3>2
    <3> QED  BY <3>1, <3>3
  <2> PICK x : x = Release("ptable") \o Acquire("ptable") \o << <<"runnable", s>> >>
    OBVIOUS
  <2>4. PICK y : y = <<ForkRet, << >> >>
    OBVIOUS
  <2>5. PICK h : h = WithLock(Fresh("call"), "ptable", "held")
    OBVIOUS
  <2>6. PICK z : z = <<h, Fresh("user")>>
    OBVIOUS
  <2>7. PICK k : k = [m EXCEPT !.child = s]
    OBVIOUS
  <2> PICK P : P = Two(ms, t, k, s, z)
    OBVIOUS
  <2>8. k \in Mode /\ Path(x, k, m)
    BY <1>2, <1>3, <2>3, <2>7, AllocPath
  <2>9. /\ k.lock = m.lock /\ k.kind = m.kind /\ k.st = m.st /\ k.child = s /\ k.want = m.want
        /\ k.tick = m.tick /\ k.next = m.next
    BY <1>2, <2>7 DEF Mode, Records
  <2>10. x \in Seq(Instr) /\ Left(x \o Tail(Top(c)), k)
    <3>1. Left(Tail(Top(c)), m)
      BY <1>2, <1>3
    <3>2. Left(x \o Tail(Top(c)), k)
      BY <2>8, <3>1, LeftJoined
    <3>3. x \in Seq(Instr)
      BY <2>8 DEF Path
    <3> QED  BY <3>2, <3>3
  <2>11. /\ ptable' = [ptable EXCEPT ![s].state = "EMBRYO", ![s].parent = on[c]]
        /\ code' = [Become(c, x) EXCEPT ![s] = y]
    BY <1>6, <2>4 DEF AllocProc
  <2>12. Parked(s)
    BY <2>3, Numbers DEF Parked, Sound, Running, None
  <2>13. on[c] \in 0 .. NPROC /\ on[c] # s
    BY <2>12, Numbers DEF Parked, SchedTypes, None, Configured
  <2>14. /\ ptable' \in [Procs -> Entries] /\ \A p \in Procs : p # s => ptable'[p] = ptable[p]
        /\ ptable'[s].state = "EMBRYO" /\ ptable'[s].parent = on[c]
    <3>1. ptable \in [Procs -> Entries] /\ "EMBRYO" \in States
      BY DEF SchedTypes, States
    <3> PICK d : d = [ptable[s] EXCEPT !.state = "EMBRYO"]
      OBVIOUS
    <3> PICK e : e = [d EXCEPT !.parent = on[c]]
      OBVIOUS
    <3>2. d \in Entries /\ d.state = "EMBRYO"
      BY <2>3, <3>1, EntryIs DEF Entries
    <3>3. e \in Entries /\ e.state = "EMBRYO" /\ e.parent = on[c]
      BY <2>13, <3>2, EntryIs DEF Entries
    <3> PICK T : T = [ptable EXCEPT ![s].state = "EMBRYO"]
      OBVIOUS
    <3>4. T \in [Procs -> Entries] /\ T[s] = d /\ \A p \in Procs : p # s => T[p] = ptable[p]
      BY <2>3, <3>1, <3>2
    <3>5. ptable' = [T EXCEPT ![s].parent = on[c]]
      BY <2>11
    <3>6. ptable' = [T EXCEPT ![s] = e]
      BY <2>3, <3>4, <3>5
    <3> QED  BY <2>3, <3>3, <3>4, <3>6
  <2>15. /\ Stack(s, y, z) /\ Ready(h) /\ h.child = 0 /\ h.want = 0 /\ Fresh("user").child = 0
        /\ z \in Seq(Mode) /\ z[1] = h /\ Len(z) = 2 /\ z[2] = Fresh("user")
    BY <2>3, <2>4, <2>5, <2>6, NewStack DEF Stack
  <2>16. P[s] = z
    <3>1. z \in Seq(Mode)
      BY <2>15
    <3> QED  BY <2>3, <2>8, <2>12, <3>1, TwoIs
  <2>17. Waits(ms, P, s)
    BY <2>14, <2>15, <2>16 DEF Waits
  <2>18. Kids(P)'
    <3>1. \A i \in 1 .. Len(z) : z[i].child = 0
      BY <2>15
    <3>2. \A p \in Procs : ptable[p].state = "EMBRYO" => ptable'[p].state = "EMBRYO"
      BY <2>14
    <3> QED  BY <2>3, <2>8, <2>9, <2>12, <2>14, <2>15, <3>1, <3>2, KidsTwo
  <2>19. Awaited(P)'
    <3>1. m = ms[t][1]
      BY DEF Mine
    <3>2. k.want = ms[t][1].want /\ k.tick = ms[t][1].tick
      BY <2>9, <3>1
    <3>3. ptable'[s].state \in {"UNUSED", "EMBRYO"} /\ ptable'[s].parent # s
      BY <2>13, <2>14
    <3>4. z[1].want = 0 /\ z \in Seq(Mode) /\ \A p \in Procs : p # s => ptable'[p] = ptable[p]
      BY <2>14, <2>15
    <3> QED  BY <1>4, <2>3, <2>8, <2>12, <3>2, <3>3, <3>4, AwaitedTwo
  <2>20. /\ k.kind = Mine(ms, c).kind /\ k.next = Mine(ms, c).next /\ k.lock = Mine(ms, c).lock
         /\ k.st = Mine(ms, c).st
    BY <2>9
  <2>21. ptable' \in [Procs -> Entries] /\ \A p \in Procs : p # s => ptable'[p] = ptable[p]
    BY <2>14
  <2>22. code' = [Become(c, x) EXCEPT ![s] = y] /\ Stack(s, y, z) /\ Top(c) # << >>
    BY <1>2, <2>11, <2>15
  <2> QED  BY <1>4, <2>3, <2>8, <2>10, <2>12, <2>17, <2>18, <2>19, <2>20, <2>21, <2>22, KeptTwo
<1> QED  BY <1>5, <1>6

\* What wait frees is on no processor: the one that it ended on would hold ptable.lock.
LEMMA ZombieParked ==
  ASSUME Configured, SchedTypes, NEW ms, Sound(ms), NEW c \in Cpus, Inner(Mine(ms, c)),
         NEW s \in Procs, ptable[s].state = "ZOMBIE"
  PROVE  Parked(s)
<1> SUFFICES ASSUME NEW d \in Cpus, on[d] = s PROVE FALSE
  BY DEF Parked
<1>1. on[d] # None
  BY Numbers DEF None
<1>2. Mine(ms, d).st = "dying" /\ Mine(ms, d) \in Mode
  BY <1>1, MineIs DEF Sound, Running
<1>3. Mine(ms, d).lock["ptable"] = "held"
  BY <1>2, ModeIs DEF Lawful, Ours
<1>4. Mine(ms, c).lock["ptable"] = "held" /\ Mine(ms, c).st = "run"
  BY DEF Inner, Ours
<1>5. c = d
  <2>1. \A l \in Lock : Mine(ms, c).lock[l] \in Inside /\ Mine(ms, d).lock[l] \in Inside => c = d
    BY DEF Sound, Locked
  <2>2. "ptable" \in Lock /\ "held" \in Inside
    BY DEF Lock, Inside
  <2> QED  BY <1>3, <1>4, <2>1, <2>2
<1> QED  BY <1>2, <1>4, <1>5

\* wait frees a child on no processor, or sleeps while no child has ended.
LEMMA StepWait ==
  ASSUME Configured, SchedTypes, panicked = "no", NEW ms, Sound(ms), NEW c \in Cpus, Wait(c)
  PROVE  SchedTypes' /\ panicked' = "no" /\ \E ms2 : Sound(ms2)'
<1> PICK m : m = Mine(ms, c)
  OBVIOUS
<1> PICK t : t = Thread(c)
  OBVIOUS
<1>1. At(c, "wait")
  BY DEF Wait
<1>2. PICK n \in Mode :
        /\ Leads(<<"wait", Arg(c)>>, m, n) /\ Left(<< >> \o Tail(Top(c)), n) /\ Left(Tail(Top(c)), n)
        /\ Top(c) # << >> /\ m \in Mode /\ Views(cpus[c], m) /\ Registers(cpus[c])
  BY <1>1, Acting
<1>3. Inner(m) /\ m.kind = "call" /\ n = m /\ m.st = "run" /\ m.want = 0
  BY <1>2 DEF Leads, Inner
<1>4. t \in Procs /\ t = on[c] /\ t \in Threads /\ m = ms[t][1] /\ ptable[t].state = "RUNNING"
  BY <1>3, CallIs DEF Mine
<1>5. /\ panicked' = panicked /\ cpus' = cpus /\ ticks0' = ticks0
      /\ on' = on /\ locks' = locks /\ ticks' = ticks
  BY DEF Wait
<1>6. CASE Table!Zombies(t) # {}
  <2>1. PICK s : s = CHOOSE u \in Table!Zombies(t) : \A v \in Table!Zombies(t) : u <= v
    OBVIOUS
  <2>2. s \in Procs /\ ptable[s].state = "ZOMBIE"
    <3>1. /\ Table!Zombies(t) \in SUBSET Nat /\ Table!Zombies(t) \subseteq Procs
          /\ \A u \in Table!Zombies(t) : ptable[u].state = "ZOMBIE"
      BY Numbers DEF Table!Zombies, Table!Children
    <3>2. \E u \in Table!Zombies(t) : \A v \in Table!Zombies(t) : u <= v
      BY <1>6, <3>1, LeastNumber
    <3>3. s \in Table!Zombies(t)
      BY <2>1, <3>2
    <3> QED  BY <3>1, <3>3
  <2>3. PICK y : y = << << >> >>
    OBVIOUS
  <2>4. PICK z : z = <<Fresh("user")>>
    OBVIOUS
  <2>5. PICK P : P = Two(ms, t, m, s, z)
    OBVIOUS
  <2>6. Left(<< >> \o Tail(Top(c)), m)
    BY <1>2, <1>3
  <2>7. ptable' = [ptable EXCEPT ![s] = Table!Free] /\ code' = [Become(c, << >>) EXCEPT ![s] = y]
    BY <1>4, <1>6, <2>1, <2>3 DEF Wait
  <2>8. Parked(s)
    BY <1>3, <2>2, ZombieParked
  <2>9. /\ ptable' \in [Procs -> Entries] /\ \A p \in Procs : p # s => ptable'[p] = ptable[p]
        /\ ptable'[s].state = "UNUSED" /\ ptable'[s].parent = 0
    BY <2>2, <2>7, FreeIs DEF SchedTypes
  <2>10. /\ Stack(s, y, z) /\ z \in Seq(Mode) /\ Len(z) = 1 /\ z[1].child = 0 /\ z[1].want = 0
    <3>1. PICK f : f = Fresh("user")
      OBVIOUS
    <3>2. f \in Mode /\ f.kind = "user" /\ Idle(f) /\ f.child = 0 /\ f.want = 0
      BY <3>1, FreshIs DEF Kinds
    <3>3. Left(<< >>, f)
      BY <3>2, LeftEmpty
    <3>4. s \in Threads
      BY <2>2 DEF Threads
    <3>5. Stack(s, << << >> >>, <<f>>)
      BY <2>2, <3>2, <3>3, <3>4, Spaced, StackOne
    <3>6. Stack(s, y, z)
      BY <2>3, <2>4, <3>1, <3>5
    <3> QED  BY <2>4, <3>1, <3>2, <3>6 DEF Stack
  <2>11. P[s] = z
    BY <1>2, <2>2, <2>5, <2>8, <2>10, TwoIs
  <2>12. Waits(ms, P, s)
    <3>1. code'[s] = << << >> >>
      <4>1. Become(c, << >>) \in [Threads -> Seq(Seq(Instr))] /\ s \in Threads
        BY <1>2, <2>2, BecomeIs, Spaced DEF Threads
      <4> QED  BY <2>3, <2>7, <4>1
    <3> QED  BY <2>9, <3>1 DEF Waits
  <2>13. Kids(P)'
    <3>1. \A i \in 1 .. Len(z) : z[i].child = 0
      BY <2>10
    <3>2. \A p \in Procs : ptable[p].state = "EMBRYO" => ptable'[p].state = "EMBRYO"
      BY <2>2, <2>9
    <3>3. m.child = ms[t][1].child
      BY <1>4
    <3> QED  BY <1>2, <2>2, <2>5, <2>8, <2>10, <3>1, <3>2, <3>3, KidsTwo
  <2>14. Awaited(P)'
    <3>1. m.want = ms[t][1].want /\ m.tick = ms[t][1].tick
      BY <1>4
    <3>2. ptable'[s].state \in {"UNUSED", "EMBRYO"} /\ ptable'[s].parent # s
      BY <2>2, <2>9, Numbers
    <3>3. z[1].want = 0 /\ z \in Seq(Mode) /\ \A p \in Procs : p # s => ptable'[p] = ptable[p]
      BY <2>9, <2>10
    <3> QED  BY <1>2, <1>5, <2>2, <2>5, <2>8, <3>1, <3>2, <3>3, AwaitedTwo
  <2>15. /\ m.kind = Mine(ms, c).kind /\ m.next = Mine(ms, c).next /\ m.lock = Mine(ms, c).lock
         /\ m.st = Mine(ms, c).st
    OBVIOUS
  <2>16. ptable' \in [Procs -> Entries] /\ \A p \in Procs : p # s => ptable'[p] = ptable[p]
    BY <2>9
  <2>17. code' = [Become(c, << >>) EXCEPT ![s] = y] /\ Stack(s, y, z) /\ Top(c) # << >>
    BY <1>2, <2>7, <2>10
  <2> QED  BY <1>2, <1>5, <2>2, <2>5, <2>6, <2>8, <2>12, <2>13, <2>14, <2>15, <2>16, <2>17, Spaced, KeptTwo
<1>7. CASE Table!Zombies(t) = {} /\ Table!Children(t) = {}
  <2>1. code' = Become(c, << >>) /\ ptable' = ptable
    BY <1>4, <1>7 DEF Wait, Done
  <2>2. Goes(c, << >>, m) /\ Rewired(c, m)
    BY <1>2, <1>3, <1>5, <2>1, CpusSame, Spaced DEF Goes, Rewired
  <2> QED  BY <1>5, <2>1, <2>2, SameMode
<1>8. CASE Table!Zombies(t) = {} /\ Table!Children(t) # {}
  <2>1. PICK x : x = SleepOn(t, "ptable") \o << <<"wait", 0>> >>
    OBVIOUS
  <2>2. PICK k : k = Wanting(m, t)
    OBVIOUS
  <2>3. k \in Mode /\ Path(x, k, m)
    BY <1>2, <1>3, <1>4, <2>1, <2>2, WaitPath
  <2>4. /\ k.lock = m.lock /\ k.kind = m.kind /\ k.st = m.st /\ k.child = m.child /\ k.want = t
        /\ k.tick = m.tick /\ k.next = m.next
    BY <1>2, <2>2, WantingIs
  <2>5. code' = Become(c, x) /\ ptable' = ptable
    BY <1>4, <1>8, <2>1 DEF Wait
  <2>6. Goes(c, x, k)
    <3>1. Left(Tail(Top(c)), m)
      BY <1>2, <1>3
    <3>2. Left(x \o Tail(Top(c)), k)
      BY <2>3, <3>1, LeftJoined
    <3>3. x \in Seq(Instr)
      BY <2>3 DEF Path
    <3> QED  BY <1>2, <2>5, <3>2, <3>3 DEF Goes
  <2>7. Views(cpus[c], k)
    BY <1>2, <2>4 DEF Views, Count
  <2>8. Rewired(c, k) /\ Alike(m, k) /\ Tabled(c, k)
    BY <1>5, <2>3, <2>4, <2>5, <2>7, CpusSame, TabledSame DEF Rewired, Alike
  <2>9. Awaited(Put(ms, t, k))'
    <3>1. ASSUME NEW p \in Procs
          PROVE  /\ Sleeps(Put(ms, t, k), p, TicksChan)' => Passed(p)' = 0 \/ Ticking(Put(ms, t, k))'
                 /\ Sleeps(Put(ms, t, k), p, p)' => Table!Zombies(p)' = {}
                 /\ ptable'[p].parent = p => p = 1
      <4>1. /\ Sleeps(ms, p, TicksChan) => Passed(p) = 0 \/ Ticking(ms)
            /\ Sleeps(ms, p, p) => Table!Zombies(p) = {}
            /\ ptable[p].parent = p => p = 1
        BY DEF Sound, Awaited
      <4>2. Table!Zombies(p)' = Table!Zombies(p) /\ Passed(p)' = Passed(p)
        BY <1>5, <2>5 DEF Table!Zombies, Table!Children, Passed
      <4>3. CASE p = t
        <5>1. TicksChan # t
          BY <1>4, Numbers
        <5>2. ptable'[t].state # "SLEEPING"
          BY <1>4, <2>5
        <5>3. ~Sleeps(Put(ms, t, k), p, TicksChan)'
          BY <1>4, <2>3, <2>4, <4>3, <5>1, <5>2, SleepsPut
        <5> QED  BY <1>8, <2>5, <4>1, <4>2, <4>3, <5>3
      <4>4. CASE p # t
        <5>1. Ticking(ms) => Ticking(Put(ms, t, k))'
          BY <1>5, <2>3, <2>4, TickingPut
        <5>2. \A chan : Sleeps(Put(ms, t, k), p, chan)' => Sleeps(ms, p, chan)
          BY <1>4, <2>3, <2>5, <4>4, SleepsLess
        <5> QED  BY <2>5, <4>1, <4>2, <5>1, <5>2
      <4> QED  BY <4>3, <4>4
    <3> QED  BY <3>1 DEF Awaited
  <2>10. ticks' \in Int /\ ticks0' \in [Procs -> Int]
    BY <1>5 DEF SchedTypes
  <2> QED  BY <1>5, <2>3, <2>4, <2>6, <2>8, <2>9, <2>10, KeptTable
<1> QED  BY <1>6, <1>7, <1>8

-----------------------------------------------------------------------------
(* Steps to and from the scheduler *)

\* Only the processor c runs something else, at q, and its thread stays at k.
LEMMA MovesAway ==
  ASSUME Configured, SchedTypes, NEW ms, Sound(ms), NEW c \in Cpus, NEW t, t = Thread(c), NEW k \in Mode,
         NEW v, on' = [on EXCEPT ![c] = v], NEW q, Mine(Put(ms, t, k), c)' = q
  PROVE  Moves(ms, Put(ms, t, k), c, q) /\ \A d \in Cpus : d # c => on'[d] = on[d]
<1>1. \A d \in Cpus : d # c => on'[d] = on[d]
  BY DEF SchedTypes
<1>2. \A d \in Cpus : d # c => Thread(d)' = Thread(d) /\ Thread(d) # t /\ Thread(d) \in Threads
  BY <1>1, MinesDiffer, MineIs DEF Thread
<1>3. t \in Threads
  BY MineIs
<1>4. \A u \in Threads : u # t => Put(ms, t, k)[u] = ms[u]
  BY <1>3, PutIs
<1> QED  BY <1>1, <1>2, <1>4 DEF Moves, Mine

\* The lock of a thread passes to the next, with what the processor says of it.
LEMMA KeptSwitch ==
  ASSUME Configured, SchedTypes, NEW ms, Sound(ms), NEW c \in Cpus, NEW t, t = Thread(c), NEW k \in Mode,
         NEW x, Goes(c, x, k), Alike(Mine(ms, c), k), k.want = Mine(ms, c).want, Ours(Mine(ms, c)), Mine(ms, c) \in Mode,
         NEW v \in Procs \cup {None}, on' = [on EXCEPT ![c] = v],
         NEW q, Mine(Put(ms, t, k), c)' = q, Ours(q), Views(cpus[c], q),
         Off(Put(ms, t, k))', Running(Put(ms, t, k))',
         ptable' \in [Procs -> Entries], \A p \in Procs : ptable[p].state = "EMBRYO" => ptable'[p].state = "EMBRYO",
         \A p \in Procs : ptable'[p].state = "SLEEPING" => ptable[p].state = "SLEEPING" /\ ptable'[p].chan = ptable[p].chan,
         SameZombies, cpus' = cpus, locks' = locks, ticks' = ticks, ticks0' = ticks0
  PROVE  SchedTypes' /\ \E ms2 : Sound(ms2)'
<1>1. /\ Top(c) # << >> /\ code' = Become(c, x) /\ x \in Seq(Instr) /\ Left(x \o Tail(Top(c)), k)
      /\ k.kind = Mine(ms, c).kind /\ k.child = Mine(ms, c).child /\ k.next = Mine(ms, c).next
  BY DEF Goes, Alike
<1>2. t \in Threads /\ Mine(ms, c) = ms[t][1]
  BY MineIs DEF Mine
<1>3. Moves(ms, Put(ms, t, k), c, q) /\ \A d \in Cpus : d # c => on'[d] = on[d]
  BY MovesAway
<1>4. /\ code' \in [Threads -> Seq(Seq(Instr))] /\ Stacks(Put(ms, t, k))'
      /\ \A u \in Threads : u # t => code'[u] = code[u]
  BY <1>1, StacksPut
<1>5. Viewed(Put(ms, t, k))'
  BY <1>3, ViewedMoves
<1>6. Locked(Put(ms, t, k))'
  <2>1. LocksAlike(Mine(ms, c), q)
    BY DEF LocksAlike, Ours, Lock, Inside
  <2> QED  BY <1>3, <2>1, LockedMoves
<1>7. Kids(Put(ms, t, k))'
  BY <1>1, <1>2, KidsPut
<1>8. Awaited(Put(ms, t, k))'
  <2>1. Fewer(ms, Put(ms, t, k))
    BY <1>2, SleepsLess DEF Fewer
  <2>2. Ticking(ms) => Ticking(Put(ms, t, k))'
    <3> SUFFICES ASSUME NEW d \in Cpus, Mine(ms, d).tick PROVE Ticking(Put(ms, t, k))'
      BY DEF Ticking
    <3>1. ~Mine(ms, c).tick
      BY ModeIs DEF Lawful, Ours
    <3>2. Mine(Put(ms, t, k), d)' = Mine(ms, d)
      BY <1>3, <3>1 DEF Moves
    <3>3. Mine(Put(ms, t, k), d)'.tick
      BY <3>2
    <3> QED  BY <3>3 DEF Ticking
  <2> QED  BY <2>1, <2>2, AwaitedLess
<1>9. Boots(Put(ms, t, k))'
  <2>1. Last(Put(ms, t, k)) = Last(ms)
    BY <1>1, <1>2, LastPut
  <2>2. \A d \in Cpus : d # Thread(c) => code'[d] = code[d]
    BY <1>4 DEF Threads
  <2> QED  BY <1>1, <1>3, <2>1, <2>2, BootsMoves
<1>10. Put(ms, t, k) \in Modes
  BY <1>2, PutIs
<1>11. SchedTypes'
  BY <1>4 DEF SchedTypes
<1>12. Sound(Put(ms, t, k))'
  BY <1>4, <1>5, <1>6, <1>7, <1>8, <1>9, <1>10 DEF Sound
<1> QED  BY <1>11, <1>12

\* What can run is on no processor while another holds ptable.lock.
LEMMA RunnableParked ==
  ASSUME Configured, SchedTypes, NEW ms, Sound(ms), NEW c \in Cpus, Inner(Mine(ms, c)),
         NEW s \in Procs, ptable[s].state = "RUNNABLE", on[c] = None
  PROVE  Parked(s) /\ Ready(ms[s][1])
<1>1. Parked(s)
  <2> SUFFICES ASSUME NEW d \in Cpus, on[d] = s PROVE FALSE
    BY DEF Parked
  <2>1. on[d] # None
    BY Numbers DEF None
  <2>2. Mine(ms, d).st \notin {"run", "back", "dead"} /\ Mine(ms, d) \in Mode
    BY <2>1, MineIs DEF Sound, Running
  <2>3. Mine(ms, d).lock["ptable"] = "held"
    BY <2>2, ModeIs DEF Lawful, Ours
  <2>4. Mine(ms, c).lock["ptable"] = "held"
    BY DEF Inner, Ours
  <2>5. c = d
    <3>1. \A l \in Lock : Mine(ms, c).lock[l] \in Inside /\ Mine(ms, d).lock[l] \in Inside => c = d
      BY DEF Sound, Locked
    <3>2. "ptable" \in Lock /\ "held" \in Inside
      BY DEF Lock, Inside
    <3> QED  BY <2>3, <2>4, <3>1, <3>2
  <2> QED  BY <2>1, <2>5
<1>2. Ready(ms[s][1])
  BY <1>1 DEF Sound, Off, Parked
<1> QED  BY <1>1, <1>2

\* The scheduler goes on with a process on no processor, with ptable.lock passed to it.
LEMMA StepScan ==
  ASSUME Configured, SchedTypes, panicked = "no", NEW ms, Sound(ms), NEW c \in Cpus, Scan(c)
  PROVE  SchedTypes' /\ panicked' = "no" /\ \E ms2 : Sound(ms2)'
<1> PICK m : m = Mine(ms, c)
  OBVIOUS
<1> PICK t : t = Thread(c)
  OBVIOUS
<1> PICK a : a = Arg(c)
  OBVIOUS
<1>1. At(c, "scan")
  BY DEF Scan
<1>2. PICK n \in Mode :
        /\ Leads(<<"scan", a>>, m, n) /\ Left(<< >> \o Tail(Top(c)), n) /\ Left(Tail(Top(c)), n)
        /\ Top(c) # << >> /\ m \in Mode /\ Views(cpus[c], m) /\ Registers(cpus[c])
  BY <1>1, Acting
<1>3. m.kind \in {"main", "base"} /\ Inner(m) /\ a \in Nat /\ n = m /\ Ours(m) /\ m.st = "run"
  BY <1>2 DEF Leads, Inner
<1>4. t = c /\ on[c] = None /\ Len(ms[c]) = 1 /\ m = ms[c][1] /\ t \in Threads
  BY <1>3, KindIs, MineIs DEF Mine
<1>5. panicked' = panicked /\ cpus' = cpus /\ locks' = locks /\ ticks' = ticks /\ ticks0' = ticks0
  BY DEF Scan
<1>6. PICK ready : ready = {p \in Procs : p >= a /\ ptable[p].state = "RUNNABLE"}
  OBVIOUS
<1>7. CASE ready = {}
  <2>1. code' = Become(c, << >>) /\ ptable' = ptable /\ on' = on
    BY <1>6, <1>7 DEF Scan, Done
  <2>2. Goes(c, << >>, m) /\ Rewired(c, m)
    BY <1>2, <1>3, <1>5, <2>1, CpusSame, Spaced DEF Goes, Rewired
  <2> QED  BY <1>5, <2>1, <2>2, SameMode
<1>8. CASE ready # {}
  <2>1. PICK p : p = CHOOSE first \in ready : \A other \in ready : first <= other
    OBVIOUS
  <2>2. p \in Procs /\ ptable[p].state = "RUNNABLE"
    <3>1. ready \in SUBSET Nat
      BY <1>6, Numbers
    <3>2. \E first \in ready : \A other \in ready : first <= other
      BY <1>8, <3>1, LeastNumber
    <3>3. p \in ready
      BY <2>1, <3>2
    <3> QED  BY <1>6, <3>3
  <2>3. Parked(p) /\ Ready(ms[p][1])
    BY <1>3, <1>4, <2>2, RunnableParked
  <2>4. PICK x : x = << <<"scan", p + 1>> >>
    OBVIOUS
  <2>5. PICK q : q = ms[p][1]
    OBVIOUS
  <2>6. /\ on' = [on EXCEPT ![c] = p] /\ code' = Become(c, x)
        /\ ptable' = [ptable EXCEPT ![p] = [ptable[p] EXCEPT !.state = "RUNNING"]]
    BY <1>6, <1>8, <2>1, <2>4 DEF Scan
  <2>7. Goes(c, x, m)
    <3>1. <<"scan", p + 1>> \in Instr /\ p + 1 \in Nat
      <4>1. \A i \in Int : <<"scan", i>> \in Instr
        BY InstrIs
      <4> QED  BY <2>2, <4>1, Numbers
    <3>2. Leads(<<"scan", p + 1>>, m, m)
      BY <1>3, <3>1 DEF Leads
    <3>3. Path(x, m, m)
      BY <1>2, <2>4, <3>1, <3>2, OneStep
    <3>4. Left(Tail(Top(c)), m)
      BY <1>2, <1>3
    <3> QED  BY <1>2, <2>6, <3>3, <3>4, LeftOn
  <2>8. p # None /\ p # t /\ p \in Threads
    BY <1>4, <2>2, Numbers DEF None, Threads
  <2>9. /\ Put(ms, t, m)[t][1] = m /\ \A u \in Threads : u # t => Put(ms, t, m)[u] = ms[u]
        /\ Len(Put(ms, t, m)[t]) = Len(ms[t])
    BY <1>2, <1>4, PutIs
  <2>10. on'[c] = p /\ \A d \in Cpus : d # c => on'[d] = on[d]
    BY <2>6 DEF SchedTypes
  <2>11. Mine(Put(ms, t, m), c)' = q
    <3>1. Thread(c)' = p
      BY <2>8, <2>10 DEF Thread
    <3> QED  BY <2>5, <2>8, <2>9, <3>1 DEF Mine
  <2>12. q \in Mode /\ Lawful(q) /\ q.kind \in {"user", "call", "trap"} /\ Ready(q) /\ Ours(q)
    <3>1. Stack(p, code[p], ms[p])
      BY <2>8 DEF Sound, Stacks
    <3>2. Len(ms[p]) \in 1 .. 3 /\ ms[p] \in Seq(Mode) /\ Shaped(p, ms[p])
      BY <3>1, ShapedLen DEF Stack
    <3>3. q \in Mode
      BY <2>5, <3>2
    <3>4. q.kind \in {"user", "call", "trap"}
      BY <2>2, <2>5, <3>2, Numbers DEF Shaped
    <3> QED  BY <2>3, <2>5, <3>3, <3>4, ModeIs DEF Ready
  <2>13. Views(cpus[c], q)
    <3>1. q.kind # "user"
      BY <2>12 DEF Lawful, Idle, Ours, Lock
    <3>2. Count(q) = 1 /\ Count(m) = 1
      BY <1>3, <2>12 DEF Count, Ours
    <3>3. q.st \in {"run", "back"} /\ (q.kind = "trap" => q.st = "back")
      BY <2>12 DEF Ready
    <3> QED  BY <1>2, <2>12, <3>1, <3>2, <3>3 DEF Views
  <2>14. /\ ptable' \in [Procs -> Entries] /\ \A s \in Procs : s # p => ptable'[s] = ptable[s]
         /\ ptable'[p].state = "RUNNING" /\ ptable'[p].parent = ptable[p].parent
    <3>1. ptable \in [Procs -> Entries] /\ "RUNNING" \in States
      BY DEF SchedTypes, States
    <3>2. [ptable[p] EXCEPT !.state = "RUNNING"] \in Entries
      BY <2>2, <3>1, EntryIs
    <3> QED  BY <2>2, <2>6, <3>1, <3>2 DEF Entries
  <2>15. \A u \in Threads : u # c => code'[u] = code[u]
    <3>1. Top(c) # << >> /\ x \in Seq(Instr) /\ code' = Become(c, x)
      BY <2>7 DEF Goes
    <3>2. \A u \in Threads : u # Thread(c) => Become(c, x)[u] = code[u]
      BY <3>1, BecomeIs
    <3> QED  BY <1>4, <3>1, <3>2
  <2>16. Off(Put(ms, t, m))'
    <3>1. ASSUME NEW d \in Cpus, on'[d] # None
          PROVE  Len(Put(ms, t, m)[d]) = 1 /\ Inner(Put(ms, t, m)[d][1])
      <4>1. CASE d = c
        BY <1>3, <1>4, <2>9, <4>1
      <4>2. CASE d # c
        <5>1. Len(ms[d]) = 1 /\ Inner(ms[d][1])
          BY <2>10, <3>1, <4>2 DEF Sound, Off
        <5> QED  BY <1>4, <2>9, <4>2, <5>1 DEF Threads
      <4> QED  BY <4>1, <4>2
    <3>2. ASSUME NEW s \in Procs, \A d \in Cpus : on'[d] # s
          PROVE  /\ ptable'[s].state # "RUNNING"
                 /\ ptable'[s].state = "UNUSED" => code'[s] = << << >> >>
                 /\ ptable'[s].state = "ZOMBIE" => Put(ms, t, m)[s][1].st = "dead"
                 /\ ptable'[s].state \in {"EMBRYO", "RUNNABLE", "SLEEPING"} => Ready(Put(ms, t, m)[s][1])
      <4>1. s # p /\ s # c /\ s \in Threads /\ s # None
        BY <2>10, <3>2, Numbers DEF Threads, None
      <4>2. \A d \in Cpus : on[d] # s
        BY <1>4, <2>10, <3>2, <4>1
      <4>3. ptable'[s] = ptable[s] /\ code'[s] = code[s] /\ Put(ms, t, m)[s] = ms[s]
        BY <1>4, <2>9, <2>14, <2>15, <4>1
      <4> QED  BY <4>2, <4>3 DEF Sound, Off
    <3> QED  BY <3>1, <3>2 DEF Off
  <2>17. Running(Put(ms, t, m))'
    <3>1. \A d, e \in Cpus : on'[d] # None /\ on'[d] = on'[e] => d = e
      <4>1. \A d, e \in Cpus : on[d] # None /\ on[d] = on[e] => d = e
        BY DEF Sound, Running
      <4>2. \A d \in Cpus : on[d] # p
        BY <2>3 DEF Parked
      <4> QED  BY <2>10, <4>1, <4>2
    <3>2. ASSUME NEW d \in Cpus, on'[d] # None
          PROVE  Says(ptable'[on'[d]].state, Mine(Put(ms, t, m), d)')
      <4>1. CASE d = c
        BY <2>10, <2>11, <2>12, <2>14, <4>1 DEF Says, Ready
      <4>2. CASE d # c
        <5>1. Says(ptable[on[d]].state, Mine(ms, d)) /\ on[d] # None
          BY <2>10, <3>2, <4>2 DEF Sound, Running, Says
        <5>2. on[d] # p /\ on[d] \in Procs
          BY <2>3, <5>1, MineIs DEF Parked
        <5>3. Mine(Put(ms, t, m), d)' = Mine(ms, d)
          <6>1. Moves(ms, Put(ms, t, m), c, q)
            BY <1>2, <2>6, <2>11, MovesAway
          <6> QED  BY <4>2, <6>1 DEF Moves
        <5> QED  BY <2>10, <2>14, <4>2, <5>1, <5>2, <5>3
      <4> QED  BY <4>1, <4>2
    <3> QED  BY <3>1, <3>2 DEF Running, Says
  <2>18. /\ \A s \in Procs : ptable[s].state = "EMBRYO" => ptable'[s].state = "EMBRYO"
         /\ \A s \in Procs : ptable'[s].state = "SLEEPING" => ptable[s].state = "SLEEPING" /\ ptable'[s].chan = ptable[s].chan
         /\ SameZombies
    BY <2>2, <2>14 DEF SameZombies
  <2>19. Alike(Mine(ms, c), m) /\ m.want = Mine(ms, c).want /\ Ours(Mine(ms, c)) /\ Mine(ms, c) \in Mode
    BY <1>2, <1>3 DEF Alike
  <2>20. p \in Procs \cup {None}
    BY <2>2
  <2> QED  BY <1>2, <1>5, <2>6, <2>7, <2>11, <2>12, <2>13, <2>14, <2>16, <2>17, <2>18, <2>19, <2>20, KeptSwitch
<1> QED  BY <1>7, <1>8

\* What is left of sched for a thread at m
Resumes(x, m) == \E e \in BOOLEAN : x = << <<"intena", e>> >> /\ (m.kind = "trap" => e = FALSE)

\* Where a thread waits that has given up its processor
LEMMA AwayIs ==
  ASSUME NEW m \in Mode, NEW n \in Mode, NEW a, Leads(<<"sched", a>>, m, n), NEW x, Resumes(x, m)
  PROVE  \E k \in Mode :
           /\ Path(x, k, n)
           /\ k.lock = m.lock /\ k.kind = m.kind /\ k.child = m.child /\ k.want = m.want /\ k.tick = m.tick /\ k.next = m.next
           /\ m.st \in {"stop", "dying"} /\ Ours(m) /\ m.want = 0
           /\ k.st = IF m.st = "dying" THEN "dead" ELSE "back"
<1>0. PICK e \in BOOLEAN : x = << <<"intena", e>> >> /\ (m.kind = "trap" => e = FALSE)
  BY DEF Resumes
<1>1. m \in Records /\ Lawful(m) /\ <<"intena", e>> \in Instr
  BY ModeIs, InstrIs
<1>2. \/ m.st = "stop" /\ n = [m EXCEPT !.st = "run"]
      \/ m.st = "dying" /\ n = [m EXCEPT !.st = "dead"]
  BY DEF Leads
<1>3. Ours(m) /\ m.want = 0
  BY <1>1, <1>2 DEF Lawful
<1>4. CASE m.st = "stop" /\ n = [m EXCEPT !.st = "run"]
  <2>1. PICK k : k = Doing(m, "back")
    OBVIOUS
  <2>2. k \in Records /\ k.st = "back" /\ n = [k EXCEPT !.st = "run"]
        /\ k.lock = m.lock /\ k.kind = m.kind /\ k.child = m.child /\ k.want = m.want /\ k.tick = m.tick /\ k.next = m.next
    BY <1>1, <1>4, <2>1 DEF Doing, Records
  <2>3. k \in Mode
    BY <1>1, <1>4, <2>2 DEF Mode, Lawful, Ours, Idle
  <2>4. Leads(<<"intena", e>>, k, n)
    BY <1>0, <2>2 DEF Leads
  <2>5. Path(<< <<"intena", e>> >>, k, n)
    BY <1>1, <2>3, <2>4, OneStep
  <2> QED  BY <1>0, <1>3, <1>4, <2>2, <2>3, <2>5
<1>5. CASE m.st = "dying" /\ n = [m EXCEPT !.st = "dead"]
  <2>1. n.st = "dead" /\ n.lock = m.lock /\ n.kind = m.kind /\ n.child = m.child /\ n.want = m.want
        /\ n.tick = m.tick /\ n.next = m.next
    BY <1>1, <1>5 DEF Records
  <2>2. Leads(<<"intena", e>>, n, n)
    BY <1>0, <2>1 DEF Leads
  <2>3. Path(<< <<"intena", e>> >>, n, n)
    BY <1>1, <2>2, OneStep
  <2> QED  BY <1>0, <1>3, <1>5, <2>1, <2>3
<1> QED  BY <1>2, <1>4, <1>5

\* sched does not panic, and passes ptable.lock to the scheduler.
LEMMA StepSched ==
  ASSUME Configured, SchedTypes, panicked = "no", NEW ms, Sound(ms), NEW c \in Cpus, Sched(c)
  PROVE  SchedTypes' /\ panicked' = "no" /\ \E ms2 : Sound(ms2)'
<1> PICK m : m = Mine(ms, c)
  OBVIOUS
<1> PICK t : t = Thread(c)
  OBVIOUS
<1>1. At(c, "sched")
  BY DEF Sched
<1>2. PICK n \in Mode :
        /\ Leads(<<"sched", Arg(c)>>, m, n) /\ Left(Tail(Top(c)), n)
        /\ Top(c) # << >> /\ m \in Mode /\ Views(cpus[c], m) /\ Registers(cpus[c])
        /\ (on[c] # None => Says(ptable[on[c]].state, m))
  BY <1>1, Acting
<1>3. PICK e : e = cpus[c].intena
  OBVIOUS
<1>4. m.st \in {"stop", "dying"} /\ Lawful(m)
  BY <1>2, ModeIs DEF Leads
<1>5. Ours(m) /\ m.kind \in {"call", "trap", "gone"} /\ m.want = 0 /\ Count(m) = 1
  BY <1>4 DEF Lawful, Ours, Count
<1>6. e \in BOOLEAN /\ (m.kind = "trap" => e = FALSE)
  BY <1>2, <1>3, <1>4, <1>5 DEF Registers, Views
<1>7. PICK x : x = << <<"intena", e>> >>
  OBVIOUS
<1>8. PICK k \in Mode :
        /\ Path(x, k, n)
        /\ k.lock = m.lock /\ k.kind = m.kind /\ k.child = m.child /\ k.want = m.want /\ k.tick = m.tick /\ k.next = m.next
        /\ k.st = IF m.st = "dying" THEN "dead" ELSE "back"
  <2>1. Resumes(x, m)
    BY <1>6, <1>7 DEF Resumes
  <2> QED  BY <1>2, <2>1, AwayIs
<1>9. t \in Procs /\ t = on[c] /\ t \in Threads /\ t # c /\ t # None /\ c \in Threads
  <2>1. m.kind # "gone"
    BY KindIs
  <2> QED  BY <1>5, <2>1, KindIs, Numbers DEF Threads
<1>10. SchedFault(c) = "no"
  <2>1. holding(c, "ptable")
    <3>1. "ptable" \in Lock /\ "held" \in Inside
      BY DEF Lock, Inside
    <3>2. m.lock["ptable"] = "held"
      BY <1>5 DEF Ours
    <3> QED  BY <3>1, <3>2 DEF Sound, Locked, holding
  <2>2. cpus[c].ncli = 1 /\ ~cpus[c].IF
    BY <1>2, <1>5 DEF Views
  <2>3. ptable[on[c]].state # "RUNNING"
    BY <1>2, <1>4, <1>9 DEF Says
  <2> QED  BY <2>1, <2>2, <2>3 DEF SchedFault
<1>11. /\ panicked' = "no" /\ cpus' = cpus /\ locks' = locks /\ ticks' = ticks /\ ticks0' = ticks0 /\ ptable' = ptable
       /\ on' = [on EXCEPT ![c] = None] /\ code' = Become(c, x)
  BY <1>3, <1>10, <1>7 DEF Sched
<1>12. Goes(c, x, k)
  <2>1. Left(x \o Tail(Top(c)), k)
    BY <1>2, <1>8, LeftJoined
  <2>2. x \in Seq(Instr)
    BY <1>8 DEF Path
  <2> QED  BY <1>2, <1>11, <2>1, <2>2 DEF Goes
<1>13. PICK q : q = ms[c][1]
  OBVIOUS
<1>14. Len(ms[c]) = 1 /\ Inner(q) /\ Ours(q) /\ q.kind \in {"main", "base"} /\ q \in Mode /\ q.st = "run"
  <2>1. Len(ms[c]) = 1 /\ Inner(ms[c][1])
    BY <1>9 DEF Sound, Off
  <2>2. Stack(c, code[c], ms[c])
    BY <1>9 DEF Sound, Stacks
  <2>3. Shaped(c, ms[c]) /\ ms[c] \in Seq(Mode)
    BY <2>2 DEF Stack
  <2>4. q.kind \in {"main", "base"}
    BY <1>13, <2>1, <2>3, Numbers DEF Shaped
  <2>5. q \in Mode
    BY <1>13, <2>1, <2>3
  <2> QED  BY <1>13, <2>1, <2>4, <2>5 DEF Inner
<1>15. /\ Put(ms, t, k)[t][1] = k /\ \A u \in Threads : u # t => Put(ms, t, k)[u] = ms[u]
  BY <1>9, PutIs
<1>16. on'[c] = None /\ \A d \in Cpus : d # c => on'[d] = on[d]
  BY <1>11 DEF SchedTypes
<1>17. Mine(Put(ms, t, k), c)' = q
  <2>1. Thread(c)' = c
    BY <1>16 DEF Thread
  <2> QED  BY <1>9, <1>13, <1>15, <2>1 DEF Mine
<1>18. Views(cpus[c], q)
  <2>1. Count(q) = 1
    BY <1>14 DEF Count, Ours
  <2> QED  BY <1>2, <1>5, <1>14, <2>1 DEF Views
<1>19. \A u \in Threads : u # t => code'[u] = code[u]
  <2>1. Top(c) # << >> /\ x \in Seq(Instr) /\ code' = Become(c, x)
    BY <1>12 DEF Goes
  <2>2. \A u \in Threads : u # Thread(c) => Become(c, x)[u] = code[u]
    BY <2>1, BecomeIs
  <2> QED  BY <2>1, <2>2
<1>20. Off(Put(ms, t, k))'
  <2>1. ASSUME NEW d \in Cpus, on'[d] # None
        PROVE  Len(Put(ms, t, k)[d]) = 1 /\ Inner(Put(ms, t, k)[d][1])
    <3>1. d # c /\ on[d] # None /\ d \in Threads /\ d # t
      BY <1>9, <1>16, <2>1, Numbers DEF Threads
    <3>2. Len(ms[d]) = 1 /\ Inner(ms[d][1])
      BY <3>1 DEF Sound, Off
    <3> QED  BY <1>15, <3>1, <3>2
  <2>2. ASSUME NEW s \in Procs, \A d \in Cpus : on'[d] # s
        PROVE  /\ ptable'[s].state # "RUNNING"
               /\ ptable'[s].state = "UNUSED" => code'[s] = << << >> >>
               /\ ptable'[s].state = "ZOMBIE" => Put(ms, t, k)[s][1].st = "dead"
               /\ ptable'[s].state \in {"EMBRYO", "RUNNABLE", "SLEEPING"} => Ready(Put(ms, t, k)[s][1])
    <3>1. CASE s = t
      <4>1. Put(ms, t, k)[s][1] = k /\ ptable'[s] = ptable[on[c]] /\ on[c] # None
        BY <1>9, <1>11, <1>15, <3>1
      <4>2. Says(ptable[on[c]].state, m)
        BY <1>2, <4>1
      <4>3. k.st = (IF m.st = "dying" THEN "dead" ELSE "back") /\ Ours(k) /\ k.want = 0
        BY <1>5, <1>8 DEF Ours
      <4> QED  BY <1>4, <4>1, <4>2, <4>3 DEF Says, Ready
    <3>2. CASE s # t
      <4>1. s \in Threads /\ \A d \in Cpus : on[d] # s
        BY <1>9, <1>16, <2>2, <3>2 DEF Threads
      <4>2. ptable'[s] = ptable[s] /\ code'[s] = code[s] /\ Put(ms, t, k)[s] = ms[s]
        BY <1>11, <1>15, <1>19, <3>2, <4>1
      <4> QED  BY <4>1, <4>2 DEF Sound, Off
    <3> QED  BY <3>1, <3>2
  <2> QED  BY <2>1, <2>2 DEF Off
<1>21. Running(Put(ms, t, k))'
  <2>1. \A d, f \in Cpus : on'[d] # None /\ on'[d] = on'[f] => d = f
    <3>1. \A d, f \in Cpus : on[d] # None /\ on[d] = on[f] => d = f
      BY DEF Sound, Running
    <3> QED  BY <1>16, <3>1
  <2>2. ASSUME NEW d \in Cpus, on'[d] # None
        PROVE  Says(ptable'[on'[d]].state, Mine(Put(ms, t, k), d)')
    <3>1. d # c /\ on'[d] = on[d] /\ on[d] # None
      BY <1>16, <2>2
    <3>2. Says(ptable[on[d]].state, Mine(ms, d))
      BY <3>1 DEF Sound, Running, Says
    <3>3. Moves(ms, Put(ms, t, k), c, q)
      BY <1>11, <1>17, MovesAway
    <3>4. Mine(Put(ms, t, k), d)' = Mine(ms, d)
      BY <3>1, <3>3 DEF Moves
    <3> QED  BY <1>11, <3>1, <3>2, <3>4
  <2> QED  BY <2>1, <2>2 DEF Running, Says
<1>22. /\ \A s \in Procs : ptable[s].state = "EMBRYO" => ptable'[s].state = "EMBRYO"
       /\ \A s \in Procs : ptable'[s].state = "SLEEPING" => ptable[s].state = "SLEEPING" /\ ptable'[s].chan = ptable[s].chan
       /\ SameZombies /\ ptable' \in [Procs -> Entries]
  BY <1>11 DEF SameZombies, SchedTypes
<1>23. Alike(Mine(ms, c), k) /\ k.want = Mine(ms, c).want /\ Ours(Mine(ms, c)) /\ Mine(ms, c) \in Mode
  BY <1>2, <1>5, <1>8 DEF Alike
<1>24. None \in Procs \cup {None}
  OBVIOUS
<1> QED  BY <1>11, <1>12, <1>14, <1>17, <1>18, <1>20, <1>21, <1>22, <1>23, <1>24, KeptSwitch

-----------------------------------------------------------------------------
(* Frames come and go *)

\* The frames z of t are those of ms, one further or one less far.
Shifted(ms, t, z, e) ==
  /\ e \in Int
  /\ \A i \in 1 .. Len(z) : z[i].child # 0 => i - e \in 1 .. Len(ms[t]) /\ z[i] = ms[t][i - e]
  /\ z[Len(z)].next = ms[t][Len(ms[t])].next

\* A frame that begins or ends makes no slot.
LEMMA KidsShift ==
  ASSUME Configured, SchedTypes, NEW ms, Sound(ms), NEW t \in Threads, NEW z \in Seq(Mode), NEW e, Shifted(ms, t, z, e),
         ptable' = ptable
  PROVE  Kids([ms EXCEPT ![t] = z])'
<1> PICK P : P = [ms EXCEPT ![t] = z]
  OBVIOUS
<1>1. ms \in [Threads -> Seq(Mode)] /\ P \in [Threads -> Seq(Mode)] /\ Kids(ms)
      /\ P[t] = z /\ \A u \in Threads : u # t => P[u] = ms[u]
  BY DEF Sound, Modes
<1>2. \A u \in Threads : DOMAIN P[u] = 1 .. Len(P[u]) /\ DOMAIN ms[u] = 1 .. Len(ms[u])
  BY <1>1
<1>3. /\ e \in Int
      /\ \A i \in 1 .. Len(z) : z[i].child # 0 => i - e \in 1 .. Len(ms[t]) /\ z[i] = ms[t][i - e]
  BY DEF Shifted
<1>4. ASSUME NEW u \in Threads, NEW i \in DOMAIN P[u], P[u][i].child # 0
      PROVE  /\ u = t => i \in 1 .. Len(z) /\ i - e \in DOMAIN ms[u] /\ P[u][i].child = ms[u][i - e].child
             /\ u # t => i \in DOMAIN ms[u] /\ P[u][i].child = ms[u][i].child
  BY <1>1, <1>2, <1>3, <1>4
<1>5. ASSUME NEW u \in Threads, NEW i \in DOMAIN P[u], P[u][i].child # 0
      PROVE  /\ ptable'[P[u][i].child].state = "EMBRYO"
             /\ \A v \in Threads : \A j \in DOMAIN P[v] : P[v][j].child = P[u][i].child => v = u /\ j = i
  <2>1. PICK b : b = P[u][i].child
    OBVIOUS
  <2>2. PICK a : a = IF u = t THEN i - e ELSE i
    OBVIOUS
  <2>3. a \in DOMAIN ms[u] /\ b = ms[u][a].child /\ b # 0
    BY <1>4, <1>5, <2>1, <2>2
  <2>4. /\ ptable[b].state = "EMBRYO"
        /\ \A v \in Threads : \A j \in DOMAIN ms[v] : ms[v][j].child = b => v = u /\ j = a
    BY <1>1, <2>3 DEF Kids
  <2>5. ASSUME NEW v \in Threads, NEW j \in DOMAIN P[v], P[v][j].child = b
        PROVE  v = u /\ j = i
    <3>1. CASE v = t
      <4>1. j \in 1 .. Len(z) /\ j - e \in DOMAIN ms[v] /\ b = ms[v][j - e].child
        BY <1>4, <2>3, <2>5, <3>1
      <4>2. v = u /\ j - e = a
        BY <2>4, <4>1
      <4>3. i \in 1 .. Len(z) /\ a = i - e
        BY <1>4, <1>5, <2>2, <3>1, <4>2
      <4> QED  BY <1>3, <4>1, <4>2, <4>3
    <3>2. CASE v # t
      <4>1. j \in DOMAIN ms[v] /\ b = ms[v][j].child
        BY <1>4, <2>3, <2>5, <3>2
      <4>2. v = u /\ j = a
        BY <2>4, <4>1
      <4> QED  BY <2>2, <3>2, <4>2
    <3> QED  BY <3>1, <3>2
  <2> QED  BY <2>1, <2>4, <2>5
<1>6. Kids(P)'
  BY <1>5 DEF Kids
<1> QED  BY <1>6

\* A processor comes to another frame, and holds nothing before and after.
LEMMA KeptFrame ==
  ASSUME Configured, SchedTypes, NEW ms, Sound(ms), NEW c \in Cpus, NEW t, t = Thread(c), Idle(Mine(ms, c)),
         NEW y, code' = [code EXCEPT ![t] = y], NEW z, Stack(t, y, z), NEW k, z[1] = k, Idle(k),
         NEW e, Shifted(ms, t, z, e), Rewired(c, k),
         Top(c) # << >> \/ on[c] # None \/ cpus[c].IF,
         on' = on, locks' = locks, ptable' = ptable, ticks' = ticks, ticks0' = ticks0
  PROVE  SchedTypes' /\ \E ms2 : Sound(ms2)'
<1>1. t \in Threads /\ Mine(ms, c) = ms[t][1] /\ Mine(ms, c) \in Mode /\ \A d \in Cpus : d # c => Thread(d) # t
  BY MineIs, MinesDiffer DEF Mine
<1>2. z \in Seq(Mode) /\ y \in Seq(Seq(Instr)) /\ Len(z) \in 1 .. 3 /\ k \in Mode
  <2>1. z \in Seq(Mode) /\ y \in Seq(Seq(Instr)) /\ Len(z) \in 1 .. 3
    BY ShapedLen DEF Stack
  <2>2. z[1] \in Mode
    BY <2>1
  <2> QED  BY <2>1, <2>2
<1> PICK P : P = [ms EXCEPT ![t] = z]
  OBVIOUS
<1>3. /\ P \in Modes /\ P[t] = z /\ \A u \in Threads : u # t => P[u] = ms[u]
      /\ code' \in [Threads -> Seq(Seq(Instr))] /\ code'[t] = y /\ \A u \in Threads : u # t => code'[u] = code[u]
  BY <1>1, <1>2 DEF Sound, Modes, SchedTypes
<1>4. /\ Mine(ms, c).st = "run" /\ Mine(ms, c).want = 0 /\ ~Mine(ms, c).tick
      /\ k.st = "run" /\ k.want = 0 /\ ~k.tick
  BY <1>1, <1>2, IdleIs
<1>5. Moves(ms, P, c, k)
  <2>1. \A d \in Cpus : Thread(d)' = Thread(d) /\ Thread(d) \in Threads
    BY MineIs DEF Thread
  <2> QED  BY <1>1, <1>3, <2>1 DEF Moves, Mine
<1>6. Stacks(P)'
  <2>1. \A u \in Threads : Stack(u, code[u], ms[u])
    BY DEF Sound, Stacks
  <2>2. \A u \in Threads : Stack(u, code'[u], P[u])
    BY <1>3, <2>1
  <2> QED  BY <2>2 DEF Stacks
<1>7. /\ cpus' = [d \in Cpus |-> cpus'[d]] /\ \A d \in Cpus : d # c => cpus'[d] = cpus[d]
      /\ Registers(cpus'[c]) /\ Views(cpus'[c], k)
  BY DEF Rewired
<1>8. Viewed(P)'
  BY <1>5, <1>7, ViewedMoves
<1>9. Locked(P)'
  <2>1. LocksAlike(Mine(ms, c), k)
    BY DEF LocksAlike, Idle, Inside
  <2> QED  BY <1>5, <2>1, LockedMoves
<1>10. (on[c] = None => t = c) /\ (on[c] # None => t = on[c] /\ on[c] \in Procs)
  BY MineIs
<1>11. Off(P)'
  <2>1. ASSUME NEW d \in Cpus, on[d] # None PROVE P[d] = ms[d]
    <3>1. d # t /\ d \in Threads
      BY <1>10, <2>1, Numbers DEF Threads
    <3> QED  BY <1>3, <3>1
  <2>2. ASSUME NEW p \in Procs, \A d \in Cpus : on[d] # p PROVE Waits(ms, P, p)
    <3>1. p # t /\ p \in Threads
      BY <1>10, <2>2, Numbers DEF Threads
    <3> QED  BY <1>3, <3>1 DEF Waits, Near
  <2> QED  BY <2>1, <2>2, OffMoves
<1>12. Running(P)'
  <2>1. on[c] # None => Says(ptable'[on[c]].state, k)
    BY <1>4 DEF Says, Sound, Running
  <2>2. \A p \in Procs : p # on[c] => Near(ptable[p].state, ptable'[p].state) \/ \A d \in Cpus : on[d] # p
    BY DEF Near
  <2> QED  BY <1>5, <2>1, <2>2, RunningMoves
<1>13. Kids(P)'
  BY <1>1, <1>2, KidsShift
<1>14. Awaited(P)'
  <2>1. Fewer(ms, P)
    <3> SUFFICES ASSUME NEW p \in Procs, NEW chan \in 1 .. TicksChan, Sleeps(P, p, chan)' PROVE Sleeps(ms, p, chan)
      BY DEF Fewer
    <3>1. P[p][1].want = chan \/ (ptable[p].state = "SLEEPING" /\ ptable[p].chan = chan)
      BY DEF Sleeps
    <3>2. CASE p = t
      BY <1>3, <1>4, <3>1, <3>2 DEF Sleeps
    <3>3. CASE p # t
      BY <1>3, <3>1, <3>3 DEF Sleeps, Threads
    <3> QED  BY <3>2, <3>3
  <2>2. Ticking(ms) => Ticking(P)'
    <3>1. k.tick \in BOOLEAN /\ Mine(ms, c).tick \in BOOLEAN
      BY <1>1, <1>2, ModeIs
    <3>2. k.tick = Mine(ms, c).tick
      BY <1>4, <3>1
    <3> QED  BY <1>5, <3>2, TickingMoves
  <2>3. SameZombies
    BY DEF SameZombies
  <2> QED  BY <2>1, <2>2, <2>3, AwaitedLess
<1>15. Boots(P)'
  <2>1. Last(P) = Last(ms)
    <3>1. Boot \in Threads
      BY Numbers DEF Threads
    <3> QED  BY <1>3, <3>1 DEF Last, Shifted
  <2>2. \A d \in Cpus : d # Thread(c) => code'[d] = code[d]
    BY <1>3 DEF Threads
  <2> QED  BY <1>7, <2>1, <2>2, BootsMoves
<1>16. SchedTypes'
  <2>1. \A d \in Cpus : Registers(cpus'[d])
    BY <1>7 DEF SchedTypes
  <2> QED  BY <1>3, <1>7, <2>1 DEF SchedTypes
<1>17. Sound(P)'
  BY <1>3, <1>6, <1>8, <1>9, <1>11, <1>12, <1>13, <1>14, <1>15 DEF Sound
<1> QED  BY <1>16, <1>17

\* A frame above those of t
LEMMA Pushing ==
  ASSUME Configured, SchedTypes, NEW ms, Sound(ms), NEW t \in Threads, NEW s \in Seq(Instr), NEW f \in Mode,
         Left(s, f), f.child = 0, Idle(ms[t][1]),
         \/ t \in Procs /\ f.kind = "trap" /\ ms[t][1].kind \in {"user", "call"}
         \/ t \in Procs /\ f.kind = "call" /\ ms[t][1].kind = "user"
         \/ t \in Cpus /\ f.kind = "irq" /\ ms[t][1].kind \in {"main", "base"}
  PROVE  /\ Stack(t, <<s>> \o code[t], <<f>> \o ms[t]) /\ (<<f>> \o ms[t])[1] = f
         /\ Shifted(ms, t, <<f>> \o ms[t], 1)
<1>1. PICK a : a = code[t]
  OBVIOUS
<1>2. PICK b : b = ms[t]
  OBVIOUS
<1>3. Stack(t, a, b)
  BY <1>1, <1>2 DEF Sound, Stacks
<1>4. /\ a \in Seq(Seq(Instr)) /\ b \in Seq(Mode) /\ Len(a) = Len(b) /\ Len(b) \in 1 .. 3 /\ Shaped(t, b)
      /\ \A i \in 1 .. Len(b) : Left(a[i], b[i]) /\ (i > 1 => Idle(b[i]))
  BY <1>3, ShapedLen DEF Stack
<1>5. PICK y : y = <<s>> \o a
  OBVIOUS
<1>6. PICK z : z = <<f>> \o b
  OBVIOUS
<1>7. /\ y \in Seq(Seq(Instr)) /\ Len(y) = Len(b) + 1 /\ y[1] = s
      /\ \A i \in 2 .. Len(b) + 1 : y[i] = a[i - 1]
  <2>1. PICK S : S = Seq(Instr)
    OBVIOUS
  <2>2. a \in Seq(S) /\ s \in S
    BY <1>4, <2>1
  <2>3. y \in Seq(S) /\ Len(y) = Len(a) + 1 /\ y[1] = s /\ \A i \in 2 .. Len(a) + 1 : y[i] = a[i - 1]
    BY <1>5, <2>2
  <2> QED  BY <1>4, <2>1, <2>3
<1>8. /\ z \in Seq(Mode) /\ Len(z) = Len(b) + 1 /\ z[1] = f
      /\ \A i \in 2 .. Len(b) + 1 : z[i] = b[i - 1]
  BY <1>4, <1>6
<1>9. \A i \in 1 .. Len(z) : Left(y[i], z[i]) /\ (i > 1 => Idle(z[i]))
  <2> TAKE i \in 1 .. Len(z)
  <2>1. CASE i = 1
    BY <1>7, <1>8, <2>1
  <2>2. CASE i # 1
    <3>1. i \in 2 .. Len(b) + 1 /\ i - 1 \in 1 .. Len(b)
      <4>1. Len(b) \in Int /\ Len(z) = Len(b) + 1
        BY <1>4, <1>8
      <4> QED  BY <2>2, <4>1
    <3>2. y[i] = a[i - 1] /\ z[i] = b[i - 1]
      BY <1>7, <1>8, <3>1
    <3>3. PICK j \in 1 .. Len(b) : j = i - 1
      BY <3>1
    <3>4. Left(a[j], b[j]) /\ Idle(b[j])
      <4>1. CASE j = 1
        BY <1>2, <1>4, <4>1
      <4>2. CASE j # 1
        <5>1. j > 1
          BY <1>4, <4>2
        <5> QED  BY <1>4, <5>1
      <4> QED  BY <4>1, <4>2
    <3> QED  BY <3>2, <3>3, <3>4
  <2> QED  BY <2>1, <2>2
<1>10. Shaped(t, z)
  <2>1. z[2] = b[1] /\ (Len(b) > 1 => z[3] = b[2]) /\ b[1] = ms[t][1]
    BY <1>2, <1>4, <1>8
  <2>2. CASE t \in Procs /\ f.kind = "trap" /\ ms[t][1].kind \in {"user", "call"}
    <3>1. t \notin Cpus
      BY <2>2, Numbers
    <3>2. \/ Len(b) = 1 /\ b[1].kind = "user"
          \/ Len(b) = 2 /\ b[1].kind = "call" /\ b[2].kind = "user"
      BY <1>4, <2>1, <2>2, <3>1 DEF Shaped
    <3> QED  BY <1>8, <2>1, <2>2, <3>2 DEF Shaped
  <2>3. CASE t \in Procs /\ f.kind = "call" /\ ms[t][1].kind = "user"
    <3>1. t \notin Cpus
      BY <2>3, Numbers
    <3>2. Len(b) = 1 /\ b[1].kind = "user"
      BY <1>4, <2>1, <2>3, <3>1 DEF Shaped
    <3> QED  BY <1>8, <2>1, <2>3, <3>2 DEF Shaped
  <2>4. CASE t \in Cpus /\ f.kind = "irq" /\ ms[t][1].kind \in {"main", "base"}
    <3>1. t \notin Procs
      BY <2>4, Numbers
    <3>2. Len(b) = 1 /\ b[1].kind = IF t = Boot THEN "main" ELSE "base"
      BY <1>4, <2>1, <2>4, <3>1 DEF Shaped
    <3> QED  BY <1>8, <2>1, <2>4, <3>2 DEF Shaped
  <2> QED  BY <2>2, <2>3, <2>4
<1>11. Stack(t, y, z)
  BY <1>7, <1>8, <1>9, <1>10 DEF Stack
<1>12. Shifted(ms, t, z, 1)
  <2>1. ASSUME NEW i \in 1 .. Len(z), z[i].child # 0 PROVE i - 1 \in 1 .. Len(b) /\ z[i] = b[i - 1]
    BY <1>4, <1>8, <2>1
  <2>2. z[Len(z)] = b[Len(b)]
    <3>1. Len(z) \in 2 .. Len(b) + 1 /\ Len(z) - 1 = Len(b)
      <4>1. Len(b) \in Int /\ Len(b) >= 1 /\ Len(z) = Len(b) + 1
        BY <1>4, <1>8
      <4> QED  BY <4>1
    <3> QED  BY <1>8, <3>1
  <2> QED  BY <1>2, <2>1, <2>2 DEF Shifted
<1> QED  BY <1>1, <1>2, <1>5, <1>6, <1>8, <1>11, <1>12

\* A frame that ends
LEMMA Popping ==
  ASSUME Configured, SchedTypes, NEW ms, Sound(ms), NEW t \in Threads, ms[t][1].kind \in {"call", "trap", "irq"}
  PROVE  \E k \in Mode :
           /\ Stack(t, Tail(code[t]), Tail(ms[t])) /\ Tail(ms[t])[1] = k
           /\ Shifted(ms, t, Tail(ms[t]), -1) /\ Idle(k) /\ k.kind \in {"user", "call", "main", "base"}
<1>1. PICK a : a = code[t]
  OBVIOUS
<1>2. PICK b : b = ms[t]
  OBVIOUS
<1>3. Stack(t, a, b)
  BY <1>1, <1>2 DEF Sound, Stacks
<1>4. /\ a \in Seq(Seq(Instr)) /\ b \in Seq(Mode) /\ Len(a) = Len(b) /\ Len(b) \in 2 .. 3 /\ Shaped(t, b)
      /\ \A i \in 1 .. Len(b) : Left(a[i], b[i]) /\ (i > 1 => Idle(b[i]))
  BY <1>2, <1>3 DEF Stack, Shaped
<1>5. PICK y : y = Tail(a)
  OBVIOUS
<1>6. PICK z : z = Tail(b)
  OBVIOUS
<1>7. y \in Seq(Seq(Instr)) /\ Len(y) = Len(b) - 1 /\ \A i \in 1 .. Len(b) - 1 : y[i] = a[i + 1]
  <2>1. PICK S : S = Seq(Instr)
    OBVIOUS
  <2>2. a \in Seq(S) /\ Len(a) \in 2 .. 3
    BY <1>4, <2>1
  <2>3. a # << >> /\ Len(a) \in Nat
    <3>1. Len(<< >>) = 0 /\ Len(a) # 0
      BY <2>2
    <3>2. Len(a) \in Nat
      BY <2>2
    <3> QED  BY <3>1, <3>2, Zenon
  <2>4. y \in Seq(S) /\ Len(y) = Len(a) - 1
    BY <1>5, <2>2, <2>3
  <2>5. \A i \in 1 .. Len(a) - 1 : y[i] = a[i + 1]
    BY <1>5, <2>2, <2>3
  <2> QED  BY <1>4, <2>1, <2>4, <2>5
<1>8. z \in Seq(Mode) /\ Len(z) = Len(b) - 1 /\ \A i \in 1 .. Len(b) - 1 : z[i] = b[i + 1]
  BY <1>4, <1>6
<1>9. \A i \in 1 .. Len(z) : Left(y[i], z[i]) /\ (i > 1 => Idle(z[i]))
  <2> TAKE i \in 1 .. Len(z)
  <2>1. i + 1 \in 1 .. Len(b) /\ i + 1 > 1 /\ y[i] = a[i + 1] /\ z[i] = b[i + 1]
    BY <1>4, <1>7, <1>8
  <2> QED  BY <1>4, <2>1
<1>10. z[1] = b[2] /\ b[2] \in Mode /\ Idle(b[2]) /\ (Len(b) > 2 => z[2] = b[3])
  BY <1>4, <1>8
<1>11. Shaped(t, z) /\ b[2].kind \in {"user", "call", "main", "base"}
  BY <1>4, <1>8, <1>10 DEF Shaped
<1>12. Stack(t, y, z)
  BY <1>7, <1>8, <1>9, <1>11 DEF Stack
<1>13. Shifted(ms, t, z, -1)
  <2>1. ASSUME NEW i \in 1 .. Len(z), z[i].child # 0 PROVE i - (-1) \in 1 .. Len(b) /\ z[i] = b[i - (-1)]
    BY <1>4, <1>8
  <2>2. z[Len(z)] = b[Len(b)]
    BY <1>4, <1>8
  <2> QED  BY <1>2, <2>1, <2>2 DEF Shifted
<1> QED  BY <1>1, <1>2, <1>5, <1>6, <1>10, <1>11, <1>12, <1>13

\* The kinds of what a processor runs
LEMMA MineKind ==
  ASSUME Configured, SchedTypes, NEW ms, Sound(ms), NEW c \in Cpus
  PROVE  /\ on[c] # None => Mine(ms, c).kind \in {"user", "call", "trap"}
         /\ on[c] = None => Mine(ms, c).kind \in {"main", "base", "irq"}
  BY KindIs, MineIs, ModeIs DEF Kinds

\* Who can be interrupted holds nothing.
LEMMA OpenIdle ==
  ASSUME NEW r, NEW m \in Mode, Views(r, m), r.IF
  PROVE  Idle(m) /\ m.kind \notin {"trap", "irq"}
<1>1. Count(m) \in Nat /\ ~(Count(m) > 0)
  BY DEF Views, Count
<1>2. m.lock["ptable"] = "out" /\ m.lock["time"] = "out"
  BY <1>1 DEF Count
<1> QED  BY <1>2 DEF Idle, Lock, Views

\* An interrupt comes to a frame that holds nothing, and is not an interrupt itself.
LEMMA StepTimer ==
  ASSUME Configured, SchedTypes, panicked = "no", NEW ms, Sound(ms), NEW c \in Cpus, Timer(c)
  PROVE  SchedTypes' /\ panicked' = "no" /\ \E ms2 : Sound(ms2)'
<1>1. PICK m : m = Mine(ms, c)
  OBVIOUS
<1>2. PICK t : t = Thread(c)
  OBVIOUS
<1>3. PICK kind : kind = IF on[c] = None THEN "irq" ELSE "trap"
  OBVIOUS
<1>4. PICK k : k = Fresh(kind)
  OBVIOUS
<1>5. PICK s : s = Trap(c)
  OBVIOUS
<1>6. /\ cpus[c].IF /\ cpus' = [cpus EXCEPT ![c].IF = FALSE]
      /\ code' = [code EXCEPT ![t] = <<s>> \o code[t]]
      /\ on' = on /\ locks' = locks /\ ptable' = ptable /\ ticks' = ticks /\ ticks0' = ticks0 /\ panicked' = panicked
  BY <1>2, <1>5 DEF Timer
<1>7. m \in Mode /\ Views(cpus[c], m) /\ Registers(cpus[c]) /\ m = ms[t][1] /\ t \in Threads
  <2>1. Registers(cpus[c]) /\ Views(cpus[c], Mine(ms, c))
    BY DEF SchedTypes, Sound, Viewed
  <2> QED  BY <1>1, <1>2, <2>1, MineIs DEF Mine
<1>8. Idle(m) /\ m.kind \notin {"trap", "irq"}
  BY <1>6, <1>7, OpenIdle
<1>9. k \in Mode /\ Idle(k) /\ k.kind = kind /\ k.child = 0 /\ Left(s, k) /\ s \in Seq(Instr) /\ k.st = "run"
  <2>1. kind \in {"trap", "irq"} /\ kind \in Kinds
    BY <1>3 DEF Kinds
  <2>2. Left(s, k)
    BY <1>4, <1>5, <2>1, TrapLeft
  <2>3. s \in Seq(Instr)
    BY <2>2 DEF Left, Path
  <2> QED  BY <1>4, <2>1, <2>2, <2>3, FreshIs
<1>10. \/ t \in Procs /\ k.kind = "trap" /\ ms[t][1].kind \in {"user", "call"}
       \/ t \in Cpus /\ k.kind = "irq" /\ ms[t][1].kind \in {"main", "base"}
  <2>1. /\ on[c] # None => m.kind \in {"user", "call", "trap"} /\ t \in Procs
        /\ on[c] = None => m.kind \in {"main", "base", "irq"} /\ t = c
    <3>1. on[c] # None => m.kind \in {"user", "call", "trap"}
      BY <1>1, MineKind
    <3>2. on[c] = None => m.kind \in {"main", "base", "irq"}
      BY <1>1, MineKind
    <3>3. (on[c] # None => t \in Procs) /\ (on[c] = None => t = c)
      BY <1>2, MineIs
    <3> QED  BY <3>1, <3>2, <3>3
  <2> QED  BY <1>3, <1>7, <1>8, <1>9, <2>1
<1>11. PICK y : y = <<s>> \o code[t]
  OBVIOUS
<1>12. PICK z : z = <<k>> \o ms[t]
  OBVIOUS
<1>13. Stack(t, y, z) /\ z[1] = k /\ Shifted(ms, t, z, 1)
  BY <1>7, <1>8, <1>9, <1>10, <1>11, <1>12, Pushing
<1>14. PICK r : r = [cpus[c] EXCEPT !.IF = FALSE]
  OBVIOUS
<1>15. cpus' = [cpus EXCEPT ![c] = r]
  BY <1>6, <1>14 DEF SchedTypes
<1>16. Registers(r) /\ r.IF = FALSE /\ r.ncli = cpus[c].ncli
  <2>1. Registers(r)
    BY <1>7, <1>14, RegistersAre
  <2> QED  BY <1>7, <1>14, <2>1 DEF Registers
<1>17. Views(r, k)
  <2>1. m.lock["ptable"] = "out" /\ m.lock["time"] = "out" /\ k.lock["ptable"] = "out" /\ k.lock["time"] = "out"
    BY <1>7, <1>8, <1>9, IdleIs
  <2>2. k.kind # "user"
    BY <1>3, <1>9
  <2> QED  BY <1>7, <1>9, <1>16, <2>1, <2>2 DEF Views, Count
<1>18. Rewired(c, k)
  BY <1>15, <1>16, <1>17, CpusIs DEF Rewired
<1> QED  BY <1>1, <1>2, <1>6, <1>8, <1>9, <1>11, <1>13, <1>18, KeptFrame

\* A call comes from a program, which holds nothing.
LEMMA StepSyscall ==
  ASSUME Configured, SchedTypes, panicked = "no", NEW ms, Sound(ms), NEW c \in Cpus, Syscall(c)
  PROVE  SchedTypes' /\ panicked' = "no" /\ \E ms2 : Sound(ms2)'
<1>1. PICK m : m = Mine(ms, c)
  OBVIOUS
<1>2. PICK t : t = Thread(c)
  OBVIOUS
<1>3. on[c] # None /\ Top(c) = << >> /\ t = on[c] /\ t \in Procs /\ t \in Threads
  BY <1>2, MineIs DEF Syscall
<1>4. PICK call \in Program(on[c]) : code' = [code EXCEPT ![on[c]] = <<SysCall(call) \o << <<"iret", 0>> >> >> \o @]
  BY DEF Syscall
<1>5. call \in Calls
  BY <1>3, <1>4 DEF Configured
<1>6. PICK k : k = Fresh("call")
  OBVIOUS
<1>7. PICK s : s = SysCall(call) \o << <<"iret", 0>> >>
  OBVIOUS
<1>8. /\ cpus' = cpus /\ code' = [code EXCEPT ![t] = <<s>> \o code[t]]
      /\ on' = on /\ locks' = locks /\ ptable' = ptable /\ ticks' = ticks /\ ticks0' = ticks0 /\ panicked' = panicked
  BY <1>3, <1>4, <1>7 DEF Syscall
<1>9. m \in Mode /\ Views(cpus[c], m) /\ m = ms[t][1] /\ Left(<< >>, m)
  <2>1. Views(cpus[c], Mine(ms, c))
    BY DEF Sound, Viewed
  <2> QED  BY <1>1, <1>2, <1>3, <2>1, MineIs DEF Mine
<1>10. m.kind = "user" /\ Idle(m)
  <2>1. Final(m) /\ m.kind \in {"user", "call", "trap"}
    BY <1>1, <1>3, <1>9, LeftNothing, MineKind
  <2>2. m.kind = "user"
    BY <2>1 DEF Final
  <2> QED  BY <1>9, <2>2, ModeIs DEF Lawful
<1>11. k \in Mode /\ Idle(k) /\ k.kind = "call" /\ k.child = 0 /\ Left(s, k) /\ s \in Seq(Instr) /\ k.st = "run"
  <2>1. Left(s, k)
    BY <1>5, <1>6, <1>7, SysCallLeft
  <2>2. s \in Seq(Instr)
    BY <2>1 DEF Left, Path
  <2> QED  BY <1>6, <2>1, <2>2, FreshIs DEF Kinds
<1>12. PICK y : y = <<s>> \o code[t]
  OBVIOUS
<1>13. PICK z : z = <<k>> \o ms[t]
  OBVIOUS
<1>14. Stack(t, y, z) /\ z[1] = k /\ Shifted(ms, t, z, 1)
  BY <1>3, <1>9, <1>10, <1>11, <1>12, <1>13, Pushing
<1>15. Views(cpus[c], k)
  <2>1. m.lock["ptable"] = "out" /\ m.lock["time"] = "out" /\ k.lock["ptable"] = "out" /\ k.lock["time"] = "out"
    BY <1>9, <1>10, <1>11, IdleIs
  <2> QED  BY <1>9, <1>11, <2>1 DEF Views, Count
<1>16. Rewired(c, k)
  BY <1>8, <1>15, CpusSame DEF Rewired
<1> QED  BY <1>1, <1>2, <1>3, <1>8, <1>10, <1>11, <1>12, <1>14, <1>16, KeptFrame

\* A frame that ends holds nothing, nor does the one below it.
LEMMA StepIret ==
  ASSUME Configured, SchedTypes, panicked = "no", NEW ms, Sound(ms), NEW c \in Cpus, Iret(c)
  PROVE  SchedTypes' /\ panicked' = "no" /\ \E ms2 : Sound(ms2)'
<1>1. PICK m : m = Mine(ms, c)
  OBVIOUS
<1>2. PICK t : t = Thread(c)
  OBVIOUS
<1>3. At(c, "iret")
  BY DEF Iret
<1>4. PICK n \in Mode :
        /\ Leads(<<"iret", Arg(c)>>, m, n) /\ Top(c) # << >> /\ m \in Mode /\ Views(cpus[c], m) /\ Registers(cpus[c])
  BY <1>1, <1>3, Acting
<1>5. m.kind \in {"call", "trap", "irq"} /\ Idle(m)
  BY <1>4 DEF Leads, Views
<1>6. /\ cpus' = [cpus EXCEPT ![c].IF = TRUE] /\ code' = [code EXCEPT ![t] = Tail(code[t])]
      /\ on' = on /\ locks' = locks /\ ptable' = ptable /\ ticks' = ticks /\ ticks0' = ticks0 /\ panicked' = panicked
  BY <1>2 DEF Iret
<1>7. t \in Threads /\ m = ms[t][1]
  BY <1>1, <1>2, MineIs DEF Mine
<1>8. PICK y : y = Tail(code[t])
  OBVIOUS
<1>9. PICK z : z = Tail(ms[t])
  OBVIOUS
<1>10. PICK k \in Mode : /\ Stack(t, y, z) /\ z[1] = k /\ Shifted(ms, t, z, -1) /\ Idle(k)
                         /\ k.kind \in {"user", "call", "main", "base"}
  BY <1>5, <1>7, <1>8, <1>9, Popping
<1>11. PICK r : r = [cpus[c] EXCEPT !.IF = TRUE]
  OBVIOUS
<1>12. cpus' = [cpus EXCEPT ![c] = r]
  BY <1>6, <1>11 DEF SchedTypes
<1>13. Registers(r) /\ r.IF = TRUE /\ r.ncli = cpus[c].ncli
  <2>1. Registers(r)
    BY <1>4, <1>11, RegistersAre
  <2> QED  BY <1>4, <1>11, <2>1 DEF Registers
<1>14. Views(r, k)
  <2>1. /\ m.lock["ptable"] = "out" /\ m.lock["time"] = "out" /\ k.lock["ptable"] = "out" /\ k.lock["time"] = "out"
        /\ k.st = "run"
    BY <1>4, <1>5, <1>10, IdleIs
  <2> QED  BY <1>4, <1>10, <1>13, <2>1 DEF Views, Count
<1>15. Rewired(c, k)
  BY <1>12, <1>13, <1>14, CpusIs DEF Rewired
<1> QED  BY <1>1, <1>2, <1>4, <1>5, <1>6, <1>8, <1>10, <1>15, KeptFrame

\* A processor that is not started yet
LEMMA NotStarted ==
  ASSUME Configured, SchedTypes, NEW ms, Sound(ms), NEW n \in 1 .. NCPU - 1, n >= Last(ms)
  PROVE  /\ -n \in Cpus /\ -n # Boot /\ on[-n] = None /\ Thread(-n) = -n /\ code[-n] = << << >> >> /\ ~cpus[-n].IF
         /\ Stack(-n, <<MpMain>>, ms[-n])
<1>1. PICK a : a = -n
  OBVIOUS
<1>2. a \in Cpus /\ a # Boot
  BY <1>1 DEF Cpus, Boot, Configured
<1>3. code[a] = << << >> >> /\ ~cpus[a].IF /\ on[a] = None
  BY <1>1 DEF Sound, Boots, Last
<1>4. Thread(a) = a
  BY <1>3 DEF Thread
<1>5. PICK b : b = ms[a]
  OBVIOUS
<1>6. Stack(a, << << >> >>, b) /\ a \in Threads /\ a \notin Procs
  BY <1>2, <1>3, <1>5, Numbers DEF Sound, Stacks, Threads
<1>7. Len(<< << >> >>) = 1 /\ << << >> >>[1] = << >>
  OBVIOUS
<1>8. Len(b) = 1 /\ b \in Seq(Mode) /\ Left(<< >>, b[1]) /\ Shaped(a, b)
  <2>1. Len(b) = 1
    BY <1>6, <1>7 DEF Stack
  <2> QED  BY <1>6, <1>7, <2>1 DEF Stack
<1>9. b[1] \in Mode /\ b[1].kind = "base"
  BY <1>2, <1>6, <1>8 DEF Shaped
<1>10. Idle(b[1]) /\ b[1].child = 0
  BY <1>8, <1>9, LeftNothing DEF Final
<1>11. Left(MpMain, b[1])
  BY <1>9, <1>10, SchedulerLeft
<1>12. PICK q : q = MpMain
  OBVIOUS
<1>13. q \in Seq(Instr)
  BY <1>11, <1>12 DEF Left, Path
<1>14. <<q>> \in Seq(Seq(Instr)) /\ Len(<<q>>) = 1 /\ <<q>>[1] = q
  BY <1>13
<1>15. Stack(a, <<q>>, b)
  <2> PICK v : v = <<q>>
    OBVIOUS
  <2>1. \A i \in 1 .. Len(b) : Left(v[i], b[i]) /\ (i > 1 => Idle(b[i]))
    <3> TAKE i \in 1 .. Len(b)
    <3>1. i = 1
      BY <1>8
    <3> QED  BY <1>11, <1>12, <1>14, <3>1
  <2>2. v \in Seq(Seq(Instr)) /\ Len(v) = 1
    BY <1>14
  <2>3. Stack(a, v, b)
    BY <1>8, <2>1, <2>2 DEF Stack
  <2> QED  BY <2>3
<1> QED  BY <1>1, <1>2, <1>3, <1>4, <1>5, <1>12, <1>15

\* The boot processor gives the next one its code.
LEMMA StepStartAp ==
  ASSUME Configured, SchedTypes, panicked = "no", NEW ms, Sound(ms), NEW c \in Cpus, StartAp(c)
  PROVE  SchedTypes' /\ panicked' = "no" /\ \E ms2 : Sound(ms2)'
<1>1. PICK m : m = Mine(ms, c)
  OBVIOUS
<1>2. PICK a : a = Arg(c)
  OBVIOUS
<1>3. At(c, "startap")
  BY DEF StartAp
<1>4. PICK k \in Mode :
        /\ Leads(<<"startap", a>>, m, k) /\ Left(<< >> \o Tail(Top(c)), k)
        /\ Top(c) # << >> /\ m \in Mode /\ Views(cpus[c], m)
  BY <1>1, <1>2, <1>3, Acting
<1>5. m.kind = "main" /\ Idle(m) /\ a = -m.next /\ m.next < NCPU /\ k = [m EXCEPT !.next = m.next + 1]
  BY <1>4 DEF Leads
<1>6. /\ k.lock = m.lock /\ k.kind = m.kind /\ k.st = m.st /\ k.child = m.child /\ k.want = m.want
      /\ k.tick = m.tick /\ k.next = m.next + 1 /\ m.next \in 1 .. NCPU - 1 /\ m.st = "run"
  <2>1. m \in Records /\ m.next \in 1 .. NCPU /\ m.st = "run"
    BY <1>4, <1>5, ModeIs, IdleIs
  <2> QED  BY <1>5, <2>1 DEF Records, Configured
<1>7. on[c] = None /\ Thread(c) = c /\ Len(ms[c]) = 1 /\ m = ms[c][1]
  BY <1>1, <1>5, KindIs
<1>8. c = Boot /\ c \in Threads /\ \A u \in Threads : Stack(u, code[u], ms[u])
  <2>1. c \in Threads /\ c \notin Procs
    BY Numbers DEF Threads
  <2>2. \A u \in Threads : Stack(u, code[u], ms[u])
    BY DEF Sound, Stacks
  <2>3. Shaped(c, ms[c])
    BY <2>1, <2>2 DEF Stack
  <2> QED  BY <1>5, <1>7, <2>1, <2>2, <2>3 DEF Shaped
<1>9. Last(ms) = m.next
  BY <1>7, <1>8 DEF Last
<1>10. /\ a \in Cpus /\ a # c /\ on[a] = None /\ Thread(a) = a /\ code[a] = << << >> >> /\ ~cpus[a].IF
       /\ Stack(a, <<MpMain>>, ms[a]) /\ a \in Threads
  <2>1. PICK n \in 1 .. NCPU - 1 : n = m.next /\ n >= Last(ms)
    BY <1>6, <1>9
  <2> QED  BY <1>5, <1>8, <2>1, NotStarted DEF Threads
<1>11. PICK y : y = <<MpMain>>
  OBVIOUS
<1>12. /\ code' = [Become(c, << >>) EXCEPT ![a] = y] /\ panicked' = panicked /\ cpus' = cpus
       /\ on' = on /\ locks' = locks /\ ptable' = ptable /\ ticks' = ticks /\ ticks0' = ticks0
  BY <1>2, <1>11 DEF StartAp
<1>13. y \in Seq(Seq(Instr)) /\ Stack(a, y, ms[a])
  BY <1>10, <1>11 DEF Stack
<1>14. PICK w : w = << >> \o Tail(Top(c))
  OBVIOUS
<1>15. /\ Become(c, << >>) \in [Threads -> Seq(Seq(Instr))] /\ w \in Seq(Instr)
       /\ Become(c, << >>)[c] = First(code[c], w)
       /\ \A u \in Threads : u # c => Become(c, << >>)[u] = code[u]
  BY <1>4, <1>7, <1>14, Spaced, BecomeIs
<1>16. /\ code' \in [Threads -> Seq(Seq(Instr))] /\ code'[a] = y /\ code'[c] = First(code[c], w)
       /\ \A u \in Threads : u # c /\ u # a => code'[u] = code[u]
  BY <1>8, <1>10, <1>12, <1>13, <1>15
<1>17. PICK P : P = Put(ms, c, k)
  OBVIOUS
<1>18. /\ P \in Modes /\ P[c] = First(ms[c], k) /\ Len(P[c]) = 1 /\ P[c][1] = k
       /\ \A u \in Threads : u # c => P[u] = ms[u]
  BY <1>7, <1>8, <1>17, PutIs
<1>19. Moves(ms, P, c, k)
  BY <1>7, <1>12, <1>17, MinePut DEF Moves
<1>20. Stacks(P)'
  <2>1. Stack(c, First(code[c], w), First(ms[c], k))
    <3>1. Stack(c, code[c], ms[c]) /\ Left(w, k) /\ k.kind = ms[c][1].kind
      BY <1>4, <1>6, <1>7, <1>8, <1>14
    <3> QED  BY <1>15, <3>1, StackPut
  <2>2. \A u \in Threads : Stack(u, code'[u], P[u])
    BY <1>8, <1>10, <1>13, <1>16, <1>18, <2>1
  <2> QED  BY <2>2 DEF Stacks
<1>21. Viewed(P)'
  <2>1. Views(cpus'[c], k)
    BY <1>4, <1>6, <1>12 DEF Views, Count
  <2> QED  BY <1>12, <1>19, <2>1, ViewedMoves
<1>22. Locked(P)'
  <2>1. LocksAlike(Mine(ms, c), k)
    BY <1>1, <1>6 DEF LocksAlike
  <2> QED  BY <1>12, <1>19, <2>1, LockedMoves
<1>23. Off(P)'
  <2>1. ASSUME NEW d \in Cpus, on[d] # None PROVE P[d] = ms[d]
    BY <1>7, <1>18, <2>1 DEF Threads
  <2>2. ASSUME NEW p \in Procs, \A d \in Cpus : on[d] # p PROVE Waits(ms, P, p)
    <3>1. p # c /\ p # a /\ p \in Threads
      BY <1>10, Numbers DEF Threads
    <3> QED  BY <1>12, <1>16, <1>18, <3>1 DEF Waits, Near
  <2> QED  BY <1>12, <2>1, <2>2, OffMoves
<1>24. Running(P)'
  <2>1. \A p \in Procs : p # on[c] => Near(ptable[p].state, ptable'[p].state) \/ \A d \in Cpus : on[d] # p
    BY <1>12 DEF Near
  <2> QED  BY <1>7, <1>12, <1>19, <2>1, RunningMoves
<1>25. Kids(P)'
  BY <1>6, <1>7, <1>8, <1>12, <1>17, KidsPut
<1>26. Awaited(P)'
  BY <1>1, <1>6, <1>7, <1>12, <1>17, AwaitedPut
<1>27. Boots(P)'
  <2>1. Last(P) = m.next + 1
    BY <1>6, <1>8, <1>18 DEF Last
  <2>2. ASSUME NEW n \in 1 .. NCPU - 1, n >= Last(P)
        PROVE  code'[-n] = << << >> >> /\ ~cpus'[-n].IF /\ on'[-n] = None
    <3>1. m.next \in Int /\ n >= Last(ms) /\ -n # a
      BY <1>5, <1>6, <1>9, <2>1, <2>2
    <3>2. -n \in Cpus /\ -n # Boot /\ on[-n] = None /\ code[-n] = << << >> >> /\ ~cpus[-n].IF
      BY <3>1, NotStarted
    <3> PICK d : d = -n
      OBVIOUS
    <3>3. d \in Threads /\ d # c /\ d # a
      BY <1>8, <3>1, <3>2 DEF Threads
    <3> QED  BY <1>12, <1>16, <3>2, <3>3
  <2> QED  BY <2>2 DEF Boots, Last
<1>28. SchedTypes'
  BY <1>12, <1>16 DEF SchedTypes
<1>29. Sound(P)'
  BY <1>18, <1>20, <1>21, <1>22, <1>23, <1>24, <1>25, <1>26, <1>27 DEF Sound
<1> QED  BY <1>12, <1>28, <1>29

\* Every step of a processor leads from modes to modes.
LEMMA StepInv ==
  ASSUME SchedInv, NEW c \in Cpus, Step(c)
  PROVE  SchedTypes' /\ panicked' = "no" /\ \E ms2 : Sound(ms2)'
<1>1. Configured /\ SchedTypes /\ panicked = "no"
  BY DEF SchedInv
<1>2. PICK ms : Sound(ms)
  BY DEF SchedInv
<1>3. CASE Pushcli(c) \/ Xchg(c) \/ Record(c) \/ Forget(c) \/ Unlock(c) \/ Popcli(c)
  BY <1>1, <1>2, <1>3, StepPushcli, StepXchg, StepRecord, StepForget, StepUnlock, StepPopcli
<1>4. CASE Sti(c) \/ Scan(c) \/ Sched(c) \/ Restore(c)
  BY <1>1, <1>2, <1>4, StepSti, StepScan, StepSched, StepRestore
<1>5. CASE Give(c) \/ Doze(c) \/ Wakeup1(c) \/ AllocProc(c) \/ Runnable(c) \/ Exit(c) \/ Wait(c)
  BY <1>1, <1>2, <1>5, StepGive, StepDoze, StepWakeup1, StepAllocProc, StepRunnable, StepExit, StepWait
<1>6. CASE Ticks0(c) \/ Slept(c) \/ Tick(c)
  BY <1>1, <1>2, <1>6, StepTicks0, StepSlept, StepTick
<1>7. CASE Timer(c) \/ Slice(c) \/ Iret(c) \/ Syscall(c)
  BY <1>1, <1>2, <1>7, StepTimer, StepSlice, StepIret, StepSyscall
<1>8. CASE StartAp(c) \/ Await(c) \/ Started(c)
  BY <1>1, <1>2, <1>8, StepStartAp, StepAwait, StepStarted
<1> QED  BY <1>3, <1>4, <1>5, <1>6, <1>7, <1>8 DEF Step

\* The invariant is inductive.
LEMMA NextInv == SchedInv /\ [SchedNext]_schedVars => SchedInv'
<1> SUFFICES ASSUME SchedInv, [SchedNext]_schedVars PROVE SchedInv'
  OBVIOUS
<1>1. Configured'
  BY DEF SchedInv, Configured, Procs
<1>2. CASE SchedNext
  <2>1. PICK c \in Cpus : Step(c)
    BY <1>2 DEF SchedNext
  <2>2. SchedTypes' /\ panicked' = "no" /\ \E ms2 : Sound(ms2)'
    BY <2>1, StepInv
  <2> QED  BY <1>1, <2>2 DEF SchedInv
<1>3. CASE UNCHANGED schedVars
  <2>1. PICK ms : Sound(ms)
    BY DEF SchedInv
  <2>2. /\ cpus' = cpus /\ on' = on /\ code' = code /\ locks' = locks /\ ptable' = ptable /\ ticks' = ticks
        /\ ticks0' = ticks0 /\ panicked' = panicked
    BY <1>3 DEF schedVars
  <2>3. Sound(ms)'
    BY <2>1, <2>2 DEF Sound, Stacks, Viewed, Locked, Off, Running, Kids, Awaited, Boots, Sleeps, Ticking, Mine, Thread,
                      Passed, Table!Zombies, Table!Children, Table!Slots
  <2>4. SchedTypes' /\ panicked' = "no"
    BY <2>2 DEF SchedInv, SchedTypes
  <2> QED  BY <1>1, <2>3, <2>4 DEF SchedInv
<1> QED  BY <1>2, <1>3

\* On every machine of spinlock.c, proc.c and trap.c nothing panics, a critical section
\* is one processor's, with its interrupts off, no two processors wait for each other, a
\* process runs on one processor and not after its end, and nobody sleeps for a tick that
\* has come or a child that has ended.
THEOREM SchedulerAlwaysRight == Configured /\ SchedSpec => []SchedulerRight
<1>1. Configured /\ SchedInit => SchedInv
  BY InitInv
<1>2. SchedInv /\ [SchedNext]_schedVars => SchedInv'
  BY NextInv
<1>3. SchedInv => SchedulerRight
  BY InvLocks, InvThreads DEF SchedulerRight
<1> QED  BY <1>1, <1>2, <1>3, PTL DEF SchedSpec
=============================================================================
