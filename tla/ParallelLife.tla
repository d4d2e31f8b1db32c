----------------------------- MODULE ParallelLife -----------------------------
(***************************************************************************)
(* simulate_life_parallel of life/life-parallel.cc: threads that each      *)
(* compute a band of rows, from one board into the other, and meet at a    *)
(* barrier after every step, and the caller that counts the steps with     *)
(* them, copies the result and joins them.                                 *)
(*                                                                         *)
(* The computation of one row is one step: NoRace says that nobody writes  *)
(* what is read meanwhile.                                                 *)
(***************************************************************************)
EXTENDS Integers, Sequences, FiniteSets

CONSTANTS Width, Height, Steps,
          MaxThreads,   \* bound on the number of threads that are asked for
          Starts        \* the boards it is called with

ASSUME ParallelAssumption ==
  /\ Width \in Nat \ {0} /\ Height \in Nat \ {0} /\ Steps \in Nat \ {0}
  /\ MaxThreads \in Nat \ {0}
  /\ Starts \subseteq [0 .. Height - 1 -> [0 .. Width - 1 -> BOOLEAN]]

VARIABLES
  asked,      \* the parameter threads
  start,      \* the parameter state, as it was at the call
  state,      \* and as it is
  even, odd,  \* the boards
  pc,         \* where each thread is
  step, row,  \* step and y of its loops
  waiting,    \* who is in pthread_barrier_wait
  main,       \* where the caller is
  mainStep,   \* step of its loop
  joined      \* the threads it has joined

arguments == <<asked, start>>
boards == <<even, odd>>
thread == <<pc, step, row>>
caller == <<main, mainStep, joined>>
vars == <<arguments, state, boards, thread, waiting, caller>>

Life == INSTANCE GameOfLife WITH board <- IF mainStep % 2 = 0 THEN even ELSE odd,
                                 generation <- mainStep

Main == MaxThreads
AllThreads == 0 .. MaxThreads - 1

-----------------------------------------------------------------------------
\* The rows of each thread.

Larger(i, j) == IF i > j THEN i ELSE j
Smaller(i, j) == IF i < j THEN i ELSE j

\* num_rows_per_thread
RowsPerThread == Larger(Height \div asked, 1)

\* The loop cuts the rows into bands of this length, the first of row 0.
Band == Larger(RowsPerThread, 2)

\* threads, corrected to the number of bands.
Count == Smaller(Height \div Band + 1, asked)

Threads == 0 .. Count - 1

Lower(t) == t * Band

Upper(t) == IF t = Count - 1 THEN Height - 1 ELSE t * Band + Band - 1

Init == /\ asked \in 1 .. MaxThreads
        /\ start \in Starts
        /\ state = start /\ even = start /\ odd = start
        /\ pc = [t \in AllThreads |-> "not created"]
        /\ step = [t \in AllThreads |-> 0]
        /\ row = [t \in AllThreads |-> 0]
        /\ waiting = {}
        /\ main = "create" /\ mainStep = 0 /\ joined = 0

-----------------------------------------------------------------------------
\* pthread_barrier_wait

\* Mutant of BarrierCount: the caller is not counted.
BarrierCountThreads == Count

\* The threads, and the caller that monitors them.
BarrierCount == Count + 1

\* p arrives.  The last to arrive releases everyone.
Wait(p) ==
  IF Cardinality(waiting) + 1 < BarrierCount
  THEN /\ waiting' = waiting \cup {p}
       /\ pc' = [t \in AllThreads |-> IF t = p THEN "barrier" ELSE pc[t]]
       /\ main' = IF p = Main THEN "barrier" ELSE main
       /\ UNCHANGED <<step, row, mainStep>>
  ELSE LET released == waiting \cup {p} IN
       /\ waiting' = {}
       /\ pc' = [t \in AllThreads |-> IF t \in released THEN "step" ELSE pc[t]]
       /\ step' = [t \in AllThreads |-> IF t \in released THEN step[t] + 1 ELSE step[t]]
       /\ row' = [t \in AllThreads |-> IF t \in released THEN Lower(t) ELSE row[t]]
       /\ main' = IF Main \in released THEN "step" ELSE main
       /\ mainStep' = IF Main \in released THEN mainStep + 1 ELSE mainStep

-----------------------------------------------------------------------------
\* execute_thread

\* Mutant of WritesOdd: write_to_odd keeps its value.
WritesOddAlways(s) == TRUE

WritesOdd(s) == s % 2 = 0

ReadFrom(t) == IF WritesOdd(step[t]) THEN even ELSE odd

\* The loop over y, with its bounds check.
ComputeRow(t) ==
  LET y == row[t] IN
  /\ pc[t] = "step" /\ step[t] < Steps /\ y <= Upper(t)
  /\ IF y \in 1 .. Height - 2
     THEN IF WritesOdd(step[t])
          THEN odd' = [odd EXCEPT ![y] = Life!NextRow(ReadFrom(t), @, y)] /\ UNCHANGED even
          ELSE even' = [even EXCEPT ![y] = Life!NextRow(ReadFrom(t), @, y)] /\ UNCHANGED odd
     ELSE UNCHANGED boards
  /\ row' = [row EXCEPT ![t] = y + 1]
  /\ UNCHANGED <<arguments, state, pc, step, waiting, caller>>

FinishStep(t) ==
  /\ pc[t] = "step" /\ step[t] < Steps /\ row[t] > Upper(t)
  /\ Wait(t)
  /\ UNCHANGED <<arguments, state, boards, joined>>

Return(t) ==
  /\ pc[t] = "step" /\ step[t] = Steps
  /\ pc' = [pc EXCEPT ![t] = "returned"]
  /\ UNCHANGED <<arguments, state, boards, step, row, waiting, caller>>

-----------------------------------------------------------------------------
\* simulate_life_parallel

Created == {t \in Threads : pc[t] # "not created"}

Create(t) ==
  /\ main = "create" /\ t = Cardinality(Created)
  /\ pc' = [pc EXCEPT ![t] = "step"]
  /\ row' = [row EXCEPT ![t] = Lower(t)]
  /\ main' = IF t = Count - 1 THEN "step" ELSE main
  /\ UNCHANGED <<arguments, state, boards, step, waiting, mainStep, joined>>

\* Mutant of Monitor: the caller leaves the last step to the threads.
MonitorAllButLast ==
  /\ main = "step" /\ mainStep < Steps - 1
  /\ Wait(Main)
  /\ UNCHANGED <<arguments, state, boards, joined>>

Monitor == /\ main = "step" /\ mainStep < Steps
           /\ Wait(Main)
           /\ UNCHANGED <<arguments, state, boards, joined>>

\* state = the board of the last step
Copy == /\ main = "step" /\ mainStep = Steps
        /\ state' = IF Steps % 2 = 0 THEN even ELSE odd
        /\ main' = "join"
        /\ UNCHANGED <<arguments, boards, thread, waiting, mainStep, joined>>

\* The threads are joined one after the other, then the boards are deleted.
Join == /\ main = "join" /\ joined \in Threads /\ pc[joined] = "returned"
        /\ joined' = joined + 1
        /\ main' = IF joined = Count - 1 THEN "done" ELSE main
        /\ UNCHANGED <<arguments, state, boards, thread, waiting, mainStep>>

Finished == main = "done" /\ UNCHANGED vars

ThreadStep(t) == ComputeRow(t) \/ FinishStep(t) \/ Return(t)
MainStep == Monitor \/ Copy \/ Join \/ \E t \in Threads : Create(t)

Next == \/ \E t \in Threads : ThreadStep(t)
        \/ MainStep
        \/ Finished

Spec == Init /\ [][Next]_vars

\* Every thread that can run does.
FairSpec == Spec /\ WF_vars(MainStep) /\ \A t \in AllThreads : WF_vars(t \in Threads /\ ThreadStep(t))

-----------------------------------------------------------------------------
TypeOK ==
  /\ asked \in 1 .. MaxThreads /\ start \in Life!Boards /\ state \in Life!Boards
  /\ even \in Life!Boards /\ odd \in Life!Boards
  /\ pc \in [AllThreads -> {"not created", "step", "barrier", "returned"}]
  /\ step \in [AllThreads -> 0 .. Steps] /\ row \in [AllThreads -> 0 .. Height]
  /\ waiting \subseteq AllThreads \cup {Main}
  /\ main \in {"create", "step", "barrier", "join", "done"}
  /\ mainStep \in 0 .. Steps /\ joined \in 0 .. MaxThreads

\* t may be computing a row.
Computes(t) == /\ pc[t] = "step" /\ step[t] < Steps
               /\ row[t] <= Upper(t) /\ row[t] \in 1 .. Height - 2

\* A row that a thread writes is neither written by another thread, nor read for
\* one of its neighbours, nor copied or deleted by the caller.
NoRace ==
  \A t \in Threads : Computes(t) =>
    /\ ~(main = "step" /\ mainStep = Steps) /\ main \notin {"join", "done"}
    /\ \A u \in Threads \ {t} : Computes(u) =>
         IF WritesOdd(step[t]) = WritesOdd(step[u])
         THEN row[t] # row[u]
         ELSE row[t] \notin row[u] - 1 .. row[u] + 1

\* The caller gets what simulate_life_serial would have computed, as main.cc
\* compares them.
AgreesWithSerial == main \in {"join", "done"} => state = Life!Serial(start)

\* Each passage of the barrier shows the next generation, for any number of
\* threads, complete.
ImplementsLife == Life!Spec

\* The barrier lets everyone go the same number of times, so all return.
Terminates == <>(main = "done")

-----------------------------------------------------------------------------
(* For TLC: the loop that computes cutoffs against the closed form of its   *)
(* bands, and small boards                                                  *)

\* cutoffs: the loop at i, with temp, appends the rest.
Cutoffs(rows, perThread) ==
  LET rest[i \in 1 .. rows + 1, temp \in 0 .. rows] ==
        IF i >= rows THEN <<rows>>
        ELSE IF temp + 1 >= perThread - 1 THEN <<i, i + 1>> \o rest[i + 2, 0]
        ELSE rest[i + 1, temp + 1]
  IN  <<0>> \o rest[1, 0]

\* For every height and number of threads up to these, the bounds of each thread
\* are those of the bands above.
ASSUME CutoffsAreBands ==
  \A rows \in 1 .. 30, threads \in 1 .. 12 :
    LET perThread == Larger(rows \div threads, 1)
        cutoffs == Cutoffs(rows, perThread)
        band == Larger(perThread, 2)
        count == Smaller(Len(cutoffs) \div 2, threads)
    IN  /\ Len(cutoffs) \div 2 = rows \div band + 1
        /\ \A t \in 0 .. count - 1 : cutoffs[2 * t + 1] = t * band
        /\ \A t \in 0 .. count - 2 : cutoffs[2 * t + 2] = t * band + band - 1

\* Boards of 6 rows with dead edges, whose third column is the second one moved
\* by a row.
ShiftedColumns ==
  {[y \in 0 .. 5 |-> [x \in 0 .. 3 |->
      y \in 1 .. 4 /\ ((x = 1 /\ column[y]) \/ (x = 2 /\ column[(y % 4) + 1]))]]
   : column \in [1 .. 4 -> BOOLEAN]}
=============================================================================
