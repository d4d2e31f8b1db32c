----------------------------- MODULE GraphLabs -----------------------------
(***************************************************************************)
(* Three programs of data-structures/lab_11 that search graphs, each with a*)
(* next-state relation of its own.                                         *)
(***************************************************************************)
EXTENDS Integers, Sequences, FiniteSets, SequencesExt

(***************************************************************************)
(* data-structures/lab_11/prelab: topological.cpp reads the edges of a     *)
(* graph of classes and prints the classes in an order in which they can   *)
(* be taken, or says that there is a cycle.  Edges may repeat and loop.    *)
(***************************************************************************)

CONSTANTS
  Class,       \* named by numbers, for the order of their names
  MaxEdges

VARIABLES
  edges,       \* the lines read, as <<from, to>>
  verticies,   \* the classes that have a ClassNode
  numInEdges,  \* class -> count
  q,           \* the deque
  order,       \* printed so far
  sorting        \* "reading", "sorting", "done" or "cycle"

\* sort: a bubble sort by name
Sorted(s) == SortSeq(s, LAMBDA a, b : a < b)

ReadEdge(from, to) ==
  /\ sorting = "reading" /\ Len(edges) < MaxEdges
  /\ edges' = Append(edges, <<from, to>>)
  /\ verticies' = verticies \cup {from, to}
  /\ numInEdges' = [numInEdges EXCEPT ![to] = @ + 1]
  /\ UNCHANGED <<q, order, sorting>>

\* The line "0 0".  Pushed to the front one by one, in the order of their names
StartSort ==
  /\ sorting = "reading" /\ sorting' = "sorting"
  /\ q' = Reverse(Sorted(SetToSeq({v \in verticies : numInEdges[v] = 0})))
  /\ UNCHANGED <<edges, verticies, numInEdges, order>>

\* The out-edges of a class, sorted, an edge for each line
outEdges(v) == Sorted([i \in 1 .. Cardinality({j \in DOMAIN edges : edges[j][1] = v}) |->
                         SelectSeq(edges, LAMBDA e : e[1] = v)[i][2]])

\* Each edge takes one from the count of its end, which is pushed when that makes it 0.
RECURSIVE Followed(_, _)
Followed(s, ends) ==
  IF ends = << >> THEN s
  ELSE LET w == Head(ends)
           counts == [s.numInEdges EXCEPT ![w] = @ - 1]
       IN Followed([numInEdges |-> counts,
                    q |-> IF counts[w] = 0 THEN <<w>> \o s.q ELSE s.q], Tail(ends))

TakeClass ==
  /\ sorting = "sorting" /\ q # << >>
  /\ LET v == Head(Sorted(q))
         s == Followed([numInEdges |-> numInEdges, q |-> Tail(Sorted(q))], outEdges(v))
     IN order' = Append(order, v) /\ q' = s.q /\ numInEdges' = s.numInEdges
  /\ UNCHANGED <<edges, verticies, sorting>>

EndSort ==
  /\ sorting = "sorting" /\ q = << >>
  /\ sorting' = IF Len(order) = Cardinality(verticies) THEN "done" ELSE "cycle"
  /\ UNCHANGED <<edges, verticies, numInEdges, q, order>>

ClassesInit == /\ edges = << >> /\ verticies = {} /\ numInEdges = [c \in Class |-> 0]
        /\ q = << >> /\ order = << >> /\ sorting = "reading"

ClassesNext == (\E from, to \in Class : ReadEdge(from, to)) \/ StartSort \/ TakeClass \/ EndSort

-----------------------------------------------------------------------------
(* Properties *)

Edge(a, b) == \E i \in DOMAIN edges : edges[i] = <<a, b>>

\* Orders of all the classes in which no edge leads back
Orders == {s \in [1 .. Cardinality(verticies) -> verticies] :
             IsInjective(s) /\ \A i, j \in DOMAIN s : i <= j => ~Edge(s[j], s[i])}

\* What is printed is the first of these orders by the names, and there is said to be a
\* cycle when there is none; what was printed before that can be taken all the same.
SortRight ==
  /\ sorting = "done" =>
       /\ order \in Orders
       /\ \A s \in Orders : s # order =>
            \E i \in DOMAIN s : s[i] > order[i] /\ \A j \in 1 .. i - 1 : s[j] = order[j]
  /\ sorting = "cycle" =>
       /\ Orders = {}
       /\ \A j \in DOMAIN order, a \in Class : Edge(a, order[j]) => \E i \in 1 .. j - 1 : order[i] = a

-----------------------------------------------------------------------------
(***************************************************************************)
(* data-structures/lab_11/inlab/traveling.cpp: the shortest round trip     *)
(* from the first city of an itinerary through the others, by trying them  *)
(* in every order.                                                         *)
(***************************************************************************)

CONSTANTS
  City,        \* named by numbers, for the order of their names
  Distance     \* tables of distances: functions of two cities

VARIABLES
  distances,
  start, dests,      \* the order that is tried
  shortestPath, shortDistance,
  traveling          \* "trying" or "home"

FLT_MAX == 1000000   \* more than any trip

RECURSIVE LegsFrom(_, _)
LegsFrom(city, rest) ==
  IF rest = << >> THEN distances[city, start]
  ELSE distances[city, Head(rest)] + LegsFrom(Head(rest), Tail(rest))
computeDistance(path) == LegsFrom(start, path)

\* a comes before b by the names
Before(a, b) == \E i \in DOMAIN a : a[i] < b[i] /\ \A j \in 1 .. i - 1 : a[j] = b[j]
Permutation == {p \in [DOMAIN dests -> Range(dests)] : Range(p) = Range(dests)}
Later == {p \in Permutation : Before(dests, p)}

\* One turn of the loop; next_permutation gives the next order by the names, if there is one.
Try ==
  /\ traveling = "trying"
  /\ LET distance == computeDistance(dests) IN
     IF distance < shortDistance THEN shortDistance' = distance /\ shortestPath' = dests
     ELSE UNCHANGED <<shortDistance, shortestPath>>
  /\ IF Later = {} THEN traveling' = "home" /\ UNCHANGED dests
     ELSE dests' \in {p \in Later : \A r \in Later : ~Before(r, p)} /\ UNCHANGED traveling
  /\ UNCHANGED <<distances, start>>

\* The itinerary is a shuffle of some of the cities, two at the least: with one, dests is
\* empty and dests.at(0) throws.  Its first city leaves dests, which is then sorted.  The
\* first turn replaces shortestPath, whatever it is.
TripStart(table, city, others) ==
  /\ distances = table /\ start = city /\ dests = SortSeq(SetToSeq(others), <)
  /\ shortestPath = << >> /\ shortDistance = FLT_MAX
  /\ traveling = "trying"

TripInit == \E table \in Distance, city \in City :
        \E others \in SUBSET (City \ {city}) \ {{}} : TripStart(table, city, others)

TripNext == Try

-----------------------------------------------------------------------------
(* Properties *)

\* At the end the path goes through every city once, its distance is the one printed, and
\* no order is shorter.
TripRight ==
  traveling = "home" =>
    /\ shortestPath \in Permutation
    /\ shortDistance = computeDistance(shortestPath)
    /\ \A p \in Permutation : shortDistance <= computeDistance(p)

-----------------------------------------------------------------------------
(***************************************************************************)
(* data-structures/lab_11/postlab/puzzleSolver.cpp: the least number of    *)
(* slides that bring the tiles of a puzzle three wide into order, by       *)
(* breadth-first search.  The program has three rows.                      *)
(***************************************************************************)

CONSTANTS
  Rows,
  Puzzle    \* the boards that may be typed in

VARIABLES
  initState,
  queue,
  stateToDist,   \* board -> distance, for those that were visited
  answer         \* a number, -1 for IMPOSSIBLE, or Searching

Searching == -2
Last0 == 3 * Rows - 1       \* the last place: places count from 0, tile 0 is the hole
Goal == [i \in 0 .. Last0 |-> IF i = Last0 THEN 0 ELSE i + 1]

swap(b, i, j) == [b EXCEPT ![i] = b[j], ![j] = b[i]]

\* Mutant of genNeighbors: the hole leaves the last column to the right.
genNeighborsWrap(b) ==
  LET hole == CHOOSE i \in 0 .. Last0 : b[i] = 0
      To(possible, i) == IF possible THEN <<swap(b, hole, i)>> ELSE << >>
  IN To(~(hole < 3), hole - 3) \o To(~(hole > Last0 - 3), hole + 3)
       \o To(~(hole % 3 = 0), hole - 1) \o To(hole < Last0, hole + 1)

genNeighbors(b) ==
  LET hole == CHOOSE i \in 0 .. Last0 : b[i] = 0
      To(possible, i) == IF possible THEN <<swap(b, hole, i)>> ELSE << >>
  IN To(~(hole < 3), hole - 3) \o To(~(hole > Last0 - 3), hole + 3)
       \o To(~(hole % 3 = 0), hole - 1) \o To(~((hole + 1) % 3 = 0), hole + 1)

\* One turn of the loop of solver
Visit ==
  LET curState == Head(queue)
      distance == stateToDist[curState] + 1
      new == SelectSeq(genNeighbors(curState), LAMBDA b : b \notin DOMAIN stateToDist)
  IN /\ answer = Searching /\ queue # << >>
     /\ IF curState = Goal
        THEN /\ answer' = stateToDist[curState]
             /\ queue' = Tail(queue) /\ UNCHANGED stateToDist
        ELSE /\ queue' = Tail(queue) \o new
             /\ stateToDist' = [b \in DOMAIN stateToDist \cup Range(new) |->
                                  IF b \in DOMAIN stateToDist THEN stateToDist[b] ELSE distance]
             /\ UNCHANGED answer
     /\ UNCHANGED initState

GiveUp == /\ answer = Searching /\ queue = << >>
          /\ answer' = -1
          /\ UNCHANGED <<initState, queue, stateToDist>>

SlidesStart(board) == /\ initState = board
                /\ queue = <<board>>
                /\ stateToDist = [b \in {board} |-> 0]
                /\ answer = Searching

SlidesInit == \E board \in Puzzle : SlidesStart(board)

SlidesNext == Visit \/ GiveUp

-----------------------------------------------------------------------------
(* Properties *)

Inversions == Cardinality({p \in (0 .. Last0) \X (0 .. Last0) :
                /\ p[1] < p[2] /\ initState[p[1]] > initState[p[2]] /\ initState[p[2]] # 0})

\* The search says that it is impossible exactly for the boards with an odd number of
\* inversions, as the width is odd; and it never gives up a board it could reach.
ParityRight ==
  /\ answer = -1 => Inversions % 2 = 1
  /\ answer >= 0 => Inversions % 2 = 0

\* The boards wait in the order of their distances, which the goal's answer then respects:
\* each board that was visited and left is next to boards that differ by one at most.
DistancesRight ==
  /\ \A i \in 1 .. Len(queue) - 1 :
       stateToDist[queue[i + 1]] - stateToDist[queue[i]] \in {0, 1}
  /\ queue # << >> => stateToDist[Last(queue)] - stateToDist[Head(queue)] \in {0, 1}
  /\ answer # Searching =>
       \A b \in DOMAIN stateToDist \ Range(queue) : b # Goal =>
         \A i \in DOMAIN genNeighbors(b) :
           stateToDist[genNeighbors(b)[i]] - stateToDist[b] \in -1 .. 1
=============================================================================
