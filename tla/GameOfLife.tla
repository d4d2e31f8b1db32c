------------------------------ MODULE GameOfLife ------------------------------
(***************************************************************************)
(* Boards of the Game of Life as life.h and life-serial.cc have them, and  *)
(* what a simulation promises: one generation after the other, with the    *)
(* edges fixed to be dead.                                                 *)
(***************************************************************************)
EXTENDS Naturals, FiniteSets

CONSTANTS Width, Height, Steps

Columns == 0 .. Width - 1
Rows == 0 .. Height - 1
Boards == [Rows -> [Columns -> BOOLEAN]]

Interior(x, y) == x \in 1 .. Width - 2 /\ y \in 1 .. Height - 2

\* The 3x3 window around a cell of the interior decides of it.
Lives(b, x, y) ==
  LET live == Cardinality({w \in (x - 1 .. x + 1) \X (y - 1 .. y + 1) : b[w[2]][w[1]]})
  IN  live = 3 \/ (live = 4 /\ b[y][x])

\* A row of the board after b, written over what the row was.
NextRow(b, was, y) == [x \in Columns |-> IF Interior(x, y) THEN Lives(b, x, y) ELSE was[x]]

DeadRow == [x \in Columns |-> FALSE]
Dead == [y \in Rows |-> DeadRow]
DeadEdges(b) == \A y \in Rows, x \in Columns : b[y][x] => Interior(x, y)

\* simulate_life_serial: its two boards after n steps, swapped by each.
Serial(start) ==
  LET boards[n \in Nat] ==
        IF n = 0 THEN [state |-> start, next |-> Dead]
        ELSE LET b == boards[n - 1]
             IN  [state |-> [y \in Rows |-> NextRow(b.state, b.next[y], y)], next |-> b.state]
  IN  boards[Steps].state

-----------------------------------------------------------------------------
VARIABLES board, generation

vars == <<board, generation>>

Init == board \in {b \in Boards : DeadEdges(b)} /\ generation = 0

Next == /\ generation < Steps
        /\ generation' = generation + 1
        /\ board' = [y \in Rows |-> NextRow(board, DeadRow, y)]

Spec == Init /\ [][Next]_vars
=============================================================================
