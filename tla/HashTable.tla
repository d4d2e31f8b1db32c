----------------------------- MODULE HashTable -----------------------------
(***************************************************************************)
(* The two parts of data-structures/lab_6: the hash table, and the search of*)
(* a grid of letters, with a next-state relation of its own.               *)
(***************************************************************************)
EXTENDS Integers, Sequences, FiniteSets

(***************************************************************************)
(* The hash table of data-structures/lab_6 (Hashtable.cpp), which          *)
(* wordPuzzle.cpp fills with the lines of a dictionary and then asks.  A   *)
(* word goes to the slot of the first hash function, or, when that is      *)
(* taken, to the first free slot from the one of the second.  What the     *)
(* functions make of the letters does not matter, but that they always     *)
(* make the same: each may send any word anywhere.                         *)
(***************************************************************************)

CONSTANTS
  Word,
  Size    \* the numbers of lines a dictionary may have

VARIABLES
  size,           \* what the constructor is given
  table,          \* slot -> word, or Empty
  hashFunction1, hashFunction2,
  lines           \* inserted so far

Empty == "empty"

\* Odd numbers are tried from 3 up to the square root.
checkprime(p) == \/ p = 2
                 \/ p > 2 /\ p % 2 # 0 /\ \A i \in 3 .. p : i * i <= p => p % i # 0
getNextPrime(n) == CHOOSE p \in n + 1 .. 2 * n + 2 : checkprime(p) /\ \A q \in n + 1 .. p - 1 : ~checkprime(q)

\* size / 0.75, as an unsigned int
tableSize == getNextPrime((4 * size) \div 3)
Slot == 0 .. tableSize - 1

\* The slots from i on that are not w, up to the first free one
RECURSIVE Probe(_, _, _)
Probe(t, i, want) == IF t[i] \in want THEN i ELSE Probe(t, (i + 1) % tableSize, want)

\* insert goes on for ever in a table with no free slot, and find does for a word that is
\* not in it.
HasFree(t) == \E i \in Slot : t[i] = Empty

find(w) ==
  LET first == hashFunction1[w]
      index == IF table[first] # w THEN hashFunction2[w] ELSE first
  IN table[Probe(table, index, {w, Empty})] = w

\* Mutant of Place: the free slot is looked for from the first function's.
PlaceFromFirst(w) == Probe(table, hashFunction1[w], {Empty})

\* Mutant of Place: a slot that is taken is taken again.
PlaceOver(w) == hashFunction1[w]

Place(w) ==
  LET first == hashFunction1[w]
  IN Probe(table, IF table[first] # Empty THEN hashFunction2[w] ELSE first, {Empty})

\* The same line may come twice, and is then stored twice.
Insert(w) ==
  /\ lines < size
  /\ HasFree(table)
  /\ table' = [table EXCEPT ![Place(w)] = w]
  /\ lines' = lines + 1
  /\ UNCHANGED <<size, hashFunction1, hashFunction2>>

Start(n) == size = n /\ table = [i \in Slot |-> Empty] /\ lines = 0

Init == /\ \E n \in Size : Start(n)
        /\ hashFunction1 \in [Word -> Slot] /\ hashFunction2 \in [Word -> Slot]

Next == \E w \in Word : Insert(w)

-----------------------------------------------------------------------------
(* Properties *)

\* A dictionary always leaves a free slot, so that every search comes to an end.
SearchesEnd == HasFree(table)

\* find answers yes for the words that were inserted and no others: the table stands for
\* the set of the words it finds.
Found == {w \in Word : find(w)}
FindRight == Found = {w \in Word : \E i \in Slot : table[i] = w}
Stored == INSTANCE OrderedSet WITH members <- Found

-----------------------------------------------------------------------------
(***************************************************************************)
(* data-structures/lab_6/wordPuzzle.cpp: the words of a dictionary are     *)
(* looked for in a grid of letters, from every place in eight directions,  *)
(* the longest first.  The grid ends words early, so that the same short   *)
(* word comes up for several lengths.                                      *)
(***************************************************************************)

CONSTANTS
  Letter,
  Shape,       \* <<rows, cols>> of the grids
  MinLength, MaxLength,   \* of words: 3 and 22
  Dictionaries \* sets of words, as long as that

VARIABLES
  grid,        \* <<row, col>> -> letter
  rows, cols,
  dictionary,
  found,       \* what was printed: <<row, col, direction, word>>, in order
  place        \* the next to be searched, by row, or the end

\* North, and on clockwise
Step == [dir \in 0 .. 7 |->
           <<IF dir \in {7, 0, 1} THEN -1 ELSE IF dir \in {3, 4, 5} THEN 1 ELSE 0,
             IF dir \in {1, 2, 3} THEN 1 ELSE IF dir \in {5, 6, 7} THEN -1 ELSE 0>>]

RECURSIVE getWordInGrid(_, _, _, _)
getWordInGrid(r, c, dir, len) ==
  IF len = 0 \/ c >= cols \/ r >= rows \/ r < 0 \/ c < 0 THEN << >>
  ELSE <<grid[<<r, c>>]>> \o getWordInGrid(r + Step[dir][1], c + Step[dir][2], dir, len - 1)

\* Mutant of Search: no set of the words that were seen.
RECURSIVE SearchAgain(_, _, _, _, _)
SearchAgain(r, c, dir, len, unique) ==
  IF len < MinLength THEN << >>
  ELSE LET test == getWordInGrid(r, c, dir, len) IN
       (IF test \in dictionary THEN <<<<r, c, dir, test>>>> ELSE << >>)
         \o SearchAgain(r, c, dir, len - 1, unique)

RECURSIVE Search(_, _, _, _, _)
Search(r, c, dir, len, unique) ==
  IF len < MinLength THEN << >>
  ELSE LET test == getWordInGrid(r, c, dir, len) IN
       IF test \in dictionary /\ test \notin unique
       THEN <<<<r, c, dir, test>>>> \o Search(r, c, dir, len - 1, unique \cup {test})
       ELSE Search(r, c, dir, len - 1, unique)

RECURSIVE Directions(_, _, _)
Directions(r, c, dir) == IF dir = 8 THEN << >>
                         ELSE Search(r, c, dir, MaxLength, {}) \o Directions(r, c, dir + 1)

SearchPlace ==
  /\ place < rows * cols
  /\ found' = found \o Directions(place \div cols, place % cols, 0)
  /\ place' = place + 1
  /\ UNCHANGED <<grid, rows, cols, dictionary>>

\* The files are read: a grid of letters g, and the words.
GridStart(shape, g, words) ==
  /\ rows = shape[1] /\ cols = shape[2] /\ grid = g /\ dictionary = words
  /\ found = << >> /\ place = 0

GridInit == \E shape \in Shape, words \in Dictionaries :
        \E g \in [(0 .. shape[1] - 1) \X (0 .. shape[2] - 1) -> Letter] : GridStart(shape, g, words)

GridNext == SearchPlace

-----------------------------------------------------------------------------
(* Properties *)

\* A word lies in the grid where each of its letters is.
LiesAt(r, c, dir, w) ==
  \A i \in DOMAIN w :
    LET at == <<r + (i - 1) * Step[dir][1], c + (i - 1) * Step[dir][2]>>
    IN at \in DOMAIN grid /\ grid[at] = w[i]

\* At the end every word of the dictionary was printed once for each place and direction
\* in which it lies, and nothing else was.
SearchRight ==
  place = rows * cols =>
    LET lying == {<<at[1], at[2], dir, w>> : at \in DOMAIN grid, dir \in 0 .. 7, w \in dictionary}
    IN /\ {found[i] : i \in DOMAIN found} = {m \in lying : LiesAt(m[1], m[2], m[3], m[4])}
       /\ \A i, j \in DOMAIN found : found[i] = found[j] => i = j
=============================================================================
