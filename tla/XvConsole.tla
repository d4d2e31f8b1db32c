----------------------------- MODULE XvConsole -----------------------------
(***************************************************************************)
(* The console of operating-systems/xv6-OS: the keyboard's scan codes      *)
(* (kbd.c, kbd.h), the line that is edited as it is typed and the          *)
(* processes that read it, and the screen and the serial line it is echoed *)
(* to (console.c, uart.c).                                                 *)
(*                                                                         *)
(* What is done under cons.lock is one step, for each character that is    *)
(* typed.  A character is itself, "NO" for 0, or "^X" for a control        *)
(* character but for "LF", "CR" and "TAB".  panic, and the list of         *)
(* processes that ^P prints, are left out.                                 *)
(***************************************************************************)
EXTENDS Integers, Sequences, FiniteSets, SequencesExt

CONSTANTS
  Key,          \* of the keyboard that are used
  MaxHeld,      \* keys at a time
  Typed,        \* the characters that come in
  Written,      \* what processes write
  Reader,       \* processes that read
  Request,      \* how many characters they ask for
  MaxEvents,    \* characters, writes and reads
  INPUT_BUF, Counter,   \* 128 and 2^32: input.r, w and e count modulo Counter
  COLS, ROWS    \* 80 and 25

VARIABLES
  shift, held, key,     \* kbdgetc's bits; the keys that are down, and the last character
  confused,             \* two keys of a kind were down together, and not all are up since
  input,                \* [buf, r, w, e]
  reader,               \* process -> [at, target, got, killed]
  crt, pos,             \* the cells, counted from 1, and the cursor, from 0
  serial,               \* the row of the terminal on the serial line, up to its cursor
  disturbed,            \* a process has written since the line was begun
  events

-----------------------------------------------------------------------------
(* kbd.c: bits of shift are members of a set.  A key is <<code>>, or <<"E0", code>>. *)

normalmap ==
  <<"NO", "^[", "1", "2", "3", "4", "5", "6", "7", "8", "9", "0", "-", "=", "^H", "TAB",
    "q", "w", "e", "r", "t", "y", "u", "i", "o", "p", "[", "]", "LF", "NO", "a", "s",
    "d", "f", "g", "h", "j", "k", "l", ";", "QUOTE", "GRAVE", "NO", "BACKSLASH", "z", "x", "c", "v",
    "b", "n", "m", ",", ".", "/", "NO", "*", "NO", " ", "NO", "NO", "NO", "NO", "NO", "NO",
    "NO", "NO", "NO", "NO", "NO", "NO", "NO", "7", "8", "9", "-", "4", "5", "6", "+", "1",
    "2", "3", "0", ".">>
shiftmap ==
  <<"NO", "^[", "!", "@", "#", "$", "%", "^", "&", "*", "(", ")", "_", "+", "^H", "TAB",
    "Q", "W", "E", "R", "T", "Y", "U", "I", "O", "P", "{", "}", "LF", "NO", "A", "S",
    "D", "F", "G", "H", "J", "K", "L", ":", "DOUBLE QUOTE", "~", "NO", "|", "Z", "X", "C", "V",
    "B", "N", "M", "<", ">", "?">> \o SubSeq(normalmap, 55, 84)
ctlmap ==
  [i \in 1 .. 16 |-> "NO"] \o
  <<"^Q", "^W", "^E", "^R", "^T", "^Y", "^U", "TAB", "^O", "^P", "NO", "NO", "CR", "NO", "^A", "^S",
    "^D", "^F", "^G", "^H", "LF", "^K", "^L", "NO", "NO", "NO", "NO", "^BACKSLASH", "^Z", "^X", "^C", "^V",
    "^B", "^N", "CR", "NO", "NO", "^/">>

\* The keys after E0 that all the tables have
Keypad(code) ==
  CASE code = 71 -> "NO" [] code = 72 -> "KEY_UP" [] code = 80 -> "KEY_DN"
    [] code = 73 -> "KEY_PGUP" [] code = 81 -> "KEY_PGDN"
    [] code = 75 -> "KEY_LF" [] code = 77 -> "KEY_RT" [] code = 23 -> "KEY_HOME"
    [] code = 79 -> "KEY_END" [] code = 82 -> "KEY_INS" [] code = 83 -> "KEY_DEL"
    [] OTHER -> "NO"

shiftcode(k) ==
  CASE k \in {<<29>>, <<"E0", 29>>} -> {"CTL"} [] k \in {<<42>>, <<54>>} -> {"SHIFT"}
    [] k \in {<<56>>, <<"E0", 56>>} -> {"ALT"} [] OTHER -> {}
togglecode(k) ==
  CASE k = <<58>> -> {"CAPSLOCK"} [] k = <<69>> -> {"NUMLOCK"} [] k = <<70>> -> {"SCROLLLOCK"}
    [] OTHER -> {}

charcode(bits, k) ==
  LET map == IF "CTL" \in bits THEN ctlmap ELSE IF "SHIFT" \in bits THEN shiftmap ELSE normalmap
      code == k[Len(k)]
  IN IF Len(k) = 1 THEN (IF code + 1 \in DOMAIN map THEN map[code + 1] ELSE "NO")
     ELSE CASE code = 28 -> IF "CTL" \in bits THEN "CR" ELSE "LF"
            [] code = 53 -> IF "CTL" \in bits THEN "^/" ELSE "/"
            [] OTHER -> Keypad(code)

Lower == <<"a", "s", "d", "h", "u">>   \* of the letters that the runs type
Upper == <<"A", "S", "D", "H", "U">>
OtherCase(c) ==
  CASE c \in Range(Lower) -> Upper[SelectInSeq(Lower, LAMBDA l : l = c)]
    [] c \in Range(Upper) -> Lower[SelectInSeq(Upper, LAMBDA u : u = c)]
    [] OTHER -> c

\* The bytes of a key that goes down, and of one that goes up, one interrupt after another.
Down(k) ==
  LET bits == (shift \ {"E0ESC"}) \cup shiftcode(k)
      toggled == (bits \ togglecode(k)) \cup (togglecode(k) \ bits)
      c == charcode(toggled, k)
  IN /\ shift' = toggled
     /\ key' = IF "CAPSLOCK" \in toggled THEN OtherCase(c) ELSE c

Up(k) == shift' = shift \ ({"E0ESC"} \cup shiftcode(k)) /\ key' = "NO"

Kinds(keys) == {shiftcode(k) : k \in keys} \ {{}}
Crowded(keys) == \E j, k \in keys : j # k /\ shiftcode(j) = shiftcode(k) /\ shiftcode(k) # {}

Press(k) ==
  /\ Cardinality(held) < MaxHeld /\ k \notin held
  /\ Down(k)
  /\ held' = held \cup {k}
  /\ confused' = (confused \/ Crowded(held'))
  /\ UNCHANGED <<input, reader, crt, pos, serial, disturbed, events>>

Let(k) ==
  /\ k \in held
  /\ Up(k)
  /\ held' = held \ {k}
  /\ confused' = (confused /\ held' # {})
  /\ UNCHANGED <<input, reader, crt, pos, serial, disturbed, events>>

KeyboardNext == \E k \in Key : Press(k) \/ Let(k)

-----------------------------------------------------------------------------
(* Output *)

BACKSPACE == "BACKSPACE"
Cells == COLS * ROWS

\* The screen s = [crt, pos].  The last row but one is as far as the cursor goes.
cgaputc(s, c) ==
  LET moved == CASE c = "LF" -> s.pos + COLS - (s.pos % COLS)
                 [] c = BACKSPACE -> IF s.pos > 0 THEN s.pos - 1 ELSE 0
                 [] OTHER -> s.pos + 1
      put == IF c \in {"LF", BACKSPACE} THEN s.crt ELSE [s.crt EXCEPT ![s.pos + 1] = c]
      scrolls == moved \div COLS >= ROWS - 1
      at == IF scrolls THEN moved - COLS ELSE moved
      cells == [i \in 1 .. Cells |->
                  CASE ~scrolls \/ i > COLS * (ROWS - 1) -> put[i]
                    [] scrolls /\ i <= at -> put[i + COLS]
                    [] OTHER -> " "]
  IN [crt |-> [cells EXCEPT ![at + 1] = " "], pos |-> at]

\* A terminal that moves back at "\b"
uartputc(row, c) ==
  CASE c = "LF" -> << >>
    [] c = BACKSPACE -> SubSeq(row, 1, Len(row) - 1)
    [] OTHER -> Append(row, c)

RECURSIVE consputc(_, _)
consputc(s, cs) ==
  IF cs = << >> THEN s
  ELSE consputc([screen |-> cgaputc(s.screen, Head(cs)), row |-> uartputc(s.row, Head(cs))], Tail(cs))

Shows(cs) ==
  LET s == consputc([screen |-> [crt |-> crt, pos |-> pos], row |-> serial], cs)
  IN crt' = s.screen.crt /\ pos' = s.screen.pos /\ serial' = s.row

consolewrite(cs) ==
  /\ events < MaxEvents /\ events' = events + 1
  /\ Shows(cs)
  /\ disturbed' = TRUE
  /\ UNCHANGED <<input, reader>>

-----------------------------------------------------------------------------
(* Input.  Indices are taken modulo INPUT_BUF, which divides Counter. *)

At(i) == i % INPUT_BUF
Between(a, b) == [i \in 1 .. ((b - a) % Counter) |-> input.buf[At(a + i - 1)]]
Line == Between(input.w, input.e)        \* that is edited
Committed == Between(input.r, input.w)   \* that can be read

WakeReaders == [p \in Reader |-> IF reader[p].at = "asleep" THEN [reader[p] EXCEPT !.at = "reading"]
                                 ELSE reader[p]]

Edited(n) ==
  /\ input' = [input EXCEPT !.e = (@ - n) % Counter]
  /\ Shows([i \in 1 .. n |-> BACKSPACE])
  /\ UNCHANGED reader

\* A character that is not for editing goes in when there is room.
Stored(typed) ==
  LET c == IF typed = "CR" THEN "LF" ELSE typed
      e == (input.e + 1) % Counter
      ends == c \in {"LF", "^D"} \/ e = (input.r + INPUT_BUF) % Counter
  IN IF c # "NO" /\ (input.e - input.r) % Counter < INPUT_BUF
     THEN /\ input' = [input EXCEPT !.buf[At(input.e)] = c, !.e = e, !.w = IF ends THEN e ELSE @]
          /\ reader' = IF ends THEN WakeReaders ELSE reader
          /\ Shows(<<c>>)
     ELSE UNCHANGED <<input, reader, crt, pos, serial>>

consoleintr(c) ==
  /\ events < MaxEvents /\ events' = events + 1
  /\ CASE c = "^U" -> Edited(Len(Line) - SelectLastInSeq(Line, LAMBDA x : x = "LF"))
       [] c = "^H" -> Edited(IF Line = << >> THEN 0 ELSE 1)
       [] OTHER -> Stored(c)
  /\ disturbed' = (disturbed /\ Between(input'.w, input'.e) # << >>)

\* Mutant of Takes: an end of file that ends a line is not kept for the next read.
RECURSIVE TakesEnd(_, _)
TakesEnd(s, target) ==
  CASE Len(s.got) = target -> [s EXCEPT !.ends = TRUE]
    [] s.r = input.w -> s
    [] OTHER ->
         LET c == input.buf[At(s.r)] IN
         IF c = "^D" THEN [s EXCEPT !.ends = TRUE, !.r = (@ + 1) % Counter]
         ELSE LET next == [s EXCEPT !.r = (@ + 1) % Counter, !.got = Append(@, c), !.ends = c = "LF"]
              IN IF next.ends THEN next ELSE TakesEnd(next, target)

\* What a read takes before it ends, or must sleep: s = [r, got, ends]
RECURSIVE Takes(_, _)
Takes(s, target) ==
  CASE Len(s.got) = target -> [s EXCEPT !.ends = TRUE]
    [] s.r = input.w -> s
    [] OTHER ->
         LET c == input.buf[At(s.r)] IN
         IF c = "^D" THEN [s EXCEPT !.ends = TRUE, !.r = IF s.got = << >> THEN (@ + 1) % Counter ELSE @]
         ELSE LET next == [s EXCEPT !.r = (@ + 1) % Counter, !.got = Append(@, c), !.ends = c = "LF"]
              IN IF next.ends THEN next ELSE Takes(next, target)

Read(p, n) ==
  /\ reader[p].at = "out" /\ ~reader[p].killed
  /\ events < MaxEvents /\ events' = events + 1
  /\ reader' = [reader EXCEPT ![p] = [@ EXCEPT !.at = "reading", !.target = n, !.got = << >>]]
  /\ UNCHANGED <<input, crt, pos, serial, disturbed>>

\* consoleread, from where it has the lock to where it gives it up.  A process that is
\* killed looks at that only where it would sleep, and then loses what it has taken; a kill
\* may come between the look and the sleep.
consoleread(p) ==
  LET s == Takes([r |-> input.r, got |-> reader[p].got, ends |-> FALSE], reader[p].target) IN
  /\ reader[p].at = "reading"
  /\ input' = [input EXCEPT !.r = s.r]
  /\ \/ s.ends /\ reader' = [reader EXCEPT ![p] = [@ EXCEPT !.at = "out", !.got = s.got]]
     \/ ~s.ends /\ reader[p].killed /\ reader' = [reader EXCEPT ![p] = [@ EXCEPT !.at = "failed", !.got = << >>]]
     \/ /\ ~s.ends /\ ~reader[p].killed
        /\ \E late \in BOOLEAN :
             reader' = [reader EXCEPT ![p] = [@ EXCEPT !.at = "asleep", !.got = s.got, !.killed = late]]
  /\ UNCHANGED <<crt, pos, serial, disturbed, events>>

kill(p) ==
  /\ ~reader[p].killed /\ reader[p].at # "out"
  /\ reader' = [reader EXCEPT ![p] = [@ EXCEPT !.killed = TRUE, !.at = IF @ = "asleep" THEN "reading" ELSE @]]
  /\ UNCHANGED <<input, crt, pos, serial, disturbed, events>>

ConsoleNext ==
  /\ \/ \E c \in Typed : consoleintr(c)
     \/ \E cs \in Written : consolewrite(cs)
     \/ \E p \in Reader : (\E n \in Request : Read(p, n)) \/ consoleread(p) \/ kill(p)
  /\ UNCHANGED <<shift, held, key, confused>>

\* The machine starts with a screen that is empty, but the counters may be anywhere once
\* much has been typed.
Start(at) ==
  /\ shift = {} /\ held = {} /\ key = "NO" /\ confused = FALSE
  /\ input = [buf |-> [i \in 0 .. INPUT_BUF - 1 |-> "NO"], r |-> at, w |-> at, e |-> at]
  /\ reader = [p \in Reader |-> [at |-> "out", target |-> 0, got |-> << >>, killed |-> FALSE]]
  /\ crt = [i \in 1 .. Cells |-> " "] /\ pos = 0 /\ serial = << >> /\ disturbed = FALSE
  /\ events = 0

Init == \E at \in {0, Counter - 2} : Start(at)

-----------------------------------------------------------------------------
(* Properties *)

\* With one key of each kind down at a time, a character is that of its key under the keys
\* that are down; and when all are up, none of their bits is left, whatever came before.
Face(k) ==
  CASE k = <<30>> -> <<"a", "A", "^A">> [] k = <<2>> -> <<"1", "!", "NO">> [] k = <<28>> -> <<"LF", "LF", "CR">>
    [] k = <<"E0", 53>> -> <<"/", "/", "^/">> [] k = <<"E0", 72>> -> <<"KEY_UP", "KEY_UP", "KEY_UP">>
    [] OTHER -> <<"NO", "NO", "NO">>
KeysRight ==
  /\ ~confused => shift \ {"CAPSLOCK"} = UNION Kinds(held)
  /\ held = {} => shift \subseteq {"CAPSLOCK"}
FaceRight ==
  \A k \in held' \ held : ~confused' =>
    LET Has(bit) == bit \in UNION Kinds(held')
        shifted == IF Face(k)[1] = "a" THEN Has("SHIFT") # ("CAPSLOCK" \in shift') ELSE Has("SHIFT")
    IN key' = Face(k)[IF Has("CTL") THEN 3 ELSE IF shifted THEN 2 ELSE 1]

\* The counters never pass one another, nobody sleeps while there is something to read, the
\* cursor stays on the screen, and nothing is shown behind it.
ConsoleSound ==
  /\ Len(Committed) + Len(Line) = (input.e - input.r) % Counter
  /\ Len(Committed) + Len(Line) <= INPUT_BUF
  /\ \A p \in Reader : reader[p].at = "asleep" => Committed = << >>
  /\ pos < COLS * (ROWS - 1)
  /\ \A i \in pos + 1 .. Cells : crt[i] = " "

\* As long as no process writes in between, the line that is edited is what stands before
\* the cursor, on the screen as far as there is room, and on the serial line.
EchoRight ==
  ~disturbed =>
    LET shown == IF Len(Line) < pos THEN Len(Line) ELSE pos IN
    /\ \A i \in 0 .. shown - 1 : crt[pos - i] = Line[Len(Line) - i]
    /\ IsSuffix(Line, serial)

\* A line is edited at its end, erased or committed as a whole; what is committed is taken
\* from the front, by one reader at a time, in the order it was typed.  A read that ends has
\* a line, as much as it asked for, or what came before an end of file; and one end of file
\* gives one read that is empty.
Edit ==
  \/ Committed' = Committed /\ \E c \in Typed : Line' \in {Line, << >>, Append(Line, c)}
  \/ Committed' = Committed /\ Line # << >> /\ Line' = Front(Line)
  \/ \E c \in Typed \cup {"LF"} : Committed' = Committed \o Append(Line, c) /\ Line' = << >>
Consume(p) ==
  LET n == Len(Committed) - Len(Committed')
      taken == SubSeq(Committed, 1, n)
      ends == reader'[p].at = "out"
      got == reader'[p].got
  IN /\ Line' = Line /\ n >= 0 /\ Committed = taken \o Committed'
     /\ \A q \in Reader \ {p} : reader'[q] = reader[q]
     /\ \/ reader'[p].at = "failed"
        \/ got = reader[p].got \o taken /\ \A i \in 1 .. Len(got) - 1 : got[i] \notin {"LF", "^D"}
        \/ taken = <<"^D">> /\ got = << >> /\ reader[p].got = << >> /\ ends
     /\ ends => \/ Len(got) = reader[p].target \/ got = << >>
                \/ Last(got) = "LF"
                \/ Committed' # << >> /\ Head(Committed') = "^D"
LinesRight == Edit \/ \E p \in Reader : reader[p].at = "reading" /\ Consume(p)
=============================================================================
