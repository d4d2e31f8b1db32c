------------------------------ MODULE XvTools ------------------------------
(***************************************************************************)
(* What the programs of operating-systems/xv6-OS are made of: the strings  *)
(* and the memory of ulib.c and string.c, the two printers of printf.c and *)
(* console.c, the search of grep.c, and the programs that go through files *)
(* (grep, wc, cat) or directories (ls).                                    *)
(*                                                                         *)
(* malloc and free of umalloc.c keep a ring of free blocks in the order of  *)
(* their addresses, which starts at the static `base`.  There, addresses    *)
(* and sizes are in units of a Header, a block is known by the address of   *)
(* its header, and a program frees what it was given, once.                 *)
(*                                                                         *)
(* A program reads its input in pieces, whose length is what read gives:   *)
(* less than it asked for when it comes from a pipe or from the console.   *)
(* A text holds no byte 0.  Memory is a function of addresses, where a     *)
(* string ends with 0; other strings are sequences of characters.          *)
(***************************************************************************)
EXTENDS Integers, Sequences, FiniteSets, SequencesExt

CONSTANTS
  Memory,      \* contents of memory, for the functions on it
  Pattern, Text,
  Format,      \* sequences of characters that are printed
  Content,     \* of the files that are read
  Size,        \* of grep's buffer: 1024
  UIntMax,     \* 2^32 - 1
  DIRSIZ, Path,
  Bytes,       \* that a program may ask malloc for
  MinCore,     \* units that sbrk is asked for at the least: 4096
  MAXARG,
  MaxCore      \* units that the process may have

VARIABLES
  tool,        \* what runs
  given,       \* what it is given: of a program that reads a file, [re, content]
  status,      \* "running", "ended", "read error" or "write error"
  unread,
  linebuf,     \* what grep keeps of its buffer, up to m
  out,
  counts,      \* [l, w, c, inword] of wc
  forgot,      \* grep has dropped the beginning of a line that has an end
  header,      \* address -> [size, ptr], for the blocks; ptr is 0 in those given out
  freep,       \* a block of the ring, or None before the first malloc
  brk,         \* the first address the process does not have
  used         \* the blocks that were given out

Upto(s, n) == SubSeq(s, 1, n)
After(s, n) == SubSeq(s, n + 1, Len(s))

-----------------------------------------------------------------------------
(* string.c and ulib.c.  Functions that write give the memory that is left. *)

RECURSIVE strlen(_, _)
strlen(m, s) == IF m[s] = 0 THEN 0 ELSE 1 + strlen(m, s + 1)

RECURSIVE strcpy(_, _, _)
strcpy(m, s, t) ==
  LET next == [m EXCEPT ![s] = m[t]] IN IF m[t] = 0 THEN next ELSE strcpy(next, s + 1, t + 1)

RECURSIVE strcmp(_, _, _)
strcmp(m, p, q) == IF m[p] # 0 /\ m[p] = m[q] THEN strcmp(m, p + 1, q + 1) ELSE m[p] - m[q]

RECURSIVE strncmp(_, _, _, _)
strncmp(m, p, q, n) ==
  IF n = 0 THEN 0
  ELSE IF m[p] # 0 /\ m[p] = m[q] THEN strncmp(m, p + 1, q + 1, n - 1) ELSE m[p] - m[q]

RECURSIVE memcmp(_, _, _, _)
memcmp(m, v1, v2, n) ==
  IF n = 0 THEN 0 ELSE IF m[v1] # m[v2] THEN m[v1] - m[v2] ELSE memcmp(m, v1 + 1, v2 + 1, n - 1)

RECURSIVE strchr(_, _, _)
strchr(m, s, c) == IF m[s] = 0 THEN -1 ELSE IF m[s] = c THEN s ELSE strchr(m, s + 1, c)

memset(m, dst, c, n) == [a \in DOMAIN m |-> IF a \in dst .. dst + n - 1 THEN c ELSE m[a]]

\* ulib.c copies upward only.
RECURSIVE CopyUp(_, _, _, _)
CopyUp(m, d, s, n) == IF n <= 0 THEN m ELSE CopyUp([m EXCEPT ![d] = m[s]], d + 1, s + 1, n - 1)

RECURSIVE CopyDown(_, _, _, _)
CopyDown(m, d, s, n) ==
  IF n = 0 THEN m ELSE CopyDown([m EXCEPT ![d + n - 1] = m[s + n - 1]], d, s, n - 1)

\* Mutant of memmove: the overlap is looked for on the other side.
memmoveOther(m, dst, src, n) ==
  IF src > dst /\ dst + n > src THEN CopyDown(m, dst, src, n) ELSE CopyUp(m, dst, src, n)

memmove(m, dst, src, n) ==
  IF src < dst /\ src + n > dst THEN CopyDown(m, dst, src, n) ELSE CopyUp(m, dst, src, n)

RECURSIVE strncpy(_, _, _, _)
strncpy(m, s, t, n) ==
  IF n <= 0 THEN m
  ELSE LET next == [m EXCEPT ![s] = m[t]] IN
       IF m[t] = 0 THEN memset(next, s + 1, 0, n - 1) ELSE strncpy(next, s + 1, t + 1, n - 1)

\* The byte after the end is cleared once more.
RECURSIVE safestrcpy(_, _, _, _)
safestrcpy(m, s, t, n) ==
  CASE n <= 0 -> m
    [] n = 1 -> [m EXCEPT ![s] = 0]
    [] OTHER -> LET next == [m EXCEPT ![s] = m[t]] IN
                IF m[t] = 0 THEN [next EXCEPT ![s + 1] = 0] ELSE safestrcpy(next, s + 1, t + 1, n - 1)

-----------------------------------------------------------------------------
(* printf.c, and cprintf of console.c *)

\* In printf.c the last six are capitals.
digits == <<"0", "1", "2", "3", "4", "5", "6", "7", "8", "9", "a", "b", "c", "d", "e", "f">>

RECURSIVE Unsigned(_, _)
Unsigned(x, base) == (IF x < base THEN << >> ELSE Unsigned(x \div base, base)) \o <<digits[(x % base) + 1]>>
printint(xx, base, sign) ==
  IF sign /\ xx < 0 THEN <<"-">> \o Unsigned((-xx) % (UIntMax + 1), base) ELSE Unsigned(xx % (UIntMax + 1), base)

\* atoi, of a sequence of characters
RECURSIVE AtoiFrom(_, _)
AtoiFrom(cs, n) ==
  IF cs = << >> \/ Head(cs) \notin Range(Upto(digits, 10)) THEN n
  ELSE AtoiFrom(Tail(cs), n * 10 + SelectInSeq(digits, LAMBDA d : d = Head(cs)) - 1)
atoi(cs) == AtoiFrom(cs, 0)

Null == <<"(", "n", "u", "l", "l", ")">>
Argument(c, arg) ==
  CASE c = "d" -> printint(arg, 10, TRUE) [] c \in {"x", "p"} -> printint(arg, 16, FALSE)
    [] c = "s" -> IF arg = 0 THEN Null ELSE <<"s", "t", "r">>

\* printf has a state.  s = [state, left, out], the arguments are numbers.
PrintChar(s, c) ==
  CASE s.state = "text" /\ c = "%" -> [s EXCEPT !.state = "%"]
    [] s.state = "text" /\ c # "%" -> [s EXCEPT !.out = Append(@, c)]
    [] s.state = "%" /\ c \in {"d", "x", "p", "s"} ->
         [state |-> "text", left |-> Tail(s.left), out |-> s.out \o Argument(c, Head(s.left))]
    [] s.state = "%" /\ c = "c" ->
         [state |-> "text", left |-> Tail(s.left), out |-> Append(s.out, Head(s.left))]
    [] s.state = "%" /\ c = "%" -> [s EXCEPT !.state = "text", !.out = Append(@, c)]
    [] OTHER -> [s EXCEPT !.state = "text", !.out = @ \o <<"%", c>>]
printf(fmt, args) == FoldLeft(PrintChar, [state |-> "text", left |-> args, out |-> << >>], fmt).out

\* cprintf looks at the character after "%".
RECURSIVE cprintf(_, _)
cprintf(fmt, args) ==
  CASE fmt = << >> \/ fmt = <<"%">> -> << >>
    [] Head(fmt) # "%" -> <<Head(fmt)>> \o cprintf(Tail(fmt), args)
    [] OTHER ->
         LET c == fmt[2] IN
         IF c \in {"d", "x", "p", "s"} THEN Argument(c, Head(args)) \o cprintf(After(fmt, 2), Tail(args))
         ELSE (IF c = "%" THEN <<"%">> ELSE <<"%", c>>) \o cprintf(After(fmt, 2), args)

-----------------------------------------------------------------------------
(* grep.c: the matcher *)

RECURSIVE matchhere(_, _), matchstar(_, _, _)

\* Mutant of matchhere: "$" is the end of the text wherever it stands.
matchhereEnd(re, text) ==
  CASE re = << >> -> TRUE
    [] Len(re) > 1 /\ re[2] = "*" -> matchstar(re[1], After(re, 2), text)
    [] re # << >> /\ re[1] = "$" -> text = << >>
    [] OTHER -> text # << >> /\ re[1] \in {".", text[1]} /\ matchhere(Tail(re), Tail(text))

matchhere(re, text) ==
  CASE re = << >> -> TRUE
    [] Len(re) > 1 /\ re[2] = "*" -> matchstar(re[1], After(re, 2), text)
    [] re = <<"$">> -> text = << >>
    [] OTHER -> text # << >> /\ re[1] \in {".", text[1]} /\ matchhere(Tail(re), Tail(text))

matchstar(c, re, text) ==
  \/ matchhere(re, text)
  \/ text # << >> /\ c \in {text[1], "."} /\ matchstar(c, re, Tail(text))

match(re, text) ==
  IF re # << >> /\ re[1] = "^" THEN matchhere(Tail(re), text)
  ELSE \E n \in 0 .. Len(text) : matchhere(re, After(text, n))

-----------------------------------------------------------------------------
(* The programs that read a file *)

\* What is before the first "LF" of each, and what is after the last
RECURSIVE LinesOf(_)
LinesOf(s) ==
  LET n == SelectInSeq(s, LAMBDA c : c = "LF")
  IN IF n = 0 THEN << >> ELSE <<Upto(s, n - 1)>> \o LinesOf(After(s, n))
RestOf(s) == After(s, SelectLastInSeq(s, LAMBDA c : c = "LF"))

Reads(n) == n <= Len(unread) /\ unread' = After(unread, n)
Prints(s) == out' = out \o s

\* A buffer with no end of a line is forgotten, and the next piece begins a line.
GrepReads(n) ==
  LET text == linebuf \o Upto(unread, n)
      lines == LinesOf(text)
  IN /\ tool = "grep" /\ n <= Size - Len(linebuf) - 1
     /\ Reads(n)
     /\ Prints(FoldLeft(LAMBDA o, l : IF match(given.re, l) THEN o \o Append(l, "LF") ELSE o, << >>, lines))
     /\ linebuf' = IF lines = << >> THEN << >> ELSE RestOf(text)
     /\ forgot' = (forgot \/ (lines = << >> /\ "LF" \in Range(After(unread, n))))
     /\ UNCHANGED <<status, counts>>

Blanks == {" ", "CR", "TAB", "LF", "VT"}
WcChar(s, c) ==
  [l |-> IF c = "LF" THEN s.l + 1 ELSE s.l,
   w |-> IF c \notin Blanks /\ ~s.inword THEN s.w + 1 ELSE s.w,
   c |-> s.c + 1,
   inword |-> c \notin Blanks]

WcReads(n) ==
  /\ tool = "wc" /\ Reads(n)
  /\ counts' = FoldLeft(WcChar, counts, Upto(unread, n))
  /\ UNCHANGED <<status, linebuf, out, forgot>>

\* A write may fail, and then ends the program.
CatReads(n) ==
  /\ tool = "cat" /\ Reads(n)
  /\ \/ Prints(Upto(unread, n)) /\ UNCHANGED status
     \/ Prints(<<"cat", ": write error">>) /\ status' = "write error"
  /\ UNCHANGED <<linebuf, counts, forgot>>

\* read gives 0.
EndOfFile ==
  /\ tool \in {"grep", "wc", "cat"}
  /\ unread = << >>
  /\ status' = "ended"
  /\ IF tool = "wc" THEN Prints(printf(<<"%", "d", " ", "%", "d", " ", "%", "d", "LF">>, <<counts.l, counts.w, counts.c>>))
     ELSE UNCHANGED out
  /\ UNCHANGED <<unread, linebuf, counts, forgot>>

ReadError ==
  /\ tool \in {"wc", "cat"} /\ unread # << >>
  /\ status' = "read error"
  /\ Prints(<<tool, ": read error">>)
  /\ UNCHANGED <<unread, linebuf, counts, forgot>>

ToolsNext ==
  /\ status = "running"
  /\ \/ \E n \in 1 .. Len(unread) : GrepReads(n) \/ WcReads(n) \/ CatReads(n)
     \/ EndOfFile \/ ReadError
  /\ UNCHANGED <<tool, given>>

-----------------------------------------------------------------------------
(* ls.c, echo.c and rm.c *)

\* What is after the last "/", with blanks up to DIRSIZ characters
fmtname(path) ==
  LET p == After(path, SelectLastInSeq(path, LAMBDA c : c = "/"))
  IN IF Len(p) >= DIRSIZ THEN p ELSE p \o [i \in 1 .. DIRSIZ - Len(p) |-> " "]

\* The entries of a directory: those with inum 0 are free, and one that cannot be found is
\* passed over.  stat[path] is <<type, ino, size>>, or << >>.
ls(path, stat, entries) ==
  LET st == stat[path]
      Shown(p, s) == <<<<fmtname(p)>> \o s>>
      InDir(name) == path \o <<"/">> \o name
  IN CASE st = << >> -> << >>
       [] st # << >> /\ st[1] = "T_FILE" -> Shown(path, st)
       [] st # << >> /\ st[1] = "T_DIR" ->
            FoldLeft(LAMBDA o, de : IF de.inum = 0 \/ stat[InDir(de.name)] = << >> THEN o
                                    ELSE o \o Shown(InDir(de.name), stat[InDir(de.name)]), << >>, entries)
       [] OTHER -> << >>

echo(args) == FlattenSeq([i \in DOMAIN args |-> args[i] \o (IF i < Len(args) THEN <<" ">> ELSE <<"LF">>)])

Start(t, arg, content) ==
  /\ tool = t /\ given = arg /\ unread = content /\ status = "running"
  /\ linebuf = << >> /\ out = << >> /\ forgot = FALSE
  /\ counts = [l |-> 0, w |-> 0, c |-> 0, inword |-> FALSE]

Init == \/ \E t \in {"grep", "wc", "cat"}, content \in Content :
             \E re \in IF t = "grep" THEN {<<"a">>, <<"^", "a">>, <<"a", "$">>} ELSE {<< >>} :
               Start(t, [re |-> re, content |-> content], content)
        \/ \E m \in Memory : Start("memory", m, << >>)
        \/ \E re \in Pattern : Start("pattern", re, << >>)
        \/ \E fmt \in Format : Start("format", fmt, << >>)
        \/ \E path \in Path : Start("path", path, << >>)
        \/ \E sz \in {0, 3, 6} : \E mem \in [0 .. sz - 1 -> {0, 4, UIntMax}] :
             Start("arguments", [sz |-> sz, mem |-> mem, esp |-> 0], << >>)

-----------------------------------------------------------------------------
(* syscall.c: the arguments of a system call, on the stack of the program p, which has the
   bytes 0 .. p.sz - 1.  A number fits in the first of its bytes. *)

IntSize == 2
Fail == -1
Wrap(x) == x % (UIntMax + 1)

fetchint(p, addr) ==
  IF addr >= p.sz \/ Wrap(addr + IntSize) > p.sz THEN Fail ELSE p.mem[addr]

fetchstr(p, addr) ==
  LET ends == {a \in addr .. p.sz - 1 : p.mem[a] = 0}
  IN IF ends = {} THEN Fail ELSE (CHOOSE a \in ends : \A b \in ends : a <= b) - addr

argint(p, n) == fetchint(p, Wrap(p.esp + IntSize + IntSize * n))

\* Mutant of argptr: sizes below 0 are taken.
argptrAnySize(p, n, size) ==
  LET i == argint(p, n)
  IN IF i = Fail \/ i >= p.sz \/ Wrap(i + size) > p.sz THEN Fail ELSE i

argptr(p, n, size) ==
  LET i == argint(p, n)
  IN IF i = Fail \/ size < 0 \/ i >= p.sz \/ Wrap(i + size) > p.sz THEN Fail ELSE i

argstr(p, n) == IF argint(p, n) = Fail THEN Fail ELSE fetchstr(p, argint(p, n))

\* sys_exec: the addresses of the arguments, with Fail at the end if one is wrong
RECURSIVE Argv(_, _, _)
Argv(p, uargv, i) ==
  LET uarg == fetchint(p, Wrap(uargv + IntSize * i)) IN
  CASE i >= MAXARG \/ uarg = Fail -> <<Fail>>
    [] i < MAXARG /\ uarg = 0 -> << >>
    [] OTHER -> IF fetchstr(p, uarg) = Fail THEN <<Fail>> ELSE <<uarg>> \o Argv(p, uargv, i + 1)

sys_exec(p) ==
  IF argstr(p, 0) = Fail \/ argint(p, 1) = Fail THEN <<Fail>> ELSE Argv(p, argint(p, 1), 0)

-----------------------------------------------------------------------------
(* umalloc.c *)

Base == 0
None == -1
HeaderSize == 8

Heap == [header |-> header, freep |-> freep, brk |-> brk]

\* The block of the ring after which bp belongs
RECURSIVE Behind(_, _, _)
Behind(h, p, bp) ==
  IF \/ bp > p /\ bp < h[p].ptr
     \/ p >= h[p].ptr /\ (bp > p \/ bp < h[p].ptr)
  THEN p ELSE Behind(h, h[p].ptr, bp)

Without(h, gone) == [a \in DOMAIN h \ gone |-> h[a]]

\* Mutant of free: the block in front is joined, the one behind is not.
freeJoinOnce(s, bp) ==
  LET p == Behind(s.header, s.freep, bp)
      next == s.header[p].ptr
      JoinsNext == bp + s.header[bp].size = next
      joined == [size |-> s.header[bp].size + (IF JoinsNext THEN s.header[next].size ELSE 0),
                 ptr |-> IF JoinsNext THEN s.header[next].ptr ELSE next]
      h == Without(s.header, IF JoinsNext THEN {next} ELSE {})
  IN [s EXCEPT !.header = [h EXCEPT ![bp] = joined, ![p].ptr = bp], !.freep = p]

free(s, bp) ==
  LET p == Behind(s.header, s.freep, bp)
      next == s.header[p].ptr
      JoinsNext == bp + s.header[bp].size = next
      joined == [size |-> s.header[bp].size + (IF JoinsNext THEN s.header[next].size ELSE 0),
                 ptr |-> IF JoinsNext THEN s.header[next].ptr ELSE next]
      h == Without(s.header, IF JoinsNext THEN {next} ELSE {})
  IN IF p + s.header[p].size = bp
     THEN [s EXCEPT !.header = [Without(h, {bp}) EXCEPT
                                  ![p] = [size |-> @.size + joined.size, ptr |-> joined.ptr]],
                    !.freep = p]
     ELSE [s EXCEPT !.header = [h EXCEPT ![bp] = joined, ![p].ptr = bp], !.freep = p]

\* morecore, for nu units that sbrk has
morecore(s, nu) ==
  LET hp == s.brk
      h == [a \in DOMAIN s.header \cup {hp} |->
              IF a = hp THEN [size |-> nu, ptr |-> 0] ELSE s.header[a]]
  IN free([s EXCEPT !.header = h, !.brk = hp + nu], hp)

CoreFor(nunits) == IF nunits < MinCore THEN MinCore ELSE nunits

\* A block of nunits from p, which is the block after prevp: the whole, or its end.
Taken(s, prevp, p, nunits) ==
  LET rest == s.header[p].size - nunits IN
  IF rest = 0
  THEN [s EXCEPT !.header = [s.header EXCEPT ![prevp].ptr = s.header[p].ptr, ![p].ptr = 0],
                 !.freep = prevp]
  ELSE [s EXCEPT !.header = [a \in DOMAIN s.header \cup {p + rest} |->
                               CASE a = p -> [s.header[p] EXCEPT !.size = rest]
                                 [] a = p + rest -> [size |-> nunits, ptr |-> 0]
                                 [] OTHER -> s.header[a]],
                 !.freep = prevp]

\* The loop of malloc: the heap it leaves, and the block or None
RECURSIVE Scan(_, _, _, _)
Scan(s, prevp, p, nunits) ==
  CASE s.header[p].size >= nunits ->
         <<Taken(s, prevp, p, nunits), p + s.header[p].size - nunits>>
    [] s.header[p].size < nunits /\ p # s.freep -> Scan(s, p, s.header[p].ptr, nunits)
    [] s.header[p].size < nunits /\ p = s.freep ->
         IF s.brk + CoreFor(nunits) > MaxCore THEN <<s, None>>
         ELSE LET more == morecore(s, CoreFor(nunits))
              IN Scan(more, more.freep, more.header[more.freep].ptr, nunits)

malloc(nbytes) ==
  LET nunits == (nbytes + HeaderSize - 1) \div HeaderSize + 1
      s == IF freep # None THEN Heap
           ELSE [Heap EXCEPT !.header = [a \in {Base} |-> [size |-> 0, ptr |-> Base]],
                             !.freep = Base]
  IN Scan(s, s.freep, s.header[s.freep].ptr, nunits)

Becomes(s) == header' = s.header /\ freep' = s.freep /\ brk' = s.brk

Malloc(nbytes) ==
  /\ Becomes(malloc(nbytes)[1])
  /\ used' = used \cup ({malloc(nbytes)[2]} \ {None})

Free(ap) == ap \in used /\ Becomes(free(Heap, ap)) /\ used' = used \ {ap}

HeapInit == header = [a \in {} |-> None] /\ freep = None /\ brk = 1 /\ used = {}

HeapNext == \/ \E nbytes \in Bytes : Malloc(nbytes)
        \/ \E ap \in used : Free(ap)

-----------------------------------------------------------------------------
(* Properties *)

\* What the functions on memory and on strings do to every small memory is what their names
\* say: copies also of what overlaps, orders as of sequences, bounded copies that touch
\* nothing beyond their bound.  ulib's memmove is right for overlaps only downward.
String(m, s) == [i \in 1 .. strlen(m, s) |-> m[s + i - 1]]
Sign(n) == IF n < 0 THEN -1 ELSE IF n > 0 THEN 1 ELSE 0
RECURSIVE Order(_, _)
Order(a, b) ==
  CASE a = b -> 0 [] a # b /\ IsPrefix(a, b) -> -1 [] a # b /\ IsPrefix(b, a) -> 1
    [] OTHER -> IF Head(a) = Head(b) THEN Order(Tail(a), Tail(b)) ELSE Sign(Head(a) - Head(b))
Bounded(s, n) == IF Len(s) < n THEN s ELSE Upto(s, n)
Piece(m, s, n) == [i \in 1 .. n |-> m[s + i - 1]]
Overwritten(m, d, s) == [a \in DOMAIN m |-> IF a - d + 1 \in DOMAIN s THEN s[a - d + 1] ELSE m[a]]
Zeros(n) == [i \in 1 .. n |-> 0]
MemoryRight ==
  LET m == given
      End == Cardinality(DOMAIN m) - 1
  IN /\ \A d, s \in DOMAIN m :
          \A n \in 0 .. End + 1 - (IF d > s THEN d ELSE s) :
            /\ memmove(m, d, s, n) = Overwritten(m, d, Piece(m, s, n))
            /\ d <= s \/ d >= s + n => CopyUp(m, d, s, n) = memmove(m, d, s, n)
            /\ Sign(strncmp(m, d, s, n)) = Order(Bounded(String(m, d), n), Bounded(String(m, s), n))
            /\ Sign(memcmp(m, d, s, n)) = Order(Piece(m, d, n), Piece(m, s, n))
            /\ d >= s + strlen(m, s) + 1 /\ n > 0 =>
                 LET t == String(m, s) IN
                 /\ strncpy(m, d, s, n) = Overwritten(m, d, Upto(t \o Zeros(n), n))
                 /\ LET copy == safestrcpy(m, d, s, n) IN
                    /\ String(copy, d) = Bounded(t, n - 1)
                    /\ \A a \in DOMAIN m \ (d .. d + n - 1) : copy[a] = m[a]
                 /\ n > strlen(m, s) => strcpy(m, d, s) = Overwritten(m, d, Append(t, 0))
     /\ \A p, q \in DOMAIN m :
          /\ Sign(strcmp(m, p, q)) = Order(String(m, p), String(m, q))
          /\ m[q] # 0 => LET at == SelectInSeq(String(m, p), LAMBDA c : c = m[q])
                         IN strchr(m, p, m[q]) = IF at = 0 THEN -1 ELSE p + at - 1

\* The matcher finds what a pattern means: items one after another, of which those before a
\* star may come any number of times, from the beginning after "^", to the end before "$".
RECURSIVE Items(_)
Items(re) ==
  CASE re = << >> -> << >>
    [] Len(re) > 1 /\ re[2] = "*" -> <<[c |-> re[1], star |-> TRUE]>> \o Items(After(re, 2))
    [] OTHER -> <<[c |-> re[1], star |-> FALSE]>> \o Items(Tail(re))
Fits(c, x) == c = "." \/ c = x
\* The places that the items can be passed to from those in a set
Passed(items, from, text) ==
  FoldLeft(LAMBDA places, it :
             IF it.star THEN {j \in 0 .. Len(text) : \E i \in places : i <= j /\ \A k \in i + 1 .. j : Fits(it.c, text[k])}
             ELSE {i + 1 : i \in {i \in places : i < Len(text) /\ Fits(it.c, text[i + 1])}},
           from, items)
PatternRight ==
  \A text \in Text :
    LET anchored == given # << >> /\ given[1] = "^"
        items == Items(IF anchored THEN Tail(given) ELSE given)
        ends == items # << >> /\ Last(items) = [c |-> "$", star |-> FALSE]
        reached == Passed(IF ends THEN Front(items) ELSE items, IF anchored THEN {0} ELSE 0 .. Len(text), text)
    IN match(given, text) <=> IF ends THEN Len(text) \in reached ELSE reached # {}

\* The two printers print the same, and numbers can be read back.
FormatRight ==
  /\ printf(given, <<7, 0, 1>>) = cprintf(given, <<7, 0, 1>>)
  /\ \A n \in 0 .. UIntMax \div 2 :
       /\ atoi(printint(n, 10, TRUE)) = n
       /\ n > 0 => Head(printint(-n, 10, TRUE)) = "-" /\ atoi(Tail(printint(-n, 10, TRUE))) = n
  /\ \A n \in 0 .. UIntMax : FoldLeft(LAMBDA v, c : v * 16 + SelectInSeq(digits, LAMBDA d : d = c) - 1, 0,
                                      printint(n, 16, FALSE)) = n

\* The name that ls prints is the end of the path, and is as wide as the others.  Every entry
\* that is in use and can be found has a line of its own, in their order.
PathRight ==
  LET name == fmtname(given)
      entries == <<[inum |-> 2, name |-> <<"a">>], [inum |-> 0, name |-> <<"b">>],
                   [inum |-> 3, name |-> <<"g">>], [inum |-> 2, name |-> <<"c", "d">>]>>
      stat == [p \in {given} \cup {given \o <<"/">> \o de.name : de \in Range(entries)} |->
                 IF p = given THEN <<"T_DIR", 1, 0>> ELSE IF Last(p) = "g" THEN << >> ELSE <<"T_FILE", 2, 0>>]
      listed == ls(given, stat, entries)
      word == SelectSeq(name, LAMBDA c : c # " ")
  IN /\ Len(name) >= DIRSIZ /\ "/" \notin Range(name) /\ IsSuffix(word, given)
     /\ [i \in DOMAIN listed |-> listed[i][1]] = <<fmtname(<<"a">>), fmtname(<<"c", "d">>)>>
     /\ Len(echo(<<given, given>>)) = 2 * Len(given) + 2

\* Whatever the program passes and wherever its stack is, also where addresses wrap, the
\* kernel is given the memory that it may touch, and a program that passes its own memory
\* is not refused.
ArgumentsRight ==
  \A esp \in 0 .. 7 \cup UIntMax - 7 .. UIntMax, n \in 0 .. 1 :
    LET p == [given EXCEPT !.esp = esp]
        at == Wrap(esp + IntSize + IntSize * n)
        i == argint(p, n)
        own == 0 .. p.sz - 1
    IN /\ i # Fail <=> at .. at + IntSize - 1 \subseteq own
       /\ i # Fail => i = p.mem[at]
       /\ \A size \in {-(UIntMax \div 2), -1, 0, 1, 2, UIntMax \div 2} :
            argptr(p, n, size) # Fail <=>
              i # Fail /\ size >= 0 /\ i \in own /\ i .. i + size - 1 \subseteq own
       /\ argstr(p, n) # Fail <=> i # Fail /\ \E len \in 0 .. p.sz :
                                   /\ i .. i + len \subseteq own /\ p.mem[i + len] = 0
       /\ argstr(p, n) # Fail => /\ p.mem[i + argstr(p, n)] = 0
                                  /\ \A a \in i .. i + argstr(p, n) - 1 : p.mem[a] # 0
       /\ \E argv \in {sys_exec(p)} : Fail \notin Range(argv) =>
            /\ Len(argv) < MAXARG
            /\ \A a \in Range(argv) : a \in own /\ \E b \in own : a <= b /\ p.mem[b] = 0

\* At the end grep has printed the lines that match, as they stand in the file, unless it
\* has read a piece with no end of a line; wc has counted the file and cat has copied it,
\* in whatever pieces they read it.
FilesRight ==
  LET content == given.content
      matching == SelectSeq(LinesOf(content), LAMBDA l : match(given.re, l))
      Blank(i) == i = 0 \/ content[i] \in Blanks
      Count(S) == printint(Cardinality(S), 10, TRUE)
  IN /\ tool = "grep" =>
          /\ \A i \in DOMAIN LinesOf(out) : \E j \in DOMAIN LinesOf(content) : IsSuffix(LinesOf(out)[i], LinesOf(content)[j])
          /\ status = "ended" /\ ~forgot => LinesOf(out) = matching
     /\ tool = "wc" /\ status = "ended" =>
          out = Count({i \in DOMAIN content : content[i] = "LF"}) \o <<" ">>
                  \o Count({i \in DOMAIN content : ~Blank(i) /\ Blank(i - 1)}) \o <<" ">>
                  \o Count(DOMAIN content) \o <<"LF">>
     /\ tool = "cat" => \/ status = "running" /\ content = out \o unread
                        \/ status = "ended" /\ content = out
                        \/ status \in {"read error", "write error"} /\ IsPrefix(Upto(out, Len(out) - 2), content)

Block(a) == a .. a + header[a].size - 1
InRing == DOMAIN header \ used

\* Every unit of the process is in one block; the blocks that were not given out form one
\* ring in the order of their addresses, in which no two are side by side.
HeapSound ==
  /\ UNION {Block(a) : a \in DOMAIN header} = 1 .. brk - 1
  /\ \A a, b \in DOMAIN header : a # b => Block(a) \cap Block(b) = {}
  /\ freep # None =>
       /\ freep \in InRing /\ Base \in InRing
       /\ \A a \in InRing :
            LET after == {b \in InRing : b > a} IN
            /\ header[a].ptr = IF after = {} THEN Base
                               ELSE CHOOSE b \in after : \A c \in after : b <= c
            /\ a + header[a].size \notin InRing \/ header[a].size = 0

ToolsRight ==
  /\ tool \in {"grep", "wc", "cat"} => FilesRight
  /\ tool = "memory" => MemoryRight
  /\ tool = "pattern" => PatternRight
  /\ tool = "format" => FormatRight
  /\ tool = "path" => PathRight
  /\ tool = "arguments" => ArgumentsRight
=============================================================================
