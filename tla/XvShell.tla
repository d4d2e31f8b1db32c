------------------------------ MODULE XvShell ------------------------------
(***************************************************************************)
(* xv6's shell, sh.c: a line is parsed by a child of the shell, which runs *)
(* it as a tree of processes with their descriptors.                       *)
(*                                                                         *)
(* A line is a sequence of tokens, "a" for a word and "+" for ">>".  A     *)
(* word is known by its place, as it is by a pointer in the source, and a  *)
(* pipe by the place of its "|".  A program that reads from a pipe goes on *)
(* until the pipe has no writer.  Calls of the kernel may fail, MaxFailures*)
(* times.                                                                  *)
(***************************************************************************)
EXTENDS Integers, Sequences, FiniteSets, SequencesExt

CONSTANTS
  Line,          \* the lines that may be typed
  MAXARGS,
  MaxFailures

VARIABLES
  line,
  proc,        \* pid -> process, for those that were not waited for
  failures     \* calls that failed

vars == <<line, proc, failures>>

-----------------------------------------------------------------------------
(* Parsing.  The rest of the line starts at s; after a panic nothing is    *)
(* found at s any more, and the line does not come to its end.             *)

End == Len(line) + 1
Panicked == Len(line) + 2

peek(s, toks) == s < End /\ line[s] \in toks

execcmd(argv) == [type |-> "EXEC", argv |-> argv]
redircmd(c, r) == [type |-> "REDIR", cmd |-> c, file |-> r.file, fd |-> r.fd]
pipecmd(at, l, r) == [type |-> "PIPE", at |-> at, left |-> l, right |-> r]
listcmd(l, r) == [type |-> "LIST", left |-> l, right |-> r]
backcmd(c) == [type |-> "BACK", cmd |-> c]

RECURSIVE parseredirs(_, _)
parseredirs(redirs, s) ==
  IF ~peek(s, {"<", ">", "+"}) THEN [redirs |-> redirs, s |-> s]
  ELSE IF ~peek(s + 1, {"a"}) THEN [redirs |-> redirs, s |-> Panicked]
  ELSE parseredirs(Append(redirs, [file |-> s + 1, fd |-> IF line[s] = "<" THEN 0 ELSE 1]), s + 2)

\* The first redirection comes to be the innermost.
Redirected(c, r) == [cmd |-> FoldLeft(redircmd, c, r.redirs), s |-> r.s]

\* The words of a command, with redirections among them
RECURSIVE Args(_, _)
Args(argv, r) ==
  IF peek(r.s, {"|", ")", "&", ";"}) \/ r.s >= End THEN Redirected(execcmd(argv), r)
  ELSE IF line[r.s] # "a" \/ Len(argv) + 1 >= MAXARGS
       THEN Redirected(execcmd(argv), [r EXCEPT !.s = Panicked])
  ELSE Args(Append(argv, r.s), parseredirs(r.redirs, r.s + 1))

\* Each "&" puts what is before it in the background.
RECURSIVE Backs(_)
Backs(r) == IF peek(r.s, {"&"}) THEN Backs([cmd |-> backcmd(r.cmd), s |-> r.s + 1]) ELSE r

RECURSIVE parseline(_), parsepipe(_), parseblock(_)

parseblock(s) ==
  LET r == parseline(s + 1)
  IN IF ~peek(r.s, {")"}) THEN [r EXCEPT !.s = Panicked]
     ELSE Redirected(r.cmd, parseredirs(<< >>, r.s + 1))

parseexec(s) == IF peek(s, {"("}) THEN parseblock(s) ELSE Args(<< >>, parseredirs(<< >>, s))

parsepipe(s) ==
  LET r == parseexec(s)
      rest == parsepipe(r.s + 1)
  IN IF peek(r.s, {"|"}) THEN [cmd |-> pipecmd(r.s, r.cmd, rest.cmd), s |-> rest.s] ELSE r

parseline(s) ==
  LET r == Backs(parsepipe(s))
      rest == parseline(r.s + 1)
  IN IF peek(r.s, {";"}) THEN [cmd |-> listcmd(r.cmd, rest.cmd), s |-> rest.s] ELSE r

\* The places of the words that a NUL is put behind: until then a word goes on to the end
\* of the line.
RECURSIVE nulterminateLeft(_), nulterminate(_)

\* Mutant of nulterminate: the right side of a pipe is forgotten.
nulterminateLeft(c) ==
  CASE c.type = "EXEC" -> Range(c.argv)
    [] c.type = "REDIR" -> nulterminateLeft(c.cmd) \cup {c.file}
    [] c.type = "LIST" -> nulterminateLeft(c.left) \cup nulterminateLeft(c.right)
    [] c.type = "PIPE" -> nulterminateLeft(c.left)
    [] c.type = "BACK" -> nulterminateLeft(c.cmd)

nulterminate(c) ==
  CASE c.type = "EXEC" -> Range(c.argv)
    [] c.type = "REDIR" -> nulterminate(c.cmd) \cup {c.file}
    [] c.type \in {"PIPE", "LIST"} -> nulterminate(c.left) \cup nulterminate(c.right)
    [] c.type = "BACK" -> nulterminate(c.cmd)

parsecmd == parseline(1)
Parses == parsecmd.s = End

-----------------------------------------------------------------------------
(* Processes.  Descriptors are open files: the console, a file, or an end  *)
(* of a pipe.                                                              *)

Shell == 1
init == 0     \* its children are never waited for here
Closed == <<"closed", 0>>
Console == <<"console", 0>>
NoCmd == execcmd(<< >>)
StdFds == [fd \in 0 .. 4 |-> IF fd <= 2 THEN Console ELSE Closed]

\* open and dup take the lowest descriptor that is free.
Opened(fds, f) ==
  LET fd == CHOOSE i \in 0 .. 4 : fds[i] = Closed /\ \A j \in 0 .. i - 1 : fds[j] # Closed
  IN [fds EXCEPT ![fd] = f]
Close(fds, fd) == [fds EXCEPT ![fd] = Closed]

Live(p) == p \in DOMAIN proc /\ proc[p].at # "zombie"
At(p, at) == p \in DOMAIN proc /\ proc[p].at = at
Runs(p, type) == At(p, "runcmd") /\ proc[p].cmd.type = type

Goes(p, to) == proc' = [proc EXCEPT ![p] = to]

\* exit: the children that are left become init's.
Exit(p) ==
  LET left == {q \in DOMAIN proc : ~(proc[q].parent = p /\ proc[q].at = "zombie")} \ 
                (IF proc[p].parent = init THEN {p} ELSE {})
  IN proc' = [q \in left |->
       IF q = p THEN [proc[p] EXCEPT !.at = "zombie", !.fds = [fd \in 0 .. 4 |-> Closed]]
       ELSE IF proc[q].parent = p THEN [proc[q] EXCEPT !.parent = init] ELSE proc[q]]

\* A call of the kernel fails, and p leaves.
Fails(p) == /\ failures < MaxFailures /\ failures' = failures + 1
            /\ Exit(p)
            /\ UNCHANGED line

Pid == CHOOSE q \in Shell + 1 .. Cardinality(DOMAIN proc) + 2 : q \notin DOMAIN proc

\* fork1: the child, which begins at cat with ccmd, and the parent's record
Fork(p, parent, cat, ccmd) ==
  proc' = [q \in DOMAIN proc \cup {Pid} |->
             CASE q = Pid -> [parent EXCEPT !.parent = p, !.at = cat, !.cmd = ccmd, !.waits = 0]
               [] q = p -> parent
               [] OTHER -> proc[q]]

ReadLine == /\ At(Shell, "prompt")
            /\ Fork(Shell, [proc[Shell] EXCEPT !.at = "wait", !.waits = 1], "parse", NoCmd)
            /\ UNCHANGED <<line, failures>>

Parse(p) == /\ At(p, "parse")
            /\ IF Parses THEN Goes(p, [proc[p] EXCEPT !.at = "runcmd", !.cmd = parsecmd.cmd,
                                                        !.ends = nulterminate(parsecmd.cmd)])
               ELSE Exit(p)
            /\ UNCHANGED <<line, failures>>

\* exec may fail as a call does, or for a name that is none.
RunExec(p) == /\ Runs(p, "EXEC")
              /\ IF proc[p].cmd.argv = << >> THEN Exit(p)
                 ELSE Goes(p, [proc[p] EXCEPT !.at = "program"])
              /\ UNCHANGED <<line, failures>>

RunRedir(p) ==
  LET c == proc[p].cmd IN
  /\ Runs(p, "REDIR")
  /\ Goes(p, [proc[p] EXCEPT !.fds = Opened(Close(@, c.fd), <<"file", c.file>>), !.cmd = c.cmd])
  /\ UNCHANGED <<line, failures>>

RunList(p) ==
  LET c == proc[p].cmd IN
  /\ Runs(p, "LIST")
  /\ Fork(p, [proc[p] EXCEPT !.at = "wait", !.waits = 1, !.cmd = c.right], "runcmd", c.left)
  /\ UNCHANGED <<line, failures>>

RunBack(p) ==
  LET c == proc[p].cmd IN
  /\ Runs(p, "BACK")
  /\ Fork(p, [proc[p] EXCEPT !.at = "leave"], "runcmd", c.cmd)
  /\ UNCHANGED <<line, failures>>

Leave(p) == At(p, "leave") /\ Exit(p) /\ UNCHANGED <<line, failures>>

\* pipe gives the descriptors 3 and 4, p[0] and p[1].
RunPipe(p) ==
  LET c == proc[p].cmd
      fds == Opened(Opened(proc[p].fds, <<"read", c.at>>), <<"write", c.at>>)
  IN /\ Runs(p, "PIPE")
     /\ Fork(p, [proc[p] EXCEPT !.at = "right", !.fds = fds], "left end", c)
     /\ UNCHANGED <<line, failures>>

ForkRight(p) == /\ At(p, "right")
                /\ Fork(p, [proc[p] EXCEPT !.at = "close"], "right end", proc[p].cmd)
                /\ UNCHANGED <<line, failures>>

\* Mutant of ClosePipe: the writing end stays open.
ClosePipeRead(p) ==
  /\ At(p, "close")
  /\ Goes(p, [proc[p] EXCEPT !.fds = Close(@, 3), !.at = "wait", !.waits = 2, !.cmd = NoCmd])
  /\ UNCHANGED <<line, failures>>

ClosePipe(p) ==
  /\ At(p, "close")
  /\ Goes(p, [proc[p] EXCEPT !.fds = Close(Close(@, 3), 4), !.at = "wait", !.waits = 2, !.cmd = NoCmd])
  /\ UNCHANGED <<line, failures>>

\* close, dup, close, close
Wired(fds, fd, end) == Close(Close(Opened(Close(fds, fd), end), 3), 4)

LeftEnd(p) == /\ At(p, "left end")
              /\ Goes(p, [proc[p] EXCEPT !.fds = Wired(@, 1, @[4]), !.at = "runcmd", !.cmd = @.left])
              /\ UNCHANGED <<line, failures>>

RightEnd(p) == /\ At(p, "right end")
               /\ Goes(p, [proc[p] EXCEPT !.fds = Wired(@, 0, @[3]), !.at = "runcmd", !.cmd = @.right])
               /\ UNCHANGED <<line, failures>>

\* wait.  After the last one runcmd goes on with the right of a list, which is nothing to
\* run after a pipe, and the shell with its next line.
Wait(p) ==
  /\ At(p, "wait")
  /\ \E q \in DOMAIN proc :
       /\ proc[q].parent = p /\ proc[q].at = "zombie"
       /\ proc' = [r \in DOMAIN proc \ {q} |->
            IF r # p THEN proc[r]
            ELSE [proc[p] EXCEPT !.waits = @ - 1,
                    !.at = IF proc[p].waits > 1 THEN "wait" ELSE IF p = Shell THEN "prompt" ELSE "runcmd"]]
  /\ UNCHANGED <<line, failures>>

Fail(p) == /\ \/ At(p, "runcmd") /\ proc[p].cmd # NoCmd
              \/ At(p, "right") \/ At(p, "prompt")
           /\ Fails(p)

\* A program reads to the end of its input, and leaves.
HasWriter(pipe) == \E q \in DOMAIN proc : \E fd \in 0 .. 4 : proc[q].fds[fd] = <<"write", pipe>>
Reads(p) == At(p, "program") /\ proc[p].fds[0][1] = "read" /\ HasWriter(proc[p].fds[0][2])

EndProgram(p) == /\ At(p, "program") /\ ~Reads(p)
                 /\ Exit(p)
                 /\ UNCHANGED <<line, failures>>

\* The console is opened until descriptors 0, 1 and 2 are.
Start(l) == /\ line = l
            /\ proc = [p \in {Shell} |->
                 [parent |-> init, at |-> "prompt", cmd |-> NoCmd, fds |-> StdFds, waits |-> 0, ends |-> {}]]
            /\ failures = 0

Init == \E l \in Line : Start(l)

\* The line is typed again when the processes of the last are gone.
Next ==
  \/ Cardinality(DOMAIN proc) = 1 /\ ReadLine
  \/ \E p \in DOMAIN proc :
       \/ Parse(p) \/ RunExec(p) \/ RunRedir(p) \/ RunList(p) \/ RunBack(p) \/ Leave(p)
       \/ RunPipe(p) \/ ForkRight(p) \/ ClosePipe(p) \/ LeftEnd(p) \/ RightEnd(p)
       \/ Wait(p) \/ Fail(p) \/ EndProgram(p)

-----------------------------------------------------------------------------
(* Properties *)

\* The commands that the grammar gives for the tokens from i up to j
Between(i, j, toks) == {k \in i .. j - 1 : line[k] \in toks}
RedirsOf(i, j) == Between(i, j, {"<", ">", "+"})
FilesOf(i, j) == {k + 1 : k \in RedirsOf(i, j)}
RedirSeq(i, j) == [n \in 1 .. Cardinality(RedirsOf(i, j)) |->
  LET k == SortSeq(SetToSeq(RedirsOf(i, j)), <)[n]
  IN [file |-> k + 1, fd |-> IF line[k] = "<" THEN 0 ELSE 1]]
Simple(i, j) == LET words == (i .. j - 1) \ (RedirsOf(i, j) \cup FilesOf(i, j)) IN
  IF FilesOf(i, j) \cup words = Between(i, j, {"a"}) /\ Cardinality(words) < MAXARGS
     /\ Between(i, j, {"a"}) \cup RedirsOf(i, j) = i .. j - 1
  THEN {FoldLeft(redircmd, execcmd(SortSeq(SetToSeq(words), <)), RedirSeq(i, j))} ELSE {}

RECURSIVE LinesOf(_, _), BacksOf(_, _), PipesOf(_, _), BlocksOf(_, _)
BlocksOf(i, j) ==
  IF ~peek(i, {"("}) \/ i >= j THEN {}
  ELSE UNION {{FoldLeft(redircmd, c, RedirSeq(k + 1, j)) : c \in LinesOf(i + 1, k)} :
                k \in {k \in Between(i, j, {")"}) :
                         (k + 1 .. j - 1) = RedirsOf(k + 1, j) \cup FilesOf(k + 1, j)
                           /\ FilesOf(k + 1, j) = Between(k + 1, j, {"a"})}}
PipesOf(i, j) == Simple(i, j) \cup BlocksOf(i, j) \cup
  UNION {{pipecmd(k, l, r) : l \in Simple(i, k) \cup BlocksOf(i, k), r \in PipesOf(k + 1, j)} :
           k \in Between(i, j, {"|"})}
BacksOf(i, j) == PipesOf(i, j) \cup
  (IF j > i /\ line[j - 1] = "&" THEN {backcmd(c) : c \in BacksOf(i, j - 1)} ELSE {})
LinesOf(i, j) == BacksOf(i, j) \cup
  UNION {{listcmd(l, r) : l \in BacksOf(i, k), r \in LinesOf(k + 1, j)} : k \in Between(i, j, {";"})}

\* A line that parses has one meaning in the grammar, the one that is run, and any other
\* has none.
ParsedRight == LinesOf(1, End) = IF Parses THEN {parsecmd.cmd} ELSE {}

\* The programs of c with their input and output
RECURSIVE Programs(_, _, _)
Programs(c, in, out) ==
  CASE c.type = "EXEC" -> {<<c.argv, in, out>>}
    [] c.type = "REDIR" -> IF c.fd = 0 THEN Programs(c.cmd, <<"file", c.file>>, out)
                           ELSE Programs(c.cmd, in, <<"file", c.file>>)
    [] c.type = "PIPE" -> Programs(c.left, in, <<"write", c.at>>) \cup Programs(c.right, <<"read", c.at>>, out)
    [] c.type = "LIST" -> Programs(c.left, in, out) \cup Programs(c.right, in, out)
    [] c.type = "BACK" -> Programs(c.cmd, in, out)

Running == {p \in DOMAIN proc : proc[p].at = "program"}

\* A program runs with the input and output that the line says, the console for errors, and
\* no other descriptor, through which it would keep a pipe open.  Its arguments, and the
\* names of its files, are words and not the rest of the line.
WiredRight ==
  \A p \in Running :
    /\ Range(proc[p].cmd.argv) \subseteq proc[p].ends
    /\ \A fd \in {0, 1} : proc[p].fds[fd][1] = "file" => proc[p].fds[fd][2] \in proc[p].ends
    /\ <<proc[p].cmd.argv, proc[p].fds[0], proc[p].fds[1]>> \in Programs(parsecmd.cmd, Console, Console)
    /\ proc[p].fds[2] = Console /\ proc[p].fds[3] = Closed /\ proc[p].fds[4] = Closed

\* The places of the words of c, and of those that are not in the background
Places(c) == UNION {Range(prog[1]) : prog \in Programs(c, Console, Console)}
RECURSIVE Foreground(_)
Foreground(c) ==
  CASE c.type = "EXEC" -> Range(c.argv)
    [] c.type = "REDIR" -> Foreground(c.cmd)
    [] c.type \in {"PIPE", "LIST"} -> Foreground(c.left) \cup Foreground(c.right)
    [] c.type = "BACK" -> {}

RECURSIVE Lists(_)
Lists(c) ==
  CASE c.type = "EXEC" -> {}
    [] c.type \in {"REDIR", "BACK"} -> Lists(c.cmd)
    [] c.type = "PIPE" -> Lists(c.left) \cup Lists(c.right)
    [] c.type = "LIST" -> {c} \cup Lists(c.left) \cup Lists(c.right)

\* When no call has failed, what comes after a ";", and the next prompt, waits for every
\* program before it that is not in the background.
InOrder ==
  failures = 0 =>
    LET now == UNION {Range(proc[p].cmd.argv) : p \in Running} IN
    /\ \A c \in Lists(parsecmd.cmd) : now \cap Foreground(c.left) = {} \/ now \cap Places(c.right) = {}
    /\ At(Shell, "prompt") => now \cap Foreground(parsecmd.cmd) = {}

\* No process waits for ever: there is one that has something to do, or only the shell is
\* left, at its prompt.
CanStep(p) ==
  \/ proc[p].at \notin {"wait", "zombie", "program", "prompt"}
  \/ At(p, "program") /\ ~Reads(p)
  \/ At(p, "wait") /\ \E q \in DOMAIN proc : proc[q].parent = p /\ proc[q].at = "zombie"
NeverStuck == \/ \E p \in DOMAIN proc : CanStep(p)
              \/ DOMAIN proc = {}
              \/ DOMAIN proc = {Shell} /\ At(Shell, "prompt")

ShellRight == /\ DOMAIN proc = {Shell} => ParsedRight
              /\ Parses => WiredRight /\ InOrder
              /\ NeverStuck
=============================================================================
