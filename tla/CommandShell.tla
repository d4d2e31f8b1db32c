---------------------------- MODULE CommandShell ----------------------------
(***************************************************************************)
(* operating-systems/shell/main.cc: commands and pipelines with            *)
(* redirections, read from a file that is buffered as a whole, as the      *)
(* tests do it.                                                            *)
(*                                                                         *)
(* A line is a sequence of tokens with blanks between them; "||" stands    *)
(* for two pipes with nothing between them.  The programs are "cat",       *)
(* which reads to the end of its input, "two", which exits with 2 at once, *)
(* and the rest, which execv does not find.  The file "gone" cannot be     *)
(* opened, and the other files are empty.  fork and pipe fail at most      *)
(* MaxFaults times.                                                        *)
(***************************************************************************)
EXTENDS Integers, Sequences, FiniteSets, SequencesExt

CONSTANTS
  Input,        \* sequences of lines
  MaxFaults

VARIABLES
  input,
  task,         \* pid -> process, for those that were not waited for
  reports,      \* pid -> statuses the shell printed: <<line, command, status>>
  faults

vars == <<input, task, reports, faults>>

-----------------------------------------------------------------------------
(* Parsing *)

Nothing == "-"
Command == [command |-> Nothing, args |-> << >>, file |-> [r \in {"<", ">"} |-> Nothing]]
NULL == Command
has_name(c) == c.command # Nothing

\* Well formed from here on, or NULL: one redirection of each kind at the most, to a
\* token that is none.
RECURSIVE parse_command(_, _)
parse_command(c, tokens) ==
  IF tokens = << >> THEN IF has_name(c) THEN c ELSE NULL
  ELSE IF tokens[1] \in {"<", ">"}
       THEN IF \/ c.file[tokens[1]] # Nothing \/ Len(tokens) = 1
               \/ tokens[2] \in {"<", ">"}
            THEN NULL
            ELSE parse_command([c EXCEPT !.file[tokens[1]] = tokens[2]], SubSeq(tokens, 3, Len(tokens)))
       ELSE parse_command(IF has_name(c) THEN [c EXCEPT !.args = Append(@, tokens[1])]
                          ELSE [c EXCEPT !.command = tokens[1]], Tail(tokens))

\* The character after a pipe is not looked at: a second pipe there is part of a word.
Parts(line) ==
  FoldLeft(LAMBDA parts, t :
             CASE t = "|" -> Append(parts, << >>)
               [] t = "||" -> Append(parts, <<"|">>)
               [] OTHER -> [parts EXCEPT ![Len(parts)] = Append(@, t)],
           << << >> >>, line)

parse_line(line) == [i \in DOMAIN Parts(line) |-> parse_command(Command, Parts(line)[i])]
Malformed(commands) == \E i \in DOMAIN commands : commands[i] = NULL

-----------------------------------------------------------------------------
(* Processes *)

Shell == 1
init == 0
Fd == 0 .. 6
Closed == <<"closed", 0, 0>>
Console == <<"console", 0, 0>>
File(f) == <<"file", f, 0>>
None == -1

At(p, at) == p \in DOMAIN task /\ task[p].at = at
Lowest(fds) == CHOOSE i \in Fd : fds[i] = Closed /\ \A j \in 0 .. i - 1 : fds[j] # Closed
dup2(fds, from, to) == IF from = None THEN fds ELSE [fds EXCEPT ![to] = fds[from]]
Close(fds, fd) == IF fd = None THEN fds ELSE [fds EXCEPT ![fd] = Closed]

\* exit: the children become init's, which waits for them.
Exit(p, status) ==
  LET gone == {q \in DOMAIN task : task[q].parent = p /\ task[q].at = "zombie"}
                \cup (IF task[p].parent = init THEN {p} ELSE {})
  IN task' = [q \in DOMAIN task \ gone |->
       IF q = p THEN [task[p] EXCEPT !.at = "zombie", !.status = status,
                                     !.fds = [fd \in Fd |-> Closed]]
       ELSE IF task[q].parent = p THEN [task[q] EXCEPT !.parent = init] ELSE task[q]]

\* The pids that were used are those that have reports.
Pid == Cardinality(DOMAIN reports) + 1

\* fork of p, whose record becomes parent, into child
Fork(p, parent, child) ==
  /\ task' = [q \in DOMAIN task \cup {Pid} |->
                CASE q = Pid -> [child EXCEPT !.parent = p]
                  [] q = p -> parent
                  [] OTHER -> task[q]]
  /\ reports' = [q \in DOMAIN reports \cup {Pid} |->
                   IF q = Pid THEN << >> ELSE reports[q]]

Line(p) == Len(input) - Len(task[p].rest)

\* getline and parse_and_run_command, up to the run
ReadLine(p) ==
  /\ At(p, "prompt")
  /\ IF task[p].rest = << >> THEN Exit(p, 0)
     ELSE LET commands == parse_line(Head(task[p].rest))
              t == [task[p] EXCEPT !.rest = Tail(@), !.commands = commands, !.i = 1,
                                   !.pids = << >>, !.input_fd = None]
          IN IF Len(commands) = 1 /\ commands[1].command = "exit" THEN Exit(p, 0)
             ELSE task' = [task EXCEPT ![p] =
                    IF Malformed(commands) THEN t
                    ELSE IF Len(commands) = 1 THEN [t EXCEPT !.at = "run_program"]
                    ELSE [t EXCEPT !.at = "run_pipeline"]]
  /\ UNCHANGED <<input, reports, faults>>

run_program(p) ==
  /\ At(p, "run_program")
  /\ Fork(p, [task[p] EXCEPT !.at = "waitpid", !.pids = <<Pid>>], [task[p] EXCEPT !.at = "redirect"])
  /\ UNCHANGED <<input, faults>>

\* The i-th turn of the loop of run_pipeline, up to the fork.  All but the last command
\* have a pipe to the next.
IsLast(t) == t.i = Len(t.commands)
Piped(p) ==
  LET t == task[p]
      End(end) == <<end, p, 10 * Line(p) + t.i>>
      read == Lowest(t.fds)
      fds == [t.fds EXCEPT ![read] = End("read")]
      write == Lowest(fds)
  IN IF IsLast(t) THEN [t EXCEPT !.pipe_read = None, !.pipe_write = None]
     ELSE [t EXCEPT !.fds = [fds EXCEPT ![write] = End("write")],
                    !.pipe_read = read, !.pipe_write = write]

run_pipeline(p) ==
  LET t == Piped(p) IN
  /\ At(p, "run_pipeline")
  /\ Fork(p, [t EXCEPT !.at = "close", !.pids = Append(@, Pid)], [t EXCEPT !.at = "wire"])
  /\ UNCHANGED <<input, faults>>

\* The shell's record at the end of the turn, with these descriptors
NextTurn(t, fds) ==
  [t EXCEPT !.fds = fds, !.input_fd = t.pipe_read, !.i = @ + 1,
            !.at = IF IsLast(t) THEN "waitpid" ELSE "run_pipeline"]

\* Mutant of CloseEnds: the shell keeps the end that is written.
CloseEndsRead(p) ==
  LET t == task[p] IN
  /\ At(p, "close")
  /\ task' = [task EXCEPT ![p] = NextTurn(t, Close(t.fds, t.input_fd))]
  /\ UNCHANGED <<input, reports, faults>>

\* The shell closes the end that the command reads and the one it writes.  What it closes
\* again after the loop is closed.
CloseEnds(p) ==
  LET t == task[p] IN
  /\ At(p, "close")
  /\ task' = [task EXCEPT ![p] = NextTurn(t, Close(Close(t.fds, t.input_fd), t.pipe_write))]
  /\ UNCHANGED <<input, reports, faults>>

\* A child of a pipeline: dup2, dup2, close, close.  It keeps input_fd.
Wire(p) ==
  LET t == task[p]
      fds == dup2(dup2(t.fds, t.pipe_write, 1), t.input_fd, 0)
  IN /\ At(p, "wire")
     /\ task' = [task EXCEPT ![p].fds = Close(Close(fds, t.pipe_read), t.pipe_write),
                             ![p].at = "redirect"]
     /\ UNCHANGED <<input, reports, faults>>

\* input_redirection, output_redirection and execv.  A child of run_program whose execv
\* fails returns, and goes on as a shell of its own.
Redirected(fds, c) ==
  [fd \in Fd |-> CASE fd = 0 /\ c.file["<"] # Nothing -> File(c.file["<"])
                   [] fd = 1 /\ c.file[">"] # Nothing -> File(c.file[">"])
                   [] OTHER -> fds[fd]]
RunCommand(p) ==
  LET t == task[p]
      c == t.commands[t.i]
      fds == Redirected(t.fds, c)
  IN /\ At(p, "redirect")
     /\ IF "gone" \in {c.file["<"], c.file[">"]} THEN Exit(p, 256)
        ELSE IF c.command \in {"cat", "two"} THEN task' = [task EXCEPT ![p].fds = fds, ![p].at = "program"]
        ELSE IF Len(t.commands) = 1 THEN task' = [task EXCEPT ![p].fds = fds, ![p].at = "prompt"]
        ELSE Exit(p, 256)
     /\ UNCHANGED <<input, reports, faults>>

\* A program ends.  What "cat" writes to a pipe that nobody reads kills it.
Held(end) == \E q \in DOMAIN task : \E fd \in Fd : task[q].fds[fd] = end
Reads(p) == LET t == task[p] IN
  /\ t.commands[t.i].command = "cat" /\ t.fds[0][1] = "read"
  /\ Held(<<"write", t.fds[0][2], t.fds[0][3]>>)
EndProgram(p) ==
  LET t == task[p]
      Unread == t.fds[1][1] = "write" /\ ~Held(<<"read", t.fds[1][2], t.fds[1][3]>>)
  IN /\ At(p, "program") /\ ~Reads(p)
     /\ IF t.commands[t.i].command = "two" THEN Exit(p, 512)
        ELSE Exit(p, 0) \/ (Unread /\ Exit(p, 13))
     /\ UNCHANGED <<input, reports, faults>>

\* waitpid for the first that is left, and what is printed of its status
Printed(status) == IF status > 255 THEN status - 255 ELSE status
Wait(p) ==
  LET t == task[p]
      pid == Head(t.pids)
      report == <<Line(p), Len(t.commands) - Len(t.pids) + 1, Printed(task[pid].status)>>
  IN /\ At(p, "waitpid") /\ At(pid, "zombie")
     /\ reports' = [reports EXCEPT ![p] = Append(@, report)]
     /\ task' = [q \in DOMAIN task \ {pid} |->
                   IF q # p THEN task[q]
                   ELSE [t EXCEPT !.pids = Tail(@),
                                  !.at = IF Len(t.pids) = 1 THEN "prompt" ELSE "waitpid"]]
     /\ UNCHANGED <<input, faults>>

\* fork fails, or pipe: a command is given up, a pipeline takes the shell with it.
Fault(p) ==
  /\ faults < MaxFaults /\ faults' = faults + 1
  /\ \/ At(p, "run_program") /\ task' = [task EXCEPT ![p].at = "prompt"]
     \/ At(p, "run_pipeline") /\ Exit(p, 256)
  /\ UNCHANGED <<input, reports>>

Start(lines) ==
  /\ input = lines
  /\ task = [p \in {Shell} |->
       [parent |-> init, at |-> "prompt", rest |-> lines, commands |-> << >>, i |-> 1, pids |-> << >>,
        fds |-> [fd \in Fd |-> IF fd <= 2 THEN Console ELSE Closed],
        pipe_read |-> None, pipe_write |-> None, input_fd |-> None, status |-> 0]]
  /\ reports = [p \in {Shell} |-> << >>]
  /\ faults = 0

Init == \E lines \in Input : Start(lines)

Next == \E p \in DOMAIN task :
  \/ ReadLine(p) \/ run_program(p) \/ run_pipeline(p) \/ CloseEnds(p) \/ Wire(p)
  \/ RunCommand(p) \/ EndProgram(p) \/ Wait(p) \/ Fault(p)

-----------------------------------------------------------------------------
(* Properties *)

\* What a part of a line means, by the places of its redirections and their files
Places(ts, r) == {i \in DOMAIN ts : ts[i] \in r}
Words(ts) == (DOMAIN ts) \ (Places(ts, {"<", ">"}) \cup {i + 1 : i \in Places(ts, {"<", ">"})})
HasMeaning(ts) ==
  /\ Words(ts) # {}
  /\ \A i \in Places(ts, {"<", ">"}) : i + 1 \in DOMAIN ts \ Places(ts, {"<", ">"})
  /\ \A r \in {"<", ">"} : Cardinality(Places(ts, {r})) <= 1
Meaning(ts) ==
  LET words == [k \in 1 .. Cardinality(Words(ts)) |-> ts[SortSeq(SetToSeq(Words(ts)), <)[k]]]
  IN [command |-> words[1], args |-> Tail(words),
      file |-> [r \in {"<", ">"} |-> IF Places(ts, {r}) = {} THEN Nothing
                                     ELSE ts[1 + CHOOSE i \in Places(ts, {r}) : TRUE]]]

\* Each part of a line is run as what it means, and is refused when it means nothing.
ParsedRight ==
  \A l \in DOMAIN input : \A i \in DOMAIN Parts(input[l]) :
    LET ts == Parts(input[l])[i]
    IN parse_line(input[l])[i] = IF HasMeaning(ts) THEN Meaning(ts) ELSE NULL

Programs == {p \in DOMAIN task : task[p].at = "program"}

\* A program runs with its redirections, or else with the pipe from the command before it
\* and the pipe to the one behind it, or else with what its shell has; it holds no pipe
\* open for writing but its own output, and none for reading but its input's.
WiredRight ==
  \A p \in Programs :
    LET t == task[p]
        file == t.commands[t.i].file
        Pipe(i) == <<t.parent, 10 * Line(p) + i>>
    IN t.parent # init =>
       /\ t.fds[0] = CASE file["<"] # Nothing -> File(file["<"])
                       [] file["<"] = Nothing /\ t.i > 1 -> <<"read">> \o Pipe(t.i - 1)
                       [] OTHER -> task[t.parent].fds[0]
       /\ t.fds[1] = CASE file[">"] # Nothing -> File(file[">"])
                       [] file[">"] = Nothing /\ ~IsLast(t) -> <<"write">> \o Pipe(t.i)
                       [] OTHER -> task[t.parent].fds[1]
       /\ \A fd \in Fd \ {1} : t.fds[fd][1] # "write"
       /\ \A fd \in Fd : t.fds[fd][1] = "read" => t.fds[fd] = <<"read">> \o Pipe(t.i - 1)

\* At its prompt a shell has closed every pipe, and waited for every child.
PromptClean ==
  \A p \in DOMAIN task : At(p, "prompt") =>
    /\ \A fd \in Fd \ {0, 1} : task[p].fds[fd] = IF fd = 2 THEN Console ELSE Closed
    /\ \A q \in DOMAIN task : task[q].parent # p

\* A command that is alone on its line, and that execv does not find
Unfound(l) ==
  LET c == parse_line(input[l]) IN
  Len(c) = 1 /\ c[1] # NULL /\ c[1].command \notin {"cat", "two", "exit"}

\* There is a second shell only after such a command: otherwise every line is run once.
OneShell ==
  \A p \in DOMAIN task : At(p, "prompt") /\ p # Shell => \E l \in 1 .. Line(p) : Unfound(l)

\* When no call failed, the first shell has printed one status for each command of the
\* lines it has run, in order, and 0 for those that were found, had their files and were
\* not killed by a pipe that nobody reads.
ReportsRight ==
  At(Shell, "prompt") /\ faults = 0 =>
    LET r == reports[Shell]
        Ran == {l \in 1 .. Line(Shell) : ~Malformed(parse_line(input[l]))}
    IN /\ [i \in DOMAIN r |-> <<r[i][1], r[i][2]>>] =
            FlattenSeq([k \in 1 .. Cardinality(Ran) |->
              LET l == SortSeq(SetToSeq(Ran), <)[k]
              IN [c \in DOMAIN parse_line(input[l]) |-> <<l, c>>]])
       /\ \A i \in DOMAIN r :
            LET cs == parse_line(input[r[i][1]])
                c == cs[r[i][2]]
            IN Unfound(r[i][1]) \/
               (r[i][3] \in {0, 13} <=> c.command = "cat" /\ "gone" \notin {c.file["<"], c.file[">"]})

\* No process waits for ever.
NeverStuck ==
  \/ DOMAIN task = {}
  \/ \E p \in DOMAIN task :
       \/ task[p].at \notin {"waitpid", "program", "zombie"}
       \/ At(p, "program") /\ ~Reads(p)
       \/ At(p, "waitpid") /\ At(Head(task[p].pids), "zombie")

CommandShellRight ==
  /\ DOMAIN task = {} => ParsedRight
  /\ WiredRight /\ PromptClean /\ OneShell /\ ReportsRight /\ NeverStuck
=============================================================================
