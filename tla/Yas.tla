-------------------------------- MODULE Yas --------------------------------
(***************************************************************************)
(* The Y86-64 assembler of computer-architecture/Yas/hclrs/tools (yas.c    *)
(* and the rules of yas-grammar.lex), and its output run by the simulator. *)
(*                                                                         *)
(* A line is a sequence of tokens <<type, value>>, and how it ends: "line" *)
(* or, at a character that is no token, "bad", or "cut" when such a line   *)
(* is the last and the file ends in it.  Tokens fit into their table, and  *)
(* labels into theirs.  Of the listing only the addresses and bytes count. *)
(***************************************************************************)
EXTENDS Integers, Sequences, FiniteSets, SequencesExt

CONSTANTS
  WORD, MEM_SIZE, max_steps,
  Source       \* files, each with how it ends when it runs and what register 0 then holds

VARIABLES
  source, answer,
  pass, lineno, bytepos,
  tokens,      \* left from a line that was bad
  inError,     \* the scanner is inside a line that was bad
  error_mode, hit_error,
  symbol_table,
  code,        \* bytes of the instruction; what is not set stays from the one before
  yo,          \* <<address, bytes>> of each line that was written with code
  exitCode,    \* -1 while yas runs
  pc, r, m, cc, e, step, savem

yasVars == <<source, answer, pass, lineno, bytepos, tokens, inError, error_mode, hit_error,
             symbol_table, code, yo, exitCode>>
simulator == <<pc, r, m, cc, e, step, savem>>

Isa == INSTANCE Y86

-----------------------------------------------------------------------------
(* The instruction set: the bytes of an instruction and its arguments, each a register in  *)
(* a half of byte 1, a number of so many bytes, or a memory reference.                     *)

High == <<"R_ARG", 1, 1>>
Low == <<"R_ARG", 1, 0>>
Num(pos, bytes) == <<"I_ARG", pos, bytes>>
Mem == <<"M_ARG", 1, 0>>

Moves == <<"rrmovq", "cmovle", "cmovl", "cmove", "cmovne", "cmovge", "cmovg">>
Alus == <<"addq", "subq", "andq", "xorq">>
Jumps == <<"jmp", "jle", "jl", "je", "jne", "jge", "jg">>
Row(hi, lo, bytes, args) == [code |-> 16 * hi + lo, bytes |-> bytes, args |-> args]
IndexOf(table, name) == CHOOSE k \in DOMAIN table : table[k] = name

find_instr(name) ==
  CASE name \in ToSet(Moves) -> Row(Isa!I_RRMOVQ, IndexOf(Moves, name) - 1, 2, <<High, Low>>)
    [] name \in ToSet(Alus) -> Row(Isa!I_ALU, IndexOf(Alus, name) - 1, 2, <<High, Low>>)
    [] name \in ToSet(Jumps) -> Row(Isa!I_JMP, IndexOf(Jumps, name) - 1, 1 + WORD, <<Num(1, WORD)>>)
    [] name = "halt" -> Row(Isa!I_HALT, 0, 1, << >>)
    [] name = "nop" -> Row(Isa!I_NOP, 0, 1, << >>)
    [] name = "ret" -> Row(Isa!I_RET, 0, 1, << >>)
    [] name = "irmovq" -> Row(Isa!I_IRMOVQ, 0, 2 + WORD, <<Num(2, WORD), Low>>)
    [] name = "iaddq" -> Row(Isa!I_IADDQ, 0, 2 + WORD, <<Num(2, WORD), Low>>)
    [] name = "rmmovq" -> Row(Isa!I_RMMOVQ, 0, 2 + WORD, <<High, Mem>>)
    [] name = "mrmovq" -> Row(Isa!I_MRMOVQ, 0, 2 + WORD, <<Mem, High>>)
    [] name = "call" -> Row(Isa!I_CALL, 0, 1 + WORD, <<Num(1, WORD)>>)
    [] name = "pushq" -> Row(Isa!I_PUSHQ, 0, 2, <<High>>)
    [] name = "popq" -> Row(Isa!I_POPQ, 0, 2, <<High>>)
    [] name = ".byte" -> Row(0, 0, 1, <<Num(0, 1)>>)
    [] name = ".word" -> Row(0, 0, 2, <<Num(0, 2)>>)
    [] name = ".long" -> Row(0, 0, 4, <<Num(0, 4)>>)
    [] name = ".quad" -> Row(0, 0, WORD, <<Num(0, WORD)>>)

-----------------------------------------------------------------------------
(* One line.  The arguments are read by a = [at, code, failed], `at` being the next token. *)

TokErr == <<"err", 0>>
Token(ts, k) == IF k \in DOMAIN ts THEN ts[k] ELSE TokErr
Punct(c) == <<"punct", c>>
Fail(a) == [a EXCEPT !.failed = TRUE]

\* Mutant of find_symbol: the label that was defined last.
find_symbolLast(name) ==
  LET defined == {k \in DOMAIN symbol_table : symbol_table[k][1] = name}
  IN IF defined = {} THEN -1
     ELSE symbol_table[CHOOSE k \in defined : \A j \in defined : j <= k][2]

\* The label that was defined first
find_symbol(name) ==
  LET defined == {k \in DOMAIN symbol_table : symbol_table[k][1] = name}
  IN IF defined = {} THEN -1
     ELSE symbol_table[CHOOSE k \in defined : \A j \in defined : k <= j][2]
Undefined(t) == t[1] = "ident" /\ \A k \in DOMAIN symbol_table : symbol_table[k][1] # t[2]
Value(t) == IF t[1] = "num" THEN t[2] ELSE find_symbol(t[2])

PutNum(bytes, pos, len, val) ==
  [k \in 0 .. 9 |-> IF k \in pos .. pos + len - 1 THEN Isa!ByteOf(val, k - pos) ELSE bytes[k]]
PutReg(bytes, hi, id) ==
  [bytes EXCEPT ![1] = IF hi = 1 THEN 16 * id + Isa!LO4(@) ELSE 16 * Isa!HI4(@) + id]

get_reg(ts, a, hi) ==
  LET t == Token(ts, a.at)
  IN IF t[1] # "reg" THEN Fail(a)
     ELSE [a EXCEPT !.at = @ + 1, !.code = PutReg(@, hi, t[2])]

get_num(ts, a, pos, bytes) ==
  LET t == Token(ts, a.at)
  IN IF t[1] \notin {"num", "ident"} THEN Fail(a)
     ELSE [at |-> a.at + 1, code |-> PutNum(a.code, pos, bytes, Value(t)),
           failed |-> a.failed \/ Undefined(t)]

\* A number or a label, a register in parentheses, both, or nothing
get_mem(ts, a) ==
  LET t == Token(ts, a.at)
      displaced == t[1] \in {"num", "ident"}
      next == IF displaced THEN a.at + 1 ELSE a.at
      b == IF displaced /\ Undefined(t) THEN Fail(a) ELSE a
      based == Token(ts, next) = Punct("(")
      reg == Token(ts, next + 1)
      Put(id, at) == [b EXCEPT !.at = at,
        !.code = PutNum(PutReg(@, 0, id), 2, WORD, IF displaced THEN Value(t) ELSE 0)]
  IN CASE ~based -> Put(Isa!REG_NONE, next)
       [] based /\ reg[1] = "reg" /\ Token(ts, next + 2) = Punct(")") -> Put(reg[2], next + 3)
       [] based /\ reg[1] # "reg" -> Fail([b EXCEPT !.at = next + 1])
       [] OTHER -> Fail([b EXCEPT !.at = IF Token(ts, next + 2)[1] = "punct" THEN next + 3 ELSE next + 2])

Argument(ts, a, arg) ==
  CASE arg[1] = "R_ARG" -> get_reg(ts, a, arg[3])
    [] arg[1] = "I_ARG" -> get_num(ts, a, arg[2], arg[3])
    [] arg[1] = "M_ARG" -> get_mem(ts, a)

\* [code, failed, written]: a line without its comma is not written, others are, even if
\* they failed.
Assembled(instr, ts) ==
  LET a0 == [at |-> 2, failed |-> FALSE,
             code |-> [code EXCEPT ![0] = instr.code, ![1] = 16 * Isa!REG_NONE + Isa!REG_NONE]]
      a1 == IF instr.args = << >> THEN a0 ELSE Argument(ts, a0, instr.args[1])
      comma == Token(ts, a1.at) = Punct(",")
      a2 == IF Len(instr.args) < 2 THEN a1
            ELSE IF comma THEN Argument(ts, [a1 EXCEPT !.at = @ + 1], instr.args[2]) ELSE Fail(a1)
  IN [code |-> a2.code, failed |-> a2.failed, written |-> Len(instr.args) < 2 \/ comma]

\* Addresses are written with three digits, or with four from 4096 on.
Digits(pos) == IF pos > 4095 THEN pos ELSE pos % 4096
Bytes(c, n) == [k \in 1 .. n |-> c[k - 1]]

-----------------------------------------------------------------------------
(* The lines of a pass *)

Running == exitCode = -1 /\ lineno <= Len(source)

\* fail ends the line, and the run after the pass.
Failed == hit_error' = TRUE /\ UNCHANGED <<bytepos, code, yo>>
Quiet == UNCHANGED <<hit_error, code, yo>>

\* A directive or an instruction
Statement(ts) ==
  LET t == ts[1]
      n == Token(ts, 2)
      instr == find_instr(t[2])
      a == Assembled(instr, ts)
  IN CASE t[1] # "instr" -> Failed
       [] t = <<"instr", ".pos">> -> IF n[1] # "num" THEN Failed ELSE bytepos' = n[2] /\ Quiet
       [] t = <<"instr", ".align">> ->
            IF n[1] # "num" THEN Failed
            ELSE IF n[2] <= 0 THEN Failed
            ELSE bytepos' = ((bytepos + n[2] - 1) \div n[2]) * n[2] /\ Quiet
       [] OTHER ->
            /\ bytepos' = bytepos + instr.bytes
            /\ IF pass = 1 THEN Quiet
               ELSE /\ hit_error' = (hit_error \/ a.failed)
                    /\ code' = a.code
                    /\ yo' = IF a.written THEN Append(yo, <<Digits(bytepos), Bytes(a.code, instr.bytes)>>)
                             ELSE yo

finish_line(ts) ==
  LET labelled == ts[1][1] = "ident"
      rest == IF labelled THEN SubSeq(ts, 3, Len(ts)) ELSE ts
  IN IF labelled /\ Token(ts, 2) # Punct(":") THEN Failed /\ UNCHANGED symbol_table
     ELSE /\ symbol_table' = IF labelled /\ pass = 1 THEN Append(symbol_table, <<ts[1][2], bytepos>>)
                             ELSE symbol_table
          /\ IF rest = << >> THEN Quiet /\ UNCHANGED bytepos ELSE Statement(rest)

NextLine == lineno' = lineno + 1 /\ UNCHANGED <<source, answer, pass, exitCode>> /\ UNCHANGED simulator

\* The line with the tokens that are left, unless the line before was bad: then nothing
\* of it counts.
FinishLine ==
  LET ts == tokens \o source[lineno].tokens
      mode == IF tokens = << >> THEN FALSE ELSE error_mode
  IN /\ Running /\ ~inError /\ source[lineno].end = "line"
     /\ IF ts = << >> \/ mode THEN UNCHANGED <<bytepos, symbol_table>> /\ Quiet ELSE finish_line(ts)
     /\ tokens' = << >> /\ error_mode' = FALSE
     /\ NextLine /\ UNCHANGED inError

\* A line that is bad: its tokens up to there stay, and the next line adds to them.  If
\* the scanner begins inside of it, the whole line is passed over.
BadLine ==
  /\ Running
  /\ source[lineno].end = "bad" \/ (inError /\ source[lineno].end = "line")
  /\ hit_error' = TRUE /\ error_mode' = TRUE /\ inError' = FALSE
  /\ tokens' = IF inError THEN tokens ELSE tokens \o source[lineno].tokens
  /\ UNCHANGED <<bytepos, symbol_table, code, yo>>
  /\ NextLine

\* The file ends in a bad line: the rest is neither a line nor an error, and the scanner
\* stays inside.
CutLine ==
  /\ Running /\ source[lineno].end = "cut"
  /\ tokens' = IF inError THEN tokens ELSE tokens \o source[lineno].tokens
  /\ error_mode' = (error_mode /\ (tokens # << >> \/ source[lineno].tokens = << >>))
  /\ inError' = TRUE
  /\ UNCHANGED <<bytepos, symbol_table>> /\ Quiet
  /\ NextLine

EndPass ==
  /\ exitCode = -1 /\ lineno > Len(source)
  /\ IF pass = 1 /\ ~hit_error
     THEN /\ pass' = 2 /\ lineno' = 1 /\ bytepos' = 0 /\ error_mode' = FALSE
          /\ UNCHANGED exitCode
     ELSE /\ exitCode' = IF hit_error THEN 1 ELSE 0
          /\ UNCHANGED <<pass, lineno, bytepos, error_mode>>
  /\ UNCHANGED <<source, answer, tokens, inError, hit_error, symbol_table, code, yo>>
  /\ UNCHANGED simulator

-----------------------------------------------------------------------------

LoadCode == exitCode = 0 /\ Isa!load_mem(yo) /\ UNCHANGED yasVars
Simulate == Isa!Simulate /\ UNCHANGED yasVars

Start(file) ==
  /\ source = file.lines /\ answer = file.answer
  /\ pass = 1 /\ lineno = 1 /\ bytepos = 0
  /\ tokens = << >> /\ inError = FALSE /\ error_mode = FALSE /\ hit_error = FALSE
  /\ symbol_table = << >> /\ code = [k \in 0 .. 9 |-> 0] /\ yo = << >> /\ exitCode = -1
  /\ Isa!new_state

Init == \E file \in Source : Start(file)

Next == FinishLine \/ BadLine \/ CutLine \/ EndPass \/ LoadCode \/ Simulate

-----------------------------------------------------------------------------
(* Properties *)

\* The statement of a line, its label put aside
Body(k) == LET ts == source[k].tokens IN IF Token(ts, 1)[1] = "ident" THEN SubSeq(ts, 3, Len(ts)) ELSE ts
IsDirective(k) == Token(Body(k), 1) \in {<<"instr", ".pos">>, <<"instr", ".align">>}
Statements == {k \in DOMAIN source : Token(Body(k), 1)[1] = "instr" /\ ~IsDirective(k)}
StatementSeq == SelectSeq([k \in DOMAIN source |-> k], LAMBDA k : k \in Statements)

\* What the arguments of an instruction look like, by their kind
Forms(arg) ==
  CASE arg[1] = "R_ARG" -> {<<"reg">>}
    [] arg[1] = "I_ARG" -> {<<"num">>, <<"ident">>}
    [] arg[1] = "M_ARG" -> {d \o b : d \in {<< >>, <<"num">>, <<"ident">>}, b \in {<< >>, <<"(", "reg", ")">>}}
Shapes(args) ==
  IF args = << >> THEN {<< >>}
  ELSE IF Len(args) = 1 THEN Forms(args[1])
  ELSE {f \o <<",">> \o g : f \in Forms(args[1]), g \in Forms(args[2])}
Kinds(ts) == [k \in DOMAIN ts |-> IF ts[k][1] = "punct" THEN ts[k][2] ELSE ts[k][1]]
Labels == {source[k].tokens[1][2] : k \in {j \in DOMAIN source : Token(source[j].tokens, 1)[1] = "ident"}}

\* The operands at the start of ts: the longest of these shapes that it begins with.
\* Another parenthesis does not follow a memory reference without one.
Fits(args, ts) == {SubSeq(ts, 1, Len(f)) : f \in {g \in Shapes(args) : IsPrefix(g, Kinds(ts))}}
Operands(args, ts) == CHOOSE f \in Fits(args, ts) : \A g \in Fits(args, ts) : Len(g) <= Len(f)
OperandsRight(args, ts) ==
  LET used == Operands(args, ts) IN
  /\ Fits(args, ts) # {}
  /\ \A k \in DOMAIN used : used[k][1] = "ident" => used[k][2] \in Labels
  /\ args # << >> /\ Last(args) = Mem /\ Punct("(") \notin ToSet(used)
       => Token(ts, Len(used) + 1) # Punct("(")

\* A line of the language.  What stands behind its last operand is not looked at.
WellFormed(k) ==
  LET ts == source[k].tokens
      body == Body(k)
  IN /\ source[k].end = "line"
     /\ Token(ts, 1)[1] = "ident" => Token(ts, 2) = Punct(":")
     /\ \/ body = << >>
        \/ /\ IsDirective(k) /\ Token(body, 2)[1] = "num"
           /\ body[1][2] = ".align" => body[2][2] > 0
        \/ k \in Statements /\ OperandsRight(find_instr(body[1][2]).args, Tail(body))

\* The assembler accepts the files whose lines are all of the language, and one that ends
\* in its first line.
AcceptsRight ==
  exitCode # -1 =>
    (exitCode = 0 <=> (\A k \in DOMAIN source : WellFormed(k)) \/ (Len(source) = 1 /\ inError))

\* Where the bytes of the k-th line with code are: behind those of the one before, unless
\* a directive stands between, and then where the last of them says.
PlacedRight ==
  exitCode = 0 /\ ~inError =>
    /\ Len(yo) = Cardinality(Statements)
    /\ \A k \in DOMAIN yo :
         LET before == IF k = 1 THEN 0 ELSE StatementSeq[k - 1]
             between == {d \in before + 1 .. StatementSeq[k] - 1 : IsDirective(d)}
             end == IF k = 1 THEN 0 ELSE yo[k - 1][1] + Len(yo[k - 1][2])
             last == Body(CHOOSE d \in between : \A b \in between : b <= d)
         IN CASE between = {} -> yo[k][1] = end
              [] between # {} /\ last[1][2] = ".pos" -> yo[k][1] = last[2][2]
              [] OTHER ->
                   /\ yo[k][1] % last[2][2] = 0
                   /\ Cardinality(between) = 1 => yo[k][1] \in end .. end + last[2][2] - 1

\* The number that a token stands for; a label stands for the line of its first definition,
\* and that for the next line with code, if no directive moves that one.
Definition(name) ==
  CHOOSE k \in DOMAIN source :
    /\ Token(source[k].tokens, 1) = <<"ident", name>>
    /\ \A j \in DOMAIN source : Token(source[j].tokens, 1) = <<"ident", name>> => k <= j
Means(t, n) ==
  IF t[1] = "num" THEN n = Isa!Wrap(t[2])
  ELSE LET behind == {k \in DOMAIN yo : StatementSeq[k] >= Definition(t[2])}
           next == CHOOSE k \in behind : \A j \in behind : k <= j
       IN behind # {} /\ (\A d \in Definition(t[2]) .. StatementSeq[next] : ~IsDirective(d))
            => n = yo[next][1]

\* The simulator finds at the place of an instruction just what its line says.
CodeRight ==
  exitCode = 0 /\ ~inError =>
    \A k \in DOMAIN yo :
      LET body == Body(StatementSeq[k])
          instr == find_instr(body[1][2])
          memory == [a \in 0 .. MEM_SIZE - 1 |->
                       IF a \in DOMAIN yo[k][2] THEN yo[k][2][a] ELSE 0]
          i == Isa!Fetch(memory, 1)
          Tok(type) == SelectSeq(Operands(instr.args, Tail(body)), LAMBDA t : t[1] \in type)
          regs == Tok({"reg"})
          nums == Tok({"num", "ident"})
      IN IF instr.code = 0 /\ instr.args # << >>
         THEN Len(yo[k][2]) = WORD => Means(nums[1], Isa!WordFrom(memory, 1))
         ELSE /\ 16 * i.hi0 + i.lo0 = instr.code
              /\ i.ftpc = 1 + Len(yo[k][2])
              /\ nums # << >> => Means(nums[1], i.cval)
              /\ instr.args = <<High, Low>> => i.hi1 = regs[1][2] /\ i.lo1 = regs[2][2]
              /\ Low \in ToSet(instr.args) => i.lo1 = regs[Len(regs)][2]
              /\ instr.args = <<High>> => i.hi1 = regs[1][2] /\ i.lo1 = Isa!REG_NONE
              /\ body[1][2] = "rmmovq" => i.hi1 = regs[1][2]
              /\ body[1][2] = "mrmovq" => i.hi1 = regs[Len(regs)][2]
              /\ Mem \in ToSet(instr.args) =>
                   i.lo1 = IF Len(regs) = 1 THEN Isa!REG_NONE
                           ELSE regs[IF body[1][2] = "rmmovq" THEN 2 ELSE 1][2]

\* A program ends as it is to end, with its answer in register 0.
AnswerRight == e \notin {"new", "AOK"} => <<e, r[0]>> = answer

AssemblerRight ==
  /\ AcceptsRight /\ PlacedRight /\ CodeRight /\ AnswerRight
  /\ Isa!HalfAssumption /\ Isa!ComparesRight /\ Isa!ChangesListed
=============================================================================
