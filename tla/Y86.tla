-------------------------------- MODULE Y86 --------------------------------
(***************************************************************************)
(* The simulator of the Y86-64 instruction set: isa.c and yis.c of         *)
(* computer-architecture/Yas/hclrs/tools, with words of WORD bytes where   *)
(* the code has 8.  A word is a signed number; memory holds bytes.         *)
(***************************************************************************)
EXTENDS Integers, Sequences

CONSTANTS
  WORD,        \* bytes of a word
  MEM_SIZE,
  max_steps

VARIABLES
  pc, r, m, cc,
  e,           \* status of the last step, or of the simulator
  step,
  savem        \* memory as it was loaded


-----------------------------------------------------------------------------
(* Words and bytes *)

Modulus == 256 ^ WORD
Half == Modulus \div 2

\* There are as many negative words as others.
HalfAssumption == Half \in Nat /\ Half > 0 /\ Modulus = 2 * Half

Word == -Half .. Half - 1

\* The word that is left of a sum or a difference of two words
Wrap(v) == IF v >= Half THEN v - Modulus ELSE IF v < -Half THEN v + Modulus ELSE v

HI4(byte) == byte \div 16
LO4(byte) == byte % 16

\* The i-th byte of a word, from the least, and the word of these bytes
ByteOf(v, i) == (v \div 256 ^ i) % 256
WordFrom(bytes, at) ==
  LET sum[i \in 0 .. WORD] == IF i = 0 THEN 0 ELSE sum[i - 1] + bytes[at + i - 1] * 256 ^ (i - 1)
  IN Wrap(sum[WORD])

\* A word at pos is refused.  The sum wraps: at the highest positions none is refused, and
\* the access ends the simulator.
Refused(pos) == pos < 0 \/ Wrap(pos + WORD) > MEM_SIZE
Crashes(pos) == ~Refused(pos) /\ pos + WORD > MEM_SIZE
set_word_val(mem, pos, val) ==
  [a \in DOMAIN mem |-> IF a \in pos .. pos + WORD - 1 THEN ByteOf(val, a - pos) ELSE mem[a]]

-----------------------------------------------------------------------------
(* Registers *)

REG_RSP == 4
REG_NONE == 15
reg_valid(id) == id \in 0 .. REG_NONE - 1
get_reg_val(reg, id) == IF reg_valid(id) THEN reg[id] ELSE 0
set_reg_val(reg, id, val) == IF reg_valid(id) THEN [reg EXCEPT ![id] = val] ELSE reg

-----------------------------------------------------------------------------
(* Arithmetic and conditions *)

And[a \in Nat, b \in Nat] ==
  IF a = 0 \/ b = 0 THEN 0
  ELSE 2 * And[a \div 2, b \div 2] + (IF a % 2 = 1 /\ b % 2 = 1 THEN 1 ELSE 0)
BitAnd(a, b) == Wrap(And[a % Modulus, b % Modulus])
BitXor(a, b) == a + b - 2 * BitAnd(a, b)

A_ADD == 0
A_SUB == 1
A_AND == 2
A_XOR == 3

compute_alu(op, argA, argB) ==
  CASE op = A_ADD -> Wrap(argA + argB)
    [] op = A_SUB -> Wrap(argB - argA)
    [] op = A_AND -> BitAnd(argA, argB)
    [] op = A_XOR -> BitXor(argA, argB)
    [] OTHER -> 0

\* Mutant of compute_cc: the sign of the subtrahend as in the addition, turned round.
compute_ccZero(op, argA, argB) ==
  LET val == compute_alu(op, argA, argB)
  IN [zf |-> val = 0,
      sf |-> val < 0,
      of |-> \/ op = A_ADD /\ ((argA < 0) = (argB < 0)) /\ ((val < 0) # (argA < 0))
             \/ op = A_SUB /\ ((argA >= 0) = (argB < 0)) /\ ((val < 0) # (argA < 0))]

compute_cc(op, argA, argB) ==
  LET val == compute_alu(op, argA, argB)
  IN [zf |-> val = 0,
      sf |-> val < 0,
      of |-> \/ op = A_ADD /\ ((argA < 0) = (argB < 0)) /\ ((val < 0) # (argA < 0))
             \/ op = A_SUB /\ ((argA > 0) = (argB < 0)) /\ ((val < 0) # (argB < 0))]

DEFAULT_CC == [zf |-> TRUE, sf |-> FALSE, of |-> FALSE]

C_YES == 0
C_LE == 1
C_L == 2
C_E == 3
C_NE == 4
C_GE == 5
C_G == 6

cond_holds(c, bcond) ==
  \/ bcond = C_YES
  \/ bcond = C_LE /\ ((c.sf # c.of) \/ c.zf)
  \/ bcond = C_L /\ (c.sf # c.of)
  \/ bcond = C_E /\ c.zf
  \/ bcond = C_NE /\ ~c.zf
  \/ bcond = C_GE /\ (c.sf = c.of)
  \/ bcond = C_G /\ (c.sf = c.of) /\ ~c.zf

-----------------------------------------------------------------------------
(* Instructions *)

I_HALT == 0
I_NOP == 1
I_RRMOVQ == 2
I_IRMOVQ == 3
I_RMMOVQ == 4
I_MRMOVQ == 5
I_ALU == 6
I_JMP == 7
I_CALL == 8
I_RET == 9
I_PUSHQ == 10
I_POPQ == 11
I_IADDQ == 12

NeedRegids == {I_RRMOVQ, I_ALU, I_PUSHQ, I_POPQ, I_IRMOVQ, I_RMMOVQ, I_MRMOVQ, I_IADDQ}
NeedImm == {I_IRMOVQ, I_RMMOVQ, I_MRMOVQ, I_JMP, I_CALL, I_IADDQ}

\* The instruction at p and the address behind it.  A byte that is outside counts as 0.
Fetch(mem, p) ==
  LET byte0 == mem[p]
      hi0 == HI4(byte0)
      regs == IF hi0 \in NeedRegids THEN 1 ELSE 0
      imm == p + 1 + regs
      ok1 == regs = 1 => p + 1 < MEM_SIZE
      okc == hi0 \in NeedImm => ~Refused(imm)
      byte1 == IF regs = 1 /\ ok1 THEN mem[p + 1] ELSE 0
  IN [hi0 |-> hi0, lo0 |-> LO4(byte0), ok1 |-> ok1, okc |-> okc,
      hi1 |-> IF regs = 1 THEN HI4(byte1) ELSE REG_NONE,
      lo1 |-> IF regs = 1 THEN LO4(byte1) ELSE REG_NONE,
      cval |-> IF hi0 \in NeedImm /\ okc THEN WordFrom(mem, imm) ELSE 0,
      ftpc |-> imm + (IF hi0 \in NeedImm THEN WORD ELSE 0)]

\* The registers that are checked, and the status of what cannot be run
Checked(i) ==
  CASE i.hi0 = I_RRMOVQ -> {i.hi1, i.lo1}
    [] i.hi0 \in {I_IRMOVQ, I_IADDQ} -> {i.lo1}
    [] i.hi0 \in {I_RMMOVQ, I_MRMOVQ, I_PUSHQ, I_POPQ} -> {i.hi1}
    [] OTHER -> {}
Trouble(i) ==
  CASE ~i.ok1 -> "ADR"
    [] i.ok1 /\ ~i.okc -> IF i.hi0 \in {I_JMP, I_CALL} THEN "ADR" ELSE "INS"
    [] i.ok1 /\ i.okc /\ \E reg \in Checked(i) : ~reg_valid(reg) -> "INS"
    [] OTHER -> "AOK"

\* The step ends with this status; registers change before memory is asked for.
Stop(status, regs) == e' = status /\ r' = regs /\ UNCHANGED <<pc, m, cc>>
Go(to, regs, mem, c) == e' = "AOK" /\ pc' = to /\ r' = regs /\ m' = mem /\ cc' = c

\* Whether a word may be read or written at pos; if so, the step goes on.
At(pos, regs, goes) ==
  IF Crashes(pos) THEN Stop("crash", regs) ELSE IF Refused(pos) THEN Stop("ADR", regs) ELSE goes

Set(id, val) == set_reg_val(r, id, val)
Get(id) == get_reg_val(r, id)
rsp == r[REG_RSP]

halt(i) == i.hi0 = I_HALT /\ Stop("HLT", r)
nop(i) == i.hi0 = I_NOP /\ Go(i.ftpc, r, m, cc)
rrmovq(i) ==
  /\ i.hi0 = I_RRMOVQ
  /\ Go(i.ftpc, IF cond_holds(cc, i.lo0) THEN Set(i.lo1, Get(i.hi1)) ELSE r, m, cc)
irmovq(i) == i.hi0 = I_IRMOVQ /\ Go(i.ftpc, Set(i.lo1, i.cval), m, cc)
Address(i) == Wrap(i.cval + Get(i.lo1))
rmmovq(i) ==
  /\ i.hi0 = I_RMMOVQ
  /\ At(Address(i), r, Go(i.ftpc, r, set_word_val(m, Address(i), Get(i.hi1)), cc))
mrmovq(i) ==
  /\ i.hi0 = I_MRMOVQ
  /\ At(Address(i), r, Go(i.ftpc, Set(i.hi1, WordFrom(m, Address(i))), m, cc))
OPq(i) ==
  LET argA == Get(i.hi1)
      argB == Get(i.lo1)
  IN /\ i.hi0 = I_ALU
     /\ Go(i.ftpc, Set(i.lo1, compute_alu(i.lo0, argA, argB)), m, compute_cc(i.lo0, argA, argB))
jXX(i) == i.hi0 = I_JMP /\ Go(IF cond_holds(cc, i.lo0) THEN i.cval ELSE i.ftpc, r, m, cc)
call(i) ==
  LET top == Wrap(rsp - WORD)
  IN /\ i.hi0 = I_CALL
     /\ At(top, Set(REG_RSP, top), Go(i.cval, Set(REG_RSP, top), set_word_val(m, top, i.ftpc), cc))
ret(i) ==
  /\ i.hi0 = I_RET
  /\ At(rsp, r, Go(WordFrom(m, rsp), Set(REG_RSP, Wrap(rsp + WORD)), m, cc))
pushq(i) ==
  LET top == Wrap(rsp - WORD)
  IN /\ i.hi0 = I_PUSHQ
     /\ At(top, Set(REG_RSP, top), Go(i.ftpc, Set(REG_RSP, top), set_word_val(m, top, Get(i.hi1)), cc))
popq(i) ==
  LET up == Set(REG_RSP, Wrap(rsp + WORD))
  IN /\ i.hi0 = I_POPQ
     /\ At(rsp, up, Go(i.ftpc, set_reg_val(up, i.hi1, WordFrom(m, rsp)), m, cc))
iaddq(i) ==
  LET argB == Get(i.lo1)
  IN /\ i.hi0 = I_IADDQ
     /\ Go(i.ftpc, Set(i.lo1, Wrap(argB + i.cval)), m, compute_cc(A_ADD, i.cval, argB))

Execute(i) ==
  \/ halt(i) \/ nop(i) \/ rrmovq(i) \/ irmovq(i) \/ rmmovq(i) \/ mrmovq(i) \/ OPq(i)
  \/ jXX(i) \/ call(i) \/ ret(i) \/ pushq(i) \/ popq(i) \/ iaddq(i)
  \/ i.hi0 > I_IADDQ /\ Stop("INS", r)

step_state ==
  IF pc \notin 0 .. MEM_SIZE - 1 THEN Stop("ADR", r)
  ELSE LET i == Fetch(m, pc)
       IN IF Trouble(i) = "AOK" THEN Execute(i) ELSE Stop(Trouble(i), r)

-----------------------------------------------------------------------------
(* yis *)

\* The lines of a .yo file, <<address, bytes>>, one behind the other: the bytes of a line
\* up to the first that has no place.
NoMemory == [a \in 0 .. MEM_SIZE - 1 |-> 0]
Fits(lines) == \A k \in DOMAIN lines : lines[k][1] + Len(lines[k][2]) <= MEM_SIZE
Covers(line, a) == a \in line[1] .. line[1] + Len(line[2]) - 1
Loaded(lines) ==
  [a \in 0 .. MEM_SIZE - 1 |->
     LET by == {k \in DOMAIN lines : Covers(lines[k], a)}
         last == CHOOSE k \in by : \A j \in by : j <= k
     IN IF by = {} THEN 0 ELSE lines[last][2][a - lines[last][1] + 1]]

\* No byte at all counts as a failure too.
load_mem(lines) ==
  /\ e = "new"
  /\ IF Fits(lines) /\ \E k \in DOMAIN lines : lines[k][2] # << >>
     THEN e' = "AOK" /\ m' = Loaded(lines) /\ savem' = m'
     ELSE e' = "Exiting" /\ UNCHANGED <<m, savem>>
  /\ UNCHANGED <<pc, r, cc, step>>

Simulate ==
  /\ e = "AOK" /\ step < max_steps
  /\ step' = step + 1
  /\ step_state
  /\ UNCHANGED savem

new_state ==
  /\ pc = 0 /\ cc = DEFAULT_CC /\ step = 0 /\ e = "new"
  /\ r = [id \in 0 .. REG_NONE - 1 |-> 0]
  /\ m = NoMemory /\ savem = NoMemory

\* The words that yis lists as changed
diff_mem(old, new) ==
  {pos \in 0 .. MEM_SIZE - WORD :
     pos % WORD = 0 /\ WordFrom(old, pos) # WordFrom(new, pos)}

-----------------------------------------------------------------------------
(* Properties *)

\* After the comparison of b with a by subq each condition holds just when it does for the
\* numbers themselves, whatever overflows; and after a sum, less and greater do for the sum.
ConditionsRight(a, b) ==
  LET Sub(c) == cond_holds(compute_cc(A_SUB, a, b), c)
      Sum(c) == cond_holds(compute_cc(A_ADD, a, b), c)
  IN /\ Sub(C_L) <=> b < a
     /\ Sub(C_LE) <=> b <= a
     /\ Sub(C_G) <=> b > a
     /\ Sub(C_GE) <=> b >= a
     /\ Sub(C_E) <=> b = a
     /\ Sub(C_NE) <=> b # a
     /\ Sum(C_L) <=> a + b < 0
     /\ Sum(C_GE) <=> a + b >= 0

\* So it is for the registers of the instruction that comes next.
ComparesRight ==
  e = "AOK" /\ pc \in DOMAIN m =>
    LET i == Fetch(m, pc)
    IN i.hi0 = I_ALU /\ i.ok1 => ConditionsRight(get_reg_val(r, i.hi1), get_reg_val(r, i.lo1))

\* What yis lists as changed is all that has changed.
ChangesListed ==
  e \notin {"new", "Exiting"} =>
    \A a \in 0 .. MEM_SIZE - 1 :
      m[a] # savem[a] => \E pos \in diff_mem(savem, m) : a \in pos .. pos + WORD - 1
=============================================================================
