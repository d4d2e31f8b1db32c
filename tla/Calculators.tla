---------------------------- MODULE Calculators ----------------------------
(***************************************************************************)
(* The calculators of lab_3 and lab_5 of data-structures, and the converter*)
(* of lab_4, with a next-state relation of its own.                        *)
(***************************************************************************)
EXTENDS Integers, Sequences, SequencesExt, TLC

(***************************************************************************)
(* The two postfix calculators of data-structures, given the same line:    *)
(* the stack machine of lab_3 and the expression trees of lab_5.  The      *)
(* stack machine computes as it reads and leaves with an error when an     *)
(* operand is missing; the other builds trees, prints the last one in      *)
(* three orders and computes at the end.                                   *)
(*                                                                         *)
(* A line gives TreeCalc an operator only after two operands: popping      *)
(* std::stack when it is empty is undefined.  Numbers are small, so that   *)
(* no int overflows.                                                       *)
(***************************************************************************)

CONSTANTS
  Number,      \* the words for some of the numbers 0 .. 9
  MaxTokens    \* on a line

VARIABLES
  stack,             \* the linked stack of lab_3, its top first
  machine,           \* "running", "stack empty" (exit -1) or "divided by zero"
  expressionStack,   \* of trees, its top first
  treeCalc,          \* "reading", "done" or "divided by zero"
  result,            \* what TreeCalc printed at the end
  tokens             \* read so far

\* What stoi makes of a word
stoi(word) == CHOOSE n \in 0 .. 9 : ToString(n) = word

Operator == {"+", "-", "*", "/"}

\* Division in C truncates towards 0.
Magnitude(n) == IF n < 0 THEN -n ELSE n
Quotient(a, b) == IF (a < 0) = (b < 0) THEN Magnitude(a) \div Magnitude(b)
                  ELSE -(Magnitude(a) \div Magnitude(b))

compute(op, first, second) ==
  CASE op = "+" -> first + second
    [] op = "-" -> first - second
    [] op = "*" -> first * second
    [] op = "/" -> Quotient(first, second)

-----------------------------------------------------------------------------
(* lab_3: PostfixCalculator *)

Machine(s, m) == stack' = s /\ machine' = m

\* What handleInput pops is gone also when it then fails.
MachineOperator(op) ==
  CASE Len(stack) < 2 -> Machine(<< >>, "stack empty")
    [] Len(stack) >= 2 /\ op = "/" /\ stack[1] = 0 ->
         Machine(SubSeq(stack, 3, Len(stack)), "divided by zero")
    [] OTHER -> Machine(<<compute(op, stack[2], stack[1])>> \o SubSeq(stack, 3, Len(stack)), "running")

MachineNegation ==
  IF stack = << >> THEN Machine(<< >>, "stack empty")
  ELSE Machine([stack EXCEPT ![1] = -@], "running")

-----------------------------------------------------------------------------
(* lab_5: TreeCalc.  A tree is <<number>> or <<operator, left, right>>. *)

\* Mutant of insert: the operands come off the stack in the other order.
insertSwapped(token) ==
  IF token \in Operator
  THEN <<<<token, expressionStack[1], expressionStack[2]>>>>
         \o SubSeq(expressionStack, 3, Len(expressionStack))
  ELSE <<<<token>>>> \o expressionStack

insert(token) ==
  IF token \in Operator
  THEN <<<<token, expressionStack[2], expressionStack[1]>>>>
         \o SubSeq(expressionStack, 3, Len(expressionStack))
  ELSE <<<<token>>>> \o expressionStack

RECURSIVE printPrefix(_)
printPrefix(tree) == IF Len(tree) = 1 THEN tree
                     ELSE <<tree[1]>> \o printPrefix(tree[2]) \o printPrefix(tree[3])

RECURSIVE printInfix(_)
printInfix(tree) == IF Len(tree) = 1 THEN tree
                    ELSE <<"(">> \o printInfix(tree[2]) \o <<tree[1]>> \o printInfix(tree[3]) \o <<")">>

RECURSIVE printPostfix(_)
printPostfix(tree) == IF Len(tree) = 1 THEN tree
                      ELSE printPostfix(tree[2]) \o printPostfix(tree[3]) \o <<tree[1]>>

\* calculate, and whether it divides by zero on the way
RECURSIVE calculate(_)
calculate(tree) == IF Len(tree) = 1 THEN stoi(tree[1])
                   ELSE compute(tree[1], calculate(tree[2]), calculate(tree[3]))

RECURSIVE DividesByZero(_)
DividesByZero(tree) ==
  /\ Len(tree) > 1
  /\ \/ DividesByZero(tree[2]) \/ DividesByZero(tree[3])
     \/ tree[1] = "/" /\ calculate(tree[3]) = 0

-----------------------------------------------------------------------------

\* readInput and main of TreeCalcTest: the first word that is no number and no operator
\* ends the line, and the last tree is printed and computed.  With no tree, the program
\* prints that the size is 0 and leaves with -1.
Finish ==
  /\ treeCalc' = IF expressionStack # << >> /\ DividesByZero(expressionStack[1])
                 THEN "divided by zero" ELSE "done"
  /\ result' = IF expressionStack = << >> THEN << >>
               ELSE LET tree == expressionStack[1] IN
                    <<printPostfix(tree), printInfix(tree), printPrefix(tree)>>
                      \o (IF DividesByZero(tree) THEN << >> ELSE <<calculate(tree)>>)
  /\ UNCHANGED expressionStack

ReadNumber(n) ==
  /\ IF machine = "running" THEN Machine(<<stoi(n)>> \o stack, machine) ELSE UNCHANGED <<stack, machine>>
  /\ IF treeCalc = "reading" THEN expressionStack' = insert(n) ELSE UNCHANGED expressionStack
  /\ UNCHANGED <<treeCalc, result>>

ReadOperator(op) ==
  /\ treeCalc = "reading" => Len(expressionStack) >= 2
  /\ IF machine = "running" THEN MachineOperator(op) ELSE UNCHANGED <<stack, machine>>
  /\ IF treeCalc = "reading" THEN expressionStack' = insert(op) ELSE UNCHANGED expressionStack
  /\ UNCHANGED <<treeCalc, result>>

\* "~" negates for the one, and is the end of the line for the other.
ReadNegation ==
  /\ IF machine = "running" THEN MachineNegation ELSE UNCHANGED <<stack, machine>>
  /\ IF treeCalc = "reading" THEN Finish ELSE UNCHANGED <<expressionStack, treeCalc, result>>

Init == /\ stack = << >> /\ machine = "running"
        /\ expressionStack = << >> /\ treeCalc = "reading" /\ result = << >>
        /\ tokens = << >>

Next ==
  /\ Len(tokens) < MaxTokens
  /\ \/ \E n \in Number : ReadNumber(n) /\ tokens' = Append(tokens, n)
     \/ \E op \in Operator : ReadOperator(op) /\ tokens' = Append(tokens, op)
     \/ ReadNegation /\ tokens' = Append(tokens, "~")

-----------------------------------------------------------------------------
(* Properties *)

\* The tokens of a postfix expression, one by one
RECURSIVE Postfix(_, _)
Postfix(ts, s) ==
  IF ts = << >> THEN s[1]
  ELSE Postfix(Tail(ts),
         IF Head(ts) \in Operator
         THEN <<compute(Head(ts), s[2], s[1])>> \o SubSeq(s, 3, Len(s))
         ELSE <<stoi(Head(ts))>> \o s)

\* A prefix expression is a postfix expression read from its end, the operands swapped.
RECURSIVE Prefix(_, _)
Prefix(ts, s) ==
  IF ts = << >> THEN s[1]
  ELSE Prefix(Front(ts),
         IF Last(ts) \in Operator
         THEN <<compute(Last(ts), s[1], s[2])>> \o SubSeq(s, 3, Len(s))
         ELSE <<stoi(Last(ts))>> \o s)

\* The value of the infix expression that starts at i, and where it ends
RECURSIVE Infix(_, _)
Infix(ts, i) ==
  IF ts[i] # "(" THEN <<stoi(ts[i]), i>>
  ELSE LET left == Infix(ts, i + 1)
           right == Infix(ts, left[2] + 2)
       IN <<compute(ts[left[2] + 1], left[1], right[1]), right[2] + 1>>

\* As long as both run, each tree stands for the number on the stack machine.
CalculatorsAgree ==
  machine = "running" /\ treeCalc = "reading"
    => stack = [i \in DOMAIN expressionStack |-> calculate(expressionStack[i])]

\* The three printed forms have the value that is printed after them, and the postfix form
\* is the end of what was typed.
PrintedFormsAgree ==
  Len(result) = 4 =>
    /\ Postfix(result[1], << >>) = result[4]
    /\ Infix(result[2], 1) = <<result[4], Len(result[2])>>
    /\ Prefix(result[3], << >>) = result[4]
    /\ IsSuffix(result[1], SubSeq(tokens, 1, SelectInSeq(tokens, LAMBDA t : t = "~") - 1))

-----------------------------------------------------------------------------
(***************************************************************************)
(* data-structures/lab_4/bitCounter.cpp: a number is read in one base and  *)
(* printed in another, a digit in each step.  The number of digits comes   *)
(* from a quotient of logarithms, which at a power of the base may come    *)
(* out just below what it should be.  Zero, which has no logarithm, is     *)
(* left out.  A digit stands for its place in the table 0-9A-Z.            *)
(***************************************************************************)

CONSTANTS
  Digit,       \* that may be typed
  MaxDigits,
  Base         \* from and to which it is converted: up to 36

VARIABLES
  toConvert, fromBase, toBase,
  asDecimal,         \* what is left of the number
  power,             \* of toBase, for the next digit; -1 at the end
  convertedNumber

convertFromXBaseToDecimal(digits, base) ==
  FoldLeft(LAMBDA n, d : n * base + d, 0, digits)

\* numOnes of a number that is not negative
RECURSIVE numOnes(_)
numOnes(n) == IF n = 0 THEN 0 ELSE numOnes(n \div 2) + (n % 2)

\* (int) (log(n) / log(base)), which may fall short of the exponent of a power
Exponents(n, base) ==
  LET e == CHOOSE k \in 0 .. n : base ^ k <= n /\ n < base ^ (k + 1)
  IN IF e > 1 /\ base ^ e = n THEN {e, e - 1} ELSE {e}

ConverterStart(digits, from, to) ==
  /\ toConvert = digits /\ fromBase = from /\ toBase = to
  /\ asDecimal = convertFromXBaseToDecimal(digits, from)
  /\ power \in Exponents(asDecimal, to)
  /\ convertedNumber = << >>

\* Mutant of NextDigit: the remainder is kept for the last digit only.
NextDigitKept ==
  /\ power >= 0
  /\ convertedNumber' = Append(convertedNumber, asDecimal \div toBase ^ power)
  /\ asDecimal' = IF power = 1 THEN asDecimal % toBase ELSE asDecimal
  /\ power' = power - 1
  /\ UNCHANGED <<toConvert, fromBase, toBase>>

NextDigit ==
  /\ power >= 0
  /\ convertedNumber' = Append(convertedNumber, asDecimal \div toBase ^ power)
  /\ asDecimal' = asDecimal - (asDecimal \div toBase ^ power) * toBase ^ power
  /\ power' = power - 1
  /\ UNCHANGED <<toConvert, fromBase, toBase>>

ConverterInit == \E digits \in BoundedSeq(Digit, MaxDigits), from, to \in Base :
          /\ \A i \in DOMAIN digits : digits[i] < from
          /\ convertFromXBaseToDecimal(digits, from) > 0
          /\ ConverterStart(digits, from, to)

ConverterNext == NextDigit

-----------------------------------------------------------------------------
(* Properties *)

\* What is printed has the value of what was typed, and every digit is one of the base but
\* for the first of a power, which may be the base itself; in base 2 the number of ones is
\* then the one that numOnes counts.
ConversionRight ==
  power = -1 =>
    LET number == convertFromXBaseToDecimal(toConvert, fromBase) IN
    /\ convertFromXBaseToDecimal(convertedNumber, toBase) = number
    /\ asDecimal = 0
    /\ \A i \in DOMAIN convertedNumber : convertedNumber[i] < toBase \/ (i = 1 /\ convertedNumber[1] = toBase)
    /\ toBase = 2 /\ convertedNumber[1] # 2
         => numOnes(number) = Len(SelectSeq(convertedNumber, LAMBDA d : d = 1))
=============================================================================
