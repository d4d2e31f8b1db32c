---------------------------- MODULE MCPrograms -----------------------------
(***************************************************************************)
(* The programs that run alone, each on the small inputs that are given    *)
(* here: which of them runs is chosen at the start, and the state of the   *)
(* others stays what it is.                                                *)
(***************************************************************************)
EXTENDS Integers, Sequences

VARIABLES
  program,
  heap, list, itr,
  item, linkedList, reading,
  stack, machine, expressionStack, treeCalc, result, tokens,
  bst, bstNodes, avl, avlNodes,
  size, table, hashFunction1, hashFunction2, lines,
  grid, rows, cols, dictionary, found, place,
  text, toInsert, array, huffCodeLookup, encoding,
  edges, verticies, numInEdges, q, order, sorting,
  distances, start, dests, shortestPath, shortDistance, traveling,
  initState, queue, stateToDist, answer,
  toConvert, fromBase, toBase, asDecimal, power, convertedNumber,
  header, freep, brk, used,
  line, proc, failures,
  input, task, reports, faults,
  source, expected, pass, lineno, bytepos, kept, inError, error_mode, hit_error,
  symbol_table, code, yo, exitCode, pc, r, m, cc, e, step, savem,
  buf, lru, idequeue, device, platter, client, calls, latest, damaged,
  shift, held, key, confused, inbuf, reader, crt, pos, serial, disturbed, events,
  tool, given, status, unread, linebuf, out, counts, forgot,
  test, tables, process, complaint,
  taskStatus, waiting, group, todo, arrived, barrier_check_count, counter, taskResult, checkFailed,
  sender, check_period_timer, rx_timer, sleep_timer, listening, packet, notice, trains, lost, got,
  dut, millis, wrapped, since, to_dut, to_inspector, inspector, prg_pressed_counter, btn_flag,
  data, shown, presses, merged, missed,
  monitor, at, full, currentItem, sent, received, busy, tenOrLess, numItems, overtaken, spurious

-----------------------------------------------------------------------------
(* Inputs *)

Shapes == {<<3, 3>>, <<1, 4>>, <<4, 1>>}
Dictionaries == {{<<"a", "b", "a">>, <<"a", "a", "b">>},
                 {<<"a", "b", "a", "b">>, <<"a", "b", "a">>},
                 {<<"a", "a", "a">>}}

\* Cities along a road, and cities at distances in no order
Cities == 1 .. 5
Mile == <<0, 3, 4, 9, 11>>
Road == [c \in Cities \X Cities |->
           IF c[1] < c[2] THEN Mile[c[2]] - Mile[c[1]] ELSE Mile[c[1]] - Mile[c[2]]]
Plain == [c \in Cities \X Cities |-> IF c[1] = c[2] THEN 0 ELSE 5 + ((c[1] * c[2]) % 4)]

\* Two boards that can be brought into order, one move and many away, and two that cannot
Board(s) == [i \in 0 .. 5 |-> s[i + 1]]
Boards == {Board(<<1, 2, 3, 0, 4, 5>>), Board(<<2, 1, 3, 4, 5, 0>>),
           Board(<<4, 5, 0, 1, 2, 3>>), Board(<<0, 1, 2, 3, 5, 4>>)}

\* Every line of three tokens, and some with several pipes, lists and redirections
Token == {"a", "|", "<", ">", "&", ";", "(", ")"}
Lines == UNION {[1 .. n -> Token] : n \in 0 .. 3} \cup
  {<<"a", "|", "a", "|", "a">>, <<"(", "a", ";", "a", ")", "|", "a">>,
   <<"a", ">", "a", "+", "a", "|", "a">>,
   <<"(", "a", "&", ";", "a", "<", "a", ")", "|", "a", "a", ";", "a">>}

\* Every line of three tokens, every pipeline of two short commands, and some files of lines
CmdToken == {"cat", "x", "<", ">", "|", "f"}
CmdFiles ==
  {<<l>> : l \in UNION {[1 .. n -> CmdToken] : n \in 0 .. 3}} \cup
  {<<a \o <<"|">> \o b>> : a, b \in {<<"cat">>, <<"two">>, <<"x">>, <<"cat", "<", "gone">>,
                                     <<">", "f", "cat", "x">>, <<"<", "f">>}} \cup
  {<<<<"cat", "|", "cat", "|", "cat">>, <<"x">>, <<"two">>>>,
   <<<<"cat", "|", "two", "|", "cat">>, <<"cat", "<", "gone">>, <<"exit">>, <<"cat">>>>,
   <<<<"cat", "||", "cat">>, <<"two", "|", "cat">>>>,
   <<<<"cat", "<", "f", "|", "x", ">", "g", "|", "two">>, <<"x", "<", "f">>, <<"cat">>>>,
   <<<<"cat", "|", "exit">>, <<"exit", "cat">>>>}

\* Assembler files.  Numbers and addresses have one byte.
Instr(n) == <<"instr", n>>
Num(n) == <<"num", n>>
Id(n) == <<"ident", n>>
Reg(n) == <<"reg", n>>
Sign(c) == <<"punct", c>>
Comma == Sign(",")
AsLine(ts) == [tokens |-> ts, end |-> "line"]
File(tss, a) == [lines |-> [k \in DOMAIN tss |-> AsLine(tss[k])], answer |-> a]
RegReg(name, a, b) == <<Instr(name), Reg(a), Comma, Reg(b)>>
NumReg(name, n, b) == <<Instr(name), Num(n), Comma, Reg(b)>>
Based(n) == <<Sign("("), Reg(n), Sign(")")>>

\* The greater of two numbers; 1 + .. + n by recursion; the sum of an array, with data
\* whose label is used again and a directive between; and what cannot be run.
Greater(a, b) ==
  File(<<NumReg("irmovq", a, 0), NumReg("irmovq", b, 1), RegReg("rrmovq", 0, 2), RegReg("subq", 1, 2),
         RegReg("cmovl", 1, 0), <<Instr("halt")>>>>, <<"HLT", IF a > b THEN a ELSE b>>)
Series(n) ==
  File(<<NumReg("irmovq", 60, 4), NumReg("irmovq", n, 7), <<Instr("call"), Id("sum")>>, <<Instr("halt")>>,
         <<Id("sum"), Sign(":")>>, RegReg("andq", 7, 7), <<Instr("je"), Id("zero")>>,
         <<Instr("pushq"), Reg(7)>>, NumReg("iaddq", -1, 7), <<Instr("call"), Id("sum")>>,
         <<Instr("popq"), Reg(6)>>, RegReg("addq", 6, 0), <<Instr("ret")>>,
         <<Id("zero"), Sign(":"), Instr("xorq"), Reg(0), Comma, Reg(0)>>, <<Instr("ret")>>>>,
       <<"HLT", (n * (n + 1)) \div 2>>)
ArraySum ==
  File(<<<<Instr("irmovq"), Id("array"), Comma, Reg(1)>>, NumReg("irmovq", 3, 2),
         <<Id("loop"), Sign(":"), Instr("mrmovq")>> \o Based(1) \o <<Comma, Reg(3)>>, RegReg("addq", 3, 0),
         NumReg("iaddq", 1, 1), NumReg("iaddq", -1, 2), <<Instr("jne"), Id("loop")>>,
         <<Instr("rmmovq"), Reg(0), Comma, Num(2)>> \o Based(1), <<Instr("mrmovq"), Num(37), Comma, Reg(0)>>,
         <<Instr("halt")>>, <<Instr(".align"), Num(16)>>, <<Id("array"), Sign(":")>>, <<Instr(".quad"), Num(5)>>,
         <<Id("loop"), Sign(":"), Instr(".byte"), Num(-7)>>, <<Instr(".pos"), Num(34)>>,
         <<Instr(".quad"), Id("loop")>>>>, <<"HLT", 4>>)
Troubles == {
  File(<<NumReg("irmovq", 100, 1), <<Instr("mrmovq")>> \o Based(1) \o <<Comma, Reg(0)>>>>, <<"ADR", 0>>),
  File(<<NumReg("irmovq", 127, 1), <<Instr("rmmovq"), Reg(1), Comma>> \o Based(1)>>, <<"crash", 0>>),
  File(<<<<Instr("pushq"), Reg(0)>>>>, <<"ADR", 0>>),
  File(<<<<Instr("popq"), Reg(0)>>, <<Instr("halt")>>>>, <<"HLT", -80>>),
  File(<<NumReg("irmovq", 1, 0), <<Instr(".byte"), Num(-16)>>>>, <<"INS", 1>>),
  File(<<<<Instr(".byte"), Num(32)>>, <<Instr(".byte"), Num(15)>>>>, <<"INS", 0>>),
  File(<<<<Instr("jmp"), Num(63)>>, <<Instr(".pos"), Num(63)>>, <<Instr(".byte"), Num(48)>>>>, <<"ADR", 0>>),
  File(<<<<Instr(".pos"), Num(63)>>, <<Instr("jmp"), Num(0)>>>>, <<"Exiting", 0>>),
  File(<< >>, <<"Exiting", 0>>),
  File(<<<<Id("a"), Sign(":"), Instr("jmp"), Id("a")>>>>, <<"AOK", 0>>)}

\* Every short line between two that are right, with and without a bad end, and files that
\* end in a bad line
Words == {Instr("nop"), Instr("jmp"), Instr(".pos"), Instr(".align"), Id("a"), Sign(":"), Num(0), Reg(3)}
Operand == {Reg(3), Comma, Sign("("), Sign(")"), Num(5), Id("a"), Id("b")}
Around(ts, end) ==
  [lines |-> <<AsLine(<<Id("a"), Sign(":"), Instr("halt")>>), [tokens |-> ts, end |-> end], AsLine(<<Instr("nop")>>)>>,
   answer |-> <<"HLT", 0>>]
Syntax ==
  {Around(ts, "line") : ts \in UNION {[1 .. n -> Words] : n \in 0 .. 3}} \cup
  {Around(<<Instr(n)>> \o ts, "line") : n \in {"rmmovq", "mrmovq"}, ts \in UNION {[1 .. k -> Operand] : k \in 0 .. 2}} \cup
  {Around(<<Instr("rmmovq"), Reg(1), Comma>> \o ts, "line") : ts \in UNION {[1 .. k -> Operand] : k \in 0 .. 3}} \cup
  {Around(<<Instr("mrmovq")>> \o ts \o <<Comma, Reg(1)>>, "line") : ts \in UNION {[1 .. k -> Operand] : k \in 0 .. 3}} \cup
  {Around(<<Instr("rmmovq"), Reg(1), Comma, d>> \o Based(2) \o ts, "line") : d \in {Num(5), Id("a"), Id("b")}, ts \in {<< >>, <<Reg(1)>>}} \cup
  {Around(ts, "bad") : ts \in UNION {[1 .. n -> Words] : n \in 0 .. 1}}
CutShort ==
  {[lines |-> before \o <<[tokens |-> ts, end |-> "cut"]>>, answer |-> <<"Exiting", 0>>] :
     before \in {<< >>, <<AsLine(<<Instr("nop")>>)>>,
                 <<AsLine(<<Instr("nop")>>), [tokens |-> << >>, end |-> "bad"], AsLine(<< >>)>>},
     ts \in {<< >>, <<Instr("nop")>>}}
AsmFiles ==
  {Greater(a, b) : a, b \in {-128, -127, -1, 0, 1, 127}} \cup {Series(n) : n \in 0 .. 3} \cup
  {ArraySum} \cup Troubles \cup Syntax \cup CutShort

\* Keys that are typed with the keys that shift them, some after E0
Keys == {<<30>>, <<2>>, <<28>>, <<42>>, <<54>>, <<29>>, <<"E0", 29>>, <<"E0", 56>>, <<58>>,
         <<"E0", 53>>, <<"E0", 72>>}

\* Strings of up to n of the characters of a set
Strings(S, n) == UNION {[1 .. k -> S] : k \in 0 .. n}

\* Tests of the thread pool: name, threads, count, with the barrier, in reverse
PoolTest(t) == [name |-> t[1], threads |-> t[2], count |-> t[3], barrier |-> t[4], reverse |-> t[5]]
PoolTestGroups ==
  {PoolTest(t) : t \in
     ({"in order"} \X {1, 2, 3} \X {2, 3} \X BOOLEAN \X BOOLEAN)
     \cup {<<"in order", 2, 4, TRUE, TRUE>>, <<"future", 2, 0, TRUE, FALSE>>, <<"future", 3, 0, TRUE, FALSE>>,
           <<"submit many", 2, 3, TRUE, FALSE>>, <<"submit many", 3, 2, TRUE, FALSE>>,
           <<"again", 1, 2, FALSE, FALSE>>, <<"again", 2, 3, FALSE, FALSE>>}}
PoolTasks == {"barrier", "inc", "wait", "empty", "submit", "incr", "first", "second"} \X (0 .. 3)

Lists == INSTANCE LinkedLists WITH Value <- {1, 2}, MaxLength <- 2, MaxNodes <- 8, MaxItems <- 4
Calc == INSTANCE Calculators WITH
          Number <- {"0", "2", "3"}, MaxTokens <- 5,
          Digit <- {0, 1, 2, 6}, MaxDigits <- 3, Base <- {2, 3, 7, 36}
Trees == INSTANCE SearchTrees WITH Word <- 1 .. 6
Hash == INSTANCE HashTable WITH
          Word <- {"a", "b", "c"}, Size <- {1, 2},
          Letter <- {"a", "b"}, Shape <- Shapes, MinLength <- 3, MaxLength <- 4
Codes == INSTANCE Huffman WITH Symbol <- {"a", "b", "c", "d"}, MaxText <- 5
Graph == INSTANCE GraphLabs WITH
           Class <- 1 .. 3, MaxEdges <- 4, City <- Cities, Distance <- {Road, Plain},
           Rows <- 2, Puzzle <- Boards
Sh == INSTANCE XvShell WITH Line <- Lines, MAXARGS <- 3, MaxFailures <- 1
Cmd == INSTANCE CommandShell WITH Input <- CmdFiles, MaxFaults <- 1
Asm == INSTANCE Yas WITH
         Source <- AsmFiles, WORD <- 1, MEM_SIZE <- 64, max_steps <- 60,
         answer <- expected, tokens <- kept
Disk == INSTANCE XvDisk WITH
          Proc <- {"p", "q"}, Buf <- {1, 2}, Block <- {"x", "y", "z"}, Datum <- {1}, Blank <- 0, MaxCalls <- 4
Console == INSTANCE XvConsole WITH
             Key <- Keys, MaxHeld <- 4, Typed <- {"a", "CR", "^D", "^U", "^H"},
             Written <- {<<"o">>, <<"x", "LF">>}, Reader <- {"p", "q"}, Request <- {1, 3},
             MaxEvents <- 4, INPUT_BUF <- 3, Counter <- 6, COLS <- 2, ROWS <- 3, input <- inbuf
Tools == INSTANCE XvTools WITH
           Memory <- {mem \in [0 .. 5 -> 0 .. 2] : mem[5] = 0},
           Pattern <- Strings({"a", "b", ".", "*", "^", "$"}, 3),
           Text <- Strings({"a", "b"}, 3) \cup {<<"$">>, <<"*", "a">>, <<"^">>, <<"a", "$", "b">>},
           Format <- Strings({"a", "%", "d", "s"}, 3), Content <- Strings({"a", "b", "LF"}, 4),
           Path <- Strings({"a", "/"}, 4) \ {<< >>}, Size <- 4, UIntMax <- 255, DIRSIZ <- 3,
           Bytes <- {0, 8, 20}, MinCore <- 4, MaxCore <- 12, MAXARG <- 2
Kernel == INSTANCE UserTests WITH
            NPROC <- 5, NINODES <- 14, NFILE <- 5, NOFILE <- 4, NINODE <- 6, MAXFILE <- 10, PIPESIZE <- 2,
            Frames <- 16, PGSIZE <- 2, Base <- 2, BIG <- 12, N <- 4, proc <- process
PoolUsers == INSTANCE PoolTests WITH
               Test <- PoolTestGroups, Tasks <- PoolTasks,
               status <- taskStatus, result <- taskResult, complaint <- checkFailed
Monitors == INSTANCE JavaMonitors WITH howMany <- 2, Customers <- 1 .. 3
Wireless == INSTANCE Radio WITH
              CHECK_PERIOD <- 20, Listen <- 8, Air <- 3, MaxPresses <- 2, MaxLost <- 1, presses <- trains
Network == INSTANCE Sensors WITH
             SAMPLING_RATES <- <<1, 2, 3>>, Window <- 3, Reading <- {50}, Hot <- 40, Clock <- 7,
             MaxPresses <- 2, MaxQueue <- 1, MaxData <- 6

-----------------------------------------------------------------------------

Programs == {"lists", "c list", "calculators", "trees", "hash table", "word puzzle",
             "huffman", "topological", "traveling", "slides", "bases", "umalloc", "sh", "shell", "y86",
             "disk", "keyboard", "console", "tools", "usertests", "pool tests", "radio", "sensors", "monitors"}

\* For a program that does not run
None == "none"

NoHash == [w \in {"a", "b", "c"} |-> 0]

Init ==
  /\ program \in Programs
  /\ Lists!Init /\ Lists!ItemsInit /\ Calc!Init /\ Trees!Init /\ Graph!ClassesInit /\ Tools!HeapInit /\ Disk!Init
  /\ Wireless!RadioInit /\ Network!SensorsInit
  /\ IF program = "monitors" THEN Monitors!MonitorInit
     ELSE /\ monitor = None /\ at = << >> /\ numItems = << >>
          /\ full = FALSE /\ currentItem = 0 /\ sent = 0 /\ received = << >>
          /\ busy = FALSE /\ tenOrLess = 0 /\ overtaken = FALSE /\ spurious = FALSE
  /\ IF program = "hash table" THEN Hash!Init
     ELSE Hash!Start(1) /\ hashFunction1 = NoHash /\ hashFunction2 = NoHash
  /\ IF program = "word puzzle" THEN Hash!GridInit ELSE Hash!GridStart(<<0, 0>>, << >>, {})
  /\ IF program = "huffman" THEN Codes!Init ELSE Codes!Start(<<"a">>)
  /\ IF program = "traveling" THEN Graph!TripInit ELSE Graph!TripStart(Road, 1, {2})
  /\ IF program = "slides" THEN Graph!SlidesInit ELSE Graph!SlidesStart(Graph!Goal)
  /\ IF program = "bases" THEN Calc!ConverterInit ELSE Calc!ConverterStart(<<1>>, 2, 2)
  /\ IF program = "sh" THEN Sh!Init ELSE Sh!Start(<< >>)
  /\ IF program = "shell" THEN Cmd!Init ELSE Cmd!Start(<< >>)
  /\ IF program = "tools" THEN Tools!Init ELSE Tools!Start("path", <<"a">>, << >>)
  /\ IF program = "usertests" THEN Kernel!Init
     ELSE test = None /\ tables = << >> /\ process = << >> /\ complaint = FALSE
  /\ IF program = "pool tests" THEN PoolUsers!PoolTestsInit
     ELSE /\ taskStatus = << >> /\ waiting = << >> /\ group = None /\ todo = << >> /\ arrived = 0
          /\ barrier_check_count = 0 /\ counter = 0 /\ taskResult = << >> /\ checkFailed = FALSE
  /\ IF program = "console" THEN Console!Init ELSE Console!Start(0)
  /\ IF program = "y86" THEN Asm!Init 
     ELSE /\ source = << >> /\ expected = None /\ pass = 0 /\ lineno = 0 /\ bytepos = 0 /\ kept = << >>
          /\ inError = FALSE /\ error_mode = FALSE /\ hit_error = FALSE /\ symbol_table = << >> /\ code = << >>
          /\ yo = << >> /\ exitCode = 0 /\ pc = 0 /\ r = << >> /\ m = << >> /\ cc = << >> /\ e = None
          /\ step = 0 /\ savem = << >>

\* The others stay.
Stay(p) ==
  /\ IF p = "lists" THEN TRUE ELSE UNCHANGED <<heap, list, itr>>
  /\ IF p = "c list" THEN TRUE ELSE UNCHANGED <<item, linkedList, reading>>
  /\ IF p = "calculators" THEN TRUE
     ELSE UNCHANGED <<stack, machine, expressionStack, treeCalc, result, tokens>>
  /\ IF p = "trees" THEN TRUE ELSE UNCHANGED <<bst, bstNodes, avl, avlNodes>>
  /\ IF p = "hash table" THEN TRUE ELSE UNCHANGED <<size, table, hashFunction1, hashFunction2, lines>>
  /\ IF p = "word puzzle" THEN TRUE ELSE UNCHANGED <<grid, rows, cols, dictionary, found, place>>
  /\ IF p = "huffman" THEN TRUE ELSE UNCHANGED <<text, toInsert, array, huffCodeLookup, encoding>>
  /\ IF p = "topological" THEN TRUE ELSE UNCHANGED <<edges, verticies, numInEdges, q, order, sorting>>
  /\ IF p = "traveling" THEN TRUE
     ELSE UNCHANGED <<distances, start, dests, shortestPath, shortDistance, traveling>>
  /\ IF p = "slides" THEN TRUE ELSE UNCHANGED <<initState, queue, stateToDist, answer>>
  /\ IF p = "bases" THEN TRUE
     ELSE UNCHANGED <<toConvert, fromBase, toBase, asDecimal, power, convertedNumber>>
  /\ IF p = "umalloc" THEN TRUE ELSE UNCHANGED <<header, freep, brk, used>>
  /\ IF p = "sh" THEN TRUE ELSE UNCHANGED <<line, proc, failures>>
  /\ IF p = "shell" THEN TRUE ELSE UNCHANGED <<input, task, reports, faults>>
  /\ IF p = "y86" THEN TRUE
     ELSE UNCHANGED <<source, expected, pass, lineno, bytepos, kept, inError, error_mode, hit_error,
                      symbol_table, code, yo, exitCode, pc, r, m, cc, e, step, savem>>
  /\ IF p = "disk" THEN TRUE
     ELSE UNCHANGED <<buf, lru, idequeue, device, platter, client, calls, latest, damaged>>
  /\ IF p \in {"keyboard", "console"} THEN TRUE
     ELSE UNCHANGED <<shift, held, key, confused, inbuf, reader, crt, pos, serial, disturbed, events>>
  /\ IF p = "tools" THEN TRUE ELSE UNCHANGED <<tool, given, status, unread, linebuf, out, counts, forgot>>
  /\ IF p = "usertests" THEN TRUE ELSE UNCHANGED <<test, tables, process, complaint>>
  /\ IF p = "pool tests" THEN TRUE
     ELSE UNCHANGED <<taskStatus, waiting, group, todo, arrived, barrier_check_count, counter, taskResult, checkFailed>>
  /\ IF p = "radio" THEN TRUE
     ELSE UNCHANGED <<sender, check_period_timer, rx_timer, sleep_timer, listening, packet, notice, trains, lost, got>>
  /\ IF p = "sensors" THEN TRUE
     ELSE UNCHANGED <<dut, millis, wrapped, since, to_dut, to_inspector, inspector, prg_pressed_counter, btn_flag,
                      data, shown, presses, merged, missed>>
  /\ IF p = "monitors" THEN TRUE
     ELSE UNCHANGED <<monitor, at, full, currentItem, sent, received, busy, tenOrLess, numItems, overtaken, spurious>>

Run(p, next) == program = p /\ next /\ Stay(p) /\ UNCHANGED program

Next ==
  \/ Run("lists", Lists!Next) \/ Run("c list", Lists!ItemsNext) \/ Run("calculators", Calc!Next)
  \/ Run("trees", Trees!Next) \/ Run("hash table", Hash!Next) \/ Run("word puzzle", Hash!GridNext)
  \/ Run("huffman", Codes!Next) \/ Run("topological", Graph!ClassesNext)
  \/ Run("traveling", Graph!TripNext) \/ Run("slides", Graph!SlidesNext) \/ Run("bases", Calc!ConverterNext)
  \/ Run("umalloc", Tools!HeapNext) \/ Run("sh", Sh!Next)
  \/ Run("shell", Cmd!Next) \/ Run("y86", Asm!Next)
  \/ Run("disk", Disk!Next) \/ Run("keyboard", Console!KeyboardNext) \/ Run("console", Console!ConsoleNext)
  \/ Run("tools", Tools!ToolsNext) \/ Run("usertests", Kernel!TestsNext)
  \/ Run("pool tests", PoolUsers!PoolTestsNext)
  \/ Run("radio", Wireless!RadioNext) \/ Run("sensors", Network!SensorsNext)
  \/ Run("monitors", Monitors!MonitorNext)

-----------------------------------------------------------------------------
(* Properties *)

\* The two lists are edited as sequences are, at their ends, at the iterator and by value;
\* the trees and the hash table take words and give them up as sets do.
ImplementsContainers ==
  /\ Lists!Edited!Init /\ Lists!EditedItems!Init
  /\ Trees!Stored!Init /\ Trees!StoredBalanced!Init /\ Hash!Stored!Init
  /\ [][program = "lists" => Lists!Edited!Next]_(Lists!Edited!vars)
  /\ [][program = "c list" => Lists!EditedItems!Next]_(Lists!EditedItems!vars)
  /\ [][program = "trees" => Trees!Stored!Next]_(Trees!Words(bst))
  /\ [][program = "trees" => Trees!StoredBalanced!Next]_(Trees!Words(avl))
  /\ [][program = "hash table" => Hash!Stored!Next]_(Hash!Found)
  /\ [][program = "keyboard" => Console!FaceRight]_<<shift, held, key, confused>>
  /\ [][program = "console" => Console!LinesRight]_<<inbuf, reader>>

\* Links lead both ways, the trees are ordered and balanced, the heaps are ordered, every
\* node that is allocated is in its structure, no two blocks of memory overlap, and a
\* search in the hash table comes to an end.
StructuresSound ==
  /\ program = "lists" => Lists!WellLinked
  /\ program = "c list" => Lists!ItemsLinked
  /\ program = "trees" => Trees!TreesSound
  /\ program = "huffman" => Codes!HeapSound
  /\ program = "umalloc" => Tools!HeapSound
  /\ program = "hash table" => Hash!SearchesEnd
  /\ program = "disk" => Disk!BuffersSound /\ Disk!NobodyForgotten
  /\ program = "console" => Console!ConsoleSound
  /\ program = "radio" => Wireless!RadioTypeOK
  /\ program = "usertests" => Kernel!TablesRight /\ Kernel!EndRight

\* What a program prints is what it is asked for, by a definition that does not follow its
\* steps.
AnswersRight ==
  /\ program = "calculators" => Calc!CalculatorsAgree /\ Calc!PrintedFormsAgree
  /\ program = "trees" => Trees!PathsRight
  /\ program = "hash table" => Hash!FindRight
  /\ program = "word puzzle" => Hash!SearchRight
  /\ program = "huffman" => Codes!CodesRight
  /\ program = "topological" => Graph!SortRight
  /\ program = "traveling" => Graph!TripRight
  /\ program = "slides" => Graph!ParityRight /\ Graph!DistancesRight
  /\ program = "bases" => Calc!ConversionRight
  /\ program = "y86" => Asm!AssemblerRight
  /\ program = "disk" => Disk!DiskRight
  /\ program = "keyboard" => Console!KeysRight
  /\ program = "tools" => Tools!ToolsRight
  /\ program = "console" => Console!EchoRight
  /\ program = "usertests" => Kernel!TestsPass
  /\ program = "pool tests" => PoolUsers!PoolTestsPass
  /\ program = "radio" => Wireless!TrainsHeard
  /\ program = "sensors" => Network!SensorsRight
  /\ program = "monitors" => Monitors!MonitorsRight

\* Whatever line is typed, and whichever call fails, the shells run what the line means.
ShellRight ==
  /\ program = "sh" => Sh!ShellRight
  /\ program = "shell" => Cmd!CommandShellRight
=============================================================================
