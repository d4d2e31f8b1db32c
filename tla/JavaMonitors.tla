---------------------------- MODULE JavaMonitors ----------------------------
(***************************************************************************)
(* The monitors of the concurrency chapter of the Java book: two buffers   *)
(* between a producer and a consumer, and two cashiers with their          *)
(* customers.  A synchronized section is one step, up to a wait; a thread  *)
(* that was notified has to take the lock again before it goes on.         *)
(***************************************************************************)
EXTENDS Integers, Sequences, FiniteSets

CONSTANTS howMany,    \* the numbers that the producer makes
          Customers

VARIABLES
  monitor,      \* the class of the object
  at,           \* of each thread: "entering", "waiting", "notified", "checking" or "gone"
  full, currentItem,
  sent,         \* how many items the producer has added
  received,     \* history: what remove has returned
  busy, tenOrLess,
  numItems,     \* of each customer
  overtaken,    \* history: has a customer with few items been passed in line?
  spurious      \* history: has wait returned though nobody notified?

buffer == <<full, currentItem, sent, received>>
cashier == <<busy, tenOrLess, numItems, overtaken>>

Buffers == {"SyncBuffer", "MonitorBuffer"}
Cashiers == {"Cashier1", "Cashier2"}

\* The numbers, and -1 at their end
Stream == [i \in 1 .. howMany |-> i - 1] \o <<-1>>

MonitorInit ==
  /\ monitor \in Buffers \cup Cashiers
  /\ at = [t \in IF monitor \in Buffers THEN {"producer", "consumer"} ELSE Customers |-> "entering"]
  /\ full = FALSE /\ currentItem = 0 /\ sent = 0 /\ received = << >>
  /\ busy = FALSE /\ tenOrLess = 0 /\ overtaken = FALSE
  /\ numItems \in IF monitor \in Buffers THEN {<< >>} ELSE [Customers -> {10, 11}]
  /\ spurious = FALSE

Waits(t) == at' = [at EXCEPT ![t] = "waiting"]
Waiting == {t \in DOMAIN at : at[t] = "waiting"}

\* t goes on to a place, and wakes one of those that wait.
NotifyAs(t, place) ==
  LET went == [at EXCEPT ![t] = place] IN
  IF monitor = "SyncBuffer" \/ Waiting = {} THEN at' = went
  ELSE \E u \in Waiting : at' = [went EXCEPT ![u] = "notified"]

-----------------------------------------------------------------------------
\* A SyncBuffer tries again until it can; a MonitorBuffer waits, and does not look again.
Enters(t, can) == \/ at[t] = "entering" /\ can
                  \/ at[t] = "notified"

AddWaits == /\ monitor = "MonitorBuffer" /\ at["producer"] = "entering" /\ full
            /\ Waits("producer")
            /\ UNCHANGED <<monitor, buffer, cashier, spurious>>

Add == /\ monitor \in Buffers /\ Enters("producer", ~full)
       /\ currentItem' = Stream[sent + 1]
       /\ full' = TRUE
       /\ sent' = sent + 1
       /\ NotifyAs("producer", IF sent' = Len(Stream) THEN "gone" ELSE "entering")
       /\ UNCHANGED <<monitor, received, cashier, spurious>>

RemoveWaits == /\ monitor = "MonitorBuffer" /\ at["consumer"] = "entering" /\ ~full
               /\ Waits("consumer")
               /\ UNCHANGED <<monitor, buffer, cashier, spurious>>

\* Mutant of Remove: it does not notify.
RemoveSilently ==
  /\ monitor \in Buffers /\ Enters("consumer", full)
  /\ received' = Append(received, currentItem)
  /\ full' = FALSE
  /\ at' = [at EXCEPT !["consumer"] = IF currentItem = -1 THEN "gone" ELSE "entering"]
  /\ UNCHANGED <<monitor, currentItem, sent, cashier, spurious>>

Remove == /\ monitor \in Buffers /\ Enters("consumer", full)
          /\ received' = Append(received, currentItem)
          /\ full' = FALSE
          /\ NotifyAs("consumer", IF currentItem = -1 THEN "gone" ELSE "entering")
          /\ UNCHANGED <<monitor, currentItem, sent, cashier, spurious>>

-----------------------------------------------------------------------------
Few(c) == monitor = "Cashier2" /\ numItems[c] <= 10

\* Until the cashier is free, and nobody with few items is before a customer with many
ReadyToCheckOut(c) ==
  /\ monitor \in Cashiers /\ at[c] \in {"entering", "notified"}
  /\ tenOrLess' = IF at[c] = "entering" /\ Few(c) THEN tenOrLess + 1 ELSE tenOrLess
  /\ IF busy \/ (tenOrLess' > 0 /\ ~Few(c))
     THEN Waits(c) /\ UNCHANGED <<busy, overtaken>>
     ELSE /\ at' = [at EXCEPT ![c] = "checking"]
          /\ busy' = TRUE
          /\ overtaken' = \/ overtaken
                          \/ /\ ~Few(c)
                             /\ \E d \in Customers : Few(d) /\ at[d] \in {"waiting", "notified"}
  /\ UNCHANGED <<monitor, buffer, numItems, spurious>>

Leaves(c) == at' = [d \in Customers |-> CASE d = c -> "gone"
                                          [] at[d] = "waiting" -> "notified"
                                          [] OTHER -> at[d]]

\* Mutant of Done: a customer with few items is not counted off.
DoneUncounted(c) ==
  /\ monitor \in Cashiers /\ at[c] = "checking" /\ busy
  /\ busy' = FALSE
  /\ Leaves(c)
  /\ UNCHANGED <<monitor, buffer, tenOrLess, numItems, overtaken, spurious>>

\* The cashier is busy with the customer that calls done.
Done(c) ==
  /\ monitor \in Cashiers /\ at[c] = "checking" /\ busy
  /\ tenOrLess' = IF Few(c) THEN tenOrLess - 1 ELSE tenOrLess
  /\ busy' = FALSE
  /\ Leaves(c)
  /\ UNCHANGED <<monitor, buffer, numItems, overtaken, spurious>>

\* wait may return on its own, as the language allows.
WakeSpuriously(t) == /\ ~spurious /\ at[t] = "waiting"
                     /\ at' = [at EXCEPT ![t] = "notified"]
                     /\ spurious' = TRUE
                     /\ UNCHANGED <<monitor, buffer, cashier>>

MonitorNext == \/ AddWaits \/ Add \/ RemoveWaits \/ Remove
               \/ \E c \in Customers : ReadyToCheckOut(c) \/ Done(c)
               \/ \E t \in DOMAIN at : WakeSpuriously(t)

-----------------------------------------------------------------------------
\* What was added and what was removed are one stream, with nothing lost or doubled.
StreamKept ==
  received \o (IF full THEN <<currentItem>> ELSE << >>) = SubSeq(Stream, 1, sent)

\* Whoever has not gone waits for somebody that goes on.
SomebodyGoes ==
  LET CanGo(t) == \/ at[t] \in {"notified", "checking"}
                  \/ at[t] = "entering" /\ (monitor = "SyncBuffer" => full = (t = "consumer"))
  IN (\A t \in DOMAIN at : at[t] = "gone") \/ \E t \in DOMAIN at : CanGo(t)

\* The cashier serves one customer, who is never one with many items that was before a
\* customer with few, and has them all counted.
ServedInOrder ==
  LET checking == {c \in Customers : at[c] = "checking"} IN
  /\ Cardinality(checking) = IF busy THEN 1 ELSE 0
  /\ ~overtaken
  /\ tenOrLess = Cardinality({c \in Customers : Few(c) /\ at[c] \notin {"entering", "gone"}})

\* A wait that returns on its own costs the MonitorBuffer an item: its ifs are no whiles.
MonitorsRight ==
  /\ monitor \in Buffers => spurious \/ StreamKept
  /\ monitor \in Cashiers => ServedInOrder
  /\ monitor = "MonitorBuffer" => spurious \/ SomebodyGoes
  /\ monitor # "MonitorBuffer" => SomebodyGoes
=============================================================================
