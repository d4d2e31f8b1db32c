---------------------------- MODULE PersistentLog ----------------------------
(***************************************************************************)
(* FilePersistentLog of twophase/persistent_log.py: an index byte and two  *)
(* slots of MAX_SIZE bytes in one file.  set_last_entry writes the slot    *)
(* the index does not name, then the index.  A write is durable after its  *)
(* fsync; a crash before that leaves the old bytes, the new ones or, in a  *)
(* slot, a mixture of both.                                                *)
(***************************************************************************)
EXTENDS Integers, TLAPS

CONSTANTS Entries,  \* what the nodes log, as pickled values
          NoEntry   \* Python's None

ASSUME LogAssumption == /\ NoEntry \notin Entries
                        /\ Entries \cap {"eof", "zeros", "torn"} = {}

Slot == {0, 1}
\* A slot past the end of the file; one inside the file that was never
\* written (a hole, read as zero bytes); one whose last write was cut short.
Bytes == Entries \cup {"eof", "zeros", "torn"}

VARIABLES fileIndex,  \* byte 0 of the file, -1 while the file is empty
          slot,       \* the bytes at (s + 1) * MAX_SIZE
          index,      \* self._index
          current,    \* self._current
          pc,         \* where the process is in FilePersistentLog
          raised      \* history: a write has raised since the file was opened

vars == <<fileIndex, slot, index, current, pc, raised>>

Init == /\ fileIndex = -1
        /\ slot = [s \in Slot |-> "eof"]
        /\ index = 0
        /\ current = NoEntry
        /\ pc = "closed"
        /\ raised = FALSE

\* Writing slot s extends the file: the index byte and a lower slot that were
\* past its end now read as zeros.
Extended(bytes, s) ==
  [t \in Slot |-> IF t = s THEN bytes
                  ELSE IF t < s /\ slot[t] = "eof" THEN "zeros" ELSE slot[t]]

OpenIndex == IF fileIndex = -1 THEN 0 ELSE fileIndex

\* pickle.loads raises on the two others, and with it __init__.
Loadable(bytes) == bytes \notin {"zeros", "torn"}

Open == /\ pc = "closed"
        /\ Loadable(slot[OpenIndex])
        /\ index' = OpenIndex
        /\ current' = IF slot[OpenIndex] = "eof" THEN NoEntry ELSE slot[OpenIndex]
        /\ pc' = "ready"
        /\ raised' = FALSE
        /\ UNCHANGED <<fileIndex, slot>>

\* Mutant of SetLastEntry: the slot that holds the last entry is written again.
SetLastEntryInPlace(e) == /\ pc = "ready"
                          /\ current' = e /\ pc' = "value"
                          /\ UNCHANGED <<fileIndex, slot, index, raised>>

SetLastEntry(e) == /\ pc = "ready"
                   /\ current' = e
                   /\ index' = 1 - index
                   /\ pc' = "value"
                   /\ UNCHANGED <<fileIndex, slot, raised>>

PutBytes(bytes) == /\ slot' = Extended(bytes, index)
                   /\ fileIndex' = OpenIndex

WriteRawValue == /\ pc = "value"
                 /\ PutBytes(current)
                 /\ pc' = "index"
                 /\ UNCHANGED <<index, current, raised>>

\* Mutant of WriteIndex: the index written is the old one.
WriteOldIndex == /\ pc = "index"
                 /\ fileIndex' = 1 - index
                 /\ pc' = "ready"
                 /\ UNCHANGED <<slot, index, current, raised>>

PutIndex == /\ fileIndex' = index
            /\ UNCHANGED slot

WriteIndex == /\ pc = "index"
              /\ PutIndex
              /\ pc' = "ready"
              /\ UNCHANGED <<index, current, raised>>

\* The process dies; the slot write it was in may have reached the disk in part.
Crash == /\ pc # "closed"
         /\ \/ UNCHANGED <<fileIndex, slot>>
            \/ pc = "value" /\ PutBytes("torn")
         /\ index' = 0
         /\ current' = NoEntry
         /\ pc' = "closed"
         /\ UNCHANGED raised

\* A write raises (the disk is full, the entry too large), or the fsync after a
\* write that is complete; the server goes on with the object as it is.
WriteError == /\ pc \in {"value", "index"}
              /\ \/ UNCHANGED <<fileIndex, slot>>
                 \/ pc = "value" /\ \E bytes \in {"torn", current} : PutBytes(bytes)
                 \/ pc = "index" /\ PutIndex
              /\ pc' = "ready"
              /\ raised' = TRUE
              /\ UNCHANGED <<index, current>>

Next == \/ Open
        \/ \E e \in Entries : SetLastEntry(e)
        \/ WriteRawValue
        \/ WriteIndex
        \/ Crash
        \/ WriteError

Spec == Init /\ [][Next]_vars

-----------------------------------------------------------------------------
TypeOK == /\ fileIndex \in {-1, 0, 1}
          /\ slot \in [Slot -> Bytes]
          /\ index \in Slot
          /\ current \in Entries \cup {NoEntry}
          /\ pc \in {"closed", "ready", "value", "index"}
          /\ raised \in BOOLEAN

\* The bytes a restart reads now.
Readable == slot[OpenIndex]

\* The entry they stand for; a new file and a file of zeros hold none.
Stored == IF Readable \in Entries THEN Readable ELSE NoEntry

\* Until a write raises, set_last_entry writes the slot that the index on disk
\* does not name: the last entry is never overwritten in place.
NeverInPlace == pc = "value" /\ ~raised => index # OpenIndex

\* While no set_last_entry is under way and none has raised, get_last_entry
\* returns exactly what a restart would read (the nodes answer from memory and
\* recover from disk).
ReadsWhatIsStored == pc = "ready" /\ ~raised => current = Stored

\* From the first entry on, a restart always finds an entry: no crash and no
\* first error of set_last_entry leaves the file without one.
StaysLoadable == [][(~raised /\ Readable \in Entries) => (Readable' \in Entries)]_vars

\* A set_last_entry that returns has stored its entry, also when earlier ones
\* raised: the node may act on what it logged.
ReturnsWhenStored == [][WriteIndex => Stored' = current]_vars

\* The file implements the log that is replaced as a whole or not at all, as
\* long as no write raises.
Log == INSTANCE AtomicLog WITH
         stored  <- Stored,
         pending <- IF pc \in {"value", "index"} THEN current ELSE NoEntry
ReplacedAsAWhole == Log!Init /\ [][raised \/ Log!Next]_(Log!vars)

-----------------------------------------------------------------------------
(* Proofs: the log's properties for any set of entries, from one inductive  *)
(* invariant: where set_last_entry is, what the slot it writes holds, and   *)
(* that this is not the slot the index on disk names.                      *)

\* An entry is being set, in a slot that holds it once it is written.
Writing == /\ pc \in {"value", "index"} => current \in Entries
           /\ pc = "index" => slot[index] = current /\ fileIndex # -1

\* As long as nothing has raised, memory and disk are in step.
InStep == ~raised => /\ pc \in {"value", "index"} => index = 1 - OpenIndex
                     /\ pc = "ready" => index = OpenIndex /\ current = Stored

IInv == TypeOK /\ Writing /\ InStep

LEMMA InitInv == Init => IInv
BY LogAssumption DEF Init, IInv, TypeOK, Writing, InStep, Slot, Bytes

\* What a write to slot s leaves in the slots.
LEMMA ExtendedSlots ==
  ASSUME TypeOK, NEW b \in Bytes, NEW s \in Slot
  PROVE  /\ Extended(b, s) \in [Slot -> Bytes]
         /\ Extended(b, s)[s] = b
         /\ slot[1 - s] \in Entries => Extended(b, s)[1 - s] = slot[1 - s]
BY LogAssumption DEF TypeOK, Extended, Slot, Bytes

LEMMA NextInv == IInv /\ [Next]_vars => IInv'
<1> SUFFICES ASSUME IInv, [Next]_vars PROVE IInv'
  OBVIOUS
<1> USE LogAssumption DEF IInv, TypeOK, Slot, Bytes
<1>1. CASE Open
  BY <1>1 DEF Open, Loadable, OpenIndex, Writing, InStep, Stored, Readable
<1>2. ASSUME NEW e \in Entries, SetLastEntry(e) PROVE IInv'
  BY <1>2 DEF SetLastEntry, OpenIndex, Writing, InStep
<1>3. CASE WriteRawValue
  <2>1. current \in Bytes /\ index \in Slot /\ OpenIndex \in Slot
    BY <1>3 DEF WriteRawValue, Writing, OpenIndex
  <2>2. /\ slot' \in [Slot -> Bytes]
        /\ slot'[index] = current
    BY <1>3, <2>1, ExtendedSlots DEF WriteRawValue, PutBytes
  <2>3. fileIndex' = OpenIndex /\ OpenIndex' = OpenIndex
    BY <1>3 DEF WriteRawValue, PutBytes, OpenIndex
  <2> QED BY <1>3, <2>1, <2>2, <2>3 DEF WriteRawValue, Writing, InStep
<1>4. CASE WriteIndex
  BY <1>4 DEF WriteIndex, PutIndex, OpenIndex, Writing, InStep, Stored, Readable
<1>5. CASE Crash
  <2>1. slot' \in [Slot -> Bytes] /\ fileIndex' \in {-1, 0, 1}
    BY <1>5, ExtendedSlots DEF Crash, PutBytes, OpenIndex
  <2> QED BY <1>5, <2>1 DEF Crash, Writing, InStep
<1>6. CASE WriteError
  <2>1. slot' \in [Slot -> Bytes] /\ fileIndex' \in {-1, 0, 1}
    <3>1. CASE pc = "value" /\ \E bytes \in {"torn", current} : PutBytes(bytes)
      BY <3>1, ExtendedSlots DEF PutBytes, OpenIndex, Writing
    <3>2. CASE pc = "index" /\ PutIndex
      BY <3>2 DEF PutIndex
    <3> QED BY <1>6, <3>1, <3>2 DEF WriteError
  <2> QED BY <1>6, <2>1 DEF WriteError, Writing, InStep
<1>7. CASE UNCHANGED vars
  BY <1>7 DEF vars, Writing, InStep, Stored, Readable, OpenIndex
<1> QED BY <1>1, <1>2, <1>3, <1>4, <1>5, <1>6, <1>7 DEF Next

\* The types of the file and of the object, and where they are in step, hold
\* in every reachable state, for any set of entries.
THEOREM LogInvariant == Spec => []IInv
BY InitInv, NextInv, PTL DEF Spec

-----------------------------------------------------------------------------
\* The slot set_last_entry writes is never the one a restart would read.
THEOREM NeverInPlaceHolds == Spec => []NeverInPlace
<1>1. IInv => NeverInPlace
  BY DEF IInv, InStep, NeverInPlace, TypeOK, OpenIndex, Slot
<1> QED BY <1>1, LogInvariant, PTL

\* get_last_entry returns what a restart would read.
THEOREM ReadsWhatIsStoredHolds == Spec => []ReadsWhatIsStored
<1>1. IInv => ReadsWhatIsStored
  BY DEF IInv, InStep, ReadsWhatIsStored
<1> QED BY <1>1, LogInvariant, PTL

\* What a step does to the entry a restart reads: while nothing has raised,
\* only the write of the index changes it.
LEMMA StoredChanges ==
  IInv /\ [Next]_vars /\ ~raised /\ ~(pc = "index" /\ PutIndex) => Stored' = Stored
<1> SUFFICES ASSUME IInv, [Next]_vars, ~raised, ~(pc = "index" /\ PutIndex) PROVE Stored' = Stored
  OBVIOUS
<1> USE LogAssumption DEF IInv, TypeOK, Slot, Bytes
<1>1. CASE UNCHANGED <<fileIndex, slot>>
  BY <1>1 DEF Stored, Readable, OpenIndex
<1>2. CASE pc = "value" /\ \E b \in Bytes : PutBytes(b)
  <2>1. PICK b \in Bytes : PutBytes(b)
    BY <1>2
  <2>2. OpenIndex' = OpenIndex /\ OpenIndex \in Slot /\ index = 1 - OpenIndex /\ index \in Slot
    BY <1>2, <2>1 DEF PutBytes, OpenIndex, InStep
  <2>3. slot' = Extended(b, index)
    BY <2>1 DEF PutBytes
  <2>4. slot[OpenIndex] \in Entries => slot'[OpenIndex] = slot[OpenIndex]
    BY <2>2, <2>3, ExtendedSlots
  <2>5. slot[OpenIndex] \notin Entries => slot'[OpenIndex] \notin Entries
    BY <2>2, <2>3 DEF Extended
  <2> QED BY <2>2, <2>4, <2>5 DEF Stored, Readable
<1>3. UNCHANGED <<fileIndex, slot>> \/ (pc = "value" /\ \E b \in Bytes : PutBytes(b))
  BY DEF Next, vars, Open, SetLastEntry, WriteRawValue, WriteIndex, Crash, WriteError, Writing
<1> QED BY <1>1, <1>2, <1>3

\* Once the index is written, the entry a restart reads is the one being set.
LEMMA PutIndexStores ==
  IInv /\ pc = "index" /\ PutIndex => Stored' = current /\ current \in Entries /\ Readable' = current
BY LogAssumption DEF IInv, TypeOK, Slot, PutIndex, Writing, Stored, Readable, OpenIndex

\* A set_last_entry that returns has stored its entry, also after others raised.
THEOREM ReturnsWhenStoredHolds == Spec => ReturnsWhenStored
<1>1. IInv /\ [Next]_vars => [WriteIndex => Stored' = current]_vars
  BY PutIndexStores DEF WriteIndex
<1> QED BY <1>1, LogInvariant, PTL DEF Spec, ReturnsWhenStored

\* From the first entry on, a restart finds an entry.
THEOREM StaysLoadableHolds == Spec => StaysLoadable
<1>1. IInv /\ [Next]_vars => [(~raised /\ Readable \in Entries) => (Readable' \in Entries)]_vars
  <2> SUFFICES ASSUME IInv, [Next]_vars, ~raised, Readable \in Entries
               PROVE  Readable' \in Entries
    OBVIOUS
  <2>1. CASE pc = "index" /\ PutIndex
    BY <2>1, PutIndexStores
  <2>2. CASE ~(pc = "index" /\ PutIndex)
    BY <2>2, StoredChanges, LogAssumption DEF Stored
  <2> QED BY <2>1, <2>2
<1> QED BY <1>1, LogInvariant, PTL DEF Spec, StaysLoadable

\* Every step of the file is a step of the log that is replaced as a whole,
\* as long as nothing has raised.
THEOREM ImplementsAtomicLog == Spec => ReplacedAsAWhole
<1>1. Init => Log!Init
  BY LogAssumption DEF Slot, Init, Log!Init, Stored, Readable, OpenIndex
<1>2. IInv /\ [Next]_vars => [raised \/ Log!Next]_(Log!vars)
  <2> DEFINE pending == IF pc \in {"value", "index"} THEN current ELSE NoEntry
  <2> SUFFICES ASSUME IInv, [Next]_vars, ~raised
               PROVE  Log!Next \/ (Stored' = Stored /\ pending' = pending)
    BY DEF Log!vars
  <2>1. ASSUME NEW e \in Entries, SetLastEntry(e) PROVE Log!Begin(e)
    BY <2>1, StoredChanges, LogAssumption DEF SetLastEntry, Log!Begin
  <2>2. CASE pc = "index" /\ PutIndex /\ pc' \in {"ready", "closed"}
    <3>1. pending = current /\ pending' = NoEntry /\ current # NoEntry
      BY <2>2, PutIndexStores, LogAssumption
    <3> QED BY <2>2, <3>1, PutIndexStores DEF Log!Next, Log!Commit
  <2>3. CASE (Crash \/ WriteError) /\ ~(pc = "index" /\ PutIndex)
    <3>1. pending' = NoEntry /\ Stored' = Stored
      BY <2>3, StoredChanges DEF Crash, WriteError
    <3> QED BY <3>1 DEF Log!Next, Log!Lose
  <2>4. CASE Open \/ WriteRawValue \/ UNCHANGED vars
    <3>1. CASE Open \/ WriteRawValue
      BY <3>1, StoredChanges DEF Open, WriteRawValue
    <3>2. CASE UNCHANGED vars
      BY <3>2 DEF vars, Stored, Readable, OpenIndex
    <3> QED BY <2>4, <3>1, <3>2
  <2> QED BY <2>1, <2>2, <2>3, <2>4 DEF Next, WriteIndex, Crash, WriteError, Log!Next
<1> QED BY <1>1, <1>2, LogInvariant, PTL DEF Spec, ReplacedAsAWhole
=============================================================================
