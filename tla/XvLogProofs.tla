------------------------------ MODULE XvLogProofs ------------------------------
(***************************************************************************)
(* xv6's log for any number of processes and blocks and any sizes: the     *)
(* reservation of begin_op holds, a commit is alone, and the disk is an    *)
(* atomic one.                                                             *)
(***************************************************************************)
EXTENDS XvLog, FiniteSetTheorems, TLAPS

InCall == {p \in Procs : pc[p] \in {"in call", "log_write"}}

\* outstanding counts the calls in progress.
Counted == IsFiniteSet(InCall) /\ Cardinality(InCall) = outstanding

\* A block is locked between its modification and the end of log_write.
Locks == \A p \in Procs : /\ block[p] \in Blocks <=> pc[p] = "log_write"
                          /\ pc[p] = "log_write" => left[p] < MaxOpBlocks

\* Where commit and recovery are, and the header they leave on the disk.
Stages ==
  /\ recovering => /\ stage \in {"install", "erase"} /\ ~committing
                   /\ cache = disk /\ dirty = {}
  /\ ~recovering => (committing <=> stage # "none")
  /\ stage # "none" => outstanding = 0
  /\ diskHead = IF stage \in {"install", "erase"} THEN lh ELSE << >>
  /\ stage = "done" => lh = << >>
  /\ stage = "log" => lh # << >>
  /\ stage \in {"log", "install"} => tail \in DOMAIN lh \/ lh = << >>
  /\ stage \notin {"log", "install"} => tail = 1
  /\ (stage = "none" /\ outstanding = 0) => lh = << >>

\* No block is in the log twice.
Absorbed == \A i, j \in DOMAIN lh : lh[i] = lh[j] => i = j

\* A buffer that bget may recycle is what the disk has.
Clean == \A b \in Blocks : b \in dirty \/ (\E p \in Procs : block[p] = b) \/ cache[b] = disk[b]

\* What has still to be installed.
Pending == IF stage \in {"none", "log", "head"} THEN Logged
           ELSE IF stage = "install" THEN {lh[i] : i \in {j \in DOMAIN lh : j >= tail}}
           ELSE {}

Pinned == dirty \subseteq Pending

\* What write_log has copied, and install_trans installed.
Copied == \A i \in DOMAIN lh :
            (\/ stage = "log" /\ i < tail
             \/ stage = "head"
             \/ stage \in {"install", "erase"} /\ ~recovering) => diskLog[i] = cache[lh[i]]

Installed == \A i \in DOMAIN lh :
               (stage = "erase" \/ (stage = "install" /\ i < tail)) => disk[lh[i]] = diskLog[i]

IInv == /\ TypeOK /\ Counted /\ Locks /\ Reserved /\ Stages /\ Absorbed
        /\ Clean /\ Pinned /\ Copied /\ Installed /\ PanicsOnlyFull

-----------------------------------------------------------------------------
\* What follows from the invariant in one state.

LEMMA Sizes == /\ MaxOpBlocks \in Nat /\ MaxOpBlocks > 0 /\ LogSize \in Nat /\ NLog \in Nat
               /\ MaxCalls \in Nat /\ MaxStops \in Nat /\ NoBlock \notin Blocks /\ 0 \in Content
BY XvLogAssumption DEF Content

LEMMA Positive == \A n \in Nat : n # 0 => n > 0
OBVIOUS

\* A call in progress is counted, and no commit runs.
LEMMA CallCounts ==
  ASSUME IInv, NEW p \in Procs, pc[p] \in {"in call", "log_write"}
  PROVE  outstanding > 0 /\ stage = "none" /\ (~recovering => ~committing)
<1>1. p \in InCall /\ IsFiniteSet(InCall) /\ Cardinality(InCall) = outstanding
  BY DEF IInv, Counted, InCall
<1>2. outstanding # 0
  BY <1>1, FS_EmptySet
<1>3. outstanding \in Nat
  BY DEF IInv, TypeOK
<1>4. stage = "none" /\ (~recovering => ~committing)
  <2>1. Stages
    BY DEF IInv
  <2> QED BY <1>2, <2>1, Zenon DEF Stages
<1>5. outstanding > 0
  BY <1>2, <1>3, Positive
<1> QED BY <1>4, <1>5, Zenon

\* With no call in progress no block is locked.
LEMMA NoneLocked ==
  ASSUME IInv, outstanding = 0, NEW p \in Procs
  PROVE  block[p] \notin Blocks
<1>1. pc[p] = "log_write" => outstanding > 0
  BY CallCounts
<1> QED BY <1>1 DEF IInv, Locks

\* The reservation is a finite set.
LEMMA MayLogFinite ==
  ASSUME IInv
  PROVE  /\ MayLog \subseteq InCall \X (1 .. MaxOpBlocks)
         /\ IsFiniteSet(MayLog) /\ Cardinality(MayLog) \in Nat
         /\ Len(lh) \in Nat /\ Len(lh) <= LogSize
<1>1. MayLog \subseteq InCall \X (1 .. MaxOpBlocks)
  BY DEF MayLog, InCall
<1>2. IsFiniteSet(1 .. MaxOpBlocks)
  BY Sizes, FS_Interval, 1 \in Int
<1>3. IsFiniteSet(InCall \X (1 .. MaxOpBlocks))
  BY <1>2, FS_Product DEF IInv, Counted
<1>4. IsFiniteSet(MayLog) /\ Cardinality(MayLog) \in Nat
  BY <1>1, <1>3, FS_Subset, FS_CardinalityType
<1>5. Len(lh) \in Nat
  <2>1. lh \in Seq(Blocks)
    BY DEF IInv, TypeOK
  <2> QED BY <2>1
<1> QED BY <1>1, <1>4, <1>5, Sizes DEF IInv, Reserved

\* A buffer that bget recycles is what bread returns anyway.
LEMMA RecycleChangesNothing ==
  ASSUME IInv, NEW b \in Blocks, Recycle(b)
  PROVE  UNCHANGED vars
<1>1. cache[b] = disk[b] /\ cache \in [Blocks -> Content]
  BY DEF IInv, Clean, Recycle, TypeOK
<1>2. cache' = cache
  BY <1>1 DEF Recycle
<1> QED BY <1>2 DEF Recycle, vars, buffers

\* What the steps need of the types.
LEMMA Types ==
  ASSUME IInv
  PROVE  /\ lh \in Seq(Blocks) /\ Len(lh) \in Nat /\ DOMAIN lh = 1 .. Len(lh)
         /\ tail \in Nat /\ outstanding \in Nat
         /\ calls \in 0 .. MaxCalls /\ stops \in 0 .. MaxStops
         /\ \A p \in Procs : left[p] \in 0 .. MaxOpBlocks /\ call[p] \in Content
         /\ \A i \in DOMAIN lh : lh[i] \in Blocks /\ i \in 1 .. LogSize
<1>1. lh \in Seq(Blocks)
  BY DEF IInv, TypeOK
<1>2. Len(lh) \in Nat /\ DOMAIN lh = 1 .. Len(lh) /\ \A i \in DOMAIN lh : lh[i] \in Blocks
  BY <1>1
<1>3. Len(lh) <= LogSize
  BY MayLogFinite
<1>4. \A i \in DOMAIN lh : i \in 1 .. LogSize
  BY <1>2, <1>3, Sizes
<1>5. /\ tail \in Nat /\ outstanding \in Nat
      /\ calls \in 0 .. MaxCalls /\ stops \in 0 .. MaxStops
  BY DEF IInv, TypeOK, Content
<1>6. \A p \in Procs : left[p] \in 0 .. MaxOpBlocks /\ call[p] \in Content
  BY DEF IInv, TypeOK
<1> QED BY <1>1, <1>2, <1>4, <1>5, <1>6

\* The block that the loops are at is in the log.
LEMMA AtTail ==
  ASSUME IInv, stage \in {"log", "install"}, lh # << >>
  PROVE  tail \in DOMAIN lh /\ tail \in 1 .. LogSize /\ lh[tail] \in Blocks
<1>1. tail \in DOMAIN lh
  BY DEF IInv, Stages
<1> QED BY <1>1, Types

-----------------------------------------------------------------------------
\* Every action keeps the types.

LEMMA TypeKept ==
  ASSUME IInv, Next
  PROVE  TypeOK'
<1> USE Sizes
<1>0. TypeOK
  BY DEF IInv
<1>1. ASSUME NEW p \in Procs, Call(p) PROVE TypeOK'
  <2>1. calls + 1 \in Content
    BY <1>1, Types DEF Call, Content
  <2>2. MaxOpBlocks \in 0 .. MaxOpBlocks
    OBVIOUS
  <2> QED BY <1>0, <1>1, <2>1, <2>2
          DEF TypeOK, Call, onDisk, buffers, inLog, committer
<1>2. ASSUME NEW p \in Procs, BeginOp(p) PROVE TypeOK'
  <2>1. outstanding' \in Nat
    <3>1. outstanding \in Nat
      BY Types
    <3>2. outstanding' = outstanding \/ outstanding' = outstanding + 1
      BY <1>2 DEF BeginOp
    <3> QED BY <3>1, <3>2
  <2>2. pc' \in [Procs -> {"user", "begin", "asleep", "in call", "log_write", "commit"}]
    BY <1>0, <1>2 DEF TypeOK, BeginOp
  <2> QED BY <1>0, <1>2, <2>1, <2>2 DEF TypeOK, BeginOp, onDisk, buffers, committer
<1>3. ASSUME NEW p \in Procs, NEW b \in Blocks, Modify(p, b) PROVE TypeOK'
  <2>1. left[p] - 1 \in 0 .. MaxOpBlocks /\ call[p] \in Content
    <3>1. left[p] \in 0 .. MaxOpBlocks /\ call[p] \in Content
      BY Types
    <3>2. left[p] > 0
      BY <1>3 DEF Modify
    <3> QED BY <3>1, <3>2
  <2>2. panicked' \in BOOLEAN
    BY <1>3 DEF Modify
  <2> QED BY <1>0, <1>3, <2>1, <2>2 DEF TypeOK, Modify, onDisk, inLog, committer
<1>4. ASSUME NEW p \in Procs, LogWrite(p) PROVE TypeOK'
  <2>1. block[p] \in Blocks
    BY <1>4 DEF IInv, Locks, LogWrite
  <2>2. lh' \in Seq(Blocks) /\ (tail = 1 \/ tail \in DOMAIN lh')
    <3>1. lh' \in Seq(Blocks) /\ (lh' = lh \/ lh' = Append(lh, block[p]))
      <4>1. lh \in Seq(Blocks)
        BY Types
      <4>2. lh' = lh \/ lh' = Append(lh, block[p])
        BY <1>4 DEF LogWrite
      <4> QED BY <2>1, <4>1, <4>2
    <3>2. DOMAIN lh \subseteq DOMAIN lh'
      BY <2>1, <3>1, Types
    <3> QED BY <1>0, <1>4, <3>1, <3>2 DEF TypeOK, LogWrite, committer
  <2>3. block' \in [Procs -> Blocks \cup {NoBlock}] /\ dirty' \subseteq Blocks
    BY <1>0, <1>4, <2>1 DEF TypeOK, LogWrite
  <2> QED BY <1>0, <1>4, <2>2, <2>3 DEF TypeOK, LogWrite, onDisk, committer
<1>5. ASSUME NEW p \in Procs, EndOp(p) PROVE TypeOK'
  <2>1. outstanding - 1 \in Nat /\ committing = FALSE
    <3>1. outstanding > 0 /\ ~committing
      BY <1>5, CallCounts DEF EndOp, Runs
    <3>2. outstanding \in Nat /\ committing \in BOOLEAN
      BY <1>0 DEF TypeOK
    <3>3. committing = FALSE
      BY <3>1, <3>2
    <3>4. outstanding - 1 \in Nat
      BY <3>1, <3>2
    <3> QED BY <3>3, <3>4
  <2>2. pc' \in [Procs -> {"user", "begin", "asleep", "in call", "log_write", "commit"}]
    BY <1>0, <1>5 DEF TypeOK, EndOp, Woken
  <2>3. 0 \in 0 .. MaxOpBlocks
    OBVIOUS
  <2>4. stage' \in {"none", "log", "head", "install", "erase", "done"}
    BY <1>0, <1>5 DEF TypeOK, EndOp
  <2>5. tail' \in Nat /\ (tail' = 1 \/ tail' \in DOMAIN lh')
    BY <1>0, <1>5 DEF TypeOK, EndOp
  <2>6. call' \in [Procs -> Content] /\ left' \in [Procs -> 0 .. MaxOpBlocks]
    BY <1>0, <1>5, <2>3 DEF TypeOK, EndOp
  <2>7. outstanding' \in Nat /\ committing' \in BOOLEAN /\ panicked' \in BOOLEAN
    BY <1>0, <1>5, <2>1 DEF TypeOK, EndOp
  <2> QED BY <1>0, <1>5, <2>2, <2>4, <2>5, <2>6, <2>7 DEF TypeOK, EndOp, onDisk, buffers
<1>6. ASSUME NEW p \in Procs, Done(p) PROVE TypeOK'
  <2>1. pc' \in [Procs -> {"user", "begin", "asleep", "in call", "log_write", "commit"}]
    BY <1>0, <1>6 DEF TypeOK, Done, Woken
  <2> QED BY <1>0, <1>6, <2>1 DEF TypeOK, Done, onDisk, buffers
<1>7. ASSUME NEW b \in Blocks, Recycle(b) PROVE TypeOK'
  BY <1>0, <1>7, RecycleChangesNothing
     DEF TypeOK, vars, onDisk, buffers, inLog, committer, process
<1>8. ASSUME NEW next \in {"head", "erase"}, Advance(next), lh' = lh
      PROVE  /\ stage' \in {"none", "log", "head", "install", "erase", "done"}
             /\ tail' \in Nat /\ (tail' = 1 \/ tail' \in DOMAIN lh')
  <2>1. tail < Len(lh) => tail + 1 \in DOMAIN lh
    BY Types
  <2>2. tail \in Nat /\ (tail = 1 \/ tail \in DOMAIN lh)
        /\ stage \in {"none", "log", "head", "install", "erase", "done"}
    BY <1>0 DEF TypeOK
  <2>3. tail' \in Nat /\ (tail' = 1 \/ tail' \in DOMAIN lh')
    BY <1>8, <2>1, <2>2 DEF Advance
  <2> QED BY <1>8, <2>2, <2>3 DEF Advance
<1>9. CASE WriteLog
  <2>1. tail \in DOMAIN lh /\ lh[tail] \in Blocks
    BY <1>9, AtTail DEF WriteLog, IInv, Stages
  <2>2. diskLog' \in [1 .. LogSize -> Content]
    BY <1>0, <1>9, <2>1 DEF TypeOK, WriteLog
  <2> QED BY <1>0, <1>8, <1>9, <2>2 DEF TypeOK, WriteLog, buffers, inLog, process
<1>10. CASE WriteHead
  BY <1>0, <1>10 DEF TypeOK, WriteHead, buffers, inLog, process
<1>11. CASE Install
  <2>1. ASSUME lh # << >>
        PROVE  tail \in DOMAIN lh /\ lh[tail] \in Blocks /\ diskLog[tail] \in Content
    BY <1>0, <1>11, <2>1, AtTail DEF Install, TypeOK
  <2>2. disk' \in [Blocks -> Content] /\ cache' \in [Blocks -> Content] /\ dirty' \subseteq Blocks
    BY <1>0, <1>11, <2>1 DEF TypeOK, Install, buffers
  <2> QED BY <1>0, <1>8, <1>11, <2>2 DEF TypeOK, Install, inLog, process
<1>12. CASE Erase
  <2>1. tail = 1
    BY <1>12 DEF Erase, IInv, Stages
  <2>2. lh' \in Seq(Blocks) /\ diskHead' \in Seq(Blocks)
    BY <1>12 DEF Erase
  <2> QED BY <1>0, <1>12, <2>1, <2>2 DEF TypeOK, Erase, buffers, process
<1>13. CASE Restart
  <2>1. stops' \in 0 .. MaxStops
    BY <1>13, Types DEF Restart
  <2>2. pc' \in [Procs -> {"user", "begin", "asleep", "in call", "log_write", "commit"}]
    BY <1>13 DEF Restart
  <2>3. 0 \in 0 .. MaxOpBlocks
    OBVIOUS
  <2>4. call' \in [Procs -> Content] /\ left' \in [Procs -> 0 .. MaxOpBlocks]
    BY <1>13, <2>3 DEF Restart
  <2>5. disk' \in [Blocks -> Content] /\ cache' \in [Blocks -> Content] /\ dirty' \subseteq Blocks
    BY <1>0, <1>13 DEF Restart, TypeOK, onDisk
  <2> QED BY <1>0, <1>13, <2>1, <2>2, <2>4, <2>5 DEF TypeOK, Restart, onDisk
<1>14. CASE Finished
  BY <1>0, <1>14 DEF TypeOK, Finished, vars, onDisk, buffers, inLog, committer, process
<1> QED BY <1>1, <1>2, <1>3, <1>4, <1>5, <1>6, <1>7, <1>9, <1>10, <1>11, <1>12, <1>13, <1>14
        DEF Next, Step, Commits
-----------------------------------------------------------------------------
\* Every action keeps the count of the calls in progress.

LEMMA CountedKept ==
  ASSUME IInv, Next
  PROVE  Counted'
<1>0. /\ IsFiniteSet(InCall) /\ Cardinality(InCall) = outstanding /\ outstanding \in Nat
      /\ pc \in [Procs -> {"user", "begin", "asleep", "in call", "log_write", "commit"}]
  BY DEF IInv, Counted, TypeOK
<1>1. ASSUME InCall' = InCall, outstanding' = outstanding PROVE Counted'
  BY <1>0, <1>1 DEF Counted
<1>2. ASSUME NEW p \in Procs, Call(p) PROVE Counted'
  <2>1. InCall' = InCall
    BY <1>0, <1>2 DEF Call, InCall
  <2> QED BY <1>1, <1>2, <2>1 DEF Call, inLog
<1>3. ASSUME NEW p \in Procs, BeginOp(p) PROVE Counted'
  <2>1. CASE committing \/ ~Room
    <3>1. InCall' = InCall
      BY <1>0, <1>3, <2>1 DEF BeginOp, InCall
    <3> QED BY <1>1, <1>3, <2>1, <3>1 DEF BeginOp
  <2>2. CASE ~(committing \/ ~Room)
    <3>1. p \notin InCall
      BY <1>3 DEF BeginOp, InCall
    <3>2. InCall' = InCall \cup {p}
      BY <1>0, <1>3, <2>2 DEF BeginOp, InCall
    <3>3. IsFiniteSet(InCall') /\ Cardinality(InCall') = Cardinality(InCall) + 1
      BY <1>0, <3>1, <3>2, FS_AddElement
    <3>4. outstanding' = outstanding + 1
      BY <1>3, <2>2 DEF BeginOp
    <3> QED BY <1>0, <3>3, <3>4 DEF Counted
  <2> QED BY <2>1, <2>2
<1>4. ASSUME NEW p \in Procs, NEW b \in Blocks, Modify(p, b) PROVE Counted'
  <2>1. InCall' = InCall
    BY <1>0, <1>4 DEF Modify, InCall
  <2> QED BY <1>1, <1>4, <2>1 DEF Modify, inLog
<1>5. ASSUME NEW p \in Procs, LogWrite(p) PROVE Counted'
  <2>1. InCall' = InCall
    BY <1>0, <1>5 DEF LogWrite, InCall
  <2> QED BY <1>1, <1>5, <2>1 DEF LogWrite
<1>6. ASSUME NEW p \in Procs, EndOp(p) PROVE Counted'
  <2>1. p \in InCall
    BY <1>6 DEF EndOp, InCall
  <2>2. InCall' = InCall \ {p}
    <3>1. CASE outstanding = 1
      BY <1>0, <1>6, <3>1 DEF EndOp, InCall
    <3>2. CASE outstanding # 1
      BY <1>0, <1>6, <3>2 DEF EndOp, InCall, Woken
    <3> QED BY <3>1, <3>2
  <2>3. IsFiniteSet(InCall') /\ Cardinality(InCall') = Cardinality(InCall) - 1
    BY <1>0, <2>1, <2>2, FS_RemoveElement
  <2>4. outstanding' = outstanding - 1
    BY <1>6 DEF EndOp
  <2> QED BY <1>0, <2>3, <2>4 DEF Counted
<1>7. ASSUME NEW p \in Procs, Done(p) PROVE Counted'
  <2>1. InCall' = InCall
    BY <1>0, <1>7 DEF Done, InCall, Woken
  <2> QED BY <1>1, <1>7, <2>1 DEF Done
<1>8. ASSUME UNCHANGED <<process, outstanding>> PROVE Counted'
  BY <1>1, <1>8 DEF InCall, process
<1>9. ASSUME NEW b \in Blocks, Recycle(b) PROVE Counted'
  BY <1>8, <1>9 DEF Recycle, inLog
<1>10. CASE Commits
  BY <1>8, <1>10 DEF Commits, WriteLog, WriteHead, Install, Erase, inLog
<1>11. CASE Restart
  <2>1. InCall' = {} /\ outstanding' = 0
    BY <1>11 DEF Restart, InCall
  <2> QED BY <2>1, FS_EmptySet DEF Counted
<1>12. CASE Finished
  BY <1>8, <1>12 DEF Finished, vars, inLog
<1> QED BY <1>2, <1>3, <1>4, <1>5, <1>6, <1>7, <1>9, <1>10, <1>11, <1>12 DEF Next, Step

-----------------------------------------------------------------------------
\* Every action keeps the blocks locked where they should be.

LEMMA LocksKept ==
  ASSUME IInv, Next
  PROVE  Locks'
<1>0. /\ Locks
      /\ pc \in [Procs -> {"user", "begin", "asleep", "in call", "log_write", "commit"}]
      /\ block \in [Procs -> Blocks \cup {NoBlock}] /\ left \in [Procs -> 0 .. MaxOpBlocks]
  BY DEF IInv, TypeOK
<1>1. ASSUME NEW p \in Procs, Call(p) PROVE Locks'
  BY <1>0, <1>1 DEF Call, Locks
<1>2. ASSUME NEW p \in Procs, BeginOp(p) PROVE Locks'
  BY <1>0, <1>2 DEF BeginOp, Locks
<1>3. ASSUME NEW p \in Procs, NEW b \in Blocks, Modify(p, b) PROVE Locks'
  <2>1. left[p] - 1 < MaxOpBlocks
    <3>1. left[p] \in 0 .. MaxOpBlocks
      BY Types
    <3> QED BY <3>1, Sizes
  <2> QED BY <1>0, <1>3, <2>1 DEF Modify, Locks
<1>4. ASSUME NEW p \in Procs, LogWrite(p) PROVE Locks'
  BY <1>0, <1>4, Sizes DEF LogWrite, Locks
<1>5. ASSUME NEW p \in Procs, EndOp(p) PROVE Locks'
  <2>1. CASE outstanding = 1
    BY <1>0, <1>5, <2>1 DEF EndOp, Locks
  <2>2. CASE outstanding # 1
    BY <1>0, <1>5, <2>2 DEF EndOp, Locks, Woken
  <2> QED BY <2>1, <2>2
<1>6. ASSUME NEW p \in Procs, Done(p) PROVE Locks'
  BY <1>0, <1>6 DEF Done, Locks, Woken
<1>7. ASSUME UNCHANGED process PROVE Locks'
  BY <1>0, <1>7 DEF Locks, process
<1>8. ASSUME NEW b \in Blocks, Recycle(b) PROVE Locks'
  BY <1>7, <1>8 DEF Recycle
<1>9. CASE Commits
  BY <1>7, <1>9 DEF Commits, WriteLog, WriteHead, Install, Erase
<1>10. CASE Restart
  BY <1>10, Sizes DEF Restart, Locks
<1>11. CASE Finished
  BY <1>7, <1>11 DEF Finished, vars
<1> QED BY <1>1, <1>2, <1>3, <1>4, <1>5, <1>6, <1>8, <1>9, <1>10, <1>11 DEF Next, Step
-----------------------------------------------------------------------------
\* Every action keeps the reservation of begin_op.

LEMMA ReservedKept ==
  ASSUME IInv, Next
  PROVE  Reserved'
<1> USE Sizes
<1>0. /\ IsFiniteSet(MayLog) /\ Cardinality(MayLog) \in Nat /\ Len(lh) \in Nat
      /\ Len(lh) + Cardinality(MayLog) <= LogSize
  BY MayLogFinite DEF IInv, Reserved
<1>1. ASSUME MayLog' \subseteq MayLog, Len(lh') \in Nat, Len(lh') <= Len(lh) PROVE Reserved'
  <2>1. Cardinality(MayLog') \in Nat /\ Cardinality(MayLog') <= Cardinality(MayLog)
    BY <1>0, <1>1, FS_Subset, FS_CardinalityType
  <2> QED BY <1>0, <1>1, <2>1 DEF Reserved
<1>2. ASSUME MayLog' \subseteq MayLog, lh' = lh PROVE Reserved'
  BY <1>0, <1>1, <1>2
<1>3. /\ pc \in [Procs -> {"user", "begin", "asleep", "in call", "log_write", "commit"}]
      /\ left \in [Procs -> 0 .. MaxOpBlocks]
  BY DEF IInv, TypeOK
<1>4. ASSUME NEW p \in Procs, Call(p) PROVE Reserved'
  <2>1. \A q \in Procs : q # p => pc'[q] = pc[q] /\ left'[q] = left[q]
    BY <1>3, <1>4 DEF Call
  <2>2. pc'[p] = "begin"
    BY <1>3, <1>4 DEF Call
  <2>3. MayLog' \subseteq MayLog
    BY <2>1, <2>2 DEF MayLog
  <2> QED BY <1>2, <1>4, <2>3 DEF Call, inLog
<1>5. ASSUME NEW p \in Procs, BeginOp(p) PROVE Reserved'
  <2>1. lh' = lh
    BY <1>5 DEF BeginOp
  <2>2. CASE committing \/ ~Room
    <3>1. \A q \in Procs : (q # p => pc'[q] = pc[q]) /\ left'[q] = left[q]
      BY <1>3, <1>5, <2>2 DEF BeginOp
    <3>2. pc'[p] = "asleep"
      BY <1>3, <1>5, <2>2 DEF BeginOp
    <3>3. MayLog' \subseteq MayLog
      BY <3>1, <3>2 DEF MayLog
    <3> QED BY <1>2, <2>1, <3>3
  <2>3. CASE ~(committing \/ ~Room)
    <3> DEFINE All == InCall' \X (1 .. MaxOpBlocks)
    <3>1. /\ IsFiniteSet(InCall') /\ Cardinality(InCall') = outstanding + 1
          /\ outstanding + 1 \in Nat
      <4>1. IsFiniteSet(InCall') /\ Cardinality(InCall') = outstanding'
        BY CountedKept DEF Counted
      <4>2. outstanding' = outstanding + 1
        BY <1>5, <2>3 DEF BeginOp
      <4>3. outstanding \in Nat
        BY Types
      <4> QED BY <4>1, <4>2, <4>3
    <3>2. /\ IsFiniteSet(1 .. MaxOpBlocks) /\ Cardinality(1 .. MaxOpBlocks) = MaxOpBlocks
      BY FS_Interval, 1 \in Int
    <3>3. IsFiniteSet(All) /\ Cardinality(All) = (outstanding + 1) * MaxOpBlocks
      BY <3>1, <3>2, FS_Product
    <3>4. MayLog' \subseteq All
      BY DEF MayLog, InCall
    <3>5. Cardinality(MayLog') \in Nat /\ Cardinality(MayLog') <= Cardinality(All)
      BY <3>3, <3>4, FS_Subset, FS_CardinalityType
    <3>6. Len(lh) + (outstanding + 1) * MaxOpBlocks <= LogSize
      BY <2>3 DEF Room
    <3>7. (outstanding + 1) * MaxOpBlocks \in Nat
      BY <3>1
    <3> HIDE DEF All
    <3> QED BY <1>0, <2>1, <3>3, <3>5, <3>6, <3>7 DEF Reserved
  <2> QED BY <2>2, <2>3
<1>6. ASSUME NEW p \in Procs, NEW b \in Blocks, Modify(p, b) PROVE Reserved'
  <2>1. \A q \in Procs : q # p => pc'[q] = pc[q] /\ left'[q] = left[q]
    BY <1>3, <1>6 DEF Modify
  <2>2. pc[p] = "in call" /\ pc'[p] = "log_write" /\ left'[p] + 1 = left[p]
    <3>1. left[p] \in 0 .. MaxOpBlocks
      BY Types
    <3>2. left'[p] = left[p] - 1
      BY <1>3, <1>6 DEF Modify
    <3>3. pc[p] = "in call" /\ pc'[p] = "log_write"
      BY <1>3, <1>6 DEF Modify
    <3>4. left'[p] + 1 = left[p]
      BY <3>1, <3>2
    <3> QED BY <3>3, <3>4
  <2>3. MayLog' \subseteq MayLog
    BY <2>1, <2>2 DEF MayLog
  <2> QED BY <1>2, <1>6, <2>3 DEF Modify, inLog
<1>7. ASSUME NEW p \in Procs, LogWrite(p) PROVE Reserved'
  <2> DEFINE w == <<p, left[p] + 1>>
  <2>1. /\ pc[p] = "log_write" /\ left[p] + 1 \in 1 .. MaxOpBlocks /\ block[p] \in Blocks
    <3>1. left[p] \in 0 .. MaxOpBlocks
      BY Types
    <3>2. pc[p] = "log_write" /\ left[p] < MaxOpBlocks /\ block[p] \in Blocks
      BY <1>7 DEF LogWrite, IInv, Locks
    <3> QED BY <3>1, <3>2
  <2>2. w \in MayLog
    <3>1. w \in Procs \X (1 .. MaxOpBlocks) /\ w[1] = p /\ w[2] = left[p] + 1
      BY <2>1
    <3>2. w[2] <= left[w[1]] + 1
      BY <2>1, <3>1
    <3> HIDE DEF w
    <3> QED BY <2>1, <3>1, <3>2 DEF MayLog
  <2>3. \A q \in Procs : (q # p => pc'[q] = pc[q]) /\ left'[q] = left[q]
    BY <1>3, <1>7 DEF LogWrite
  <2>4. pc'[p] = "in call"
    BY <1>3, <1>7 DEF LogWrite
  <2>5. MayLog' \subseteq MayLog \ {w}
    <3> SUFFICES ASSUME NEW v \in MayLog' PROVE v \in MayLog /\ v # w
      OBVIOUS
    <3>1. v \in Procs \X (1 .. MaxOpBlocks)
      BY DEF MayLog
    <3>2. CASE v[1] = p
      <4>1. v[2] <= left[p]
        BY <2>3, <2>4, <3>2 DEF MayLog
      <4>2. left[p] \in 0 .. MaxOpBlocks /\ v[2] \in 1 .. MaxOpBlocks
        BY <3>1, Types
      <4>3. v[2] <= left[p] + 1 /\ v[2] # left[p] + 1
        BY <4>1, <4>2
      <4>4. v \in MayLog
        BY <2>1, <3>1, <3>2, <4>3 DEF MayLog
      <4>5. w[2] = left[p] + 1
        OBVIOUS
      <4> HIDE DEF w
      <4> QED BY <4>3, <4>4, <4>5
    <3>3. CASE v[1] # p
      <4>1. v[1] \in Procs /\ pc'[v[1]] = pc[v[1]] /\ left'[v[1]] = left[v[1]]
        BY <2>3, <3>1, <3>3
      <4>2. v \in MayLog
        BY <3>1, <4>1 DEF MayLog
      <4>3. w[1] = p
        OBVIOUS
      <4> HIDE DEF w
      <4> QED BY <3>3, <4>2, <4>3
    <3> QED BY <3>2, <3>3
  <2>6. IsFiniteSet(MayLog \ {w}) /\ Cardinality(MayLog \ {w}) = Cardinality(MayLog) - 1
    BY <1>0, <2>2, FS_RemoveElement
  <2>7. Cardinality(MayLog') \in Nat /\ Cardinality(MayLog') <= Cardinality(MayLog) - 1
    BY <2>5, <2>6, FS_Subset, FS_CardinalityType
  <2>8. Len(lh') \in Nat /\ Len(lh') <= Len(lh) + 1
    <3>1. lh \in Seq(Blocks) /\ Len(lh) \in Nat
      BY Types
    <3>2. lh' = lh \/ lh' = Append(lh, block[p])
      BY <1>7 DEF LogWrite
    <3> QED BY <2>1, <3>1, <3>2
  <2> HIDE DEF w
  <2> QED BY <1>0, <2>7, <2>8 DEF Reserved
<1>8. ASSUME NEW p \in Procs, EndOp(p) PROVE Reserved'
  <2>1. \A q \in Procs : q # p => left'[q] = left[q] /\ (pc'[q] = pc[q] \/ pc'[q] = "begin")
    <3>1. CASE outstanding = 1
      BY <1>3, <1>8, <3>1 DEF EndOp
    <3>2. CASE outstanding # 1
      BY <1>3, <1>8, <3>2 DEF EndOp, Woken
    <3> QED BY <3>1, <3>2
  <2>2. pc'[p] \in {"commit", "user"}
    BY <1>3, <1>8 DEF EndOp
  <2>3. MayLog' \subseteq MayLog
    BY <2>1, <2>2 DEF MayLog
  <2> QED BY <1>2, <1>8, <2>3 DEF EndOp
<1>9. ASSUME NEW p \in Procs, Done(p) PROVE Reserved'
  <2>1. \A q \in Procs : left'[q] = left[q] /\ (pc'[q] = pc[q] \/ pc'[q] \in {"user", "begin"})
    BY <1>3, <1>9 DEF Done, Woken
  <2>2. MayLog' \subseteq MayLog
    BY <2>1 DEF MayLog
  <2> QED BY <1>2, <1>9, <2>2 DEF Done
<1>10. ASSUME UNCHANGED process PROVE MayLog' \subseteq MayLog
  BY <1>10 DEF MayLog, process
<1>11. ASSUME NEW b \in Blocks, Recycle(b) PROVE Reserved'
  BY <1>2, <1>10, <1>11 DEF Recycle, inLog
<1>12. CASE WriteLog \/ WriteHead \/ Install
  BY <1>2, <1>10, <1>12 DEF WriteLog, WriteHead, Install, inLog
<1>13. CASE Erase
  <2>1. Len(lh') = 0
    BY <1>13 DEF Erase
  <2> QED BY <1>0, <1>1, <1>10, <1>13, <2>1 DEF Erase
<1>14. CASE Restart
  <2>1. \A q \in Procs : pc'[q] = "user"
    BY <1>14 DEF Restart
  <2>2. MayLog' \subseteq MayLog
    BY <2>1 DEF MayLog
  <2>3. lh' = lh \/ lh' = << >>
    BY <1>14 DEF Restart, IInv, Stages
  <2>4. Len(lh') \in Nat /\ Len(lh') <= Len(lh)
    BY <1>0, <2>3
  <2> QED BY <1>1, <2>2, <2>4
<1>15. CASE Finished
  BY <1>2, <1>10, <1>15 DEF Finished, vars, inLog
<1> QED BY <1>4, <1>5, <1>6, <1>7, <1>8, <1>9, <1>11, <1>12, <1>13, <1>14, <1>15
        DEF Next, Step, Commits
-----------------------------------------------------------------------------
\* Every action keeps the stages of commit and recovery in step with the log.

LEMMA StagesKept ==
  ASSUME IInv, Next
  PROVE  Stages'
<1>0. Stages /\ committing \in BOOLEAN /\ recovering \in BOOLEAN
  BY DEF IInv, TypeOK
<1>1. ASSUME NEW p \in Procs, Call(p) PROVE Stages'
  BY <1>0, <1>1 DEF Call, Stages, onDisk, buffers, inLog, committer
<1>2. ASSUME NEW p \in Procs, BeginOp(p) PROVE Stages'
  <2>1. CASE committing \/ ~Room
    BY <1>0, <1>2, <2>1 DEF BeginOp, Stages, onDisk, buffers, committer
  <2>2. CASE ~(committing \/ ~Room)
    <3>1. ~recovering /\ ~committing /\ stage = "none"
      BY <1>0, <1>2, <2>2 DEF BeginOp, Runs, Stages
    <3>2. outstanding' # 0
      <4>1. outstanding \in Nat /\ outstanding' = outstanding + 1
        BY <1>2, <2>2, Types DEF BeginOp
      <4> QED BY <4>1
    <3> QED BY <1>0, <1>2, <3>1, <3>2 DEF BeginOp, Stages, onDisk, buffers, committer
  <2> QED BY <2>1, <2>2
<1>3. ASSUME NEW p \in Procs, pc[p] \in {"in call", "log_write"}, Runs
      PROVE  ~recovering /\ ~committing /\ stage = "none" /\ outstanding # 0
  <2>1. ~recovering
    BY <1>3 DEF Runs
  <2>2. outstanding > 0 /\ stage = "none" /\ (~recovering => ~committing)
    BY <1>3, CallCounts
  <2>3. outstanding # 0
    BY <2>2
  <2> QED BY <2>1, <2>2, <2>3, Zenon
<1>4. ASSUME NEW p \in Procs, NEW b \in Blocks, Modify(p, b) PROVE Stages'
  BY <1>0, <1>3, <1>4 DEF Modify, Stages, onDisk, inLog, committer
<1>5. ASSUME NEW p \in Procs, LogWrite(p) PROVE Stages'
  BY <1>0, <1>3, <1>5 DEF LogWrite, Stages, onDisk, committer
<1>6. ASSUME NEW p \in Procs, EndOp(p) PROVE Stages'
  <2>1. ~recovering /\ ~committing /\ stage = "none" /\ tail = 1 /\ diskHead = << >>
    BY <1>0, <1>3, <1>6 DEF EndOp, Stages
  <2>2. CASE outstanding = 1
    <3>1. outstanding' = 0
      <4>1. outstanding' = outstanding - 1
        BY <1>6 DEF EndOp
      <4> QED BY <2>2, <4>1
    <3>2. lh # << >> => 1 \in DOMAIN lh
      BY Types
    <3> QED BY <1>0, <1>6, <2>1, <2>2, <3>1, <3>2 DEF EndOp, Stages, onDisk, buffers
  <2>3. CASE outstanding # 1
    <3>1. outstanding' # 0
      <4>1. outstanding \in Nat /\ outstanding' = outstanding - 1
        BY <1>6, Types DEF EndOp
      <4> QED BY <2>3, <4>1
    <3> QED BY <1>0, <1>6, <2>1, <2>3, <3>1 DEF EndOp, Stages, onDisk, buffers
  <2> QED BY <2>2, <2>3
<1>7. ASSUME NEW p \in Procs, Done(p) PROVE Stages'
  BY <1>0, <1>7 DEF Done, Stages, onDisk, buffers, Runs
<1>8. ASSUME NEW b \in Blocks, Recycle(b) PROVE Stages'
  BY <1>0, <1>8, RecycleChangesNothing
     DEF vars, onDisk, buffers, inLog, committer, Stages
<1>9. ASSUME NEW next \in {"head", "erase"}, Advance(next), stage \in {"log", "install"}
      PROVE  \/ stage' = stage /\ tail' \in DOMAIN lh
             \/ stage' = next /\ tail' = 1
  <2>1. tail \in Nat /\ Len(lh) \in Nat /\ DOMAIN lh = 1 .. Len(lh)
    BY Types
  <2>2. tail < Len(lh) => tail + 1 \in DOMAIN lh
    BY <2>1
  <2>3. CASE tail < Len(lh)
    <3>1. tail' = tail + 1 /\ stage' = stage
      BY <1>9, <2>3 DEF Advance
    <3>2. tail' \in DOMAIN lh
      BY <2>2, <2>3, <3>1
    <3> QED BY <3>1, <3>2, Zenon
  <2>4. CASE ~(tail < Len(lh))
    BY <1>9, <2>4 DEF Advance
  <2> QED BY <2>3, <2>4
<1>10. CASE WriteLog
  BY <1>0, <1>9, <1>10 DEF WriteLog, Stages, buffers, inLog
<1>11. CASE WriteHead
  <2>1. lh # << >> => 1 \in DOMAIN lh
    BY Types
  <2> QED BY <1>0, <1>11, <2>1 DEF WriteHead, Stages, buffers, inLog
<1>12. CASE Install
  <2>1. recovering => cache' = disk' /\ dirty' = {}
    BY <1>0, <1>12 DEF Install, Stages, buffers
  <2> QED BY <1>0, <1>9, <1>12, <2>1 DEF Install, Stages, inLog
<1>13. CASE Erase
  BY <1>0, <1>13 DEF Erase, Stages, buffers
<1>14. CASE Restart
  <2>1. lh' # << >> => 1 \in DOMAIN lh'
    <3>1. lh' = lh \/ lh' = << >>
      BY <1>0, <1>14 DEF Restart, Stages
    <3> QED BY <3>1, Types
  <2> QED BY <1>0, <1>14, <2>1 DEF Restart, Stages, onDisk
<1>15. CASE Finished
  BY <1>0, <1>15 DEF Finished, vars, onDisk, buffers, inLog, committer, Stages
<1> QED BY <1>1, <1>2, <1>4, <1>5, <1>6, <1>7, <1>8, <1>10, <1>11, <1>12, <1>13, <1>14, <1>15
        DEF Next, Step, Commits
-----------------------------------------------------------------------------
\* Every action keeps the blocks in the log distinct.

LEMMA AbsorbedKept ==
  ASSUME IInv, Next
  PROVE  Absorbed'
<1>0. Absorbed
  BY DEF IInv
<1>1. ASSUME lh' \in {lh, << >>} PROVE Absorbed'
  BY <1>0, <1>1 DEF Absorbed
<1>2. ASSUME NEW p \in Procs, LogWrite(p) PROVE Absorbed'
  <2>1. CASE block[p] \in Logged
    BY <1>1, <1>2, <2>1 DEF LogWrite
  <2>2. CASE block[p] \notin Logged
    <3> DEFINE n == Len(lh)
    <3>1. lh' = Append(lh, block[p])
      BY <1>2, <2>2 DEF LogWrite
    <3>2. lh \in Seq(Blocks) /\ n \in Nat /\ DOMAIN lh = 1 .. n /\ block[p] \in Blocks
      BY <1>2, Types DEF LogWrite, IInv, Locks
    <3>3. DOMAIN lh' = 1 .. n + 1 /\ lh'[n + 1] = block[p]
          /\ \A i \in 1 .. n : lh'[i] = lh[i]
      BY <3>1, <3>2
    <3>4. \A i \in 1 .. n : lh[i] # block[p]
      BY <2>2, <3>2 DEF Logged
    <3>5. \A i \in 1 .. n + 1 : i \in 1 .. n \/ i = n + 1
      BY <3>2
    <3> HIDE DEF n
    <3>6. ASSUME NEW i \in 1 .. n + 1, NEW j \in 1 .. n + 1, lh'[i] = lh'[j] PROVE i = j
      BY <1>0, <3>2, <3>3, <3>4, <3>5, <3>6 DEF Absorbed
    <3> QED BY <3>3, <3>6 DEF Absorbed
  <2> QED BY <2>1, <2>2
<1>3. CASE Restart
  BY <1>1, <1>3 DEF Restart, IInv, Stages
<1>4. CASE Finished
  BY <1>1, <1>4 DEF Finished, vars, inLog
<1>5. ASSUME NEW p \in Procs,
             Call(p) \/ BeginOp(p) \/ EndOp(p) \/ Done(p) \/ \E b \in Blocks : Modify(p, b)
      PROVE  Absorbed'
  BY <1>1, <1>5 DEF Call, BeginOp, EndOp, Done, Modify, inLog
<1>6. CASE Commits \/ \E b \in Blocks : Recycle(b)
  BY <1>1, <1>6 DEF Commits, WriteLog, WriteHead, Install, Erase, Recycle, inLog
<1> QED BY <1>2, <1>3, <1>4, <1>5, <1>6 DEF Next, Step

-----------------------------------------------------------------------------
\* Every action keeps the cache in step with the disk.

LEMMA CleanKept ==
  ASSUME IInv, Next
  PROVE  Clean'
<1>0. /\ Clean /\ Locks /\ cache \in [Blocks -> Content] /\ disk \in [Blocks -> Content]
      /\ block \in [Procs -> Blocks \cup {NoBlock}]
  BY DEF IInv, TypeOK
<1>1. ASSUME UNCHANGED <<disk, cache, dirty, block>> PROVE Clean'
  BY <1>0, <1>1 DEF Clean
<1>2. ASSUME NEW p \in Procs, Call(p) \/ BeginOp(p) \/ EndOp(p) \/ Done(p) PROVE Clean'
  BY <1>1, <1>2 DEF Call, BeginOp, EndOp, Done, onDisk, buffers
<1>3. ASSUME NEW p \in Procs, NEW b \in Blocks, Modify(p, b) PROVE Clean'
  <2>1. block[p] \notin Blocks
    BY <1>0, <1>3 DEF Modify, Locks
  <2>2. block'[p] = b /\ \A q \in Procs : q # p => block'[q] = block[q]
    BY <1>0, <1>3 DEF Modify
  <2>3. /\ \A d \in Blocks : d # b => cache'[d] = cache[d]
        /\ disk' = disk /\ dirty' = dirty
    BY <1>0, <1>3 DEF Modify, onDisk
  <2> QED BY <1>0, <2>1, <2>2, <2>3 DEF Clean
<1>4. ASSUME NEW p \in Procs, LogWrite(p) PROVE Clean'
  <2>1. \A q \in Procs : q # p => block'[q] = block[q]
    BY <1>0, <1>4 DEF LogWrite
  <2>2. disk' = disk /\ cache' = cache /\ dirty' = dirty \cup {block[p]}
    BY <1>4 DEF LogWrite, onDisk
  <2> QED BY <1>0, <2>1, <2>2 DEF Clean
<1>5. ASSUME NEW b \in Blocks, Recycle(b) PROVE Clean'
  BY <1>1, <1>5, RecycleChangesNothing DEF vars, onDisk, buffers, process
<1>6. CASE WriteLog \/ WriteHead \/ Erase
  BY <1>1, <1>6 DEF WriteLog, WriteHead, Erase, buffers, process
<1>7. CASE Install
  <2>1. CASE lh = << >>
    BY <1>1, <1>7, <2>1 DEF Install, buffers, process
  <2>2. CASE lh # << >>
    <3>1. lh[tail] \in Blocks
      BY <1>7, <2>2, AtTail DEF Install
    <3>2. /\ cache'[lh[tail]] = disk'[lh[tail]] /\ dirty' = dirty \ {lh[tail]}
          /\ \A d \in Blocks : d # lh[tail] => cache'[d] = cache[d] /\ disk'[d] = disk[d]
          /\ block' = block
      BY <1>0, <1>7, <2>2, <3>1 DEF Install, process
    <3> QED BY <1>0, <3>2 DEF Clean
  <2> QED BY <2>1, <2>2
<1>8. CASE Restart
  BY <1>8 DEF Restart, Clean, onDisk
<1>9. CASE Finished
  BY <1>1, <1>9 DEF Finished, vars, onDisk, buffers, process
<1> QED BY <1>2, <1>3, <1>4, <1>5, <1>6, <1>7, <1>8, <1>9 DEF Next, Step, Commits
-----------------------------------------------------------------------------
\* Every action keeps the dirty buffers among the blocks to be installed.

LEMMA PinnedKept ==
  ASSUME IInv, Next
  PROVE  Pinned'
<1>0. Pinned /\ Stages
  BY DEF IInv
<1>1. ASSUME UNCHANGED <<dirty, lh, stage, tail>> PROVE Pinned'
  BY <1>0, <1>1 DEF Pinned, Pending, Logged
<1>2. ASSUME NEW p \in Procs, Call(p) \/ BeginOp(p) \/ \E b \in Blocks : Modify(p, b)
      PROVE  Pinned'
  BY <1>1, <1>2 DEF Call, BeginOp, Modify, buffers, inLog, committer
<1>3. ASSUME NEW p \in Procs, LogWrite(p) PROVE Pinned'
  <2>1. stage = "none" /\ stage' = "none"
    BY <1>3, CallCounts DEF LogWrite, committer
  <2>2. Logged' = Logged \cup {block[p]}
    <3>1. CASE block[p] \in Logged
      BY <1>3, <3>1 DEF LogWrite, Logged
    <3>2. CASE block[p] \notin Logged
      <4>1. lh' = Append(lh, block[p]) /\ lh \in Seq(Blocks) /\ block[p] \in Blocks
        BY <1>3, <3>2, Types DEF LogWrite, IInv, Locks
      <4>2. DOMAIN lh' = DOMAIN lh \cup {Len(lh) + 1} /\ lh'[Len(lh) + 1] = block[p]
            /\ \A i \in DOMAIN lh : lh'[i] = lh[i]
        BY <4>1
      <4> QED BY <4>2 DEF Logged
    <3> QED BY <3>1, <3>2
  <2>3. dirty' = dirty \cup {block[p]}
    BY <1>3 DEF LogWrite
  <2> QED BY <1>0, <2>1, <2>2, <2>3 DEF Pinned, Pending
<1>4. ASSUME NEW p \in Procs, EndOp(p) PROVE Pinned'
  <2>1. stage = "none" /\ dirty' = dirty /\ lh' = lh
    BY <1>4, CallCounts DEF EndOp, buffers
  <2>2. stage' \in {"none", "log"} \/ (stage' = "done" /\ lh = << >>)
    <3>1. CASE outstanding = 1
      <4>1. stage' = IF lh = << >> THEN "done" ELSE "log"
        BY <1>4, <3>1 DEF EndOp
      <4> QED BY <4>1
    <3>2. CASE outstanding # 1
      <4>1. stage' = "none"
        BY <1>4, <2>1, <3>2 DEF EndOp
      <4> QED BY <4>1
    <3> QED BY <3>1, <3>2
  <2>3. dirty \subseteq Logged /\ Logged' = Logged
    BY <1>0, <2>1 DEF Pinned, Pending, Logged
  <2>4. lh = << >> => Logged = {}
    BY DEF Logged
  <2> QED BY <2>1, <2>2, <2>3, <2>4 DEF Pinned, Pending
<1>5. ASSUME NEW p \in Procs, Done(p) PROVE Pinned'
  BY <1>0, <1>5 DEF Done, Pinned, Pending, buffers
<1>6. ASSUME NEW b \in Blocks, Recycle(b) PROVE Pinned'
  BY <1>1, <1>6 DEF Recycle, inLog, committer
<1>7. CASE WriteLog
  <2>1. stage = "log" /\ stage' \in {"log", "head"} /\ dirty' = dirty /\ lh' = lh
    BY <1>7 DEF WriteLog, Advance, buffers, inLog
  <2> QED BY <1>0, <2>1 DEF Pinned, Pending, Logged
<1>8. CASE WriteHead
  <2>1. stage = "head" /\ stage' = "install" /\ dirty' = dirty /\ lh' = lh /\ tail' = 1
    BY <1>0, <1>8 DEF WriteHead, Stages, buffers, inLog
  <2>2. \A i \in DOMAIN lh : i >= 1
    BY Types
  <2> QED BY <1>0, <2>1, <2>2 DEF Pinned, Pending, Logged
<1>9. CASE Install
  <2>1. CASE lh = << >>
    <3>1. dirty = {} /\ dirty' = dirty
      BY <1>0, <1>9, <2>1 DEF Install, Pinned, Pending, buffers
    <3> QED BY <3>1 DEF Pinned
  <2>2. CASE lh # << >>
    <3>1. dirty' = dirty \ {lh[tail]} /\ lh' = lh /\ stage = "install"
      BY <1>9, <2>2 DEF Install, inLog
    <3>2. tail \in DOMAIN lh /\ tail \in Nat /\ Len(lh) \in Nat /\ DOMAIN lh = 1 .. Len(lh)
      BY <1>9, <2>2, AtTail, Types DEF Install
    <3>3. ASSUME NEW d \in dirty' PROVE \E i \in DOMAIN lh : i > tail /\ lh[i] = d
      <4>1. d \in dirty /\ d # lh[tail]
        BY <3>1, <3>3
      <4>2. PICK i \in DOMAIN lh : i >= tail /\ lh[i] = d
        BY <1>0, <3>1, <4>1 DEF Pinned, Pending
      <4>3. i # tail
        BY <4>1, <4>2
      <4>4. i > tail
        BY <3>2, <4>2, <4>3
      <4> QED BY <4>2, <4>4
    <3>4. CASE tail < Len(lh)
      <4>1. stage' = "install" /\ tail' = tail + 1
        BY <1>9, <3>1, <3>4 DEF Install, Advance
      <4>2. \A i \in DOMAIN lh : i > tail => i >= tail'
        BY <3>2, <4>1
      <4> QED BY <3>1, <3>3, <4>1, <4>2 DEF Pinned, Pending
    <3>5. CASE ~(tail < Len(lh))
      <4>1. \A i \in DOMAIN lh : ~(i > tail)
        BY <3>2, <3>5
      <4>2. dirty' = {}
        BY <3>3, <4>1
      <4> QED BY <4>2 DEF Pinned
    <3> QED BY <3>4, <3>5
  <2> QED BY <2>1, <2>2
<1>10. CASE Erase
  <2>1. dirty' = {}
    BY <1>0, <1>10 DEF Erase, Pinned, Pending, buffers
  <2> QED BY <2>1 DEF Pinned
<1>11. CASE Restart
  BY <1>11 DEF Restart, Pinned
<1>12. CASE Finished
  BY <1>1, <1>12 DEF Finished, vars, buffers, inLog, committer
<1> QED BY <1>2, <1>3, <1>4, <1>5, <1>6, <1>7, <1>8, <1>9, <1>10, <1>11, <1>12
        DEF Next, Step, Commits
-----------------------------------------------------------------------------
\* Every action keeps the copies of the log where the stages need them.

LEMMA CopiedKept ==
  ASSUME IInv, Next
  PROVE  Copied'
<1>0. /\ Copied /\ Stages
      /\ cache \in [Blocks -> Content] /\ diskLog \in [1 .. LogSize -> Content]
  BY DEF IInv, TypeOK
<1>1. ASSUME UNCHANGED <<cache, diskLog, lh, stage, tail, recovering>> PROVE Copied'
  BY <1>0, <1>1 DEF Copied
<1>2. ASSUME stage' \in {"none", "done"} PROVE Copied'
  BY <1>2 DEF Copied
<1>3. ASSUME NEW p \in Procs, Call(p) \/ BeginOp(p) PROVE Copied'
  BY <1>1, <1>3 DEF Call, BeginOp, onDisk, buffers, inLog, committer
<1>4. ASSUME NEW p \in Procs, LogWrite(p) \/ \E b \in Blocks : Modify(p, b) PROVE Copied'
  <2>1. pc[p] \in {"in call", "log_write"} /\ stage' = stage
    BY <1>4 DEF LogWrite, Modify, committer
  <2>2. stage = "none"
    BY <2>1, CallCounts
  <2> QED BY <1>2, <2>1, <2>2
<1>5. ASSUME NEW p \in Procs, EndOp(p) PROVE Copied'
  <2>1. stage = "none"
    BY <1>5, CallCounts DEF EndOp
  <2>2. CASE stage' \in {"none", "done"}
    BY <1>2, <2>2
  <2>3. CASE stage' \notin {"none", "done"}
    <3>1. stage' = "log" /\ tail' = 1
      <4>1. CASE outstanding = 1
        BY <1>5, <2>3, <4>1 DEF EndOp
      <4>2. CASE outstanding # 1
        <5>1. stage' = stage
          BY <1>5, <4>2 DEF EndOp
        <5> QED BY <2>1, <2>3, <5>1
      <4> QED BY <4>1, <4>2
    <3>2. lh' = lh /\ \A i \in DOMAIN lh : ~(i < 1)
      <4>1. \A i \in DOMAIN lh : ~(i < 1)
        BY Types
      <4>2. lh' = lh
        BY <1>5 DEF EndOp
      <4> QED BY <4>1, <4>2
    <3> QED BY <3>1, <3>2 DEF Copied
  <2> QED BY <2>2, <2>3
<1>6. ASSUME NEW p \in Procs, Done(p) PROVE Copied'
  BY <1>2, <1>6 DEF Done
<1>7. ASSUME NEW b \in Blocks, Recycle(b) PROVE Copied'
  BY <1>1, <1>7, RecycleChangesNothing DEF vars, onDisk, buffers, inLog, committer
<1>8. CASE WriteLog
  <2>1. /\ tail \in DOMAIN lh /\ tail \in 1 .. LogSize /\ tail \in Nat
        /\ Len(lh) \in Nat /\ DOMAIN lh = 1 .. Len(lh)
    BY <1>0, <1>8, AtTail, Types DEF WriteLog, Stages
  <2>2. /\ diskLog'[tail] = cache[lh[tail]] /\ cache' = cache /\ lh' = lh
        /\ \A i \in 1 .. LogSize : i # tail => diskLog'[i] = diskLog[i]
    BY <1>0, <1>8, <2>1 DEF WriteLog, buffers, inLog
  <2>3. \A i \in DOMAIN lh : i < tail => diskLog[i] = cache[lh[i]]
    BY <1>0, <1>8 DEF WriteLog, Copied
  <2>4. ASSUME NEW i \in DOMAIN lh, i <= tail PROVE diskLog'[i] = cache'[lh'[i]]
    <3>1. i = tail \/ i < tail
      BY <2>1, <2>4
    <3>2. i \in 1 .. LogSize
      BY Types
    <3> QED BY <2>2, <2>3, <3>1, <3>2
  <2>5. CASE tail < Len(lh)
    <3>1. stage' = "log" /\ tail' = tail + 1
      BY <1>8, <2>5 DEF WriteLog, Advance
    <3>2. \A i \in DOMAIN lh : i < tail' => i <= tail
      BY <2>1, <3>1
    <3> QED BY <2>2, <2>4, <3>1, <3>2 DEF Copied
  <2>6. CASE ~(tail < Len(lh))
    <3>1. \A i \in DOMAIN lh : i <= tail
      BY <2>1, <2>6
    <3> QED BY <2>2, <2>4, <3>1 DEF Copied
  <2> QED BY <2>5, <2>6
<1>9. CASE WriteHead
  <2>1. \A i \in DOMAIN lh : diskLog[i] = cache[lh[i]]
    BY <1>0, <1>9 DEF WriteHead, Copied
  <2>2. UNCHANGED <<diskLog, cache, lh>>
    BY <1>9 DEF WriteHead, buffers, inLog
  <2> QED BY <2>1, <2>2 DEF Copied
<1>10. CASE Install
  <2>1. UNCHANGED <<diskLog, lh, recovering>> /\ stage' \in {"install", "erase"}
    BY <1>10 DEF Install, Advance, inLog
  <2>2. ASSUME ~recovering, NEW i \in DOMAIN lh PROVE diskLog[i] = cache'[lh[i]]
    <3>1. diskLog[i] = cache[lh[i]] /\ lh # << >> /\ lh[i] \in Blocks
      BY <1>0, <1>10, <2>2, Types DEF Install, Copied
    <3>2. cache' = [cache EXCEPT ![lh[tail]] = diskLog[tail]]
      BY <1>10, <3>1 DEF Install
    <3>3. tail \in DOMAIN lh
      BY <1>10, <3>1, AtTail DEF Install
    <3>4. CASE lh[i] = lh[tail]
      <4>1. i = tail
        BY <3>3, <3>4 DEF IInv, Absorbed
      <4> QED BY <1>0, <3>1, <3>2, <3>4, <4>1
    <3>5. CASE lh[i] # lh[tail]
      BY <1>0, <3>1, <3>2, <3>5
    <3> QED BY <3>4, <3>5
  <2> QED BY <2>1, <2>2 DEF Copied
<1>11. CASE Erase
  <2>1. stage' \in {"none", "done"}
    BY <1>11 DEF Erase
  <2> QED BY <1>2, <2>1
<1>12. CASE Restart
  BY <1>12 DEF Restart, Copied
<1>13. CASE Finished
  BY <1>1, <1>13 DEF Finished, vars, onDisk, buffers, inLog, committer
<1> QED BY <1>3, <1>4, <1>5, <1>6, <1>7, <1>8, <1>9, <1>10, <1>11, <1>12, <1>13
        DEF Next, Step, Commits

LEMMA InstalledKept ==
  ASSUME IInv, Next
  PROVE  Installed'
<1>0. Installed /\ Stages /\ disk \in [Blocks -> Content]
  BY DEF IInv, TypeOK
<1>1. ASSUME UNCHANGED <<disk, diskLog, lh, stage, tail>> PROVE Installed'
  BY <1>0, <1>1 DEF Installed
<1>2. ASSUME stage' \notin {"install", "erase"} PROVE Installed'
  BY <1>2 DEF Installed
<1>3. ASSUME NEW p \in Procs,
             Call(p) \/ BeginOp(p) \/ \E b \in Blocks : Modify(p, b)
      PROVE  Installed'
  BY <1>1, <1>3 DEF Call, BeginOp, Modify, onDisk, inLog, committer
<1>4. ASSUME NEW p \in Procs, LogWrite(p) \/ EndOp(p) PROVE Installed'
  <2>1. stage = "none"
    BY <1>4, CallCounts DEF LogWrite, EndOp
  <2>2. stage' \in {stage, "done", "log"}
    BY <1>4 DEF LogWrite, EndOp, committer
  <2> QED BY <1>2, <2>1, <2>2
<1>5. ASSUME NEW p \in Procs, Done(p) PROVE Installed'
  BY <1>2, <1>5 DEF Done
<1>6. ASSUME NEW b \in Blocks, Recycle(b) PROVE Installed'
  BY <1>1, <1>6 DEF Recycle, onDisk, inLog, committer
<1>7. CASE WriteLog
  <2>1. stage' \in {"log", "head"}
    BY <1>7 DEF WriteLog, Advance
  <2> QED BY <1>2, <2>1
<1>8. ASSUME stage' = "install", tail' = 1, lh' = lh \/ lh' = << >> PROVE Installed'
  <2>1. \A i \in DOMAIN lh' : ~(i < 1)
    BY <1>8, Types
  <2> QED BY <1>8, <2>1 DEF Installed
<1>9. CASE WriteHead
  BY <1>0, <1>8, <1>9 DEF WriteHead, Stages, inLog
<1>10. CASE Install
  <2>1. CASE lh = << >>
    BY <1>10, <2>1 DEF Install, Installed, inLog
  <2>2. CASE lh # << >>
    <3>1. /\ tail \in DOMAIN lh /\ lh[tail] \in Blocks /\ tail \in Nat
          /\ Len(lh) \in Nat /\ DOMAIN lh = 1 .. Len(lh)
      BY <1>10, <2>2, AtTail, Types DEF Install
    <3>2. UNCHANGED <<diskLog, lh>> /\ disk' = [disk EXCEPT ![lh[tail]] = diskLog[tail]]
      BY <1>10, <2>2 DEF Install, inLog
    <3>3. \A i \in DOMAIN lh : i < tail => disk[lh[i]] = diskLog[i]
      BY <1>0, <1>10 DEF Install, Installed
    <3>4. ASSUME NEW i \in DOMAIN lh, i <= tail PROVE disk'[lh'[i]] = diskLog'[i]
      <4>1. CASE i = tail
        BY <1>0, <3>1, <3>2, <4>1
      <4>2. CASE i # tail
        <5>1. lh[i] # lh[tail] /\ lh[i] \in Blocks
          BY <3>1, <4>2, Types DEF IInv, Absorbed
        <5>2. i < tail
          BY <3>1, <3>4, <4>2
        <5> QED BY <1>0, <3>2, <3>3, <5>1, <5>2
      <4> QED BY <4>1, <4>2
    <3>5. CASE tail < Len(lh)
      <4>1. stage' = "install" /\ tail' = tail + 1
        BY <1>10, <3>5 DEF Install, Advance
      <4>2. \A i \in DOMAIN lh : i < tail' => i <= tail
        BY <3>1, <4>1
      <4> QED BY <3>2, <3>4, <4>1, <4>2 DEF Installed
    <3>6. CASE ~(tail < Len(lh))
      <4>1. \A i \in DOMAIN lh : i <= tail
        BY <3>1, <3>6
      <4> QED BY <3>2, <3>4, <4>1 DEF Installed
    <3> QED BY <3>5, <3>6
  <2> QED BY <2>1, <2>2
<1>11. CASE Erase
  <2>1. stage' \in {"none", "done"}
    BY <1>11 DEF Erase
  <2> QED BY <1>2, <2>1
<1>12. CASE Restart
  <2>1. lh' = lh \/ lh' = << >>
    BY <1>0, <1>12 DEF Restart, Stages
  <2> QED BY <1>8, <1>12, <2>1 DEF Restart
<1>13. CASE Finished
  BY <1>1, <1>13 DEF Finished, vars, onDisk, inLog, committer
<1> QED BY <1>3, <1>4, <1>5, <1>6, <1>7, <1>9, <1>10, <1>11, <1>12, <1>13
        DEF Next, Step, Commits
-----------------------------------------------------------------------------
\* Every action keeps the kernel out of panics but for a full log.

LEMMA OnlyFullKept ==
  ASSUME IInv, Next
  PROVE  PanicsOnlyFull'
<1>0. PanicsOnlyFull
  BY DEF IInv
<1>1. ASSUME ~panicked' PROVE PanicsOnlyFull'
  BY <1>1 DEF PanicsOnlyFull
<1>2. ASSUME UNCHANGED panicked, ~panicked PROVE PanicsOnlyFull'
  BY <1>1, <1>2
<1>3. ASSUME NEW p \in Procs, Call(p) \/ BeginOp(p) \/ LogWrite(p) \/ Done(p)
      PROVE  PanicsOnlyFull'
  BY <1>2, <1>3 DEF Call, BeginOp, LogWrite, Done, Runs
<1>4. ASSUME NEW p \in Procs, EndOp(p) PROVE PanicsOnlyFull'
  <2>1. ~committing
    BY <1>4, CallCounts DEF EndOp, Runs
  <2> QED BY <1>1, <1>4, <2>1 DEF EndOp
<1>5. ASSUME NEW p \in Procs, NEW b \in Blocks, Modify(p, b) PROVE PanicsOnlyFull'
  <2> DEFINE w == <<p, left[p]>>
  <2>1. outstanding > 0 /\ outstanding \in Nat
    BY <1>5, CallCounts, Types DEF Modify
  <2>2. w \in MayLog
    <3>1. left[p] \in 0 .. MaxOpBlocks
      BY Types
    <3>2. pc[p] = "in call"
      BY <1>5 DEF Modify
    <3>3. left[p] \in 1 .. MaxOpBlocks
      <4>1. left[p] > 0
        BY <1>5 DEF Modify
      <4> QED BY <3>1, <4>1
    <3>4. w \in Procs \X (1 .. MaxOpBlocks) /\ w[1] = p /\ w[2] = left[p]
      BY <3>3
    <3>5. w[2] <= left[w[1]]
      BY <3>3, <3>4
    <3> HIDE DEF w
    <3> QED BY <3>2, <3>4, <3>5 DEF MayLog
  <2>3. Cardinality(MayLog) # 0
    BY <2>2, MayLogFinite, FS_EmptySet
  <2>4. Len(lh) < LogSize
    <3>1. Cardinality(MayLog) \in Nat /\ Len(lh) \in Nat
      BY MayLogFinite
    <3>2. Len(lh) + Cardinality(MayLog) <= LogSize
      BY DEF IInv, Reserved
    <3> QED BY <2>3, <3>1, <3>2, Sizes
  <2>5. panicked' = (Len(lh) >= LogSize \/ Len(lh) >= NLog - 1 \/ outstanding < 1) /\ lh' = lh
    BY <1>5 DEF Modify, inLog
  <2>6. ~(Len(lh) >= LogSize) /\ ~(outstanding < 1)
    BY <2>1, <2>4, MayLogFinite, Sizes
  <2> QED BY <2>5, <2>6 DEF PanicsOnlyFull
<1>6. CASE Commits \/ \E b \in Blocks : Recycle(b)
  BY <1>2, <1>6 DEF Commits, WriteLog, WriteHead, Install, Erase, Recycle
<1>7. CASE Restart
  BY <1>1, <1>7 DEF Restart
<1>8. CASE Finished
  BY <1>0, <1>8 DEF Finished, vars, inLog, PanicsOnlyFull
<1> QED BY <1>3, <1>4, <1>5, <1>6, <1>7, <1>8 DEF Next, Step

-----------------------------------------------------------------------------
\* The invariant of the log.

LEMMA InitIInv == Init => IInv
<1> SUFFICES ASSUME Init PROVE IInv
  OBVIOUS
<1> USE Sizes DEF Init
<1>1. TypeOK
  <2>1. 0 \in 0 .. MaxOpBlocks /\ 0 \in 0 .. MaxStops /\ 1 \in Nat
    OBVIOUS
  <2>2. /\ disk \in [Blocks -> Content] /\ cache \in [Blocks -> Content] /\ dirty \subseteq Blocks
        /\ diskLog \in [1 .. LogSize -> Content]
        /\ diskHead \in Seq(Blocks) /\ lh \in Seq(Blocks)
    OBVIOUS
  <2>3. /\ pc \in [Procs -> {"user", "begin", "asleep", "in call", "log_write", "commit"}]
        /\ block \in [Procs -> Blocks \cup {NoBlock}]
        /\ call \in [Procs -> Content] /\ left \in [Procs -> 0 .. MaxOpBlocks]
    BY <2>1
  <2> QED BY <2>1, <2>2, <2>3 DEF TypeOK
<1>2. Counted
  <2>1. InCall = {}
    BY DEF InCall
  <2> QED BY <2>1, FS_EmptySet DEF Counted
<1>3. Locks
  BY DEF Locks
<1>4. Reserved
  <2>1. MayLog = {}
    BY DEF MayLog
  <2> QED BY <2>1, FS_EmptySet DEF Reserved
<1>5. Stages
  BY DEF Stages
<1>6. Absorbed /\ Clean /\ Copied /\ Installed /\ PanicsOnlyFull
  BY DEF Absorbed, Clean, Copied, Installed, PanicsOnlyFull
<1>7. Pinned
  BY DEF Pinned
<1> QED BY <1>1, <1>2, <1>3, <1>4, <1>5, <1>6, <1>7 DEF IInv

LEMMA StutterIInv == IInv /\ UNCHANGED vars => IInv'
<1> SUFFICES ASSUME IInv, UNCHANGED vars PROVE IInv'
  OBVIOUS
<1> USE DEF vars, onDisk, buffers, inLog, committer, process
<1>1. TypeOK'
  BY DEF IInv, TypeOK
<1>2. Counted' /\ Locks' /\ Reserved'
  BY DEF IInv, Counted, InCall, Locks, Reserved, MayLog
<1>3. Stages'
  BY DEF IInv, Stages
<1>4. Absorbed' /\ Clean' /\ Pinned' /\ Copied' /\ Installed' /\ PanicsOnlyFull'
  BY DEF IInv, Absorbed, Clean, Pinned, Pending, Logged, Copied, Installed, PanicsOnlyFull
<1> QED BY <1>1, <1>2, <1>3, <1>4 DEF IInv

LEMMA IInvKept == IInv /\ [Next]_vars => IInv'
<1>1. ASSUME IInv, Next PROVE IInv'
  BY <1>1, TypeKept, CountedKept, LocksKept, ReservedKept, StagesKept, AbsorbedKept,
     CleanKept, PinnedKept, CopiedKept, InstalledKept, OnlyFullKept DEF IInv
<1> QED BY <1>1, StutterIInv

\* The log, the cache and the disk stay in step through every interleaving of
\* calls, commit, recovery and stops.
THEOREM Invariant == Spec => []IInv
BY InitIInv, IInvKept, PTL DEF Spec

\* Every variable of the log, of the disk and of the processes keeps its type.
THEOREM TypeCorrect == Spec => []TypeOK
<1>1. IInv => TypeOK
  BY DEF IInv
<1> QED BY <1>1, Invariant, PTL

\* The test of begin_op is enough: the calls in progress may write all that
\* they still may, and lh.n stays within LOGSIZE, however they are interleaved.
THEOREM ReservedHolds == Spec => []Reserved
<1>1. IInv => Reserved
  BY DEF IInv
<1> QED BY <1>1, Invariant, PTL

\* The one panic of log_write and end_op that can be met is the one of a log
\* that is shorter than begin_op takes it to be.
THEOREM PanicsOnlyFullHolds == Spec => []PanicsOnlyFull
<1>1. IInv => PanicsOnlyFull
  BY DEF IInv
<1> QED BY <1>1, Invariant, PTL

\* No call is in progress while a commit or a recovery copies blocks.
THEOREM CommitsAloneHolds == Spec => []CommitsAlone
<1>1. IInv => CommitsAlone
  BY DEF IInv, Stages, CommitsAlone
<1> QED BY <1>1, Invariant, PTL
-----------------------------------------------------------------------------
\* The log implements the atomic disk.

\* With no header on the disk, a recovery changes nothing.
LEMMA RecoveredEmpty == IInv /\ diskHead = << >> => Recovered = disk
<1> SUFFICES ASSUME IInv, diskHead = << >> PROVE Recovered = disk
  OBVIOUS
<1>1. disk \in [Blocks -> Content]
  BY DEF IInv, TypeOK
<1>2. \A b \in Blocks : ~ \E i \in DOMAIN diskHead : diskHead[i] = b
  OBVIOUS
<1> QED BY <1>1, <1>2 DEF Recovered

\* With one, it installs the log.
RecoveredByLog == /\ \A i \in DOMAIN lh : Recovered[lh[i]] = diskLog[i]
                  /\ \A b \in Blocks : b \notin Logged => Recovered[b] = disk[b]

LEMMA RecoveredLog == IInv /\ diskHead = lh => RecoveredByLog
<1> SUFFICES ASSUME IInv, diskHead = lh PROVE RecoveredByLog
  OBVIOUS
<1>1. ASSUME NEW i \in DOMAIN lh PROVE Recovered[lh[i]] = diskLog[i]
  <2>1. lh[i] \in Blocks
    BY Types
  <2> DEFINE at(j) == diskHead[j] = lh[i]
             k == CHOOSE j \in DOMAIN diskHead : at(j)
  <2>2. k \in DOMAIN diskHead /\ at(k)
    <3>1. \E j \in DOMAIN diskHead : at(j)
      BY <1>1
    <3> HIDE DEF at
    <3> QED BY <3>1
  <2>3. k = i
    BY <1>1, <2>2 DEF IInv, Absorbed
  <2>4. Recovered[lh[i]] = diskLog[k]
    BY <1>1, <2>1 DEF Recovered
  <2> QED BY <2>3, <2>4
<1>2. ASSUME NEW b \in Blocks, b \notin Logged PROVE Recovered[b] = disk[b]
  BY <1>2 DEF Recovered, Logged
<1> QED BY <1>1, <1>2 DEF RecoveredByLog

LEMMA RecoveredType == Recovered = [b \in Blocks |-> Recovered[b]]
BY DEF Recovered

\* Where nothing is in progress, nothing waits to be installed.
LEMMA IdleDurable == IInv => IdleIsDurable
<1> SUFFICES ASSUME IInv, Runs, outstanding = 0, ~committing PROVE Recovered = cache
  BY DEF IdleIsDurable
<1>1. stage = "none" /\ lh = << >> /\ diskHead = << >>
  BY DEF Runs, IInv, Stages
<1>2. dirty = {}
  BY <1>1 DEF IInv, Pinned, Pending, Logged
<1>3. \A b \in Blocks : cache[b] = disk[b]
  BY <1>2, NoneLocked DEF IInv, Clean
<1>4. cache = disk
  <2>1. disk \in [Blocks -> Content] /\ cache \in [Blocks -> Content]
    BY DEF IInv, TypeOK
  <2> QED BY <1>3, <2>1
<1> QED BY <1>1, <1>4, RecoveredEmpty

\* The end of the last call in progress leaves all that was written durable.
THEOREM IdleIsDurableHolds == Spec => []IdleIsDurable
BY IdleDurable, Invariant, PTL

\* The real commit makes what the calls see what a recovery finds.
LEMMA HeadCommits ==
  ASSUME IInv, IInv', WriteHead
  PROVE  Recovered' = cache
<1>1. /\ stage = "head" /\ outstanding = 0
      /\ UNCHANGED <<disk, diskLog, buffers, inLog>> /\ diskHead' = lh
  BY DEF WriteHead, IInv, Stages
<1>2. /\ \A i \in DOMAIN lh : Recovered'[lh[i]] = diskLog[i]
      /\ \A b \in Blocks : b \notin Logged => Recovered'[b] = disk[b]
  <2>1. lh' = lh /\ diskHead' = lh' /\ diskLog' = diskLog /\ disk' = disk /\ Logged' = Logged
    BY <1>1 DEF inLog, Logged
  <2>2. IInv' /\ (diskHead = lh)' => RecoveredByLog'
    BY RecoveredLog, PTL
  <2>3. RecoveredByLog'
    BY <2>1, <2>2
  <2> QED BY <2>1, <2>3 DEF RecoveredByLog
<1>3. \A i \in DOMAIN lh : diskLog[i] = cache[lh[i]]
  BY <1>1 DEF IInv, Copied
<1>4. \A b \in Blocks : b \notin Logged => disk[b] = cache[b]
  <2>1. dirty \subseteq Logged
    BY <1>1 DEF IInv, Pinned, Pending
  <2> QED BY <1>1, <2>1, NoneLocked DEF IInv, Clean
<1>5. \A b \in Blocks : Recovered'[b] = cache[b]
  BY <1>2, <1>3, <1>4 DEF Logged
<1>6. cache = [b \in Blocks |-> cache[b]] /\ Recovered' = [b \in Blocks |-> Recovered'[b]]
  BY DEF IInv, TypeOK, Recovered
<1> QED BY <1>5, <1>6

\* What a recovery would find changes at no other step.
LEMMA RecoveredKept ==
  ASSUME IInv, IInv', Next, ~WriteHead
  PROVE  Recovered' = Recovered
<1>1. ASSUME UNCHANGED onDisk PROVE Recovered' = Recovered
  BY <1>1 DEF onDisk, Recovered
<1>2. ASSUME diskHead' = << >>, disk' = disk, Recovered = disk PROVE Recovered' = Recovered
  <2>1. \A b \in Blocks : ~ \E i \in DOMAIN diskHead' : diskHead'[i] = b
    BY <1>2
  <2>2. disk = [b \in Blocks |-> disk[b]]
    BY DEF IInv, TypeOK
  <2> QED BY <1>2, <2>1, <2>2 DEF Recovered
<1>3. CASE WriteLog
  <2>1. diskHead = << >> /\ diskHead' = << >> /\ disk' = disk
    BY <1>3 DEF WriteLog, IInv, Stages
  <2> QED BY <1>2, <2>1, RecoveredEmpty
<1>4. CASE Install
  <2>1. diskHead = lh /\ UNCHANGED <<diskLog, diskHead>>
    BY <1>4 DEF Install, IInv, Stages
  <2>2. ASSUME NEW b \in Blocks, b \notin Logged PROVE disk'[b] = disk[b]
    <3>1. CASE lh = << >>
      BY <1>4, <3>1 DEF Install
    <3>2. CASE lh # << >>
      <4>1. tail \in DOMAIN lh
        BY <1>4, <3>2, AtTail DEF Install
      <4>2. b # lh[tail]
        BY <2>2, <4>1 DEF Logged
      <4> QED BY <1>4, <3>2, <4>2 DEF Install, IInv, TypeOK
    <3> QED BY <3>1, <3>2
  <2>3. \A b \in Blocks : b \notin Logged <=> ~ \E i \in DOMAIN diskHead : diskHead[i] = b
    BY <2>1 DEF Logged
  <2> QED BY <2>1, <2>2, <2>3 DEF Recovered
<1>5. CASE Erase
  <2>1. stage = "erase" /\ diskHead = lh /\ diskHead' = << >> /\ disk' = disk
    BY <1>5 DEF Erase, IInv, Stages
  <2>2. \A i \in DOMAIN lh : disk[lh[i]] = diskLog[i]
    BY <2>1 DEF IInv, Installed
  <2>3. \A b \in Blocks : Recovered[b] = disk[b]
    BY <2>1, <2>2, RecoveredLog DEF RecoveredByLog, Logged
  <2>4. Recovered = disk
    <3>1. disk = [b \in Blocks |-> disk[b]]
      BY DEF IInv, TypeOK
    <3> QED BY <2>3, <3>1, RecoveredType
  <2> QED BY <1>2, <2>1, <2>4
<1>6. ASSUME NEW p \in Procs,
             Call(p) \/ BeginOp(p) \/ LogWrite(p) \/ EndOp(p) \/ Done(p)
      PROVE  Recovered' = Recovered
  BY <1>1, <1>6 DEF Call, BeginOp, LogWrite, EndOp, Done
<1>7. ASSUME NEW b \in Blocks, Recycle(b) \/ \E p \in Procs : Modify(p, b)
      PROVE  Recovered' = Recovered
  BY <1>1, <1>7 DEF Recycle, Modify
<1>8. CASE Restart \/ Finished
  BY <1>1, <1>8 DEF Restart, Finished, vars
<1> QED BY <1>3, <1>4, <1>5, <1>6, <1>7, <1>8 DEF Next, Step, Commits
LEMMA InitDisk == Init => Disk!Init
<1> SUFFICES ASSUME Init PROVE Disk!Init
  OBVIOUS
<1>1. IInv
  BY InitIInv
<1>2. /\ disk = [b \in Blocks |-> 0] /\ diskHead = << >> /\ cache = disk /\ outstanding = 0
      /\ recovering = FALSE
  BY DEF Init
<1>3. Recovered = disk
  BY <1>1, <1>2, RecoveredEmpty
<1> QED BY <1>2, <1>3 DEF Disk!Init

\* Each step of the log is a step of the atomic disk or stutters there: begin_op
\* begins, end_op ends, the write of the header commits, a restart stops.
LEMMA StepDisk == IInv /\ IInv' /\ [Next]_vars => [Disk!Next]_(Disk!vars)
<1> DEFINE current == IF recovering THEN Recovered ELSE cache
<1> SUFFICES ASSUME IInv, IInv', [Next]_vars PROVE [Disk!Next]_(Disk!vars)
  OBVIOUS
<1>1. ASSUME Recovered' = Recovered, current' = current, outstanding' = outstanding
      PROVE  UNCHANGED Disk!vars
  BY <1>1 DEF Disk!vars
<1>2. CASE UNCHANGED vars
  <2>1. Recovered' = Recovered
    BY <1>2 DEF vars, onDisk, Recovered
  <2> QED BY <1>1, <1>2, <2>1 DEF vars, buffers, inLog, committer
<1>3. CASE WriteHead
  <2>1. outstanding = 0 /\ ~recovering /\ UNCHANGED <<cache, outstanding, recovering>>
    BY <1>3 DEF WriteHead, IInv, Stages, buffers, inLog
  <2>2. Recovered' = cache
    BY <1>3, HeadCommits
  <2>3. current = cache /\ current' = cache
    BY <2>1
  <2>4. Disk!Commit
    BY <2>1, <2>2, <2>3 DEF Disk!Commit
  <2> QED BY <2>4 DEF Disk!Next
<1>4. ASSUME Next, ~WriteHead PROVE Recovered' = Recovered
  BY <1>4, RecoveredKept
<1>5. ASSUME NEW p \in Procs, Call(p) \/ LogWrite(p) \/ Done(p)
      PROVE  UNCHANGED Disk!vars
  <2>1. UNCHANGED <<onDisk, cache, outstanding, recovering>>
    BY <1>5 DEF Call, LogWrite, Done, buffers, inLog, committer
  <2>2. Recovered' = Recovered
    BY <2>1 DEF onDisk, Recovered
  <2> QED BY <1>1, <2>1, <2>2
<1>6. ASSUME NEW p \in Procs, BeginOp(p) PROVE [Disk!Next]_(Disk!vars)
  <2>1. UNCHANGED <<onDisk, cache, recovering>> /\ outstanding' \in {outstanding, outstanding + 1}
    BY <1>6 DEF BeginOp, buffers, committer
  <2>2. Recovered' = Recovered
    BY <2>1 DEF onDisk, Recovered
  <2>3. current' = current
    BY <2>1, <2>2
  <2>4. CASE outstanding' = outstanding
    BY <1>1, <2>2, <2>3, <2>4
  <2>5. CASE outstanding' = outstanding + 1
    <3>1. Disk!Begin
      BY <2>2, <2>3, <2>5 DEF Disk!Begin
    <3> QED BY <3>1 DEF Disk!Next
  <2> QED BY <2>1, <2>4, <2>5
<1>7. ASSUME NEW p \in Procs, EndOp(p) PROVE Disk!Next
  <2>1. UNCHANGED <<onDisk, cache, recovering>> /\ outstanding' = outstanding - 1
    BY <1>7 DEF EndOp, buffers
  <2>2. Recovered' = Recovered
    BY <2>1 DEF onDisk, Recovered
  <2>3. current' = current
    BY <2>1, <2>2
  <2>4. outstanding > 0
    BY <1>7, CallCounts DEF EndOp
  <2>5. Disk!End
    BY <2>1, <2>2, <2>3, <2>4 DEF Disk!End
  <2> QED BY <2>5 DEF Disk!Next
<1>8. ASSUME NEW p \in Procs, NEW b \in Blocks, Modify(p, b) PROVE Disk!Next
  <2>1. /\ UNCHANGED <<onDisk, outstanding, recovering>> /\ ~recovering
        /\ cache' = [cache EXCEPT ![b] = call[p]]
    BY <1>8 DEF Modify, Runs, inLog, committer
  <2>2. Recovered' = Recovered
    BY <2>1 DEF onDisk, Recovered
  <2>3. current' = [current EXCEPT ![b] = call[p]]
    BY <2>1
  <2>4. outstanding > 0
    BY <1>8, CallCounts DEF Modify
  <2>5. call[p] \in Content
    BY Types
  <2>6. Disk!Write(b, call[p])
    BY <2>1, <2>2, <2>3, <2>4 DEF Disk!Write
  <2> QED BY <2>5, <2>6 DEF Disk!Next
<1>9. ASSUME NEW b \in Blocks, Recycle(b) PROVE [Disk!Next]_(Disk!vars)
  BY <1>2, <1>9, RecycleChangesNothing
<1>10. CASE WriteLog
  <2>1. Recovered' = Recovered
    BY <1>10, <1>4 DEF Next, Commits, WriteLog, WriteHead
  <2> QED BY <1>1, <1>10, <2>1 DEF WriteLog, buffers, inLog
<1>11. CASE Install
  <2>1. Recovered' = Recovered
    BY <1>11, <1>4 DEF Next, Commits, Install, WriteHead
  <2>2. UNCHANGED <<outstanding, recovering>>
    BY <1>11 DEF Install, inLog
  <2>3. ~recovering => cache' = cache
    <3>1. CASE lh = << >>
      BY <1>11, <3>1 DEF Install, buffers
    <3>2. CASE lh # << >> /\ ~recovering
      <4>1. tail \in DOMAIN lh /\ diskLog[tail] = cache[lh[tail]]
        BY <1>11, <3>2, AtTail DEF Install, IInv, Copied
      <4>2. cache' = [cache EXCEPT ![lh[tail]] = diskLog[tail]]
        BY <1>11, <3>2 DEF Install
      <4> QED BY <4>1, <4>2 DEF IInv, TypeOK
    <3> QED BY <3>1, <3>2
  <2> QED BY <1>1, <2>1, <2>2, <2>3
<1>12. CASE Erase
  <2>1. Recovered' = Recovered
    BY <1>12, <1>4 DEF Next, Commits, Erase, WriteHead
  <2>2. UNCHANGED <<cache, disk, outstanding>> /\ ~recovering' /\ diskHead' = << >>
    BY <1>12 DEF Erase, buffers
  <2>3. recovering => cache = disk
    BY DEF IInv, Stages
  <2>4. IInv' /\ (diskHead = << >>)' => (Recovered = disk)'
    BY RecoveredEmpty, PTL
  <2> QED BY <1>1, <2>1, <2>2, <2>3, <2>4
<1>13. CASE Restart
  <2>1. Recovered' = Recovered
    BY <1>13 DEF Restart, onDisk, Recovered
  <2>2. recovering' /\ outstanding' = 0
    BY <1>13 DEF Restart
  <2>3. Disk!Stop
    BY <2>1, <2>2 DEF Disk!Stop
  <2> QED BY <2>3 DEF Disk!Next
<1>14. CASE Finished
  BY <1>2, <1>14 DEF Finished
<1> QED BY <1>2, <1>3, <1>5, <1>6, <1>7, <1>8, <1>9, <1>10, <1>11, <1>12, <1>13, <1>14
        DEF Next, Step, Commits

\* What a recovery makes of the disk is, at every moment, what the calls had
\* written when the last of them ended, and never a part of it.
THEOREM DiskIsAtomic == Spec => ImplementsAtomicDisk
<1>1. Spec => Disk!Init /\ [][Disk!Next]_(Disk!vars)
  BY InitDisk, StepDisk, Invariant, PTL DEF Spec
<1> QED BY <1>1 DEF ImplementsAtomicDisk, Disk!Spec
=============================================================================
