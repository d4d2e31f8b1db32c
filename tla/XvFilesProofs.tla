----------------------------- MODULE XvFilesProofs -----------------------------
(***************************************************************************)
(* References are counted, blocks have one owner, open files keep their      *)
(* inode and links are counted, for any processes, calls, inodes, blocks and *)
(* crashes.                                                                  *)
(*                                                                         *)
(* The invariant says what one step of one process has to keep: the disk is  *)
(* sound (DiskTyped to FreeIsEmpty), the cache agrees with it, locks are of  *)
(* inodes in use, every process has the locks, the names and the inodes that *)
(* its place in the code relies on, and ref counts its pointers.  Most of it  *)
(* is one lemma for each action, <Action>Keeps; before them are the facts     *)
(* about bmap and writei, about counts of pointers, and about what a step     *)
(* leaves to the other processes.                                            *)
(*                                                                         *)
(* The second part is about links, and has an invariant of its own, LInv, on  *)
(* top of the first; one lemma for each action again, <Action>Links.          *)
(***************************************************************************)
EXTENDS XvFiles, Integers, FiniteSetTheorems, TLAPS

-----------------------------------------------------------------------------
\* The invariant, in parts.

Kinds == {"free", "file", "dir", "dev"}
Dinodes == [type : Kinds, nlink : Int, size : 0 .. MAXFILE, addrs : [Addrs -> Block \cup {0}]]
Entries == [ref : Nat, valid : BOOLEAN, din : Dinodes]
Files == [ip : Inum \cup {0}, off : 0 .. MAXFILE, writable : BOOLEAN]

\* A disk: its blocks have one owner each, and every block below a size is there.
DiskTyped(d) ==
  /\ DOMAIN d = {"inode", "dir", "used"}
  /\ d.inode \in [Inum -> Dinodes]
  /\ d.dir \in [Inum -> [AllNames -> Inum \cup {0}]]
  /\ d.used \subseteq Block

OneOwner(d) ==
  \A i, j \in Inum : \A k, m \in Addrs :
    d.inode[i].addrs[k] = d.inode[j].addrs[m] /\ d.inode[i].addrs[k] # 0 => i = j /\ k = m
UsedIsOwned(d) ==
  \A a \in Block : a \in d.used <=> \E i \in Inum, k \in Addrs : d.inode[i].addrs[k] = a
SizeIsThere(d) ==
  \A i \in Inum : \A n \in 0 .. MAXFILE - 1 :
    n < d.inode[i].size => Missing(d.inode[i], n) = {}
FreeIsEmpty(d) == \A i \in Inum : d.inode[i].type = "free" => d.inode[i] = FreeInode
Sound(d) == DiskTyped(d) /\ OneOwner(d) /\ UsedIsOwned(d) /\ SizeIsThere(d) /\ FreeIsEmpty(d)

\* The cache has what is on the disk, and nothing of an inode that is free.
CacheOf(c, d) ==
  /\ c \in [Inum -> Entries]
  /\ \A i \in Inum : c[i].valid => c[i].din = d.inode[i] /\ d.inode[i].type # "free"

\* Nobody has the lock of an inode that is free.
LocksOf(k, d) ==
  /\ k \in [Inum -> Proc \cup {Nobody}]
  /\ \A i \in Inum : k[i] # Nobody => d.inode[i].type # "free"

\* A process in its call: what its locals are where they are used ...
Pcs == {"idle", "namex", "linkold", "linknew", "linkfail", "undo", "unlink", "unlink2",
        "unlinkbad", "unlink3", "create", "create2", "exists", "made", "open", "chdir",
        "moved", "write", "more", "end"}
Wanted == {"end", "create", "unlink", "linkold", "linknew", "open", "chdir"}
Fields == {"pc", "call", "rest", "want", "cur", "ip", "puts", "put", "left"}
ToName == {"linknew", "linkfail", "unlink", "unlink2", "unlinkbad", "create", "create2"}
LocTyped(l) ==
  /\ DOMAIN l = Fields /\ l.pc \in Pcs /\ l.want \in Wanted /\ l.left \in Nat
  /\ l.rest \in Seq(AllNames) /\ l.cur \in Inum \cup {0} /\ l.ip \in Inum \cup {0}
  /\ l.puts \in Seq(Inum) /\ Len(l.puts) <= 2 /\ l.put \in {"check", "free", "drop"}
  /\ l.pc # "idle" => l.call \in Programs
  /\ l.puts = <<>> => l.put = "check"
  /\ l.pc \in AtCur => l.cur \in Inum
  /\ l.pc \in AtIp \/ (l.pc = "namex" /\ l.want = "linknew") => l.ip \in Inum
  /\ l.pc = "namex" => l.want # "end"
  /\ l.pc \in ToName => l.rest # <<>>
  /\ l.pc = "idle" => l = AtRest

\* ... with its open file ...
FileTyped(l, f) ==
  /\ f \in Files
  /\ f # NoFile => f.ip # 0
  /\ l.left > 0 \/ l.pc \in {"write", "more"} => f # NoFile /\ f.writable

\* ... and with the locks k that it has.
HasCur == {"linkfail", "unlink2", "unlinkbad", "create2"}
HasIp == {"unlink3", "made"}
LocHolds(p, l, k) ==
  /\ l.pc \in HasCur => k[l.cur] = p
  /\ l.pc \in HasIp => k[l.ip] = p
  /\ l.put = "free" => /\ l.puts # <<>> /\ k[Head(l.puts)] = p
                       /\ l.pc \in HasCur => Head(l.puts) # l.cur
                       /\ l.pc \in HasIp => Head(l.puts) # l.ip

Typed ==
  /\ DOMAIN loc = Proc
  /\ ofile \in [Proc -> Files] /\ cwd \in [Proc -> Inum]
  /\ ops \subseteq Proc
  /\ \A p \in Proc : LocTyped(loc[p]) /\ FileTyped(loc[p], ofile[p]) /\ LocHolds(p, loc[p], lock)

\* The number of pointers to i among those of s, and of a process with locals l, open file
\* f and working directory c.
Count(s, i) == Cardinality({n \in DOMAIN s : s[n] = i})
One(b) == IF b THEN 1 ELSE 0
Points(l, f, c, i) ==
  Count(l.puts, i) + One(l.pc \in AtCur /\ l.cur = i)
  + One((l.pc \in AtIp \/ (l.pc = "namex" /\ l.want = "linknew")) /\ l.ip = i)
  + One(f # NoFile /\ f.ip = i) + One(l.pc # "moved" /\ c = i)

\* What a process relies on: the inode it has open is there, not a directory if it can be
\* written, and no file is read or written behind its end; the one that create allocated,
\* which it has not locked yet, is what it made it.
Kept(d, l, f) ==
  /\ f # NoFile => /\ d.inode[f.ip].type \in {"file", "dev", "dir"}
                   /\ f.writable => d.inode[f.ip].type # "dir"
                   /\ d.inode[f.ip].type # "dir" => f.off <= d.inode[f.ip].size
  /\ l.pc = "create2" => d.inode[l.ip].type = TypeOf(l.call.op)
  /\ l.pc = "made" /\ l.call.op = "creat" => d.inode[l.ip].type = "file"

\* Nobody is about to free that inode.
Needs(l, f, i) == (f # NoFile /\ f.ip = i) \/ (l.pc = "create2" /\ l.ip = i)
Frees(l, i) == l.put = "free" /\ Head(l.puts) = i

OpenKept ==
  /\ \A p \in Proc : Kept(disk, loc[p], ofile[p])
  /\ \A p, q \in Proc, i \in Inum : ~(Needs(loc[p], ofile[p], i) /\ Frees(loc[q], i))

IInv == /\ Sound(disk) /\ Sound(committed) /\ CacheOf(icache, disk) /\ LocksOf(lock, disk)
        /\ Typed /\ OpenKept /\ RefsCounted

-----------------------------------------------------------------------------
\* Facts about the constants, sequences and counts.

\* What the constants and the sets made from them are.
LEMMA Constants ==
  /\ NDIRECT \in Nat /\ NINDIRECT \in Nat /\ NINODES \in Nat /\ NBLOCKS \in Nat
  /\ NDIRECT > 0 /\ MAXFILE \in Nat /\ Addrs = 0 .. MAXFILE /\ Root \in Inum /\ 2 \in Inum
  /\ 0 \notin Inum /\ 0 \notin Block /\ Nobody \notin Proc
  /\ IsFiniteSet(Inum) /\ IsFiniteSet(Block) /\ IsFiniteSet(Addrs)
<1>0. NINODES \in Int /\ NBLOCKS \in Int /\ NDIRECT + NINDIRECT \in Int /\ 0 \in Int /\ 1 \in Int
  BY XvFilesAssumption
<1>1. IsFiniteSet(1 .. NINODES) /\ IsFiniteSet(1 .. NBLOCKS) /\ IsFiniteSet(0 .. NDIRECT + NINDIRECT)
  BY <1>0, FS_Interval
<1> QED  BY <1>1, XvFilesAssumption DEF MAXFILE, Addrs, Root, Inum, Block

\* "." and ".." are not among the names that calls make.
LEMMA TheNames ==
  /\ "." \in AllNames /\ ".." \in AllNames /\ Names \subseteq AllNames
  /\ "." \notin Names /\ ".." \notin Names /\ "." # ".." /\ Image \in Names
BY XvFilesAssumption DEF AllNames

\* Two sequences of inodes with the same length and elements are the same.
LEMMA SameSequence ==
  ASSUME NEW s \in Seq(Inum), NEW t \in Seq(Inum), Len(s) = Len(t),
         \A n \in 1 .. Len(s) : s[n] = t[n]
  PROVE  s = t
OBVIOUS

\* The empty sequence is the one of length 0.
LEMMA NoPointers ==
  ASSUME NEW s \in Seq(Inum)
  PROVE  s = <<>> <=> Len(s) = 0
<1>1. <<>> \in Seq(Inum) /\ Len(<<>>) = 0
  OBVIOUS
<1>2. ASSUME Len(s) = 0 PROVE s = <<>>
  <2>1. \A n \in 1 .. Len(s) : s[n] = <<>>[n]
    BY <1>2
  <2> QED  BY <1>1, <1>2, <2>1, SameSequence
<1> QED  BY <1>1, <1>2

\* One more pointer counts one more where it points to i.
LEMMA CountOne ==
  ASSUME NEW s \in Seq(Inum), NEW x \in Inum, NEW i
  PROVE  Count(s \o <<x>>, i) = Count(s, i) + One(x = i) /\ Count(s, i) \in Nat
<1> DEFINE S == {n \in DOMAIN s : s[n] = i}
           T == {n \in DOMAIN (s \o <<x>>) : (s \o <<x>>)[n] = i}
<1>1. IsFiniteSet(S) /\ Cardinality(S) \in Nat
  <2>1. IsFiniteSet(1 .. Len(s))
    BY FS_Interval
  <2>2. S \subseteq 1 .. Len(s)
    OBVIOUS
  <2> QED  BY <2>1, <2>2, FS_Subset, FS_CardinalityType
<1>0. Count(s \o <<x>>, i) = Cardinality(T) /\ Count(s, i) = Cardinality(S)
  BY DEF Count
<1>2. CASE x = i
  <2>1. T = S \cup {Len(s) + 1} /\ Len(s) + 1 \notin S
    BY <1>2
  <2>2. Cardinality(S \cup {Len(s) + 1}) = Cardinality(S) + 1
    BY <1>1, <2>1, FS_AddElement, Zenon
  <2> HIDE DEF S, T
  <2> QED  BY <1>0, <1>1, <1>2, <2>1, <2>2 DEF One
<1>3. CASE x # i
  <2>1. T = S
    BY <1>3
  <2> HIDE DEF S, T
  <2> QED  BY <1>0, <1>1, <1>3, <2>1 DEF One
<1> QED  BY <1>2, <1>3

\* No pointers count nothing.
LEMMA CountNone == \A i : Count(<<>>, i) = 0
<1>1. \A i : {n \in DOMAIN <<>> : <<>>[n] = i} = {}
  OBVIOUS
<1> QED  BY <1>1, FS_EmptySet DEF Count

\* What one and two pointers count.
LEMMA Counts ==
  ASSUME NEW i
  PROVE  /\ \A x \in Inum : Count(<<x>>, i) = One(x = i)
         /\ \A x, y \in Inum : Count(<<x, y>>, i) = One(x = i) + One(y = i)
<1>0. /\ Cardinality({}) = 0 /\ Cardinality({1}) = 1 /\ Cardinality({2}) = 1
      /\ Cardinality({1} \cup {2}) = 2
  <2>1. /\ Cardinality({}) = 0 /\ Cardinality({1}) = 1 /\ Cardinality({2}) = 1 /\ IsFiniteSet({1})
    BY FS_EmptySet, FS_Singleton, Zenon
  <2>2. 2 \notin {1}
    OBVIOUS
  <2> QED  BY <2>1, <2>2, FS_AddElement, SMTT(30)
<1>1. ASSUME NEW x \in Inum PROVE Count(<<x>>, i) = One(x = i)
  <2>1. {n \in DOMAIN <<x>> : <<x>>[n] = i} = IF x = i THEN {1} ELSE {}
    OBVIOUS
  <2> QED  BY <1>0, <2>1 DEF Count, One
<1>2. ASSUME NEW x \in Inum, NEW y \in Inum PROVE Count(<<x, y>>, i) = One(x = i) + One(y = i)
  <2>1. {n \in DOMAIN <<x, y>> : <<x, y>>[n] = i}
          = (IF x = i THEN {1} ELSE {}) \cup (IF y = i THEN {2} ELSE {})
    OBVIOUS
  <2>2. CASE x = i /\ y = i
    BY <1>0, <2>1, <2>2 DEF Count, One
  <2>3. CASE x = i /\ y # i
    <3>1. {n \in DOMAIN <<x, y>> : <<x, y>>[n] = i} = {1}
      BY <2>1, <2>3
    <3> QED  BY <1>0, <2>3, <3>1 DEF Count, One
  <2>4. CASE x # i /\ y = i
    <3>1. {n \in DOMAIN <<x, y>> : <<x, y>>[n] = i} = {2}
      BY <2>1, <2>4
    <3> QED  BY <1>0, <2>4, <3>1 DEF Count, One
  <2>5. CASE x # i /\ y # i
    <3>1. {n \in DOMAIN <<x, y>> : <<x, y>>[n] = i} = {}
      BY <2>1, <2>5
    <3> QED  BY <1>0, <2>5, <3>1 DEF Count, One
  <2> QED  BY <2>2, <2>3, <2>4, <2>5
<1> QED  BY <1>1, <1>2

\* putting back the first of the pointers that are to be put
LEMMA CountTail ==
  ASSUME NEW s \in Seq(Inum), s # <<>>, Len(s) <= 2, NEW i
  PROVE  /\ Tail(s) \in Seq(Inum) /\ Len(Tail(s)) <= 2 /\ Head(s) \in Inum
         /\ Count(s, i) = One(Head(s) = i) + Count(Tail(s), i)
<1>1. Tail(s) \in Seq(Inum) /\ Len(Tail(s)) <= 2 /\ Head(s) \in Inum
  OBVIOUS
<1>0. s \in [1 .. Len(s) -> Inum]
  OBVIOUS
<1>2. CASE Len(s) = 1
  <2>1. \A n \in 1 .. 1 : s[n] = <<Head(s)>>[n]
    BY <1>2
  <2>2. s = <<Head(s)>>
    BY <1>0, <1>1, <1>2, <2>1, SameSequence
  <2>3. Tail(s) = <<>>
    <3>1. Len(Tail(s)) = 0
      BY <1>2
    <3> QED  BY <1>1, <3>1, NoPointers, Zenon
  <2>4. Count(<<Head(s)>>, i) = One(Head(s) = i)
    BY <1>1, Counts
  <2>5. Count(s, i) = One(Head(s) = i) /\ Count(Tail(s), i) = 0
    BY <2>2, <2>3, <2>4, CountNone, Zenon
  <2> QED  BY <1>1, <2>5 DEF One
<1>3. CASE Len(s) = 2
  <2>0. s[2] \in Inum /\ Len(Tail(s)) = 1 /\ Tail(s)[1] = s[2] /\ Head(s) = s[1]
    BY <1>1, <1>3
  <2>1. s = <<Head(s), s[2]>>
    BY <1>1, <1>3, <2>0, SameSequence
  <2>2. Tail(s) = <<s[2]>>
    <3>1. \A n \in 1 .. 1 : Tail(s)[n] = <<s[2]>>[n]
      BY <2>0
    <3>2. <<s[2]>> \in Seq(Inum) /\ Len(<<s[2]>>) = 1
      BY <2>0
    <3> QED  BY <1>1, <2>0, <3>1, <3>2, SameSequence, Zenon
  <2>3. /\ Count(<<Head(s), s[2]>>, i) = One(Head(s) = i) + One(s[2] = i)
        /\ Count(<<s[2]>>, i) = One(s[2] = i)
    BY <1>1, <2>0, Counts
  <2> QED  BY <1>1, <2>1, <2>2, <2>3, Zenon
<1>4. Len(s) = 1 \/ Len(s) = 2
  <2> DEFINE n == Len(s)
  <2>1. n \in Nat /\ n # 0 /\ n <= 2
    BY NoPointers
  <2> HIDE DEF n
  <2>2. n = 1 \/ n = 2
    BY <2>1
  <2> QED  BY <2>2 DEF n
<1> QED  BY <1>1, <1>2, <1>3, <1>4

-----------------------------------------------------------------------------
\* The references: the pointers of one process, and those of all.

PointersOf(l, f, c) ==
  LET Held(b, i) == IF b THEN <<i>> ELSE <<>>
  IN l.puts \o Held(l.pc \in AtCur, l.cur)
            \o Held(l.pc \in AtIp \/ (l.pc = "namex" /\ l.want = "linknew"), l.ip)
            \o Held(f # NoFile, f.ip) \o Held(l.pc # "moved", c)

\* Appending no pointer changes nothing.
LEMMA AddNone ==
  ASSUME NEW s \in Seq(Inum)
  PROVE  s \o <<>> = s
<1>1. s \o <<>> \in Seq(Inum) /\ Len(s \o <<>>) = Len(s) /\ \A n \in 1 .. Len(s) : (s \o <<>>)[n] = s[n]
  OBVIOUS
<1> QED  BY <1>1, SameSequence

\* Appending one pointer.
LEMMA AddOne ==
  ASSUME NEW s \in Seq(Inum), NEW x \in Inum, NEW i
  PROVE  /\ s \o <<x>> \in Seq(Inum) /\ Len(s \o <<x>>) = Len(s) + 1 /\ Len(s) \in Nat
         /\ Count(s \o <<x>>, i) = Count(s, i) + One(x = i) /\ Count(s, i) \in Nat
BY CountOne

\* A pointer that is held or not, as Pointers appends it.
LEMMA AddHeld ==
  ASSUME NEW s \in Seq(Inum), NEW x, NEW i, NEW t, NEW n,
         \/ t = s \o <<x>> /\ x \in Inum /\ n = One(x = i)
         \/ t = s \o <<>> /\ n = 0
  PROVE  /\ t \in Seq(Inum) /\ Len(t) <= Len(s) + 1 /\ Len(t) \in Nat
         /\ Count(t, i) = Count(s, i) + n /\ n \in 0 .. 1
<1>1. CASE t = s \o <<x>> /\ x \in Inum /\ n = One(x = i)
  <2>1. n \in 0 .. 1
    BY <1>1 DEF One
  <2> QED  BY <1>1, <2>1, AddOne
<1>2. CASE t = s \o <<>> /\ n = 0
  <2>1. t = s
    BY <1>2, AddNone
  <2>2. Count(s, i) \in Nat /\ Len(s) \in Nat
    BY AddOne, Constants, Zenon
  <2> QED  BY <1>2, <2>1, <2>2
<1> QED  BY <1>1, <1>2

\* The pointers of a process in its call count as Points says, and are at most six.
LEMMA PointersCounted ==
  ASSUME NEW l, NEW f, NEW c \in Inum, LocTyped(l), FileTyped(l, f), NEW i
  PROVE  /\ PointersOf(l, f, c) \in Seq(Inum) /\ Len(PointersOf(l, f, c)) <= 6
         /\ Count(PointersOf(l, f, c), i) = Points(l, f, c, i)
         /\ Points(l, f, c, i) \in Nat
<1>0. PICK s0 : s0 = l.puts
  OBVIOUS
<1> DEFINE b1 == l.pc \in AtCur
           b2 == l.pc \in AtIp \/ (l.pc = "namex" /\ l.want = "linknew")
           b3 == f # NoFile
           b4 == l.pc # "moved"
           s1 == s0 \o (IF b1 THEN <<l.cur>> ELSE <<>>)
           s2 == s1 \o (IF b2 THEN <<l.ip>> ELSE <<>>)
           s3 == s2 \o (IF b3 THEN <<f.ip>> ELSE <<>>)
           s4 == s3 \o (IF b4 THEN <<c>> ELSE <<>>)
           n1 == One(b1 /\ l.cur = i)
           n2 == One(b2 /\ l.ip = i)
           n3 == One(b3 /\ f.ip = i)
           n4 == One(b4 /\ c = i)
<1>1. s0 \in Seq(Inum) /\ Len(s0) <= 2 /\ Len(s0) \in Nat
  BY <1>0 DEF LocTyped
<1>2. /\ b1 => l.cur \in Inum
      /\ b2 => l.ip \in Inum
      /\ b3 => f.ip \in Inum
  BY DEF LocTyped, FileTyped, Files
<1>3. /\ PointersOf(l, f, c) = s4
      /\ Points(l, f, c, i) = Count(s0, i) + n1 + n2 + n3 + n4
  BY <1>0 DEF PointersOf, Points
<1> HIDE DEF b1, b2, b3, b4
<1>4. /\ s1 \in Seq(Inum) /\ Len(s1) <= Len(s0) + 1 /\ Len(s1) \in Nat
      /\ Count(s1, i) = Count(s0, i) + n1 /\ n1 \in 0 .. 1
  <2>0. PICK x : x = l.cur
    OBVIOUS
  <2>1. \/ s1 = s0 \o <<x>> /\ x \in Inum /\ n1 = One(x = i)
        \/ s1 = s0 \o <<>> /\ n1 = 0
    BY <1>2, <2>0, Zenon DEF One
  <2> HIDE DEF s1, n1
  <2> QED  BY <1>1, <2>1, AddHeld
<1> HIDE DEF s1, n1
<1>5. /\ s2 \in Seq(Inum) /\ Len(s2) <= Len(s1) + 1 /\ Len(s2) \in Nat
      /\ Count(s2, i) = Count(s1, i) + n2 /\ n2 \in 0 .. 1
  <2>0. PICK x : x = l.ip
    OBVIOUS
  <2>1. \/ s2 = s1 \o <<x>> /\ x \in Inum /\ n2 = One(x = i)
        \/ s2 = s1 \o <<>> /\ n2 = 0
    BY <1>2, <2>0, Zenon DEF One
  <2> HIDE DEF s2, n2
  <2> QED  BY <1>4, <2>1, AddHeld
<1> HIDE DEF s2, n2
<1>6. /\ s3 \in Seq(Inum) /\ Len(s3) <= Len(s2) + 1 /\ Len(s3) \in Nat
      /\ Count(s3, i) = Count(s2, i) + n3 /\ n3 \in 0 .. 1
  <2>0. PICK x : x = f.ip
    OBVIOUS
  <2>1. \/ s3 = s2 \o <<x>> /\ x \in Inum /\ n3 = One(x = i)
        \/ s3 = s2 \o <<>> /\ n3 = 0
    BY <1>2, <2>0, Zenon DEF One
  <2> HIDE DEF s3, n3
  <2> QED  BY <1>5, <2>1, AddHeld
<1> HIDE DEF s3, n3
<1>7. /\ s4 \in Seq(Inum) /\ Len(s4) <= Len(s3) + 1 /\ Len(s4) \in Nat
      /\ Count(s4, i) = Count(s3, i) + n4 /\ n4 \in 0 .. 1
  <2>0. PICK x : x = c
    OBVIOUS
  <2>1. \/ s4 = s3 \o <<x>> /\ x \in Inum /\ n4 = One(x = i)
        \/ s4 = s3 \o <<>> /\ n4 = 0
    BY <1>2, <2>0, Zenon DEF One
  <2> HIDE DEF s4, n4
  <2> QED  BY <1>6, <2>1, AddHeld
<1> HIDE DEF s4, n4
<1>8. Count(s0, i) \in Nat
  BY <1>1, CountOne, Constants, Zenon
<1>9. Len(s4) <= 6
  BY <1>1, <1>4, <1>5, <1>6, <1>7
<1>10. Count(s4, i) = Count(s0, i) + n1 + n2 + n3 + n4 /\ Count(s4, i) \in Nat
  <2> DEFINE c0 == Count(s0, i)  c1 == Count(s1, i)  c2 == Count(s2, i)
             c3 == Count(s3, i)  c4 == Count(s4, i)
  <2>1. c0 \in Nat /\ c1 = c0 + n1 /\ n1 \in Nat
    BY <1>4, <1>8
  <2>2. c2 = c1 + n2 /\ n2 \in Nat
    BY <1>5
  <2>3. c3 = c2 + n3 /\ n3 \in Nat
    BY <1>6
  <2>4. c4 = c3 + n4 /\ n4 \in Nat
    BY <1>7
  <2> HIDE DEF c0, c1, c2, c3, c4
  <2>5. c4 = c0 + n1 + n2 + n3 + n4 /\ c4 \in Nat
    BY <2>1, <2>2, <2>3, <2>4
  <2> QED  BY <2>5 DEF c0, c4
<1> QED  BY <1>3, <1>7, <1>9, <1>10

\* The places in h, a sequence for each process, that have i.
Marks(s, i) == {n \in DOMAIN s : s[n] = i}
Sites(h, i) == UNION {{<<p, k>> : k \in {n \in DOMAIN h[p] : h[p][n] = i}} : p \in Proc}

SitesMove(g, h, p, i) ==
  /\ Cardinality(Sites(g, i)) \in Nat
  /\ Cardinality(Sites(h, i)) = Cardinality(Sites(g, i)) - Count(g[p], i) + Count(h[p], i)

\* When the pointers of p alone change, the places that hold i change by those of p.
LEMMA SitesChange ==
  ASSUME NEW g \in [Proc -> Seq(Inum)], NEW h \in [Proc -> Seq(Inum)], NEW p \in Proc, NEW i,
         \A q \in Proc : Len(g[q]) <= 6 /\ Len(h[q]) <= 6,
         \A q \in Proc \ {p} : g[q] = h[q]
  PROVE  SitesMove(g, h, p, i)
<1> DEFINE Mine(s) == {<<p, k>> : k \in Marks(s, i)}
           Others == {v \in Proc \X (1 .. 6) : v[1] # p /\ v[2] \in Marks(g[v[1]], i)}
<1>1. ASSUME NEW s \in Seq(Inum), Len(s) <= 6
      PROVE  /\ IsFiniteSet(Mine(s)) /\ Cardinality(Mine(s)) = Count(s, i)
             /\ Mine(s) \cap Others = {}
  <2>1. IsFiniteSet(Marks(s, i))
    <3>1. Marks(s, i) \subseteq 1 .. Len(s) /\ IsFiniteSet(1 .. Len(s))
      <4>1. 1 \in Int /\ Len(s) \in Int
        OBVIOUS
      <4>2. IsFiniteSet(1 .. Len(s))
        BY <4>1, FS_Interval
      <4> QED  BY <4>2 DEF Marks
    <3> QED  BY <3>1, FS_Subset
  <2> DEFINE f == [k \in Marks(s, i) |-> <<p, k>>]
  <2>2. f \in Bijection(Marks(s, i), Mine(s))
    BY Zenon DEF Bijection, Injection, Surjection, IsInjective
  <2>3. ExistsBijection(Marks(s, i), Mine(s))
    BY <2>2 DEF ExistsBijection
  <2>4. Count(s, i) = Cardinality(Marks(s, i))
    BY DEF Count, Marks
  <2>5. IsFiniteSet(Mine(s)) /\ Cardinality(Mine(s)) = Cardinality(Marks(s, i))
    BY <2>1, <2>3, FS_Bijection
  <2> QED  BY <2>4, <2>5
<1>2. IsFiniteSet(Others)
  <2>1. IsFiniteSet(1 .. 6) /\ IsFiniteSet(Proc)
    BY FS_Interval, XvFilesAssumption, 1 \in Int, 6 \in Int, Zenon
  <2>2. IsFiniteSet(Proc \X (1 .. 6))
    BY <2>1, FS_Product
  <2> QED  BY <2>2, FS_Subset
<1>3. ASSUME NEW e \in [Proc -> Seq(Inum)], \A q \in Proc \ {p} : e[q] = g[q],
             \A q \in Proc : Len(e[q]) <= 6
      PROVE  Sites(e, i) = Mine(e[p]) \cup Others
  <2>1. \A q \in Proc : \A k : k \in Marks(e[q], i) => k \in 1 .. 6
    BY <1>3, SMTT(30) DEF Marks
  <2>2. Sites(e, i) = UNION {{<<q, k>> : k \in Marks(e[q], i)} : q \in Proc}
    BY DEF Sites, Marks
  <2>3. ASSUME NEW v \in Sites(e, i) PROVE v \in Mine(e[p]) \cup Others
    <3>1. PICK q \in Proc : \E k \in Marks(e[q], i) : v = <<q, k>>
      BY <2>2, <2>3
    <3>2. PICK k \in Marks(e[q], i) : v = <<q, k>>
      BY <3>1
    <3> QED  BY <1>3, <2>1, <3>2
  <2>4. Mine(e[p]) \subseteq Sites(e, i)
    BY <2>2
  <2>5. ASSUME NEW v \in Others PROVE v \in Sites(e, i)
    <3>1. PICK q \in Proc, k \in 1 .. 6 : v = <<q, k>>
      OBVIOUS
    <3>2. q # p /\ k \in Marks(e[q], i)
      BY <1>3, <3>1
    <3> QED  BY <2>2, <3>1, <3>2
  <2> QED  BY <2>3, <2>4, <2>5
<1>4. ASSUME NEW e \in [Proc -> Seq(Inum)], \A q \in Proc \ {p} : e[q] = g[q],
             \A q \in Proc : Len(e[q]) <= 6
      PROVE  /\ Cardinality(Sites(e, i)) = Count(e[p], i) + Cardinality(Others)
             /\ Cardinality(Others) \in Nat /\ Count(e[p], i) \in Nat
  <2>1. Sites(e, i) = Mine(e[p]) \cup Others
    BY <1>3, <1>4, Zenon
  <2>2. /\ IsFiniteSet(Mine(e[p])) /\ Cardinality(Mine(e[p])) = Count(e[p], i)
        /\ Mine(e[p]) \cap Others = {}
    BY <1>1, <1>4, Zenon
  <2> HIDE DEF Mine, Others
  <2>3. Cardinality(Mine(e[p]) \cup Others)
          = Cardinality(Mine(e[p])) + Cardinality(Others) - Cardinality({})
    BY <1>2, <2>2, FS_Union, ZenonT(30)
  <2>4. Cardinality({}) = 0 /\ Cardinality(Others) \in Nat /\ Cardinality(Mine(e[p])) \in Nat
    BY <1>2, <2>2, FS_EmptySet, FS_CardinalityType
  <2> QED  BY <2>1, <2>2, <2>3, <2>4
<1> HIDE DEF Mine, Others
<1>5. /\ Cardinality(Sites(g, i)) = Count(g[p], i) + Cardinality(Others)
      /\ Cardinality(Sites(h, i)) = Count(h[p], i) + Cardinality(Others)
      /\ Cardinality(Others) \in Nat /\ Count(g[p], i) \in Nat /\ Count(h[p], i) \in Nat
  BY <1>4, Zenon
<1> QED  BY <1>5 DEF SitesMove

-----------------------------------------------------------------------------
\* Numbers: least elements and induction over a set of numbers.

\* ialloc and balloc take the least of what is free: a set of numbers has a least.
LEMMA LeastElement ==
  ASSUME NEW S \in SUBSET Nat, S # {}
  PROVE  Least(S) \in S /\ \A t \in S : Least(S) <= t
<1>1. PICK s \in S : \A t \in S : <<t, s>> \notin OpToRel(<, Nat)
  BY NatLessThanWellFounded, WFMin, Zenon
<1>2. \A t \in S : ~(t < s)
  BY <1>1, Zenon DEF OpToRel
<1>3. \E r \in S : \A t \in S : r <= t
  BY <1>2
<1> QED  BY <1>3, Zenon DEF Least

\* A set of numbers with 0 and the successors of its members has all of them.
LEMMA SetInduction ==
  ASSUME NEW S \in SUBSET Nat, 0 \in S, \A k \in S : k + 1 \in S
  PROVE  \A k \in Nat : k \in S
<1> SUFFICES ASSUME NEW m \in Nat, m \notin S PROVE FALSE
  OBVIOUS
<1> DEFINE l == Least(Nat \ S)
<1>1. l \in Nat \ S /\ \A t \in Nat \ S : l <= t
  BY LeastElement, Nat \ S \in SUBSET Nat
<1> HIDE DEF l
<1>2. l # 0 /\ l - 1 \in Nat
  BY <1>1
<1>3. l - 1 \in S
  BY <1>1, <1>2
<1> QED  BY <1>1, <1>2, <1>3

\* What writei has written block by block, as a function of the blocks written.
BlockByBlock(w, d, i, off, n) ==
  w = [k \in 0 .. n |-> IF k = 0 THEN d ELSE Written(w[k - 1], i, off + k - 1)]

\* The function that writei is defined by exists: each disk is the one before with a block written.
LEMMA WriteiIs ==
  ASSUME NEW d, NEW i, NEW off, NEW n \in Nat
  PROVE  \E w : Writei(d, i, off, n) = w[n] /\ BlockByBlock(w, d, i, off, n)
<1> DEFINE Is(w, m) == w = [k \in 0 .. m |-> IF k = 0 THEN d ELSE Written(w[k - 1], i, off + k - 1)]
           S == {m \in Nat : \E w : Is(w, m)}
<1>1. 0 \in S
  <2> DEFINE w == [k \in 0 .. 0 |-> d]
  <2>1. Is(w, 0)
    OBVIOUS
  <2> HIDE DEF w
  <2> QED  BY <2>1
<1>2. ASSUME NEW m \in S PROVE m + 1 \in S
  <2>1. PICK w : Is(w, m)
    OBVIOUS
  <2> DEFINE v == [k \in 0 .. m + 1 |-> IF k <= m THEN w[k] ELSE Written(w[m], i, off + (m + 1) - 1)]
  <2>2. \A k \in 0 .. m : v[k] = w[k]
    OBVIOUS
  <2>3. \A k \in 0 .. m + 1 :
          v[k] = IF k = 0 THEN d ELSE Written(v[k - 1], i, off + k - 1)
    <3> SUFFICES ASSUME NEW k \in 0 .. m + 1
                 PROVE  v[k] = IF k = 0 THEN d ELSE Written(v[k - 1], i, off + k - 1)
      OBVIOUS
    <3>1. CASE k <= m
      <4>1. k \in 0 .. m /\ (k # 0 => k - 1 \in 0 .. m)
        BY <3>1
      <4>2. w[k] = IF k = 0 THEN d ELSE Written(w[k - 1], i, off + k - 1)
        BY <2>1, <4>1
      <4> HIDE DEF v
      <4> QED  BY <2>2, <4>1, <4>2
    <3>2. CASE ~(k <= m)
      <4>1. k = m + 1 /\ k # 0 /\ k - 1 = m /\ k - 1 \in 0 .. m
        BY <3>2
      <4>2. v[k] = Written(w[m], i, off + (m + 1) - 1)
        BY <4>1
      <4> HIDE DEF v
      <4> QED  BY <2>2, <4>1, <4>2
    <3> QED  BY <3>1, <3>2
  <2>4. v = [k \in 0 .. m + 1 |-> v[k]]
    OBVIOUS
  <2> HIDE DEF v
  <2>5. Is(v, m + 1)
    BY <2>3, <2>4, Zenon
  <2> QED  BY <2>5
<1>3. \E w : Is(w, n)
  <2> HIDE DEF Is
  <2>1. S \in SUBSET Nat
    OBVIOUS
  <2>2. n \in S
    <3> HIDE DEF S
    <3> QED  BY <1>1, <1>2, <2>1, SetInduction
  <2> QED  BY <2>2
<1> DEFINE w == CHOOSE w : Is(w, n)
<1>4. Is(w, n)
  BY <1>3, Zenon
<1>5. Writei(d, i, off, n) = w[n]
  BY DEF Writei
<1> HIDE DEF w
<1> QED  BY <1>4, <1>5 DEF BlockByBlock

-----------------------------------------------------------------------------
\* Blocks: what bmap and writei do to a sound disk.

\* A block of an inode needs one place of its addresses or two.
LEMMA SlotsAre ==
  ASSUME NEW n \in 0 .. MAXFILE - 1
  PROVE  \E a, b \in Addrs : Slots(n) = {a, b}
BY Constants DEF Slots, MAXFILE

\* The places without a block are some of the addresses.
LEMMA MissingFinite ==
  ASSUME NEW din, NEW n \in 0 .. MAXFILE - 1
  PROVE  /\ Missing(din, n) \subseteq Addrs /\ IsFiniteSet(Missing(din, n))
         /\ Missing(din, n) \subseteq Nat
<1>1. Missing(din, n) \subseteq Addrs /\ Addrs \subseteq Nat
  BY SlotsAre, Constants DEF Missing
<1> QED  BY <1>1, Constants, FS_Subset

\* The free blocks are finitely many.
LEMMA UnownedFinite ==
  ASSUME NEW d
  PROVE  /\ Unowned(d) \subseteq Block /\ IsFiniteSet(Unowned(d)) /\ Unowned(d) \subseteq Nat
         /\ Cardinality(Unowned(d)) \in Nat
<1>1. Unowned(d) \subseteq Block /\ Block \subseteq Nat
  BY DEF Unowned, Block
<1> QED  BY <1>1, Constants, FS_Subset, FS_CardinalityType, Zenon

\* Different blocks that nobody has, for the places that have none.
NewBlocks(d, need) ==
  [k \in need |-> IF k = Least(need) THEN Least(Unowned(d))
                                     ELSE Least(Unowned(d) \ {Least(Unowned(d))})]

\* balloc gives the places that need one different free blocks.
LEMMA BlocksAreNew ==
  ASSUME NEW d, NEW n \in 0 .. MAXFILE - 1, NEW din, NEW need, need = Missing(din, n),
         Cardinality(need) <= Cardinality(Unowned(d))
  PROVE  /\ NewBlocks(d, need) \in [need -> Unowned(d)]
         /\ \A k, m \in need : NewBlocks(d, need)[k] = NewBlocks(d, need)[m] => k = m
<1> DEFINE free == Unowned(d)
           one == Least(need)
           first == Least(free)
           second == Least(free \ {first})
<1>1. /\ need \subseteq Nat /\ IsFiniteSet(need) /\ Cardinality(need) \in Nat
      /\ free \subseteq Nat /\ IsFiniteSet(free) /\ Cardinality(free) \in Nat
  BY MissingFinite, UnownedFinite, FS_CardinalityType
<1>2. PICK a, b : need \subseteq {a, b}
  BY SlotsAre DEF Missing
<1>3. need # {} => first \in free /\ one \in need
  <2>1. ASSUME need # {} PROVE free # {}
    <3>1. Cardinality(need) # 0
      BY <1>1, <2>1, FS_EmptySet
    <3>2. Cardinality(free) # 0
      BY <1>1, <3>1
    <3> QED  BY <3>2, FS_EmptySet
  <2> QED  BY <1>1, <2>1, LeastElement
<1>4. ASSUME NEW k \in need, k # one PROVE second \in free \ {first}
  <2>1. /\ IsFiniteSet(need \ {one}) /\ Cardinality(need \ {one}) = Cardinality(need) - 1
        /\ IsFiniteSet(free \ {first}) /\ Cardinality(free \ {first}) = Cardinality(free) - 1
    BY <1>1, <1>3, <1>4, FS_RemoveElement
  <2>2. Cardinality(need \ {one}) # 0 /\ Cardinality(need \ {one}) \in Nat
    BY <1>4, <2>1, FS_EmptySet, FS_CardinalityType
  <2>3. Cardinality(free \ {first}) # 0
    BY <1>1, <2>1, <2>2
  <2>4. free \ {first} # {}
    BY <2>3, FS_EmptySet
  <2>5. free \ {first} \in SUBSET Nat
    BY <1>1
  <2> QED  BY <2>4, <2>5, LeastElement
<1>5. \A k, m \in need : k # one /\ m # one => k = m
  BY <1>2, <1>3
<1> HIDE DEF one, first, second, free
<1>6. NewBlocks(d, need) = [k \in need |-> IF k = one THEN first ELSE second]
  BY DEF NewBlocks, one, first, second, free
<1>7. ASSUME NEW k \in need PROVE (IF k = one THEN first ELSE second) \in free
  BY <1>3, <1>4, <1>7
<1>8. ASSUME NEW k \in need, NEW m \in need, k = one, m # one PROVE first # second
  BY <1>3, <1>4, <1>8
<1> QED  BY <1>5, <1>6, <1>7, <1>8 DEF free

\* d with new blocks at the places of need of the inode i.
Given(d, i, new) == [d EXCEPT !.inode[i].addrs = Updated(@, new),
                              !.used = @ \cup {new[k] : k \in DOMAIN new}]

\* The fields of an inode on a typed disk.
LEMMA DiskFields ==
  ASSUME NEW d, DiskTyped(d), NEW i \in Inum
  PROVE  /\ d.inode[i] \in Dinodes /\ d.inode[i].addrs \in [Addrs -> Block \cup {0}]
         /\ d.inode[i].type \in Kinds /\ d.inode[i].nlink \in Int
         /\ d.inode[i].size \in 0 .. MAXFILE
BY DEF DiskTyped, Dinodes

\* The disk after bmap has stored the blocks it took.
LEMMA GivenIs ==
  ASSUME NEW d, DiskTyped(d), NEW i \in Inum, NEW need, need \subseteq Addrs,
         NEW new \in [need -> Block]
  PROVE  LET e == Given(d, i, new)
         IN  /\ DOMAIN e = {"inode", "dir", "used"} /\ e.dir = d.dir
             /\ e.used = d.used \cup {new[k] : k \in need} /\ DOMAIN e.inode = Inum
             /\ \A j \in Inum \ {i} : e.inode[j] = d.inode[j]
             /\ e.inode[i] \in Dinodes
             /\ e.inode[i].type = d.inode[i].type /\ e.inode[i].nlink = d.inode[i].nlink
             /\ e.inode[i].size = d.inode[i].size
             /\ \A k \in Addrs : e.inode[i].addrs[k] = IF k \in need THEN new[k] ELSE d.inode[i].addrs[k]
<1> DEFINE a == d.inode[i].addrs
           b == Updated(a, new)
           din == [d.inode[i] EXCEPT !.addrs = b]
           e == Given(d, i, new)
<1>1. d.inode[i] \in Dinodes /\ a \in [Addrs -> Block \cup {0}] /\ DOMAIN d.inode = Inum
  BY DiskFields DEF DiskTyped
<1>2. b \in [Addrs -> Block \cup {0}] /\ \A k \in Addrs : b[k] = IF k \in need THEN new[k] ELSE a[k]
  BY <1>1 DEF Updated
<1> HIDE DEF b
<1>3. /\ din \in Dinodes /\ din.addrs = b /\ din.type = d.inode[i].type
      /\ din.nlink = d.inode[i].nlink /\ din.size = d.inode[i].size
  BY <1>1, <1>2 DEF Dinodes
<1>4. /\ DOMAIN e = {"inode", "dir", "used"} /\ e.dir = d.dir
      /\ e.used = d.used \cup {new[k] : k \in need}
      /\ e.inode = [d.inode EXCEPT ![i] = din]
  BY DEF DiskTyped, Given, b
<1> HIDE DEF din, e
<1>5. DOMAIN e.inode = Inum /\ e.inode[i] = din /\ \A j \in Inum \ {i} : e.inode[j] = d.inode[j]
  BY <1>1, <1>4
<1> QED  BY <1>2, <1>3, <1>4, <1>5 DEF e

\* No inode has a free block.
LEMMA OwnedIs ==
  ASSUME NEW d, UsedIsOwned(d), NEW b \in Unowned(d), NEW i \in Inum, NEW k \in Addrs
  PROVE  d.inode[i].addrs[k] # b
BY DEF UsedIsOwned, Unowned

\* An inode that has more blocks misses fewer.
LEMMA MissingLess ==
  ASSUME NEW d, NEW e, NEW n \in 0 .. MAXFILE - 1,
         \A k \in Addrs : d.addrs[k] # 0 => e.addrs[k] # 0
  PROVE  Missing(e, n) \subseteq Missing(d, n)
BY SlotsAre DEF Missing

\* Giving free blocks to the places of an inode that have none keeps the disk sound.
LEMMA GivenSound ==
  ASSUME NEW d, Sound(d), NEW i \in Inum, d.inode[i].type # "free",
         NEW need, need \subseteq Addrs, IsFiniteSet(need),
         \A k \in need : d.inode[i].addrs[k] = 0,
         NEW new \in [need -> Unowned(d)],
         \A k, m \in need : new[k] = new[m] => k = m
  PROVE  LET e == Given(d, i, new)
         IN  /\ Sound(e)
             /\ Unowned(e) = Unowned(d) \ {new[k] : k \in need}
             /\ Cardinality(Unowned(e)) = Cardinality(Unowned(d)) - Cardinality(need)
<1> DEFINE e == Given(d, i, new)
           got == {new[k] : k \in need}
<1>0. DiskTyped(d) /\ OneOwner(d) /\ UsedIsOwned(d) /\ SizeIsThere(d) /\ FreeIsEmpty(d)
  BY DEF Sound
<1>1. /\ new \in [need -> Block] /\ got \subseteq Unowned(d) /\ got \subseteq Block
      /\ \A k \in need : new[k] # 0 /\ new[k] \in Unowned(d)
  BY UnownedFinite, Constants
<1>2. /\ DOMAIN e = {"inode", "dir", "used"} /\ e.dir = d.dir
      /\ e.used = d.used \cup got /\ DOMAIN e.inode = Inum
      /\ \A j \in Inum \ {i} : e.inode[j] = d.inode[j]
      /\ e.inode[i] \in Dinodes
      /\ e.inode[i].type = d.inode[i].type /\ e.inode[i].nlink = d.inode[i].nlink
      /\ e.inode[i].size = d.inode[i].size
      /\ \A k \in Addrs : e.inode[i].addrs[k] = IF k \in need THEN new[k] ELSE d.inode[i].addrs[k]
  BY <1>0, <1>1, GivenIs
<1> HIDE DEF e
<1>3. DiskTyped(e)
  <2>1. e.inode \in [Inum -> Dinodes]
    <3>1. \A j \in Inum : e.inode[j] \in Dinodes
      BY <1>0, <1>2, DiskFields
    <3>2. e.inode = [j \in Inum |-> e.inode[j]]
      <4>1. d.inode \in [Inum -> Dinodes]
        BY <1>0 DEF DiskTyped
      <4> QED  BY <4>1 DEF e, Given
    <3> QED  BY <3>1, <3>2
  <2> QED  BY <1>0, <1>1, <1>2, <2>1 DEF DiskTyped
<1>4. \A j \in Inum, k \in Addrs :
        \/ e.inode[j].addrs[k] = d.inode[j].addrs[k] /\ (j = i => k \notin need)
        \/ j = i /\ k \in need /\ e.inode[j].addrs[k] = new[k]
  BY <1>2
<1>5. \A j \in Inum, k \in Addrs, m \in need : d.inode[j].addrs[k] # new[m]
  BY <1>0, <1>1, OwnedIs
<1>6. OneOwner(e)
  <2> SUFFICES ASSUME NEW j \in Inum, NEW l \in Inum, NEW k \in Addrs, NEW m \in Addrs,
                      e.inode[j].addrs[k] = e.inode[l].addrs[m], e.inode[j].addrs[k] # 0
               PROVE  j = l /\ k = m
    BY DEF OneOwner
  <2>1. CASE j = i /\ k \in need /\ e.inode[j].addrs[k] = new[k]
    <3>1. l = i /\ m \in need /\ e.inode[l].addrs[m] = new[m]
      BY <1>4, <1>5, <2>1
    <3> QED  BY <2>1, <3>1
  <2>2. CASE e.inode[j].addrs[k] = d.inode[j].addrs[k]
    <3>1. CASE l = i /\ m \in need /\ e.inode[l].addrs[m] = new[m]
      <4>1. d.inode[j].addrs[k] # new[m]
        BY <1>5, <3>1
      <4> QED  BY <2>2, <3>1, <4>1, Zenon
    <3>2. CASE e.inode[l].addrs[m] = d.inode[l].addrs[m]
      <4>1. d.inode[j].addrs[k] = d.inode[l].addrs[m] /\ d.inode[j].addrs[k] # 0
        BY <2>2, <3>2, Zenon
      <4> QED  BY <1>0, <4>1 DEF OneOwner
    <3> QED  BY <1>4, <3>1, <3>2
  <2> QED  BY <1>4, <2>1, <2>2
<1>7. UsedIsOwned(e)
  <2> SUFFICES ASSUME NEW a \in Block
               PROVE  a \in e.used <=> \E j \in Inum, k \in Addrs : e.inode[j].addrs[k] = a
    BY DEF UsedIsOwned
  <2>1. ASSUME a \in d.used PROVE \E j \in Inum, k \in Addrs : e.inode[j].addrs[k] = a
    <3>1. PICK j \in Inum, k \in Addrs : d.inode[j].addrs[k] = a
      BY <1>0, <2>1 DEF UsedIsOwned
    <3>2. a # 0
      BY Constants
    <3> QED  BY <1>4, <3>1, <3>2
  <2>2. ASSUME a \in got PROVE \E j \in Inum, k \in Addrs : e.inode[j].addrs[k] = a
    BY <1>2, <2>2
  <2>3. ASSUME NEW j \in Inum, NEW k \in Addrs, e.inode[j].addrs[k] = a PROVE a \in d.used \cup got
    BY <1>0, <1>4, <2>3 DEF UsedIsOwned
  <2> QED  BY <1>2, <2>1, <2>2, <2>3
<1>8. SizeIsThere(e)
  <2> SUFFICES ASSUME NEW j \in Inum, NEW n \in 0 .. MAXFILE - 1, n < e.inode[j].size
               PROVE  Missing(e.inode[j], n) = {}
    BY DEF SizeIsThere
  <2>1. e.inode[j].size = d.inode[j].size
    BY <1>2
  <2>2. Missing(d.inode[j], n) = {}
    BY <1>0, <2>1 DEF SizeIsThere
  <2>3. \A k \in Addrs : d.inode[j].addrs[k] # 0 => e.inode[j].addrs[k] # 0
    BY <1>1, <1>4
  <2> QED  BY <2>2, <2>3, MissingLess
<1>9. FreeIsEmpty(e)
  BY <1>0, <1>2 DEF FreeIsEmpty
<1>10. Unowned(e) = Unowned(d) \ got
  BY <1>2 DEF Unowned
<1>11. Cardinality(Unowned(e)) = Cardinality(Unowned(d)) - Cardinality(need)
  <2>1. new \in Bijection(need, got)
    BY DEF Bijection, Injection, Surjection, IsInjective
  <2>2. IsFiniteSet(got) /\ Cardinality(got) = Cardinality(need)
    BY <2>1, FS_Bijection DEF ExistsBijection
  <2>3. Cardinality(Unowned(d) \ got) = Cardinality(Unowned(d)) - Cardinality(Unowned(d) \cap got)
    BY UnownedFinite, FS_Difference, Zenon
  <2>4. Unowned(d) \cap got = got
    BY <1>1
  <2> QED  BY <1>10, <2>2, <2>3, <2>4, Zenon
<1> QED  BY <1>3, <1>6, <1>7, <1>8, <1>9, <1>10, <1>11 DEF Sound, e

\* The disk after iupdate.
LEMMA StoredIs ==
  ASSUME NEW d, DiskTyped(d), NEW i \in Inum, NEW din \in Dinodes
  PROVE  LET e == Stored(d, i, din)
         IN  /\ DiskTyped(e) /\ e.dir = d.dir /\ e.used = d.used /\ Unowned(e) = Unowned(d)
             /\ e.inode[i] = din /\ \A j \in Inum \ {i} : e.inode[j] = d.inode[j]
<1> DEFINE e == Stored(d, i, din)
<1>1. /\ DOMAIN e = {"inode", "dir", "used"} /\ e.dir = d.dir /\ e.used = d.used
      /\ e.inode = [d.inode EXCEPT ![i] = din]
  BY DEF Stored, DiskTyped
<1> HIDE DEF e
<1>2. d.inode \in [Inum -> Dinodes]
  BY DEF DiskTyped
<1>3. e.inode \in [Inum -> Dinodes]
  BY <1>1, <1>2
<1> QED  BY <1>1, <1>2, <1>3 DEF DiskTyped, Unowned, e

\* iupdate, of what has the same blocks: a count that changed, a size, a new type.
LEMMA StoredSound ==
  ASSUME NEW d, Sound(d), NEW i \in Inum, NEW din \in Dinodes, din.type # "free",
         din.addrs = d.inode[i].addrs,
         \A n \in 0 .. MAXFILE - 1 : n < din.size => Missing(din, n) = {}
  PROVE  Sound(Stored(d, i, din))
<1> DEFINE e == Stored(d, i, din)
<1>1. DiskTyped(d) /\ OneOwner(d) /\ UsedIsOwned(d) /\ SizeIsThere(d) /\ FreeIsEmpty(d)
  BY DEF Sound
<1>2. /\ DiskTyped(e) /\ e.dir = d.dir /\ e.used = d.used
      /\ e.inode[i] = din /\ \A j \in Inum \ {i} : e.inode[j] = d.inode[j]
  BY <1>1, StoredIs
<1> HIDE DEF e
<1>3. \A j \in Inum : e.inode[j].addrs = d.inode[j].addrs
  BY <1>2
<1>4. OneOwner(e)
  BY <1>1, <1>3, SMTT(30) DEF OneOwner
<1>5. UsedIsOwned(e)
  BY <1>1, <1>2, <1>3 DEF UsedIsOwned
<1>6. SizeIsThere(e)
  BY <1>1, <1>2 DEF SizeIsThere
<1>7. FreeIsEmpty(e)
  BY <1>1, <1>2 DEF FreeIsEmpty
<1> QED  BY <1>2, <1>4, <1>5, <1>6, <1>7 DEF Sound, e

\* bmap gives new blocks to the places that miss one.
LEMMA BmapIs ==
  ASSUME NEW d, NEW i, NEW n \in 0 .. MAXFILE - 1,
         Cardinality(Missing(d.inode[i], n)) <= Cardinality(Unowned(d))
  PROVE  LET need == Missing(d.inode[i], n)
         IN  /\ Bmap(d, i, n) = Given(d, i, NewBlocks(d, need))
             /\ NewBlocks(d, need) \in [need -> Unowned(d)]
             /\ \A k, m \in need : NewBlocks(d, need)[k] = NewBlocks(d, need)[m] => k = m
             /\ need \subseteq Addrs /\ IsFiniteSet(need)
             /\ \A k \in need : d.inode[i].addrs[k] = 0
<1> DEFINE need == Missing(d.inode[i], n)
<1>1. NewBlocks(d, need) \in [need -> Unowned(d)]
      /\ \A k, m \in need : NewBlocks(d, need)[k] = NewBlocks(d, need)[m] => k = m
  BY BlocksAreNew
<1>2. DOMAIN NewBlocks(d, need) = need
  BY <1>1
<1>3. Bmap(d, i, n) = Given(d, i, NewBlocks(d, need))
  BY <1>2 DEF Bmap, Given, NewBlocks
<1>4. \A k \in need : d.inode[i].addrs[k] = 0
  BY DEF Missing
<1> QED  BY <1>1, <1>3, <1>4, MissingFinite

\* bmap keeps the disk sound, and the block it was asked for is there.
LEMMA BmapSound ==
  ASSUME NEW d, Sound(d), NEW i \in Inum, d.inode[i].type # "free", NEW n \in 0 .. MAXFILE - 1,
         Cardinality(Missing(d.inode[i], n)) <= Cardinality(Unowned(d))
  PROVE  LET e == Bmap(d, i, n)
         IN  /\ Sound(e) /\ e.dir = d.dir
             /\ \A j \in Inum \ {i} : e.inode[j] = d.inode[j]
             /\ e.inode[i].type = d.inode[i].type /\ e.inode[i].nlink = d.inode[i].nlink
             /\ e.inode[i].size = d.inode[i].size
             /\ Missing(e.inode[i], n) = {}
             /\ \A k \in Addrs : d.inode[i].addrs[k] # 0 => e.inode[i].addrs[k] # 0
             /\ Cardinality(Unowned(e))
                  = Cardinality(Unowned(d)) - Cardinality(Missing(d.inode[i], n))
<1> DEFINE need == Missing(d.inode[i], n)
           new == NewBlocks(d, need)
           e == Bmap(d, i, n)
<1>1. /\ e = Given(d, i, new) /\ new \in [need -> Unowned(d)]
      /\ \A k, m \in need : new[k] = new[m] => k = m
      /\ need \subseteq Addrs /\ IsFiniteSet(need)
      /\ \A k \in need : d.inode[i].addrs[k] = 0
  BY BmapIs, Zenon
<1> HIDE DEF new, e
<1>2. new \in [need -> Block] /\ \A k \in need : new[k] # 0
  BY <1>1, UnownedFinite, Constants
<1>3. /\ e.dir = d.dir
      /\ \A j \in Inum \ {i} : e.inode[j] = d.inode[j]
      /\ e.inode[i].type = d.inode[i].type /\ e.inode[i].nlink = d.inode[i].nlink
      /\ e.inode[i].size = d.inode[i].size
      /\ \A k \in Addrs : e.inode[i].addrs[k] = IF k \in need THEN new[k] ELSE d.inode[i].addrs[k]
  BY <1>1, <1>2, GivenIs DEF Sound
<1>4. Sound(e) /\ Cardinality(Unowned(e)) = Cardinality(Unowned(d)) - Cardinality(need)
  BY <1>1, GivenSound
<1>5. Missing(e.inode[i], n) = {}
  <2> SUFFICES ASSUME NEW k \in Slots(n), e.inode[i].addrs[k] = 0 PROVE FALSE
    BY DEF Missing
  <2>1. k \in Addrs
    BY SlotsAre
  <2>2. k \in need => e.inode[i].addrs[k] = new[k]
    BY <1>3, <2>1
  <2>3. k \notin need => e.inode[i].addrs[k] = d.inode[i].addrs[k]
    BY <1>3, <2>1
  <2>4. k \notin need => d.inode[i].addrs[k] # 0
    BY DEF Missing
  <2> QED  BY <1>2, <2>2, <2>3, <2>4
<1>6. \A k \in Addrs : d.inode[i].addrs[k] # 0 => e.inode[i].addrs[k] # 0
  BY <1>1, <1>3
<1> QED  BY <1>3, <1>4, <1>5, <1>6 DEF e

\* One block of writei, at the end of the file or inside it.
OneMore(d, e, i, off) ==
  /\ Sound(e) /\ e.dir = d.dir
  /\ \A j \in Inum \ {i} : e.inode[j] = d.inode[j]
  /\ e.inode[i].type = d.inode[i].type /\ e.inode[i].nlink = d.inode[i].nlink
  /\ e.inode[i].size >= d.inode[i].size /\ e.inode[i].size >= off + 1
  /\ Missing(e.inode[i], off) = {}
  /\ \A k \in Addrs : d.inode[i].addrs[k] # 0 => e.inode[i].addrs[k] # 0
  /\ Cardinality(Unowned(e)) = Cardinality(Unowned(d)) - Cardinality(Missing(d.inode[i], off))

\* writei of one block keeps the disk sound; the file ends behind the block or later.
LEMMA WrittenSound ==
  ASSUME NEW d, Sound(d), NEW i \in Inum, d.inode[i].type # "free", NEW off \in 0 .. MAXFILE - 1,
         off <= d.inode[i].size,
         Cardinality(Missing(d.inode[i], off)) <= Cardinality(Unowned(d))
  PROVE  OneMore(d, Written(d, i, off), i, off)
<1> DEFINE b == Bmap(d, i, off)
           size == IF off + 1 > b.inode[i].size THEN off + 1 ELSE b.inode[i].size
           din == [b.inode[i] EXCEPT !.size = size]
           e == Written(d, i, off)
<1>1. /\ Sound(b) /\ b.dir = d.dir
      /\ \A j \in Inum \ {i} : b.inode[j] = d.inode[j]
      /\ b.inode[i].type = d.inode[i].type /\ b.inode[i].nlink = d.inode[i].nlink
      /\ b.inode[i].size = d.inode[i].size
      /\ Missing(b.inode[i], off) = {}
      /\ \A k \in Addrs : d.inode[i].addrs[k] # 0 => b.inode[i].addrs[k] # 0
      /\ Cardinality(Unowned(b)) = Cardinality(Unowned(d)) - Cardinality(Missing(d.inode[i], off))
  BY BmapSound
<1> HIDE DEF b
<1>2. /\ DiskTyped(b) /\ SizeIsThere(b)
      /\ b.inode[i] \in Dinodes /\ b.inode[i].size \in 0 .. MAXFILE
  BY <1>1, DiskFields DEF Sound
<1>3. size \in 0 .. MAXFILE /\ size >= b.inode[i].size /\ size >= off + 1
      /\ (size > b.inode[i].size => size = off + 1)
  BY <1>2, Constants
<1> HIDE DEF size
<1>4. /\ din \in Dinodes /\ din.type = b.inode[i].type /\ din.nlink = b.inode[i].nlink
      /\ din.size = size /\ din.addrs = b.inode[i].addrs
  BY <1>2, <1>3 DEF Dinodes
<1>5. e = Stored(b, i, din)
  BY <1>2 DEF Written, Stored, DiskTyped, b, size
<1> HIDE DEF din, e
<1>6. /\ DiskTyped(e) /\ e.dir = b.dir /\ Unowned(e) = Unowned(b)
      /\ e.inode[i] = din /\ \A j \in Inum \ {i} : e.inode[j] = b.inode[j]
  BY <1>2, <1>4, <1>5, StoredIs
<1>7. \A n \in 0 .. MAXFILE - 1 : Missing(din, n) = Missing(b.inode[i], n)
  BY <1>4 DEF Missing
<1>8. ASSUME NEW n \in 0 .. MAXFILE - 1, n < din.size PROVE Missing(din, n) = {}
  <2>1. CASE n < b.inode[i].size
    BY <1>2, <1>7, <2>1 DEF SizeIsThere
  <2>2. CASE ~(n < b.inode[i].size)
    <3>1. n = off
      BY <1>1, <1>2, <1>3, <1>4, <1>8, <2>2
    <3> QED  BY <1>1, <1>7, <3>1
  <2> QED  BY <2>1, <2>2
<1>9. Sound(e)
  BY <1>1, <1>4, <1>5, <1>8, StoredSound
<1>10. Missing(e.inode[i], off) = {} /\ \A k \in Addrs : d.inode[i].addrs[k] # 0 => e.inode[i].addrs[k] # 0
  BY <1>1, <1>4, <1>6, <1>7
<1> QED  BY <1>1, <1>3, <1>4, <1>6, <1>9, <1>10 DEF e, OneMore

\* The places that the blocks off + m, for m from k, still need.
Needed(din, off, k, n) == UNION {Missing(din, off + m) : m \in k .. n - 1}

\* The places that a write misses are finitely many.
LEMMA NeededFinite ==
  ASSUME NEW din, NEW off \in Nat, NEW n \in Nat, off + n <= MAXFILE, NEW k \in Nat
  PROVE  /\ IsFiniteSet(Needed(din, off, k, n)) /\ Cardinality(Needed(din, off, k, n)) \in Nat
         /\ \A x : x \in Needed(din, off, k, n)
                     <=> \E m \in k .. n - 1 : x \in Missing(din, off + m)
<1>1. \A m \in k .. n - 1 : off + m \in 0 .. MAXFILE - 1
  BY Constants
<1>2. Needed(din, off, k, n) \subseteq Addrs
  BY <1>1, MissingFinite DEF Needed
<1>3. \A x : x \in Needed(din, off, k, n) <=> \E m \in k .. n - 1 : x \in Missing(din, off + m)
  BY DEF Needed
<1> QED  BY <1>2, <1>3, Constants, FS_Subset, FS_CardinalityType, Zenon

\* writei, where there are enough blocks for it, and it does not start behind the end.
Grown(d, e, i) ==
  /\ Sound(e) /\ e.dir = d.dir
  /\ \A j \in Inum \ {i} : e.inode[j] = d.inode[j]
  /\ e.inode[i].type = d.inode[i].type /\ e.inode[i].nlink = d.inode[i].nlink
  /\ e.inode[i].size >= d.inode[i].size

\* writei of n blocks keeps the disk sound, where there are blocks enough for it.
LEMMA WriteiSound ==
  ASSUME NEW d, Sound(d), NEW i \in Inum, d.inode[i].type # "free", NEW off \in Nat, NEW n \in Nat,
         off <= d.inode[i].size, off + n <= MAXFILE,
         Cardinality(Needed(d.inode[i], off, 0, n)) <= Cardinality(Unowned(d))
  PROVE  LET e == Writei(d, i, off, n)
         IN  Grown(d, e, i) /\ e.inode[i].size >= off + n
<1>1. PICK w : Writei(d, i, off, n) = w[n] /\ BlockByBlock(w, d, i, off, n)
  BY WriteiIs
<1> DEFINE Good(e, k) == /\ Grown(d, e, i) /\ e.inode[i].size >= off + k
                         /\ Cardinality(Needed(e.inode[i], off, k, n)) <= Cardinality(Unowned(e))
           S == {k \in Nat : k <= n => Good(w[k], k)}
<1>2. w[0] = d /\ \A k \in 1 .. n : w[k] = Written(w[k - 1], i, off + k - 1)
  BY <1>1 DEF BlockByBlock
<1>3. d.inode[i].size \in Nat
  BY DiskFields DEF Sound
<1>4. 0 \in S
  <2>1. Good(d, 0)
    BY <1>3 DEF Grown
  <2> HIDE DEF Good
  <2> QED  BY <1>2, <2>1
<1>5. ASSUME NEW k \in S PROVE k + 1 \in S
  <2> SUFFICES ASSUME k + 1 <= n PROVE Good(w[k + 1], k + 1)
    BY <1>5
  <2>1. k \in Nat /\ k + 1 \in 1 .. n /\ k <= n /\ off + k \in 0 .. MAXFILE - 1
    BY <1>5, Constants, SMTT(30)
  <2> DEFINE c == w[k]
             e == w[k + 1]
             need == Missing(c.inode[i], off + k)
             all == Needed(c.inode[i], off, k, n)
             rest == Needed(e.inode[i], off, k + 1, n)
  <2>2. Good(c, k)
    <3> HIDE DEF Good
    <3> QED  BY <1>5, <2>1
  <2>3. e = Written(c, i, off + k)
    <3>1. (k + 1) - 1 = k /\ off + (k + 1) - 1 = off + k
      BY <2>1
    <3> QED  BY <1>2, <2>1, <3>1
  <2> HIDE DEF c, e
  <2>4. c.inode[i].size \in Nat /\ c.inode[i].type # "free" /\ off + k <= c.inode[i].size
    BY <2>1, <2>2, DiskFields DEF Sound, Grown
  <2>5. need \subseteq all
    <3>1. k \in k .. n - 1
      BY <2>1
    <3> QED  BY <3>1 DEF Needed
  <2>6. IsFiniteSet(all) /\ Cardinality(all) \in Nat /\ IsFiniteSet(need) /\ Cardinality(need) \in Nat
        /\ Cardinality(need) <= Cardinality(all)
    BY <2>1, <2>5, NeededFinite, FS_Subset, FS_CardinalityType, Zenon
  <2>7. Cardinality(need) <= Cardinality(Unowned(c))
    BY <2>2, <2>6, UnownedFinite
  <2>8. /\ Sound(e) /\ e.dir = c.dir
        /\ \A j \in Inum \ {i} : e.inode[j] = c.inode[j]
        /\ e.inode[i].type = c.inode[i].type /\ e.inode[i].nlink = c.inode[i].nlink
        /\ e.inode[i].size >= c.inode[i].size /\ e.inode[i].size >= off + k + 1
        /\ Missing(e.inode[i], off + k) = {}
        /\ \A a \in Addrs : c.inode[i].addrs[a] # 0 => e.inode[i].addrs[a] # 0
        /\ Cardinality(Unowned(e)) = Cardinality(Unowned(c)) - Cardinality(need)
    <3>1. PICK o \in 0 .. MAXFILE - 1 : o = off + k
      BY <2>1
    <3>2. Sound(c)
      BY <2>2 DEF Grown
    <3>3. e = Written(c, i, o) /\ need = Missing(c.inode[i], o) /\ o <= c.inode[i].size
      BY <2>3, <2>4, <3>1
    <3> HIDE DEF need
    <3>4. Cardinality(Missing(c.inode[i], o)) <= Cardinality(Unowned(c)) /\ c.inode[i].type # "free"
      BY <2>4, <2>7, <3>3
    <3>5. OneMore(c, e, i, o)
      BY <3>2, <3>3, <3>4, WrittenSound
    <3> QED  BY <3>1, <3>3, <3>5 DEF OneMore
  <2>9. rest \subseteq all \ need
    <3> SUFFICES ASSUME NEW x \in rest PROVE x \in all /\ x \notin need
      OBVIOUS
    <3>1. PICK m \in k + 1 .. n - 1 : x \in Missing(e.inode[i], off + m)
      BY DEF Needed
    <3>2. m \in k .. n - 1 /\ off + m \in 0 .. MAXFILE - 1
      BY <2>1, Constants, SMTT(30)
    <3>3. x \in Missing(c.inode[i], off + m)
      BY <2>8, <3>1, <3>2, MissingLess
    <3>4. x \in all
      BY <2>1, <3>2, <3>3, NeededFinite, Zenon
    <3>5. e.inode[i].addrs[x] = 0
      BY <3>1 DEF Missing
    <3>6. x \notin need
      BY <2>8, <3>5 DEF Missing
    <3> QED  BY <3>4, <3>6
  <2>10. Cardinality(rest) <= Cardinality(all) - Cardinality(need)
    <3>1. all \cap need = need
      BY <2>5
    <3>2. IsFiniteSet(all \ need) /\ Cardinality(all \ need) = Cardinality(all) - Cardinality(need)
      BY <2>6, <3>1, FS_Difference, ZenonT(30)
    <3> QED  BY <2>9, <3>2, FS_Subset
  <2>11. Cardinality(rest) <= Cardinality(Unowned(e))
    <3>1. Cardinality(rest) \in Nat /\ Cardinality(Unowned(c)) \in Nat /\ Cardinality(Unowned(e)) \in Nat
      BY <2>1, NeededFinite, UnownedFinite, k + 1 \in Nat, Zenon
    <3>2. Cardinality(all) <= Cardinality(Unowned(c))
      BY <2>2
    <3> HIDE DEF rest, all, need
    <3> QED  BY <2>6, <2>8, <2>10, <3>1, <3>2
  <2>12. e.inode[i].size \in Nat
    BY <2>8, DiskFields DEF Sound
  <2>13. Grown(d, e, i) /\ e.inode[i].size >= off + (k + 1)
    BY <1>3, <2>1, <2>2, <2>4, <2>8, <2>12 DEF Grown
  <2> QED  BY <2>11, <2>13 DEF e
<1>6. n \in S
  <2>1. S \in SUBSET Nat
    OBVIOUS
  <2> HIDE DEF S
  <2> QED  BY <1>4, <1>5, <2>1, SetInduction, Zenon
<1>7. Good(w[n], n)
  <2> HIDE DEF Good
  <2> QED  BY <1>6
<1> QED  BY <1>1, <1>7

\* itrunc, and the inode free.
LEMMA EmptyTyped == FreeInode \in Dinodes /\ EmptyDir \in [AllNames -> Inum \cup {0}]
                    /\ FreeInode.addrs = NoAddrs /\ FreeInode.size = 0 /\ FreeInode.type = "free"
                    /\ FreeInode.nlink = 0 /\ NoAddrs \in [Addrs -> Block \cup {0}]
                    /\ \A k \in Addrs : NoAddrs[k] = 0
BY Constants DEF FreeInode, Inode, NoAddrs, EmptyDir, Dinodes, Kinds

\* itrunc and the release of the inode keep the disk sound, and others' inodes as they are.
LEMMA TruncatedSound ==
  ASSUME NEW d, Sound(d), NEW i \in Inum
  PROVE  LET e == Truncated(d, i)
         IN  /\ Sound(e)
             /\ \A j \in Inum \ {i} : e.inode[j] = d.inode[j] /\ e.dir[j] = d.dir[j]
             /\ e.inode[i] = FreeInode /\ e.dir[i] = EmptyDir
<1> DEFINE e == Truncated(d, i)
<1>1. DiskTyped(d) /\ OneOwner(d) /\ UsedIsOwned(d) /\ SizeIsThere(d) /\ FreeIsEmpty(d)
  BY DEF Sound
<1>2. /\ DOMAIN e = {"inode", "dir", "used"}
      /\ e.inode = [d.inode EXCEPT ![i] = FreeInode] /\ e.dir = [d.dir EXCEPT ![i] = EmptyDir]
      /\ e.used = d.used \ Owned(d.inode[i])
  BY <1>1 DEF Truncated, DiskTyped
<1> HIDE DEF e
<1>3. /\ d.inode \in [Inum -> Dinodes] /\ d.dir \in [Inum -> [AllNames -> Inum \cup {0}]]
      /\ d.used \subseteq Block
  BY <1>1 DEF DiskTyped
<1>4. e.inode \in [Inum -> Dinodes] /\ e.dir \in [Inum -> [AllNames -> Inum \cup {0}]]
  BY <1>2, <1>3, EmptyTyped
<1>5. /\ \A j \in Inum \ {i} : e.inode[j] = d.inode[j] /\ e.dir[j] = d.dir[j]
      /\ e.inode[i] = FreeInode /\ e.dir[i] = EmptyDir
  BY <1>2, <1>3
<1>6. DiskTyped(e)
  BY <1>2, <1>3, <1>4 DEF DiskTyped
<1>7. \A j \in Inum, k \in Addrs :
        e.inode[j].addrs[k] = IF j = i THEN 0 ELSE d.inode[j].addrs[k]
  BY <1>5, EmptyTyped
<1>8. OneOwner(e)
  BY <1>1, <1>7 DEF OneOwner
<1>9. UsedIsOwned(e)
  <2> SUFFICES ASSUME NEW a \in Block
               PROVE  a \in e.used <=> \E j \in Inum, k \in Addrs : e.inode[j].addrs[k] = a
    BY DEF UsedIsOwned
  <2>1. a # 0
    BY Constants
  <2>2. a \in Owned(d.inode[i]) <=> \E k \in Addrs : d.inode[i].addrs[k] = a
    BY <2>1 DEF Owned
  <2>3. a \in d.used <=> \E j \in Inum, k \in Addrs : d.inode[j].addrs[k] = a
    BY <1>1 DEF UsedIsOwned
  <2>4. ASSUME a \in e.used PROVE \E j \in Inum, k \in Addrs : e.inode[j].addrs[k] = a
    BY <1>2, <1>7, <2>2, <2>3, <2>4
  <2>5. ASSUME NEW j \in Inum, NEW k \in Addrs, e.inode[j].addrs[k] = a PROVE a \in e.used
    <3>1. j # i /\ d.inode[j].addrs[k] = a
      BY <1>7, <2>1, <2>5
    <3>2. a \notin Owned(d.inode[i])
      BY <1>1, <2>1, <2>2, <3>1 DEF OneOwner
    <3> QED  BY <1>2, <2>3, <3>1, <3>2
  <2> QED  BY <2>4, <2>5
<1>10. SizeIsThere(e)
  BY <1>1, <1>5, EmptyTyped, Constants DEF SizeIsThere
<1>11. FreeIsEmpty(e)
  BY <1>1, <1>5 DEF FreeIsEmpty
<1> QED  BY <1>5, <1>6, <1>8, <1>9, <1>10, <1>11 DEF Sound, e

\* A change of a directory's entries.
LEMMA EntrySound ==
  ASSUME NEW d, Sound(d), NEW e, DOMAIN e = DOMAIN d, e.inode = d.inode, e.used = d.used,
         e.dir \in [Inum -> [AllNames -> Inum \cup {0}]]
  PROVE  Sound(e)
<1>1. DiskTyped(d) /\ OneOwner(d) /\ UsedIsOwned(d) /\ SizeIsThere(d) /\ FreeIsEmpty(d)
  BY DEF Sound
<1>2. DiskTyped(e)
  BY <1>1 DEF DiskTyped
<1>3. OneOwner(e)
  BY <1>1 DEF OneOwner
<1>4. UsedIsOwned(e)
  BY <1>1 DEF UsedIsOwned
<1>5. SizeIsThere(e) /\ FreeIsEmpty(e)
  BY <1>1, Zenon DEF SizeIsThere, FreeIsEmpty
<1> QED  BY <1>2, <1>3, <1>4, <1>5 DEF Sound

-----------------------------------------------------------------------------
\* The cache and the references that its entries have.

RefsSame(c, e) == \A j \in Inum : e[j].ref = c[j].ref
RefsPlus(c, e, i) == \A j \in Inum : e[j].ref = c[j].ref + One(j = i)

\* What ilock finds is what is on the disk.
LEMMA FoundIs ==
  ASSUME CacheOf(icache, disk), NEW i \in Inum
  PROVE  Found(i) = disk.inode[i]
BY DEF CacheOf, Found

\* iupdate: cache and disk have the same inode, and the references stay.
LEMMA CachedIs ==
  ASSUME NEW c, NEW d, NEW e, CacheOf(c, d), NEW i \in Inum, NEW din \in Dinodes,
         \A j \in Inum \ {i} : e.inode[j] = d.inode[j], e.inode[i] = din, din.type # "free"
  PROVE  CacheOf(Cached(c, i, din), e) /\ RefsSame(c, Cached(c, i, din))
<1> DEFINE x == [[c[i] EXCEPT !.valid = TRUE] EXCEPT !.din = din]
           y == Cached(c, i, din)
<1>1. c \in [Inum -> Entries] /\ c[i] \in Entries
  BY DEF CacheOf
<1>2. y = [c EXCEPT ![i] = x]
  BY <1>1, Zenon DEF Cached
<1>3. x \in Entries /\ x.ref = c[i].ref /\ x.valid = TRUE /\ x.din = din
  BY <1>1, Zenon DEF Entries
<1> HIDE DEF x, y
<1>4. y \in [Inum -> Entries] /\ y[i] = x /\ \A j \in Inum \ {i} : y[j] = c[j]
  BY <1>1, <1>2, <1>3
<1> QED  BY <1>3, <1>4 DEF CacheOf, RefsSame, y

\* ilock of an inode that can be locked reads it into the cache; the references stay.
LEMMA IlockIs ==
  ASSUME CacheOf(icache, disk), Sound(disk), NEW i \in Inum, CanLock(i)
  PROVE  /\ disk.inode[i] \in Dinodes /\ disk.inode[i].type # "free" /\ lock[i] = Nobody
         /\ Found(i) = disk.inode[i]
         /\ CacheOf(Ilock(icache, i), disk) /\ RefsSame(icache, Ilock(icache, i))
<1>1. /\ Found(i) = disk.inode[i] /\ disk.inode[i].type # "free" /\ lock[i] = Nobody
      /\ disk.inode[i] \in Dinodes
  BY FoundIs, DiskFields DEF CanLock, Sound
<1>2. Ilock(icache, i) = Cached(icache, i, disk.inode[i])
  BY <1>1 DEF Ilock, Cached
<1> QED  BY <1>1, <1>2, CachedIs

\* iget and idup count one reference more.
LEMMA IgetIs ==
  ASSUME NEW c, NEW d, CacheOf(c, d), NEW i \in Inum
  PROVE  CacheOf(Iget(c, i), d) /\ RefsPlus(c, Iget(c, i), i)
<1> DEFINE x == [c[i] EXCEPT !.ref = @ + 1]
           y == Iget(c, i)
<1>1. c \in [Inum -> Entries] /\ c[i] \in Entries /\ \A j \in Inum : c[j].ref \in Nat
  BY DEF CacheOf, Entries
<1>2. y = [c EXCEPT ![i] = x]
  BY <1>1 DEF Iget
<1>3. x \in Entries /\ x.ref = c[i].ref + 1 /\ x.valid = c[i].valid /\ x.din = c[i].din
  BY <1>1 DEF Entries
<1> HIDE DEF x, y
<1>4. y \in [Inum -> Entries] /\ y[i] = x /\ \A j \in Inum \ {i} : y[j] = c[j]
  BY <1>1, <1>2, <1>3
<1> QED  BY <1>1, <1>3, <1>4 DEF CacheOf, RefsPlus, One, y

\* An inode that was free has not been in the cache.
LEMMA CacheKept ==
  ASSUME NEW c, NEW d, NEW e, CacheOf(c, d),
         \A j \in Inum : d.inode[j].type # "free" => e.inode[j] = d.inode[j]
  PROVE  CacheOf(c, e)
BY DEF CacheOf

\* The locks are those of allocated inodes while no inode in use becomes free.
LEMMA LocksKept ==
  ASSUME NEW k, NEW d, NEW e, LocksOf(k, d),
         \A j \in Inum : d.inode[j].type # "free" => e.inode[j].type # "free"
  PROVE  LocksOf(k, e)
BY DEF LocksOf

\* Taking or giving back the lock of one inode.
LEMMA LockSet ==
  ASSUME NEW k, NEW d, LocksOf(k, d), NEW i \in Inum, NEW p \in Proc \cup {Nobody},
         p # Nobody => d.inode[i].type # "free"
  PROVE  /\ LocksOf([k EXCEPT ![i] = p], d) /\ [k EXCEPT ![i] = p][i] = p
         /\ \A j \in Inum \ {i} : [k EXCEPT ![i] = p][j] = k[j]
BY DEF LocksOf

-----------------------------------------------------------------------------
\* A step of one process, which changes its own pointers.

PointersHere == [p \in Proc |-> Pointers(p)]
Refs(i) == Cardinality(Sites(PointersHere, i))

\* The pointers of every process are inodes, and count as Points says.
LEMMA PointersTyped ==
  ASSUME Typed
  PROVE  /\ PointersHere \in [Proc -> Seq(Inum)]
         /\ \A p \in Proc : /\ Len(PointersHere[p]) <= 6
                            /\ PointersHere[p] = PointersOf(loc[p], ofile[p], cwd[p])
         /\ \A p \in Proc, i \in Inum :
              /\ Count(PointersHere[p], i) = Points(loc[p], ofile[p], cwd[p], i)
              /\ Points(loc[p], ofile[p], cwd[p], i) \in Nat
<1>1. \A p \in Proc : PointersHere[p] = PointersOf(loc[p], ofile[p], cwd[p])
  BY Zenon DEF PointersHere, Pointers, PointersOf
<1>2. \A p \in Proc : LocTyped(loc[p]) /\ FileTyped(loc[p], ofile[p]) /\ cwd[p] \in Inum
  BY DEF Typed
<1>3. \A p \in Proc : /\ PointersHere[p] \in Seq(Inum) /\ Len(PointersHere[p]) <= 6
                      /\ \A i \in Inum : /\ Count(PointersHere[p], i) = Points(loc[p], ofile[p], cwd[p], i)
                                         /\ Points(loc[p], ofile[p], cwd[p], i) \in Nat
  BY <1>1, <1>2, PointersCounted
<1>4. PointersHere = [p \in Proc |-> PointersHere[p]]
  BY DEF PointersHere
<1> QED  BY <1>1, <1>3, <1>4

\* The same after a step.
LEMMA PointersTypedThen ==
  ASSUME Typed'
  PROVE  /\ PointersHere' \in [Proc -> Seq(Inum)]
         /\ \A p \in Proc : /\ Len(PointersHere'[p]) <= 6
                            /\ PointersHere'[p] = PointersOf(loc'[p], ofile'[p], cwd'[p])
         /\ \A p \in Proc, i \in Inum :
              /\ Count(PointersHere'[p], i) = Points(loc'[p], ofile'[p], cwd'[p], i)
              /\ Points(loc'[p], ofile'[p], cwd'[p], i) \in Nat
<1>1. \A p \in Proc : PointersHere'[p] = PointersOf(loc'[p], ofile'[p], cwd'[p])
  BY Zenon DEF PointersHere, Pointers, PointersOf
<1>2. \A p \in Proc : LocTyped(loc'[p]) /\ FileTyped(loc'[p], ofile'[p]) /\ cwd'[p] \in Inum
  BY DEF Typed
<1>3. \A p \in Proc : /\ PointersHere'[p] \in Seq(Inum) /\ Len(PointersHere'[p]) <= 6
                      /\ \A i \in Inum : /\ Count(PointersHere'[p], i) = Points(loc'[p], ofile'[p], cwd'[p], i)
                                         /\ Points(loc'[p], ofile'[p], cwd'[p], i) \in Nat
  BY <1>1, <1>2, PointersCounted
<1>4. PointersHere' = [p \in Proc |-> PointersHere'[p]]
  BY DEF PointersHere
<1> QED  BY <1>1, <1>3, <1>4

\* RefsCounted, with the count by its name.
LEMMA RefsAre == RefsCounted <=> \A i \in Inum : icache[i].ref = Refs(i)
BY DEF RefsCounted, Refs, Sites, PointersHere

\* The same after a step.
LEMMA RefsAreThen == RefsCounted' <=> \A i \in Inum : icache'[i].ref = Refs(i)'
BY DEF RefsCounted, Refs, Sites, PointersHere

\* What q does not do: anything to the locals, the file and the directory of others.
Alone(p) ==
  /\ DOMAIN loc' = Proc /\ ofile' \in [Proc -> Files] /\ cwd' \in [Proc -> Inum]
  /\ \A q \in Proc \ {p} : loc'[q] = loc[q] /\ ofile'[q] = ofile[q] /\ cwd'[q] = cwd[q]

\* Counts that change by what the pointers of p change remain the numbers of pointers.
LEMMA RefsKept ==
  ASSUME Typed, Typed', RefsCounted, NEW p \in Proc, Alone(p),
         \A i \in Inum : icache'[i].ref = icache[i].ref - Points(loc[p], ofile[p], cwd[p], i)
                                                        + Points(loc'[p], ofile'[p], cwd'[p], i)
  PROVE  RefsCounted'
<1> SUFFICES ASSUME NEW i \in Inum PROVE icache'[i].ref = Refs(i)'
  BY RefsAreThen
<1>1. icache[i].ref = Refs(i)
  BY RefsAre
<1>2. PICK g \in [Proc -> Seq(Inum)] : g = PointersHere
  BY PointersTyped
<1>3. PICK h \in [Proc -> Seq(Inum)] : h = PointersHere'
  BY PointersTypedThen
<1>4. \A q \in Proc : Len(g[q]) <= 6 /\ Len(h[q]) <= 6
  BY <1>2, <1>3, PointersTyped, PointersTypedThen
<1>5. \A q \in Proc \ {p} : g[q] = h[q]
  BY <1>2, <1>3, PointersTyped, PointersTypedThen, ZenonT(30) DEF Alone
<1>6. /\ Count(g[p], i) = Points(loc[p], ofile[p], cwd[p], i)
      /\ Count(h[p], i) = Points(loc'[p], ofile'[p], cwd'[p], i)
  BY <1>2, <1>3, PointersTyped, PointersTypedThen
<1>7. Cardinality(Sites(h, i)) = Cardinality(Sites(g, i)) - Count(g[p], i) + Count(h[p], i)
  BY <1>4, <1>5, SitesChange, ZenonT(30) DEF SitesMove
<1>8. Refs(i) = Cardinality(Sites(g, i)) /\ Refs(i)' = Cardinality(Sites(h, i))
  BY <1>2, <1>3 DEF Refs, Sites
<1> QED  BY <1>1, <1>6, <1>7, <1>8

\* Where two processes, or two places of one, have pointers, there are two references.
LEMMA RefsAtLeast ==
  ASSUME Typed, RefsCounted, NEW p \in Proc, NEW q \in Proc, NEW i \in Inum
  PROVE  /\ icache[i].ref >= Points(loc[p], ofile[p], cwd[p], i)
         /\ p # q => icache[i].ref >= Points(loc[p], ofile[p], cwd[p], i)
                                      + Points(loc[q], ofile[q], cwd[q], i)
<1>1. icache[i].ref = Refs(i)
  BY RefsAre
<1>2. PICK h \in [Proc -> Seq(Inum)] : h = PointersHere
  BY PointersTyped
<1> DEFINE g == [h EXCEPT ![p] = <<>>]
           e == [g EXCEPT ![q] = <<>>]
<1>3. <<>> \in Seq(Inum) /\ Len(<<>>) <= 6
  OBVIOUS
<1>4. \A r \in Proc : Len(h[r]) <= 6
  BY <1>2, PointersTyped
<1>5. /\ Count(h[p], i) = Points(loc[p], ofile[p], cwd[p], i)
      /\ Count(h[q], i) = Points(loc[q], ofile[q], cwd[q], i)
      /\ Points(loc[p], ofile[p], cwd[p], i) \in Nat /\ Points(loc[q], ofile[q], cwd[q], i) \in Nat
  BY <1>2, PointersTyped
<1>6. /\ g \in [Proc -> Seq(Inum)] /\ g[p] = <<>> /\ \A r \in Proc \ {p} : g[r] = h[r]
      /\ e \in [Proc -> Seq(Inum)] /\ e[q] = <<>> /\ \A r \in Proc \ {q} : e[r] = g[r]
  BY <1>3, Zenon
<1> HIDE DEF g, e
<1>7. PICK g0 \in [Proc -> Seq(Inum)] : g0 = g
  BY <1>6
<1>8. PICK e0 \in [Proc -> Seq(Inum)] : e0 = e
  BY <1>6
<1>9. /\ \A r \in Proc : Len(g0[r]) <= 6 /\ Len(h[r]) <= 6
      /\ \A r \in Proc : Len(e0[r]) <= 6 /\ Len(g0[r]) <= 6
  BY <1>3, <1>4, <1>6, <1>7, <1>8, Zenon
<1>15. /\ \A r \in Proc \ {p} : g0[r] = h[r]
       /\ \A r \in Proc \ {q} : e0[r] = g0[r]
       /\ g0[p] = <<>> /\ e0[q] = <<>>
  BY <1>6, <1>7, <1>8
<1>16. \A r \in Proc : Len(g0[r]) <= 6 /\ Len(h[r]) <= 6
  BY <1>9
<1>13. /\ Cardinality(Sites(g0, i)) \in Nat
       /\ Cardinality(Sites(h, i)) = Cardinality(Sites(g0, i)) - Count(g0[p], i) + Count(h[p], i)
  <2>1. \A r \in Proc \ {p} : g0[r] = h[r]
    BY <1>15
  <2>2. SitesMove(g0, h, p, i)
    BY <1>16, <2>1, SitesChange, Zenon
  <2> QED  BY <2>2 DEF SitesMove
<1>17. \A r \in Proc : Len(e0[r]) <= 6 /\ Len(g0[r]) <= 6
  BY <1>9
<1>14. /\ Cardinality(Sites(e0, i)) \in Nat
       /\ Cardinality(Sites(g0, i)) = Cardinality(Sites(e0, i)) - Count(e0[q], i) + Count(g0[q], i)
  <2>1. \A r \in Proc \ {q} : e0[r] = g0[r]
    BY <1>15
  <2>2. SitesMove(e0, g0, q, i)
    BY <1>17, <2>1, SitesChange, Zenon
  <2> QED  BY <2>2 DEF SitesMove
<1>10. Count(g0[p], i) = 0 /\ Count(e0[q], i) = 0
  BY <1>15, CountNone
<1>11. p # q => Count(g0[q], i) = Count(h[q], i)
  BY <1>15
<1>12. Refs(i) = Cardinality(Sites(h, i))
  BY <1>2 DEF Refs
<1> QED  BY <1>1, <1>5, <1>13, <1>14, <1>10, <1>11, <1>12, SMTT(30)

-----------------------------------------------------------------------------
\* A step of p that keeps what the others rely on.

\* The inodes in use stay what they are; a file gets no shorter.
StillThere(d, e) ==
  \A i \in Inum : d.inode[i].type # "free" =>
    /\ e.inode[i].type = d.inode[i].type
    /\ d.inode[i].type # "dir" => e.inode[i].size >= d.inode[i].size

\* p's locals, file and directory after the step, with the locks k.
MineTyped(p, l, f, c, k) == LocTyped(l) /\ FileTyped(l, f) /\ LocHolds(p, l, k) /\ c \in Inum

\* p takes and gives back locks only of its own.
LocksOfOthers(p) == \A i \in Inum : lock[i] \in Proc \ {p} => lock'[i] = lock[i]

RefsFollow(p) ==
  \A i \in Inum : icache'[i].ref = icache[i].ref - Points(loc[p], ofile[p], cwd[p], i)
                                                 + Points(loc'[p], ofile'[p], cwd'[p], i)

\* What the invariant says of one process.
LEMMA Mine ==
  ASSUME IInv, NEW p \in Proc
  PROVE  /\ MineTyped(p, loc[p], ofile[p], cwd[p], lock) /\ Kept(disk, loc[p], ofile[p])
         /\ ofile[p] \in Files /\ lock \in [Inum -> Proc \cup {Nobody}]
         /\ DOMAIN loc = Proc /\ DOMAIN ofile = Proc /\ DOMAIN cwd = Proc
BY DEF IInv, Typed, MineTyped, OpenKept, LocksOf

\* A step of p leaves others the locks that they hold.
LEMMA OthersHold ==
  ASSUME IInv, NEW p \in Proc, NEW q \in Proc \ {p}, LocksOfOthers(p)
  PROVE  LocHolds(q, loc[q], lock')
<1>1. MineTyped(q, loc[q], ofile[q], cwd[q], lock)
  BY Mine
<1>2. \A i \in Inum : lock[i] = q => lock'[i] = q
  BY DEF LocksOfOthers
<1>3. /\ loc[q].pc \in HasCur => loc[q].cur \in Inum
      /\ loc[q].pc \in HasIp => loc[q].ip \in Inum
      /\ loc[q].put = "free" => Head(loc[q].puts) \in Inum
  BY <1>1 DEF MineTyped, LocTyped, LocHolds, HasCur, HasIp, AtCur, AtIp
<1> QED  BY <1>1, <1>2, <1>3 DEF MineTyped, LocHolds

\* A step of p leaves the locals of others as they are.
LEMMA TypedKept ==
  ASSUME IInv, NEW p \in Proc, Alone(p), LocksOfOthers(p), ops' \subseteq Proc,
         MineTyped(p, loc'[p], ofile'[p], cwd'[p], lock')
  PROVE  Typed'
<1>1. \A q \in Proc : MineTyped(q, loc'[q], ofile'[q], cwd'[q], lock')
  <2> SUFFICES ASSUME NEW q \in Proc, q # p
               PROVE  MineTyped(q, loc'[q], ofile'[q], cwd'[q], lock')
    OBVIOUS
  <2>1. loc'[q] = loc[q] /\ ofile'[q] = ofile[q] /\ cwd'[q] = cwd[q]
    BY DEF Alone
  <2> QED  BY <2>1, OthersHold, Mine DEF MineTyped
<1> QED  BY <1>1 DEF Typed, MineTyped, Alone

\* The disk, the cache and the locks after a step.
DiskKept == /\ Sound(disk') /\ Sound(committed')
            /\ CacheOf(icache', disk') /\ LocksOf(lock', disk')

\* The parts of the invariant after a step, from what the step does for p.
LEMMA KeptIs ==
  ASSUME IInv, NEW p \in Proc, Alone(p), LocksOfOthers(p), ops' \subseteq Proc,
         MineTyped(p, loc'[p], ofile'[p], cwd'[p], lock'), DiskKept, RefsFollow(p), OpenKept'
  PROVE  IInv'
<1>1. Typed'
  BY TypedKept
<1>2. RefsCounted'
  BY <1>1, RefsKept DEF IInv, RefsFollow
<1> QED  BY <1>1, <1>2 DEF IInv, DiskKept

\* create makes no free inode.
LEMMA TypesOf == \A op : TypeOf(op) \in {"dir", "dev", "file"}
BY DEF TypeOf

\* A step that keeps the inodes in use keeps what others rely on.
LEMMA OthersKept ==
  ASSUME IInv, Sound(disk'), NEW q \in Proc, StillThere(disk, disk')
  PROVE  Kept(disk', loc[q], ofile[q])
<1> DEFINE l == loc[q]
           f == ofile[q]
<1>1. Kept(disk, l, f) /\ LocTyped(l) /\ FileTyped(l, f)
  BY Mine DEF MineTyped
<1>2. /\ f # NoFile => f.ip \in Inum
      /\ l.pc \in {"create2", "made"} => l.ip \in Inum
  BY <1>1 DEF LocTyped, FileTyped, Files, AtIp
<1>4. ASSUME f # NoFile
      PROVE  /\ disk'.inode[f.ip].type \in {"file", "dev", "dir"}
             /\ f.writable => disk'.inode[f.ip].type # "dir"
             /\ disk'.inode[f.ip].type # "dir" => f.off <= disk'.inode[f.ip].size
  <2>1. /\ disk.inode[f.ip].type \in {"file", "dev", "dir"}
        /\ f.writable => disk.inode[f.ip].type # "dir"
        /\ disk.inode[f.ip].type # "dir" => f.off <= disk.inode[f.ip].size
    BY <1>1, <1>4 DEF Kept
  <2>2. /\ disk.inode[f.ip].size \in Nat /\ disk'.inode[f.ip].size \in Nat /\ f.off \in Nat
    BY <1>1, <1>2, <1>4, DiskFields DEF IInv, Sound, FileTyped, Files
  <2>3. /\ disk'.inode[f.ip].type = disk.inode[f.ip].type
        /\ disk.inode[f.ip].type # "dir" => disk'.inode[f.ip].size >= disk.inode[f.ip].size
    <3>1. disk.inode[f.ip].type # "free"
      BY <2>1
    <3> QED  BY <1>2, <1>4, <3>1, Zenon DEF StillThere
  <2> QED  BY <2>1, <2>2, <2>3
<1>5. ASSUME l.pc = "create2" PROVE disk'.inode[l.ip].type = TypeOf(l.call.op)
  <2>1. disk.inode[l.ip].type = TypeOf(l.call.op) /\ disk.inode[l.ip].type # "free"
    BY <1>1, <1>5, TypesOf DEF Kept
  <2> QED  BY <1>2, <1>5, <2>1 DEF StillThere
<1>6. ASSUME l.pc = "made", l.call.op = "creat" PROVE disk'.inode[l.ip].type = "file"
  <2>1. disk.inode[l.ip].type = "file"
    BY <1>1, <1>6 DEF Kept
  <2> QED  BY <1>2, <1>6, <2>1 DEF StillThere
<1> QED  BY <1>4, <1>5, <1>6 DEF Kept

\* p relies on an inode that it did not rely on before only while nobody else has it locked.
NeedsFound(p) ==
  \A i \in Inum : Needs(loc'[p], ofile'[p], i) =>
                    Needs(loc[p], ofile[p], i) \/ lock[i] \notin Proc \ {p}

\* No process is about to free what another relies on, after a step that frees nothing.
LEMMA OpenIs ==
  ASSUME IInv, NEW p \in Proc, Alone(p), Sound(disk'), StillThere(disk, disk'),
         Kept(disk', loc'[p], ofile'[p]), loc'[p].put # "free", NeedsFound(p)
  PROVE  OpenKept'
<1>1. ASSUME NEW q \in Proc PROVE Kept(disk', loc'[q], ofile'[q])
  <2>1. CASE q = p
    BY <2>1
  <2>2. CASE q # p
    <3>1. loc'[q] = loc[q] /\ ofile'[q] = ofile[q]
      BY <2>2 DEF Alone
    <3> QED  BY <3>1, OthersKept
  <2> QED  BY <2>1, <2>2
<1>2. ASSUME NEW q \in Proc, NEW r \in Proc, NEW i \in Inum,
             Needs(loc'[q], ofile'[q], i), Frees(loc'[r], i)
      PROVE  FALSE
  <2>1. r # p /\ loc'[r] = loc[r]
    BY <1>2 DEF Frees, Alone
  <2>2. lock[i] = r
    BY <1>2, <2>1, Mine DEF Frees, MineTyped, LocHolds
  <2>3. ~Needs(loc[q], ofile[q], i)
    BY <1>2, <2>1 DEF IInv, OpenKept
  <2>4. q = p
    BY <1>2, <2>3 DEF Alone
  <2> QED  BY <1>2, <2>1, <2>2, <2>3, <2>4 DEF NeedsFound
<1> QED  BY <1>1, <1>2 DEF OpenKept

\* A step that frees nothing keeps the invariant when it keeps its parts.
LEMMA QuietIs ==
  ASSUME IInv, NEW p \in Proc, Alone(p), LocksOfOthers(p), ops' \subseteq Proc,
         MineTyped(p, loc'[p], ofile'[p], cwd'[p], lock'), DiskKept, RefsFollow(p),
         StillThere(disk, disk'), Kept(disk', loc'[p], ofile'[p]), loc'[p].put # "free",
         NeedsFound(p)
  PROVE  IInv'
BY OpenIs, KeptIs DEF DiskKept

-----------------------------------------------------------------------------
\* The steps of iput.

\* What the invariant says of the disk, the cache and the locks.
LEMMA Quiet ==
  ASSUME IInv
  PROVE  /\ Sound(disk) /\ Sound(committed) /\ CacheOf(icache, disk) /\ LocksOf(lock, disk)
         /\ ops \subseteq Proc /\ StillThere(disk, disk) /\ RefsCounted /\ Typed
         /\ \A i \in Inum : icache[i].ref \in Nat /\ icache[i] \in Entries
         /\ lock \in [Inum -> Proc \cup {Nobody}]
         /\ ofile \in [Proc -> Files] /\ cwd \in [Proc -> Inum]
<1>1. Sound(disk) /\ CacheOf(icache, disk) /\ Typed /\ LocksOf(lock, disk)
  BY DEF IInv
<1>2. \A i \in Inum : disk.inode[i].size \in Nat
  BY <1>1, DiskFields DEF Sound
<1> QED  BY <1>1, <1>2 DEF IInv, StillThere, CacheOf, Entries, Typed, LocksOf

\* iput's last step: one pointer and one reference less.
LEMMA PutDropKeeps ==
  ASSUME IInv, NEW p \in Proc, PutDrop(p)
  PROVE  IInv'
<1>0. PICK i : i = Head(loc[p].puts)
  OBVIOUS
<1>1. /\ MineTyped(p, loc[p], ofile[p], cwd[p], lock) /\ Kept(disk, loc[p], ofile[p])
      /\ DOMAIN loc = Proc /\ DOMAIN loc[p] = Fields
  BY Mine DEF MineTyped, LocTyped
<1>2. /\ Alone(p) /\ DOMAIN loc'[p] = Fields
      /\ loc'[p].pc = loc[p].pc /\ loc'[p].call = loc[p].call /\ loc'[p].rest = loc[p].rest
      /\ loc'[p].want = loc[p].want /\ loc'[p].cur = loc[p].cur /\ loc'[p].ip = loc[p].ip
      /\ loc'[p].puts = Tail(loc[p].puts) /\ loc'[p].put = "check" /\ loc'[p].left = loc[p].left
  BY <1>1, Quiet DEF PutDrop, Local, Updated, Fields, Alone
<1>3. /\ disk' = disk /\ committed' = committed /\ ops' = ops /\ lock' = lock
      /\ ofile' = ofile /\ cwd' = cwd /\ loc[p].puts # <<>>
      /\ icache' = IF icache[i].ref = 1 THEN [icache EXCEPT ![i] = Unused]
                                        ELSE [icache EXCEPT ![i].ref = @ - 1]
  BY <1>0 DEF PutDrop, Putting
<1>4. /\ i \in Inum /\ loc'[p].puts \in Seq(Inum) /\ Len(loc'[p].puts) <= 2
      /\ \A j \in Inum : Count(loc[p].puts, j) = One(i = j) + Count(loc'[p].puts, j)
  BY <1>0, <1>1, <1>2, <1>3, CountTail DEF MineTyped, LocTyped
<1>5. loc[p].pc # "idle"
  BY <1>1, <1>3 DEF MineTyped, LocTyped, AtRest
<1>6. LocTyped(loc'[p])
  BY <1>1, <1>2, <1>4, <1>5 DEF MineTyped, LocTyped
<1>7. MineTyped(p, loc'[p], ofile'[p], cwd'[p], lock')
  BY <1>1, <1>2, <1>3, <1>6 DEF MineTyped, FileTyped, LocHolds
<1>8. \A j \in Inum : /\ Points(loc[p], ofile[p], cwd[p], j) \in Nat
                      /\ Points(loc'[p], ofile'[p], cwd'[p], j) \in Nat
                      /\ Points(loc'[p], ofile'[p], cwd'[p], j)
                           = Points(loc[p], ofile[p], cwd[p], j) - One(i = j)
  <2>1. \A j \in Inum : /\ Points(loc[p], ofile[p], cwd[p], j) \in Nat
                        /\ Points(loc'[p], ofile'[p], cwd'[p], j) \in Nat
    BY <1>1, <1>7, PointersCounted, Zenon DEF MineTyped
  <2> TAKE j \in Inum
  <2>2. Count(loc[p].puts, j) \in Nat /\ Count(loc'[p].puts, j) \in Nat
    BY <1>1, <1>6, CountOne, Constants, Zenon DEF MineTyped, LocTyped
  <2>3. Count(loc[p].puts, j) = One(i = j) + Count(loc'[p].puts, j)
    BY <1>4
  <2> QED  BY <1>2, <1>3, <2>1, <2>2, <2>3, SMTT(30) DEF Points, One
<1>9. icache[i].ref >= 1 /\ icache[i].ref \in Nat
  <2>1. Points(loc[p], ofile[p], cwd[p], i) >= 1
    BY <1>4, <1>8 DEF One
  <2>2. icache[i].ref >= Points(loc[p], ofile[p], cwd[p], i)
    BY <1>4, RefsAtLeast, Quiet
  <2> QED  BY <1>4, <1>8, <2>1, <2>2, Quiet
<1>10. /\ icache' \in [Inum -> Entries]
       /\ \A j \in Inum : /\ icache'[j].ref = icache[j].ref - One(i = j)
                          /\ icache'[j].valid => icache[j].valid /\ icache'[j].din = icache[j].din
  <2>1. icache \in [Inum -> Entries] /\ icache[i] \in Entries
    BY <1>4, Quiet DEF CacheOf
  <2>2. CASE icache[i].ref = 1
    <3>1. Unused \in Entries /\ Unused.ref = 0 /\ Unused.valid = FALSE
      BY EmptyTyped DEF Unused, Entries
    <3> QED  BY <1>3, <1>4, <2>1, <2>2, <3>1, Quiet DEF One
  <2>3. CASE icache[i].ref # 1
    <3> DEFINE x == [icache[i] EXCEPT !.ref = @ - 1]
    <3>1. /\ x \in Entries /\ x.ref = icache[i].ref - 1 /\ x.valid = icache[i].valid
          /\ x.din = icache[i].din
      BY <1>9, <2>1, <2>3 DEF Entries
    <3>2. icache' = [icache EXCEPT ![i] = x]
      BY <1>3, <2>1, <2>3
    <3> HIDE DEF x
    <3> QED  BY <1>4, <2>1, <3>1, <3>2, Quiet DEF One
  <2> QED  BY <2>2, <2>3
<1>12. DiskKept
  BY <1>3, <1>10, Quiet DEF DiskKept, CacheOf
<1>13. RefsFollow(p)
  BY <1>8, <1>10, Quiet DEF RefsFollow, One
<1>11. StillThere(disk, disk') /\ Kept(disk', loc'[p], ofile'[p]) /\ NeedsFound(p) /\ LocksOfOthers(p)
  BY <1>1, <1>2, <1>3, Quiet DEF Kept, NeedsFound, Needs, LocksOfOthers
<1> QED  BY <1>2, <1>3, <1>7, <1>11, <1>12, <1>13, QuietIs, Quiet

\* iput looks at ref, valid and nlink, and locks the inode that it will free: a reference count of 1
\* is the pointer that is put, so no other process has the inode open or is making it.
LEMMA PutCheckKeeps ==
  ASSUME IInv, NEW p \in Proc, PutCheck(p)
  PROVE  IInv'
<1>0. PICK i : i = Head(loc[p].puts)
  OBVIOUS
<1>1. /\ MineTyped(p, loc[p], ofile[p], cwd[p], lock) /\ Kept(disk, loc[p], ofile[p])
      /\ DOMAIN loc = Proc /\ DOMAIN loc[p] = Fields
  BY Mine DEF MineTyped, LocTyped
<1>2. /\ Alone(p) /\ DOMAIN loc'[p] = Fields
      /\ loc'[p].pc = loc[p].pc /\ loc'[p].call = loc[p].call /\ loc'[p].rest = loc[p].rest
      /\ loc'[p].want = loc[p].want /\ loc'[p].cur = loc[p].cur /\ loc'[p].ip = loc[p].ip
      /\ loc'[p].puts = loc[p].puts /\ loc'[p].left = loc[p].left
      /\ loc'[p].put = IF Last(i) THEN "free" ELSE "drop"
  BY <1>0, <1>1, Quiet DEF PutCheck, Local, Updated, Fields, Alone
<1>3. /\ disk' = disk /\ committed' = committed /\ ops' = ops /\ icache' = icache
      /\ ofile' = ofile /\ cwd' = cwd /\ loc[p].puts # <<>> /\ lock[i] = Nobody
      /\ lock' = IF Last(i) THEN [lock EXCEPT ![i] = p] ELSE lock
  BY <1>0 DEF PutCheck, Putting
<1>4. i \in Inum /\ \A j \in Inum : Count(loc[p].puts, j) >= One(i = j)
  <2>1. ASSUME NEW j \in Inum PROVE i \in Inum /\ Count(loc[p].puts, j) >= One(i = j)
    <3>1. /\ Tail(loc[p].puts) \in Seq(Inum) /\ i \in Inum
          /\ Count(loc[p].puts, j) = One(i = j) + Count(Tail(loc[p].puts), j)
      BY <1>0, <1>1, <1>3, CountTail DEF MineTyped, LocTyped
    <3>2. Count(Tail(loc[p].puts), j) \in Nat
      BY <3>1, CountOne, Constants, Zenon
    <3> QED  BY <3>1, <3>2 DEF One
  <2>2. Head(loc[p].puts) \in Inum
    BY <1>1, <1>3, CountTail, Constants DEF MineTyped, LocTyped
  <2> QED  BY <1>0, <2>1, <2>2
<1>5. loc[p].pc # "idle"
  BY <1>1, <1>3 DEF MineTyped, LocTyped, AtRest
<1>6. /\ Last(i) => disk.inode[i].type # "free"
      /\ \A j \in Inum : lock[j] # Nobody => lock'[j] = lock[j]
      /\ Last(i) => lock'[i] = p
  BY <1>3, <1>4, Quiet DEF Last, CacheOf
<1>7. LocTyped(loc'[p])
  BY <1>1, <1>2, <1>3, <1>5 DEF MineTyped, LocTyped
<1>8. LocHolds(p, loc'[p], lock')
  <2>1. /\ loc[p].pc \in HasCur => loc[p].cur \in Inum
        /\ loc[p].pc \in HasIp => loc[p].ip \in Inum
    BY <1>1 DEF MineTyped, LocTyped, HasCur, HasIp, AtCur, AtIp
  <2>2. p # Nobody
    BY Constants
  <2> QED  BY <1>0, <1>1, <1>2, <1>3, <1>6, <2>1, <2>2 DEF MineTyped, LocHolds
<1>9. MineTyped(p, loc'[p], ofile'[p], cwd'[p], lock')
  BY <1>1, <1>2, <1>3, <1>7, <1>8 DEF MineTyped, FileTyped
<1>10. RefsFollow(p)
  <2>1. \A j \in Inum : Points(loc'[p], ofile'[p], cwd'[p], j) = Points(loc[p], ofile[p], cwd[p], j)
    BY <1>2, <1>3 DEF Points
  <2>2. \A j \in Inum : Points(loc[p], ofile[p], cwd[p], j) \in Nat
    BY <1>1, PointersCounted, Zenon DEF MineTyped
  <2> QED  BY <1>3, <2>1, <2>2, Quiet DEF RefsFollow
<1>11. LocksOfOthers(p)
  BY <1>6, Constants DEF LocksOfOthers
<1>12. DiskKept
  <2>1. LocksOf(lock', disk')
    BY <1>3, <1>4, <1>6, LockSet, Quiet, Zenon
  <2> QED  BY <1>3, <2>1, Quiet DEF DiskKept
<1>13. OpenKept'
  <2>1. \A q \in Proc : Kept(disk', loc'[q], ofile'[q])
    BY <1>1, <1>2, <1>3, OthersKept, Quiet DEF Alone, Kept
  <2>2. ASSUME NEW q \in Proc, NEW r \in Proc, NEW j \in Inum,
               Needs(loc'[q], ofile'[q], j), Frees(loc'[r], j)
        PROVE  FALSE
    <3>1. Needs(loc[q], ofile[q], j)
      BY <1>2, <1>3, <2>2 DEF Needs, Alone
    <3>2. ~Frees(loc[r], j)
      BY <3>1 DEF IInv, OpenKept
    <3>3. r = p /\ j = i /\ Last(i)
      BY <1>0, <1>2, <2>2, <3>2 DEF Alone, Frees
    <3>4. icache[i].ref = 1
      BY <3>3 DEF Last
    <3>5. Points(loc[q], ofile[q], cwd[q], i) >= 1 + (IF q = p THEN 1 ELSE 0)
      <4>1. MineTyped(q, loc[q], ofile[q], cwd[q], lock)
        BY Mine
      <4>2. Count(loc[q].puts, i) \in Nat
        BY <4>1, CountOne, Constants, Zenon DEF MineTyped, LocTyped
      <4>3. q = p => Count(loc[q].puts, i) >= 1
        BY <1>4 DEF One
      <4>4. /\ One(ofile[q] # NoFile /\ ofile[q].ip = i) \in 0 .. 1
            /\ One((loc[q].pc \in AtIp \/ (loc[q].pc = "namex" /\ loc[q].want = "linknew"))
                     /\ loc[q].ip = i) \in 0 .. 1
            /\ One(loc[q].pc \in AtCur /\ loc[q].cur = i) \in 0 .. 1
            /\ One(loc[q].pc # "moved" /\ cwd[q] = i) \in 0 .. 1
        BY DEF One
      <4>5. \/ One(ofile[q] # NoFile /\ ofile[q].ip = i) = 1
            \/ One((loc[q].pc \in AtIp \/ (loc[q].pc = "namex" /\ loc[q].want = "linknew"))
                     /\ loc[q].ip = i) = 1
        BY <3>1, <3>3 DEF Needs, One, AtIp
      <4> QED  BY <4>2, <4>3, <4>4, <4>5 DEF Points
    <3>6. Points(loc[p], ofile[p], cwd[p], i) >= 1
      <4>1. Count(loc[p].puts, i) >= 1 /\ Count(loc[p].puts, i) \in Nat
        <5>1. Count(loc[p].puts, i) \in Nat
          BY <1>1, CountOne, Constants, Zenon DEF MineTyped, LocTyped
        <5> QED  BY <1>4, <5>1 DEF One
      <4> QED  BY <4>1 DEF Points, One
    <3>7. /\ Points(loc[p], ofile[p], cwd[p], i) \in Nat /\ Points(loc[q], ofile[q], cwd[q], i) \in Nat
      BY Mine, PointersCounted, Zenon DEF MineTyped
    <3>8. /\ icache[i].ref >= Points(loc[p], ofile[p], cwd[p], i)
          /\ p # q => icache[i].ref >= Points(loc[p], ofile[p], cwd[p], i)
                                       + Points(loc[q], ofile[q], cwd[q], i)
      BY <1>4, RefsAtLeast, Quiet
    <3> QED  BY <3>4, <3>5, <3>6, <3>7, <3>8
  <2> QED  BY <2>1, <2>2 DEF OpenKept
<1> QED  BY <1>2, <1>3, <1>9, <1>10, <1>11, <1>12, <1>13, KeptIs, Quiet, Zenon

\* iput truncates and frees an inode that nobody relies on.
LEMMA PutFreeKeeps ==
  ASSUME IInv, NEW p \in Proc, PutFree(p)
  PROVE  IInv'
<1>0. PICK i : i = Head(loc[p].puts)
  OBVIOUS
<1>1. /\ MineTyped(p, loc[p], ofile[p], cwd[p], lock) /\ Kept(disk, loc[p], ofile[p])
      /\ DOMAIN loc = Proc /\ DOMAIN loc[p] = Fields
  BY Mine DEF MineTyped, LocTyped
<1>2. /\ Alone(p) /\ DOMAIN loc'[p] = Fields
      /\ loc'[p].pc = loc[p].pc /\ loc'[p].call = loc[p].call /\ loc'[p].rest = loc[p].rest
      /\ loc'[p].want = loc[p].want /\ loc'[p].cur = loc[p].cur /\ loc'[p].ip = loc[p].ip
      /\ loc'[p].puts = loc[p].puts /\ loc'[p].left = loc[p].left /\ loc'[p].put = "drop"
  BY <1>0, <1>1, Quiet DEF PutFree, Local, Updated, Fields, Alone
<1>3. /\ disk' = Truncated(disk, i) /\ committed' = committed /\ ops' = ops
      /\ icache' = [icache EXCEPT ![i].valid = FALSE, ![i].din = FreeInode]
      /\ lock' = [lock EXCEPT ![i] = Nobody]
      /\ ofile' = ofile /\ cwd' = cwd /\ loc[p].puts # <<>> /\ loc[p].put = "free"
  BY <1>0 DEF PutFree, Putting
<1>4. i \in Inum /\ lock[i] = p
  <2>1. Head(loc[p].puts) \in Inum
    BY <1>1, <1>3, CountTail, Constants DEF MineTyped, LocTyped
  <2> QED  BY <1>0, <1>1, <1>3, <2>1 DEF MineTyped, LocHolds
<1>5. loc[p].pc # "idle"
  BY <1>1, <1>3 DEF MineTyped, LocTyped, AtRest
<1>6. \A j \in Inum \ {i} : lock'[j] = lock[j]
  BY <1>3, Quiet
<1>7. LocTyped(loc'[p])
  BY <1>1, <1>2, <1>3, <1>5 DEF MineTyped, LocTyped
<1>8. LocHolds(p, loc'[p], lock')
  <2>1. /\ loc[p].pc \in HasCur => loc[p].cur \in Inum
        /\ loc[p].pc \in HasIp => loc[p].ip \in Inum
    BY <1>1 DEF MineTyped, LocTyped, HasCur, HasIp, AtCur, AtIp
  <2> QED  BY <1>0, <1>1, <1>2, <1>3, <1>6, <2>1 DEF MineTyped, LocHolds
<1>9. MineTyped(p, loc'[p], ofile'[p], cwd'[p], lock')
  BY <1>1, <1>2, <1>3, <1>7, <1>8 DEF MineTyped, FileTyped
<1>10. /\ icache' \in [Inum -> Entries]
       /\ \A j \in Inum : icache'[j].ref = icache[j].ref
       /\ \A j \in Inum : icache'[j].valid => j # i /\ icache'[j] = icache[j]
  <2>1. icache \in [Inum -> Entries] /\ icache[i] \in Entries
    BY <1>4, Quiet DEF CacheOf
  <2> DEFINE x == [[icache[i] EXCEPT !.valid = FALSE] EXCEPT !.din = FreeInode]
  <2>2. /\ x \in Entries /\ x.ref = icache[i].ref /\ x.valid = FALSE
    BY <2>1, EmptyTyped, Zenon DEF Entries
  <2>3. icache' = [icache EXCEPT ![i] = x]
    BY <1>3, <2>1, Zenon
  <2> HIDE DEF x
  <2> QED  BY <1>4, <2>1, <2>2, <2>3
<1>11. RefsFollow(p)
  <2>1. \A j \in Inum : Points(loc'[p], ofile'[p], cwd'[p], j) = Points(loc[p], ofile[p], cwd[p], j)
    BY <1>2, <1>3 DEF Points
  <2>2. \A j \in Inum : Points(loc[p], ofile[p], cwd[p], j) \in Nat
    BY <1>1, PointersCounted, Zenon DEF MineTyped
  <2> QED  BY <1>10, <2>1, <2>2, Quiet DEF RefsFollow
<1>12. LocksOfOthers(p)
  BY <1>4, <1>6 DEF LocksOfOthers
<1>13. /\ Sound(disk') /\ \A j \in Inum \ {i} : disk'.inode[j] = disk.inode[j]
       /\ disk'.inode[i] = FreeInode
  BY <1>3, <1>4, TruncatedSound, Quiet, ZenonT(30)
<1>14. DiskKept
  <2>1. LocksOf(lock', disk')
    BY <1>3, <1>4, <1>6, <1>13, Quiet DEF LocksOf
  <2>2. CacheOf(icache', disk')
    BY <1>10, <1>13, Quiet DEF CacheOf
  <2> QED  BY <1>3, <1>13, <2>1, <2>2, Quiet DEF DiskKept
<1>15. OpenKept'
  <2>1. ASSUME NEW q \in Proc PROVE Kept(disk', loc'[q], ofile'[q])
    <3>1. MineTyped(q, loc[q], ofile[q], cwd[q], lock) /\ Kept(disk, loc[q], ofile[q])
      BY Mine
    <3>2. ~Needs(loc[q], ofile[q], i)
      BY <1>0, <1>3, <1>4 DEF IInv, OpenKept, Frees
    <3>3. loc[q].pc = "made" => loc[q].ip # i
      BY <1>0, <1>1, <1>3, <1>4, <3>1 DEF MineTyped, LocHolds, HasIp
    <3>4. /\ ofile[q] # NoFile => ofile[q].ip \in Inum \ {i}
          /\ loc[q].pc \in {"create2", "made"} => loc[q].ip \in Inum \ {i}
      BY <3>1, <3>2, <3>3 DEF MineTyped, LocTyped, FileTyped, Files, AtIp, Needs
    <3>5. Kept(disk', loc[q], ofile[q])
      BY <1>13, <3>1, <3>4 DEF Kept
    <3> QED  BY <1>2, <1>3, <3>5 DEF Alone, Kept
  <2>2. ASSUME NEW q \in Proc, NEW r \in Proc, NEW j \in Inum,
               Needs(loc'[q], ofile'[q], j), Frees(loc'[r], j)
        PROVE  FALSE
    <3>1. Needs(loc[q], ofile[q], j)
      BY <1>2, <1>3, <2>2 DEF Needs, Alone
    <3>2. Frees(loc[r], j)
      BY <1>2, <2>2 DEF Alone, Frees
    <3> QED  BY <3>1, <3>2 DEF IInv, OpenKept
  <2> QED  BY <2>1, <2>2 DEF OpenKept
<1> QED  BY <1>2, <1>3, <1>9, <1>11, <1>12, <1>14, <1>15, KeptIs, Quiet, Zenon

-----------------------------------------------------------------------------
\* The steps outside iput: nothing is left to put back.

\* What p has at pc.
LEMMA AtIs ==
  ASSUME IInv, NEW p \in Proc, NEW pc, At(p, pc)
  PROVE  /\ LocTyped(loc[p]) /\ FileTyped(loc[p], ofile[p]) /\ LocHolds(p, loc[p], lock)
         /\ cwd[p] \in Inum /\ ofile[p] \in Files /\ Kept(disk, loc[p], ofile[p])
         /\ DOMAIN loc = Proc /\ DOMAIN loc[p] = Fields
         /\ loc[p].pc = pc /\ loc[p].puts = <<>> /\ loc[p].put = "check"
         /\ \A i \in Inum : /\ Points(loc[p], ofile[p], cwd[p], i) \in Nat
                            /\ Count(loc[p].puts, i) = 0
BY Mine, PointersCounted, CountNone, Zenon DEF At, MineTyped, LocTyped

\* A step of p that holds no inode to free, from what it does to the locals of p.
LEMMA StepIs ==
  ASSUME IInv, NEW p \in Proc, Alone(p), LocksOfOthers(p), ops' \subseteq Proc,
         DiskKept, RefsFollow(p), StillThere(disk, disk'), NeedsFound(p),
         LocTyped(loc'[p]), FileTyped(loc'[p], ofile'[p]), loc'[p].put = "check",
         loc'[p].pc \in HasCur => lock'[loc'[p].cur] = p,
         loc'[p].pc \in HasIp => lock'[loc'[p].ip] = p,
         Kept(disk', loc'[p], ofile'[p])
  PROVE  IInv'
<1>1. MineTyped(p, loc'[p], ofile'[p], cwd'[p], lock')
  BY DEF MineTyped, LocHolds, Alone
<1> QED  BY <1>1, QuietIs

\* The tables of the calls, and the locals between calls.
LEMMA WantsAre ==
  /\ \A op \in DOMAIN Wants : Wants[op] \in Wanted \ {"end", "linknew"}
  /\ AtRest.pc = "idle" /\ AtRest.rest = <<>> /\ AtRest.want = "end" /\ AtRest.cur = 0
  /\ AtRest.ip = 0 /\ AtRest.puts = <<>> /\ AtRest.put = "check" /\ AtRest.left = 0
  /\ DOMAIN AtRest = Fields
BY DEF Wants, Wanted, AtRest, Fields

\* The start of a call.
LEMMA BeginKeeps ==
  ASSUME IInv, NEW p \in Proc, NEW c \in Programs, Begin(p, c)
  PROVE  IInv'
<1>1. /\ LocTyped(loc[p]) /\ FileTyped(loc[p], ofile[p]) /\ LocHolds(p, loc[p], lock)
      /\ cwd[p] \in Inum /\ ofile[p] \in Files /\ Kept(disk, loc[p], ofile[p])
      /\ DOMAIN loc = Proc /\ DOMAIN loc[p] = Fields
      /\ loc[p].pc = "idle" /\ loc[p].puts = <<>> /\ loc[p].put = "check"
      /\ \A i \in Inum : /\ Points(loc[p], ofile[p], cwd[p], i) \in Nat
                         /\ Count(loc[p].puts, i) = 0
  BY AtIs DEF Begin
<1>2. loc[p] = AtRest /\ loc[p].left = 0 /\ loc[p].ip = 0 /\ loc[p].rest = <<>> /\ loc[p].cur = 0
      /\ loc[p].want = "end"
  BY <1>1, WantsAre DEF LocTyped
<1>3. /\ disk' = disk /\ committed' = committed /\ lock' = lock /\ cwd' = cwd
      /\ ops' = ops \cup {p} /\ ops' \subseteq Proc
  BY Quiet DEF Begin
<1>4. LocksOfOthers(p) /\ StillThere(disk, disk')
  BY <1>3, Quiet DEF LocksOfOthers
<1>5. \A i \in Inum : Points(loc[p], ofile[p], cwd[p], i)
                        = One(ofile[p] # NoFile /\ ofile[p].ip = i) + One(cwd[p] = i)
  BY <1>1 DEF Points, AtCur, AtIp, One
<1>6. c.path \in Seq(AllNames) /\ c.n \in Nat /\ <<>> \in Seq(AllNames)
  BY XvCallsAssumption
<1>7. CASE /\ c.op \in DOMAIN Wants
           /\ icache' = Iget(icache, Start(p, c))
           /\ Local(p, [call |-> c, cur |-> Start(p, c), rest |-> c.path,
                        want |-> Wants[c.op], pc |-> "namex"])
           /\ UNCHANGED ofile
  <2>1. PICK s : s = Start(p, c)
    OBVIOUS
  <2>2. s \in Inum
    BY <1>1, <2>1, Constants DEF Start
  <2>3. PICK w \in Wanted \ {"end", "linknew"} : w = Wants[c.op]
    BY <1>7, WantsAre
  <2>4. /\ Alone(p) /\ DOMAIN loc'[p] = Fields
        /\ loc'[p].pc = "namex" /\ loc'[p].call = c /\ loc'[p].rest = c.path
        /\ loc'[p].want = w /\ loc'[p].cur = s /\ loc'[p].ip = 0
        /\ loc'[p].puts = <<>> /\ loc'[p].left = 0 /\ loc'[p].put = "check"
    BY <1>1, <1>2, <1>3, <1>7, <2>1, <2>3, Quiet, Zenon DEF Local, Updated, Fields, Alone
  <2>5. LocTyped(loc'[p])
    BY <1>1, <1>6, <2>2, <2>3, <2>4 DEF LocTyped, Pcs, AtIp, ToName
  <2>6. CacheOf(icache', disk) /\ RefsPlus(icache, icache', s)
    BY <1>7, <2>1, <2>2, IgetIs, Quiet
  <2>7. DiskKept
    BY <1>3, <2>6, Quiet DEF DiskKept
  <2>8. \A i \in Inum : Points(loc'[p], ofile'[p], cwd'[p], i)
                          = One(s = i) + One(ofile[p] # NoFile /\ ofile[p].ip = i) + One(cwd[p] = i)
    BY <1>1, <1>3, <1>7, <2>3, <2>4 DEF Points, AtCur, AtIp, One
  <2>9. RefsFollow(p)
    <3> SUFFICES ASSUME NEW i \in Inum
                 PROVE  icache'[i].ref = icache[i].ref - Points(loc[p], ofile[p], cwd[p], i)
                                                       + Points(loc'[p], ofile'[p], cwd'[p], i)
      BY DEF RefsFollow
    <3>1. icache'[i].ref = icache[i].ref + One(i = s) /\ icache[i].ref \in Nat
      BY <2>6, Quiet DEF RefsPlus
    <3> QED  BY <1>5, <2>8, <3>1 DEF One
  <2>10. FileTyped(loc'[p], ofile'[p]) /\ Kept(disk', loc'[p], ofile'[p]) /\ NeedsFound(p)
    BY <1>1, <1>3, <1>7, <2>4 DEF FileTyped, Kept, NeedsFound, Needs
  <2> QED  BY <1>3, <1>4, <2>4, <2>5, <2>7, <2>9, <2>10, StepIs DEF HasCur, HasIp
<1>8. CASE /\ c.op = "write" /\ ofile[p].writable /\ disk.inode[ofile[p].ip].type # "dev"
           /\ Local(p, [call |-> c, left |-> c.n, pc |-> "write"])
           /\ UNCHANGED <<icache, ofile>>
  <2>4. /\ Alone(p) /\ DOMAIN loc'[p] = Fields
        /\ loc'[p].pc = "write" /\ loc'[p].call = c /\ loc'[p].rest = <<>>
        /\ loc'[p].want = "end" /\ loc'[p].cur = 0 /\ loc'[p].ip = 0
        /\ loc'[p].puts = <<>> /\ loc'[p].left = c.n /\ loc'[p].put = "check"
    BY <1>1, <1>2, <1>3, <1>8, Quiet, Zenon DEF Local, Updated, Fields, Alone
  <2>5. LocTyped(loc'[p])
    BY <1>1, <1>6, <2>4 DEF LocTyped, Pcs, Wanted, AtIp, AtCur, ToName
  <2>7. DiskKept
    BY <1>3, <1>8, Quiet DEF DiskKept
  <2>8. \A i \in Inum : Points(loc'[p], ofile'[p], cwd'[p], i)
                          = One(ofile[p] # NoFile /\ ofile[p].ip = i) + One(cwd[p] = i)
    BY <1>1, <1>3, <1>8, <2>4 DEF Points, AtCur, AtIp, One
  <2>9. RefsFollow(p)
    <3> SUFFICES ASSUME NEW i \in Inum
                 PROVE  icache'[i].ref = icache[i].ref - Points(loc[p], ofile[p], cwd[p], i)
                                                       + Points(loc'[p], ofile'[p], cwd'[p], i)
      BY DEF RefsFollow
    <3>1. icache'[i].ref = icache[i].ref /\ icache[i].ref \in Nat
      BY <1>8, Quiet
    <3> QED  BY <1>5, <2>8, <3>1 DEF One
  <2>10. FileTyped(loc'[p], ofile'[p]) /\ Kept(disk', loc'[p], ofile'[p]) /\ NeedsFound(p)
    <3>1. ofile[p] # NoFile /\ ofile[p].writable
      BY <1>8 DEF NoFile
    <3> QED  BY <1>1, <1>3, <1>8, <2>4, <3>1 DEF FileTyped, Kept, NeedsFound, Needs
  <2> QED  BY <1>3, <1>4, <2>4, <2>5, <2>7, <2>9, <2>10, StepIs DEF HasCur, HasIp
<1>9. CASE /\ c.op = "close" /\ ofile[p] # NoFile
           /\ Local(p, [call |-> c, puts |-> <<ofile[p].ip>>, pc |-> "end"])
           /\ ofile' = [ofile EXCEPT ![p] = NoFile]
           /\ UNCHANGED icache
  <2>1. PICK f \in Inum : f = ofile[p].ip
    BY <1>1, <1>9 DEF FileTyped, Files
  <2>2. NoFile \in Files
    BY Constants DEF NoFile, Files
  <2>3. ofile' \in [Proc -> Files] /\ ofile'[p] = NoFile /\ \A q \in Proc \ {p} : ofile'[q] = ofile[q]
    BY <1>9, <2>2, Quiet
  <2>4. /\ Alone(p) /\ DOMAIN loc'[p] = Fields
        /\ loc'[p].pc = "end" /\ loc'[p].call = c /\ loc'[p].rest = <<>>
        /\ loc'[p].want = "end" /\ loc'[p].cur = 0 /\ loc'[p].ip = 0
        /\ loc'[p].puts = <<f>> /\ loc'[p].left = 0 /\ loc'[p].put = "check"
    BY <1>1, <1>2, <1>3, <1>9, <2>1, <2>3, Quiet DEF Local, Updated, Fields, Alone
  <2>11. <<f>> \in Seq(Inum) /\ Len(<<f>>) = 1 /\ <<f>> # <<>>
    OBVIOUS
  <2>5. LocTyped(loc'[p])
    BY <1>1, <1>6, <2>4, <2>11 DEF LocTyped, Pcs, Wanted, AtIp, AtCur, ToName
  <2>7. DiskKept
    BY <1>3, <1>9, Quiet DEF DiskKept
  <2>8. \A i \in Inum : Points(loc'[p], ofile'[p], cwd'[p], i) = One(f = i) + One(cwd[p] = i)
    BY <1>1, <1>3, <2>3, <2>4, Counts DEF Points, AtCur, AtIp, One
  <2>9. RefsFollow(p)
    <3> SUFFICES ASSUME NEW i \in Inum
                 PROVE  icache'[i].ref = icache[i].ref - Points(loc[p], ofile[p], cwd[p], i)
                                                       + Points(loc'[p], ofile'[p], cwd'[p], i)
      BY DEF RefsFollow
    <3>1. icache'[i].ref = icache[i].ref /\ icache[i].ref \in Nat
      BY <1>9, Quiet
    <3> QED  BY <1>5, <1>9, <2>1, <2>8, <3>1 DEF One
  <2>10. FileTyped(loc'[p], ofile'[p]) /\ Kept(disk', loc'[p], ofile'[p]) /\ NeedsFound(p)
    BY <1>1, <1>3, <2>2, <2>3, <2>4 DEF FileTyped, Kept, NeedsFound, Needs
  <2> QED  BY <1>3, <1>4, <2>4, <2>5, <2>7, <2>9, <2>10, StepIs DEF HasCur, HasIp
<1> QED  BY <1>7, <1>8, <1>9 DEF Begin

\* end_op commits a sound disk.
LEMMA EndKeeps ==
  ASSUME IInv, NEW p \in Proc, End(p)
  PROVE  IInv'
<1>1. /\ LocTyped(loc[p]) /\ FileTyped(loc[p], ofile[p]) /\ LocHolds(p, loc[p], lock)
      /\ cwd[p] \in Inum /\ ofile[p] \in Files /\ Kept(disk, loc[p], ofile[p])
      /\ DOMAIN loc = Proc /\ DOMAIN loc[p] = Fields
      /\ loc[p].pc \in {"end", "moved"} /\ loc[p].puts = <<>> /\ loc[p].put = "check"
      /\ \A i \in Inum : /\ Points(loc[p], ofile[p], cwd[p], i) \in Nat
                         /\ Count(loc[p].puts, i) = 0
  BY AtIs DEF End
<1>2. /\ disk' = disk /\ icache' = icache /\ lock' = lock /\ ofile' = ofile
      /\ ops' = ops \ {p} /\ ops' \subseteq Proc
      /\ committed' = IF ops = {p} THEN disk ELSE committed
      /\ cwd' = IF loc[p].pc = "moved" THEN [cwd EXCEPT ![p] = loc[p].cur] ELSE cwd
      /\ IF loc[p].left > 0 THEN Local(p, [pc |-> "more"]) ELSE loc' = [loc EXCEPT ![p] = AtRest]
  BY Quiet DEF End
<1>3. LocksOfOthers(p) /\ StillThere(disk, disk') /\ DiskKept
  BY <1>2, Quiet DEF LocksOfOthers, DiskKept
<1>4. /\ cwd' \in [Proc -> Inum] /\ \A q \in Proc \ {p} : cwd'[q] = cwd[q]
      /\ cwd'[p] = IF loc[p].pc = "moved" THEN loc[p].cur ELSE cwd[p]
      /\ loc[p].pc = "moved" => loc[p].cur \in Inum
  <2>1. loc[p].pc = "moved" => loc[p].cur \in Inum
    BY <1>1 DEF LocTyped, AtCur
  <2> QED  BY <1>2, <2>1, Quiet
<1>5. /\ Alone(p) /\ LocTyped(loc'[p]) /\ loc'[p].pc \in {"idle", "more"}
      /\ loc'[p].put = "check" /\ loc'[p].puts = <<>>
      /\ loc'[p].pc = "more" \/ loc'[p].left > 0 => loc[p].left > 0
  <2>1. CASE loc[p].left > 0
    <3>1. /\ Alone(p) /\ DOMAIN loc'[p] = Fields
          /\ loc'[p].pc = "more" /\ loc'[p].call = loc[p].call /\ loc'[p].rest = loc[p].rest
          /\ loc'[p].want = loc[p].want /\ loc'[p].cur = loc[p].cur /\ loc'[p].ip = loc[p].ip
          /\ loc'[p].puts = <<>> /\ loc'[p].left = loc[p].left /\ loc'[p].put = "check"
      BY <1>1, <1>2, <1>4, <2>1, Quiet DEF Local, Updated, Fields, Alone
    <3> QED  BY <1>1, <2>1, <3>1 DEF LocTyped, Pcs, AtIp, AtCur, ToName
  <2>2. CASE ~(loc[p].left > 0)
    <3>1. Alone(p) /\ loc'[p] = AtRest
      BY <1>1, <1>2, <1>4, <2>2, Quiet DEF Alone
    <3>2. <<>> \in Seq(AllNames) /\ <<>> \in Seq(Inum) /\ Len(<<>>) <= 2
      OBVIOUS
    <3> QED  BY <3>1, <3>2, WantsAre DEF LocTyped, Pcs, Wanted, AtIp, AtCur, ToName
  <2> QED  BY <2>1, <2>2
<1>6. RefsFollow(p)
  <2> SUFFICES ASSUME NEW i \in Inum
               PROVE  Points(loc'[p], ofile'[p], cwd'[p], i) = Points(loc[p], ofile[p], cwd[p], i)
    BY <1>1, <1>2, Quiet DEF RefsFollow
  <2>1. Count(loc'[p].puts, i) = 0
    BY <1>5, CountNone
  <2> QED  BY <1>1, <1>2, <1>4, <1>5, <2>1 DEF Points, AtCur, AtIp, One
<1>7. FileTyped(loc'[p], ofile'[p]) /\ Kept(disk', loc'[p], ofile'[p]) /\ NeedsFound(p)
  BY <1>1, <1>2, <1>5 DEF FileTyped, Kept, NeedsFound, Needs
<1> QED  BY <1>2, <1>3, <1>5, <1>6, <1>7, StepIs DEF HasCur, HasIp

\* filewrite's next transaction.
LEMMA MoreKeeps ==
  ASSUME IInv, NEW p \in Proc, More(p)
  PROVE  IInv'
<1>1. /\ LocTyped(loc[p]) /\ FileTyped(loc[p], ofile[p]) /\ LocHolds(p, loc[p], lock)
      /\ cwd[p] \in Inum /\ ofile[p] \in Files /\ Kept(disk, loc[p], ofile[p])
      /\ DOMAIN loc = Proc /\ DOMAIN loc[p] = Fields
      /\ loc[p].pc = "more" /\ loc[p].puts = <<>> /\ loc[p].put = "check"
      /\ \A i \in Inum : /\ Points(loc[p], ofile[p], cwd[p], i) \in Nat
                         /\ Count(loc[p].puts, i) = 0
  BY AtIs DEF More
<1>2. /\ disk' = disk /\ icache' = icache /\ lock' = lock /\ ofile' = ofile /\ cwd' = cwd
      /\ ops' = ops \cup {p} /\ ops' \subseteq Proc /\ committed' = committed
  BY Quiet DEF More
<1>3. LocksOfOthers(p) /\ StillThere(disk, disk') /\ DiskKept
  BY <1>2, Quiet DEF LocksOfOthers, DiskKept
<1>4. /\ Alone(p) /\ DOMAIN loc'[p] = Fields
      /\ loc'[p].pc = "write" /\ loc'[p].call = loc[p].call /\ loc'[p].rest = loc[p].rest
      /\ loc'[p].want = loc[p].want /\ loc'[p].cur = loc[p].cur /\ loc'[p].ip = loc[p].ip
      /\ loc'[p].puts = <<>> /\ loc'[p].left = loc[p].left /\ loc'[p].put = "check"
  BY <1>1, <1>2, Quiet DEF More, Local, Updated, Fields, Alone
<1>5. LocTyped(loc'[p])
  BY <1>1, <1>4 DEF LocTyped, Pcs, AtIp, AtCur, ToName
<1>6. RefsFollow(p)
  <2> SUFFICES ASSUME NEW i \in Inum
               PROVE  Points(loc'[p], ofile'[p], cwd'[p], i) = Points(loc[p], ofile[p], cwd[p], i)
    BY <1>1, <1>2, Quiet DEF RefsFollow
  <2> QED  BY <1>1, <1>2, <1>4 DEF Points, AtCur, AtIp, One
<1>7. FileTyped(loc'[p], ofile'[p]) /\ Kept(disk', loc'[p], ofile'[p]) /\ NeedsFound(p)
  BY <1>1, <1>2, <1>4 DEF FileTyped, Kept, NeedsFound, Needs
<1> QED  BY <1>2, <1>3, <1>4, <1>5, <1>6, <1>7, StepIs DEF HasCur, HasIp

\* fileread.
LEMMA ReadKeeps ==
  ASSUME IInv, NEW p \in Proc, Read(p)
  PROVE  IInv'
<1>1. /\ LocTyped(loc[p]) /\ FileTyped(loc[p], ofile[p]) /\ LocHolds(p, loc[p], lock)
      /\ cwd[p] \in Inum /\ ofile[p] \in Files /\ Kept(disk, loc[p], ofile[p])
      /\ DOMAIN loc = Proc /\ DOMAIN loc[p] = Fields
      /\ loc[p].pc = "idle" /\ loc[p].puts = <<>> /\ loc[p].put = "check"
      /\ \A i \in Inum : /\ Points(loc[p], ofile[p], cwd[p], i) \in Nat
                         /\ Count(loc[p].puts, i) = 0
  BY AtIs DEF Read
<1>2. PICK i \in Inum : i = ofile[p].ip
  BY <1>1 DEF Read, FileTyped, Files
<1>3. /\ disk' = disk /\ committed' = committed /\ lock' = lock /\ cwd' = cwd /\ loc' = loc
      /\ ops' \subseteq Proc /\ icache' = Ilock(icache, i) /\ CanLock(i) /\ ofile[p] # NoFile
      /\ ofile' = [ofile EXCEPT ![p].off = @ + 1] /\ Readable(Found(i), ofile[p].off)
  BY <1>2, Quiet DEF Read
<1>4. /\ CacheOf(icache', disk) /\ RefsSame(icache, icache') /\ Found(i) = disk.inode[i]
      /\ disk.inode[i].size \in 0 .. MAXFILE
  BY <1>3, IlockIs, DiskFields, Quiet DEF Sound
<1>5. /\ ofile[p].off + 1 \in 0 .. MAXFILE /\ ofile[p].off + 1 <= disk.inode[i].size
      /\ ofile[p].off \in Nat
  <2>1. ofile[p].off \in Nat
    BY <1>1, Constants DEF Files
  <2>2. ofile[p].off < disk.inode[i].size
    BY <1>3, <1>4 DEF Readable
  <2> QED  BY <1>4, <2>1, <2>2, Constants
<1> DEFINE f == [ofile[p] EXCEPT !.off = @ + 1]
<1>6. f \in Files /\ f.ip = i /\ f.off = ofile[p].off + 1 /\ f # NoFile /\ ofile' = [ofile EXCEPT ![p] = f]
  <2>1. f \in Files /\ f.ip = i /\ f.off = ofile[p].off + 1
    BY <1>1, <1>2, <1>5 DEF Files
  <2> QED  BY <1>2, <1>3, <2>1, Quiet, Constants DEF NoFile
<1> HIDE DEF f
<1>7. ofile' \in [Proc -> Files] /\ ofile'[p] = f /\ \A q \in Proc \ {p} : ofile'[q] = ofile[q]
  BY <1>6, Quiet
<1>8. Alone(p) /\ LocksOfOthers(p) /\ StillThere(disk, disk') /\ DiskKept
  BY <1>1, <1>3, <1>4, <1>7, Quiet DEF Alone, LocksOfOthers, DiskKept
<1>9. RefsFollow(p)
  <2> SUFFICES ASSUME NEW j \in Inum
               PROVE  Points(loc'[p], ofile'[p], cwd'[p], j) = Points(loc[p], ofile[p], cwd[p], j)
    BY <1>1, <1>4, Quiet DEF RefsFollow, RefsSame
  <2> QED  BY <1>2, <1>3, <1>6, <1>7 DEF Points, One
<1>10. FileTyped(loc'[p], ofile'[p]) /\ Kept(disk', loc'[p], ofile'[p]) /\ NeedsFound(p)
  <2>1. /\ ofile'[p] # NoFile /\ ofile'[p] \in Files /\ ofile'[p].ip = i /\ ofile[p].ip = i
        /\ ofile'[p].off <= disk.inode[i].size /\ i # 0
    BY <1>2, <1>5, <1>6, <1>7, Constants
  <2> QED  BY <1>1, <1>3, <2>1 DEF FileTyped, Kept, NeedsFound, Needs
<1> QED  BY <1>1, <1>3, <1>8, <1>9, <1>10, StepIs DEF HasCur, HasIp

\* The invariant does not depend on the rest of the state.
LEMMA UnchangedKeeps ==
  ASSUME IInv, UNCHANGED <<disk, committed, ops, icache, lock, ofile, cwd, loc>>
  PROVE  IInv'
<1>1. /\ disk' = disk /\ committed' = committed /\ ops' = ops /\ icache' = icache
      /\ lock' = lock /\ ofile' = ofile /\ cwd' = cwd /\ loc' = loc
  OBVIOUS
<1>2. Sound(disk') /\ Sound(committed') /\ CacheOf(icache', disk') /\ LocksOf(lock', disk')
  BY <1>1, Quiet
<1>3. Typed'
  BY <1>1, Quiet DEF Typed
<1>4. OpenKept'
  BY <1>1 DEF IInv, OpenKept
<1>5. RefsCounted'
  <2>1. \A q \in Proc : Pointers(q)' = Pointers(q)
    BY <1>1 DEF Pointers
  <2>2. PointersHere' = PointersHere
    BY <2>1 DEF PointersHere
  <2>3. \A i \in Inum : Refs(i)' = Refs(i)
    BY <2>2 DEF Refs, Sites
  <2> QED  BY <1>1, <2>3, Quiet, RefsAre, RefsAreThen
<1> QED  BY <1>2, <1>3, <1>4, <1>5 DEF IInv

\* The machine stops with the disk, the cache and the locks as they are.
LEMMA PanicsKeeps ==
  ASSUME IInv, NEW p \in Proc, Panics(p)
  PROVE  IInv'
BY UnchangedKeeps DEF Panics

\* One step of a walk: the next inode is counted before the one behind it is put.
LEMMA NamexKeeps ==
  ASSUME IInv, NEW p \in Proc, Namex(p)
  PROVE  IInv'
<1>1. /\ LocTyped(loc[p]) /\ FileTyped(loc[p], ofile[p]) /\ LocHolds(p, loc[p], lock)
      /\ cwd[p] \in Inum /\ ofile[p] \in Files /\ Kept(disk, loc[p], ofile[p])
      /\ DOMAIN loc = Proc /\ DOMAIN loc[p] = Fields
      /\ loc[p].pc = "namex" /\ loc[p].puts = <<>> /\ loc[p].put = "check"
      /\ \A i \in Inum : /\ Points(loc[p], ofile[p], cwd[p], i) \in Nat
                         /\ Count(loc[p].puts, i) = 0
  BY AtIs DEF Namex
<1>2. PICK i \in Inum : i = loc[p].cur
  BY <1>1 DEF LocTyped, AtCur
<1>3. /\ disk' = disk /\ committed' = committed /\ lock' = lock /\ cwd' = cwd /\ ofile' = ofile
      /\ ops' = ops /\ ops' \subseteq Proc
  BY Quiet DEF Namex
<1>4. LocksOfOthers(p) /\ StillThere(disk, disk')
  BY <1>3, Quiet DEF LocksOfOthers
<1>5. /\ loc[p].want \in Wanted \ {"end"} /\ (loc[p].want = "linknew" => loc[p].ip \in Inum)
      /\ loc[p].rest \in Seq(AllNames)
  BY <1>1 DEF LocTyped
<1>6. \A j \in Inum : Points(loc[p], ofile[p], cwd[p], j)
                        = One(i = j) + One(loc[p].want = "linknew" /\ loc[p].ip = j)
                          + One(ofile[p] # NoFile /\ ofile[p].ip = j) + One(cwd[p] = j)
  BY <1>1, <1>2 DEF Points, AtCur, AtIp, One
<1> DEFINE path == loc[p].rest
           next == disk.dir[i][Head(path)]
           Out == GiveUp(p) /\ CacheOf(icache', disk) /\ RefsSame(icache, icache')
           There == /\ Local(p, [pc |-> loc[p].want])
                    /\ loc[p].want \in ToName => path # <<>>
                    /\ CacheOf(icache', disk) /\ RefsSame(icache, icache')
           Deeper == /\ Local(p, [cur |-> next, rest |-> Tail(path), puts |-> <<i>>])
                     /\ next \in Inum /\ path # <<>>
                     /\ CacheOf(icache', disk) /\ RefsPlus(icache, icache', next)
<1>7. Out \/ There \/ Deeper
  <2>1. CASE path = <<>>
    <3>1. CacheOf(icache', disk) /\ RefsSame(icache, icache')
      BY <2>1, Quiet DEF Namex, RefsSame
    <3>2. /\ GiveUp(p) \/ Local(p, [pc |-> loc[p].want])
          /\ loc[p].want \in OfParent => GiveUp(p)
      BY <2>1 DEF Namex
    <3>3. loc[p].want \notin OfParent => loc[p].want \notin ToName
      BY <1>5 DEF OfParent, ToName, Wanted
    <3> QED  BY <3>1, <3>2, <3>3
  <2>2. CASE path # <<>>
    <3>1. CanLock(i)
      BY <1>2, <2>2 DEF Namex
    <3>2. CacheOf(Ilock(icache, i), disk) /\ RefsSame(icache, Ilock(icache, i))
      BY <3>1, IlockIs, Quiet
    <3>3. Head(path) \in AllNames /\ disk.dir[i][Head(path)] \in Inum \cup {0}
      <4>1. Head(path) \in AllNames
        BY <1>5, <2>2, SMTT(30)
      <4> QED  BY <4>1, Quiet DEF Sound, DiskTyped
    <3>4. \/ GiveUp(p) /\ icache' = Ilock(icache, i)
          \/ Local(p, [pc |-> loc[p].want]) /\ icache' = Ilock(icache, i)
          \/ /\ Local(p, [cur |-> next, rest |-> Tail(path), puts |-> <<i>>]) /\ next # 0
             /\ icache' = Iget(Ilock(icache, i), next)
      BY <1>2, <2>2, SMTT(30) DEF Namex
    <3>5. CASE /\ Local(p, [cur |-> next, rest |-> Tail(path), puts |-> <<i>>]) /\ next # 0
               /\ icache' = Iget(Ilock(icache, i), next)
      <4>1. PICK c : c = Ilock(icache, i)
        BY SMTT(30)
      <4>2. CacheOf(c, disk) /\ next \in Inum
        BY <3>2, <3>3, <3>5, <4>1, SMTT(30)
      <4>3. CacheOf(icache', disk) /\ RefsPlus(c, icache', next)
        BY <3>5, <4>1, <4>2, IgetIs
      <4>4. RefsPlus(icache, icache', next)
        BY <3>2, <4>1, <4>3 DEF RefsPlus, RefsSame
      <4> QED  BY <2>2, <3>5, <4>2, <4>3, <4>4, ZenonT(30)
    <3> QED  BY <2>2, <3>2, <3>4, <3>5
  <2> QED  BY <2>1, <2>2
<1>8. CacheOf(icache', disk)
  BY <1>7
<1>9. DiskKept
  BY <1>3, <1>8, Quiet DEF DiskKept
<1>10. CASE Out
  <2>1. PICK pc \in {"undo", "end"} : /\ pc = IF loc[p].want = "linknew" THEN "undo" ELSE "end"
    OBVIOUS
  <2>2. /\ Alone(p) /\ DOMAIN loc'[p] = Fields
        /\ loc'[p].pc = pc /\ loc'[p].call = loc[p].call /\ loc'[p].rest = loc[p].rest
        /\ loc'[p].want = loc[p].want /\ loc'[p].cur = loc[p].cur /\ loc'[p].ip = loc[p].ip
        /\ loc'[p].puts = <<i>> /\ loc'[p].left = loc[p].left /\ loc'[p].put = "check"
    BY <1>1, <1>2, <1>3, <1>10, <2>1, Quiet, Zenon DEF GiveUp, Local, Updated, Fields, Alone
  <2>3. <<i>> \in Seq(Inum) /\ Len(<<i>>) = 1 /\ <<i>> # <<>>
    OBVIOUS
  <2>4. LocTyped(loc'[p])
    BY <1>1, <1>5, <2>1, <2>2, <2>3 DEF LocTyped, Pcs, AtIp, AtCur, ToName
  <2>5. RefsFollow(p)
    <3> SUFFICES ASSUME NEW j \in Inum
                 PROVE  Points(loc'[p], ofile'[p], cwd'[p], j) = Points(loc[p], ofile[p], cwd[p], j)
      BY <1>1, <1>10, Quiet DEF RefsFollow, RefsSame
    <3>1. Count(loc'[p].puts, j) = One(i = j)
      BY <2>2, Counts
    <3> QED  BY <1>3, <1>6, <2>1, <2>2, <3>1 DEF Points, AtCur, AtIp, One
  <2>6. FileTyped(loc'[p], ofile'[p]) /\ Kept(disk', loc'[p], ofile'[p]) /\ NeedsFound(p)
    BY <1>1, <1>3, <2>1, <2>2 DEF FileTyped, Kept, NeedsFound, Needs
  <2> QED  BY <1>3, <1>4, <1>9, <2>1, <2>2, <2>4, <2>5, <2>6, StepIs DEF HasCur, HasIp
<1>11. CASE There
  <2>1. PICK pc \in Wanted \ {"end"} : pc = loc[p].want
    BY <1>5
  <2>2. /\ Alone(p) /\ DOMAIN loc'[p] = Fields
        /\ loc'[p].pc = pc /\ loc'[p].call = loc[p].call /\ loc'[p].rest = loc[p].rest
        /\ loc'[p].want = loc[p].want /\ loc'[p].cur = loc[p].cur /\ loc'[p].ip = loc[p].ip
        /\ loc'[p].puts = <<>> /\ loc'[p].left = loc[p].left /\ loc'[p].put = "check"
    BY <1>1, <1>3, <1>11, <2>1, Quiet, Zenon DEF Local, Updated, Fields, Alone
  <2>4. LocTyped(loc'[p])
    BY <1>1, <1>2, <1>5, <1>11, <2>1, <2>2 DEF LocTyped, Pcs, Wanted, AtIp, AtCur, ToName
  <2>5. RefsFollow(p)
    <3> SUFFICES ASSUME NEW j \in Inum
                 PROVE  Points(loc'[p], ofile'[p], cwd'[p], j) = Points(loc[p], ofile[p], cwd[p], j)
      BY <1>1, <1>11, Quiet DEF RefsFollow, RefsSame
    <3>1. Count(loc'[p].puts, j) = 0
      BY <2>2, CountNone
    <3> QED  BY <1>2, <1>3, <1>6, <2>1, <2>2, <3>1 DEF Points, Wanted, AtCur, AtIp, One
  <2>6. FileTyped(loc'[p], ofile'[p]) /\ Kept(disk', loc'[p], ofile'[p]) /\ NeedsFound(p)
    BY <1>1, <1>3, <2>1, <2>2 DEF FileTyped, Kept, NeedsFound, Needs, Wanted
  <2> QED  BY <1>3, <1>4, <1>9, <2>1, <2>2, <2>4, <2>5, <2>6, StepIs DEF HasCur, HasIp, Wanted
<1>12. CASE Deeper
  <2>1. PICK n \in Inum : n = next
    BY <1>12, SMTT(30)
  <2>2. /\ Alone(p) /\ DOMAIN loc'[p] = Fields
        /\ loc'[p].pc = "namex" /\ loc'[p].call = loc[p].call /\ loc'[p].rest = Tail(loc[p].rest)
        /\ loc'[p].want = loc[p].want /\ loc'[p].cur = n /\ loc'[p].ip = loc[p].ip
        /\ loc'[p].puts = <<i>> /\ loc'[p].left = loc[p].left /\ loc'[p].put = "check"
    BY <1>1, <1>3, <1>12, <2>1, Quiet, ZenonT(30) DEF Local, Updated, Fields, Alone
  <2>3. /\ <<i>> \in Seq(Inum) /\ Len(<<i>>) = 1 /\ <<i>> # <<>>
        /\ Tail(loc[p].rest) \in Seq(AllNames)
    BY <1>5, <1>12
  <2>4. LocTyped(loc'[p])
    BY <1>1, <1>5, <2>1, <2>2, <2>3 DEF LocTyped, Pcs, AtIp, AtCur, ToName
  <2>5. RefsFollow(p)
    <3> SUFFICES ASSUME NEW j \in Inum
                 PROVE  icache'[j].ref = icache[j].ref - Points(loc[p], ofile[p], cwd[p], j)
                                                       + Points(loc'[p], ofile'[p], cwd'[p], j)
      BY DEF RefsFollow
    <3>1. Count(loc'[p].puts, j) = One(i = j)
      BY <2>2, Counts, SMTT(30)
    <3>2. icache'[j].ref = icache[j].ref + One(j = n) /\ icache[j].ref \in Nat
      BY <1>12, <2>1, Quiet DEF RefsPlus
    <3> HIDE DEF Deeper
    <3>3. Points(loc'[p], ofile'[p], cwd'[p], j)
            = One(n = j) + Points(loc[p], ofile[p], cwd[p], j)
      BY <1>3, <1>6, <2>2, <3>1 DEF Points, AtCur, AtIp, One
    <3> QED  BY <1>1, <3>2, <3>3 DEF One
  <2>6. FileTyped(loc'[p], ofile'[p]) /\ Kept(disk', loc'[p], ofile'[p]) /\ NeedsFound(p)
    BY <1>1, <1>3, <2>1, <2>2 DEF FileTyped, Kept, NeedsFound, Needs
  <2> QED  BY <1>3, <1>4, <1>9, <2>1, <2>2, <2>4, <2>5, <2>6, StepIs, SMTT(30) DEF HasCur, HasIp
<1> QED  BY <1>7, <1>10, <1>11, <1>12

\* sys_open of a file that is there: nobody is freeing it while its lock is free.
LEMMA OpenKeeps ==
  ASSUME IInv, NEW p \in Proc, Open(p)
  PROVE  IInv'
<1>1. /\ LocTyped(loc[p]) /\ FileTyped(loc[p], ofile[p]) /\ LocHolds(p, loc[p], lock)
      /\ cwd[p] \in Inum /\ ofile[p] \in Files /\ Kept(disk, loc[p], ofile[p])
      /\ DOMAIN loc = Proc /\ DOMAIN loc[p] = Fields
      /\ loc[p].pc = "open" /\ loc[p].puts = <<>> /\ loc[p].put = "check"
      /\ \A i \in Inum : /\ Points(loc[p], ofile[p], cwd[p], i) \in Nat
                         /\ Count(loc[p].puts, i) = 0
  BY AtIs DEF Open, Under
<1>2. PICK i \in Inum : i = loc[p].cur
  BY <1>1 DEF LocTyped, AtCur
<1>3. /\ disk' = disk /\ committed' = committed /\ lock' = lock /\ cwd' = cwd
      /\ ops' \subseteq Proc /\ icache' = Ilock(icache, i) /\ CanLock(i)
  BY <1>2, Quiet DEF Open, Under
<1>4. /\ CacheOf(icache', disk) /\ RefsSame(icache, icache') /\ Found(i) = disk.inode[i]
      /\ disk.inode[i].type \in Kinds \ {"free"} /\ disk.inode[i].size \in Nat /\ lock[i] = Nobody
  BY <1>3, IlockIs, DiskFields, Quiet DEF Sound
<1>5. LocksOfOthers(p) /\ StillThere(disk, disk') /\ DiskKept
  BY <1>3, <1>4, Quiet DEF LocksOfOthers, DiskKept
<1>6. CASE Local(p, [puts |-> <<i>>, pc |-> "end"]) /\ ofile' = ofile
  <2>1. <<i>> \in Seq(Inum) /\ Len(<<i>>) = 1 /\ <<i>> # <<>>
    OBVIOUS
  <2>2. /\ Alone(p) /\ DOMAIN loc'[p] = Fields
        /\ loc'[p].pc = "end" /\ loc'[p].call = loc[p].call /\ loc'[p].rest = loc[p].rest
        /\ loc'[p].want = loc[p].want /\ loc'[p].cur = i /\ loc'[p].ip = loc[p].ip
        /\ loc'[p].puts = <<i>> /\ loc'[p].left = loc[p].left /\ loc'[p].put = "check"
    BY <1>1, <1>2, <1>3, <1>6, Quiet, Zenon DEF Local, Updated, Fields, Alone
  <2>3. LocTyped(loc'[p])
    BY <1>1, <2>1, <2>2 DEF LocTyped, Pcs, AtIp, AtCur, ToName
  <2>4. RefsFollow(p)
    <3> SUFFICES ASSUME NEW j \in Inum
                 PROVE  Points(loc'[p], ofile'[p], cwd'[p], j) = Points(loc[p], ofile[p], cwd[p], j)
      BY <1>1, <1>4, Quiet DEF RefsFollow, RefsSame
    <3>1. Count(loc'[p].puts, j) = One(i = j)
      BY <2>2, Counts
    <3> QED  BY <1>1, <1>2, <1>3, <1>6, <2>2, <3>1 DEF Points, AtCur, AtIp, One
  <2>5. FileTyped(loc'[p], ofile'[p]) /\ Kept(disk', loc'[p], ofile'[p]) /\ NeedsFound(p)
    BY <1>1, <1>3, <1>6, <2>2 DEF FileTyped, Kept, NeedsFound, Needs
  <2> QED  BY <1>3, <1>5, <2>2, <2>3, <2>4, <2>5, StepIs DEF HasCur, HasIp
<1>7. ASSUME NEW w \in BOOLEAN, w => Found(i).type # "dir", ofile[p] = NoFile,
             Local(p, [pc |-> "end"]), ofile' = [ofile EXCEPT ![p] = [ip |-> i, off |-> 0, writable |-> w]]
      PROVE  IInv'
  <2>1. PICK f \in Files : f = [ip |-> i, off |-> 0, writable |-> w]
    <3>1. 0 \in 0 .. MAXFILE /\ i \in Inum \cup {0}
      BY Constants
    <3>2. [ip |-> i, off |-> 0, writable |-> w] \in Files
      BY <3>1 DEF Files
    <3> QED  BY <3>2
  <2>2. f.ip = i /\ f.off = 0 /\ f.writable = w /\ f # NoFile
    BY <2>1, Constants DEF NoFile
  <2>3. ofile' \in [Proc -> Files] /\ ofile'[p] = f /\ \A q \in Proc \ {p} : ofile'[q] = ofile[q]
    BY <1>7, <2>1, Quiet
  <2>4. /\ Alone(p) /\ DOMAIN loc'[p] = Fields
        /\ loc'[p].pc = "end" /\ loc'[p].call = loc[p].call /\ loc'[p].rest = loc[p].rest
        /\ loc'[p].want = loc[p].want /\ loc'[p].cur = i /\ loc'[p].ip = loc[p].ip
        /\ loc'[p].puts = <<>> /\ loc'[p].left = loc[p].left /\ loc'[p].put = "check"
    BY <1>1, <1>2, <1>3, <1>7, <2>3, Quiet DEF Local, Updated, Fields, Alone
  <2>5. LocTyped(loc'[p])
    BY <1>1, <2>4 DEF LocTyped, Pcs, AtIp, AtCur, ToName
  <2>6. RefsFollow(p)
    <3> SUFFICES ASSUME NEW j \in Inum
                 PROVE  Points(loc'[p], ofile'[p], cwd'[p], j) = Points(loc[p], ofile[p], cwd[p], j)
      BY <1>1, <1>4, Quiet DEF RefsFollow, RefsSame
    <3>1. Count(loc'[p].puts, j) = 0
      BY <2>4, CountNone
    <3> QED  BY <1>1, <1>2, <1>3, <1>7, <2>2, <2>3, <2>4, <3>1 DEF Points, AtCur, AtIp, One
  <2>7. FileTyped(loc'[p], ofile'[p]) /\ Kept(disk', loc'[p], ofile'[p])
    <3>1. loc[p].left = 0
      BY <1>1, <1>7, Constants DEF FileTyped, LocTyped
    <3>2. FileTyped(loc'[p], ofile'[p])
      BY <2>2, <2>3, <2>4, <3>1, Constants DEF FileTyped
    <3>3. disk'.inode[i].type \in {"file", "dev", "dir"} /\ (w => disk'.inode[i].type # "dir")
          /\ 0 <= disk'.inode[i].size
      BY <1>3, <1>4, <1>7, Constants DEF Kinds
    <3>4. Kept(disk', loc'[p], ofile'[p])
      BY <2>2, <2>3, <2>4, <3>3 DEF Kept
    <3> QED  BY <3>2, <3>4
  <2>8. NeedsFound(p)
    BY <1>4, <2>2, <2>3, <2>4, Constants DEF NeedsFound, Needs
  <2> QED  BY <1>3, <1>5, <2>4, <2>5, <2>6, <2>7, <2>8, StepIs DEF HasCur, HasIp
<1>8. CASE ~((Found(i).type = "dir" /\ loc[p].call.op = "open") \/ ofile[p] # NoFile)
  <2>1. PICK w \in BOOLEAN : w <=> loc[p].call.op = "open"
    BY Zenon
  <2>2. w = (loc[p].call.op = "open")
    BY <2>1
  <2>3. Local(p, [pc |-> "end"]) /\ ofile' = [ofile EXCEPT ![p] = [ip |-> i, off |-> 0, writable |-> w]]
    BY <1>2, <1>8, <2>2 DEF Open
  <2> QED  BY <1>7, <1>8, <2>1, <2>3
<1> QED  BY <1>2, <1>6, <1>8 DEF Open

\* sys_chdir: the pointer to the old directory is put, the walk's becomes the new one.
LEMMA ChdirKeeps ==
  ASSUME IInv, NEW p \in Proc, Chdir(p)
  PROVE  IInv'
<1>1. /\ LocTyped(loc[p]) /\ FileTyped(loc[p], ofile[p]) /\ LocHolds(p, loc[p], lock)
      /\ cwd[p] \in Inum /\ ofile[p] \in Files /\ Kept(disk, loc[p], ofile[p])
      /\ DOMAIN loc = Proc /\ DOMAIN loc[p] = Fields
      /\ loc[p].pc = "chdir" /\ loc[p].puts = <<>> /\ loc[p].put = "check"
      /\ \A i \in Inum : /\ Points(loc[p], ofile[p], cwd[p], i) \in Nat
                         /\ Count(loc[p].puts, i) = 0
  BY AtIs DEF Chdir, Under
<1>2. PICK i \in Inum : i = loc[p].cur
  BY <1>1 DEF LocTyped, AtCur
<1>3. /\ disk' = disk /\ committed' = committed /\ lock' = lock /\ cwd' = cwd /\ ofile' = ofile
      /\ ops' \subseteq Proc /\ icache' = Ilock(icache, i) /\ CanLock(i)
  BY <1>2, Quiet DEF Chdir, Under, Rest1
<1>4. CacheOf(icache', disk) /\ RefsSame(icache, icache')
  BY <1>3, IlockIs, Quiet
<1>5. LocksOfOthers(p) /\ StillThere(disk, disk') /\ DiskKept
  BY <1>3, <1>4, Quiet DEF LocksOfOthers, DiskKept
<1>6. PICK u \in Inum, pc \in {"moved", "end"} :
        /\ Local(p, [puts |-> <<u>>, pc |-> pc])
        /\ u = IF pc = "moved" THEN cwd[p] ELSE i
  <2>1. /\ Local(p, [puts |-> <<IF Found(i).type = "dir" THEN cwd[p] ELSE i>>,
                     pc |-> IF Found(i).type = "dir" THEN "moved" ELSE "end"])
    BY <1>2 DEF Chdir
  <2>2. CASE Found(i).type = "dir"
    <3>1. Local(p, [puts |-> <<cwd[p]>>, pc |-> "moved"])
      BY <2>1, <2>2
    <3> QED  BY <1>1, <3>1
  <2>3. CASE Found(i).type # "dir"
    <3>1. Local(p, [puts |-> <<i>>, pc |-> "end"])
      BY <2>1, <2>3
    <3> QED  BY <3>1
  <2> QED  BY <2>2, <2>3, Zenon
<1>7. <<u>> \in Seq(Inum) /\ Len(<<u>>) = 1 /\ <<u>> # <<>>
  OBVIOUS
<1>8. /\ Alone(p) /\ DOMAIN loc'[p] = Fields
      /\ loc'[p].pc = pc /\ loc'[p].call = loc[p].call /\ loc'[p].rest = loc[p].rest
      /\ loc'[p].want = loc[p].want /\ loc'[p].cur = i /\ loc'[p].ip = loc[p].ip
      /\ loc'[p].puts = <<u>> /\ loc'[p].left = loc[p].left /\ loc'[p].put = "check"
  BY <1>1, <1>2, <1>3, <1>6, Quiet, Zenon DEF Local, Updated, Fields, Alone
<1>9. LocTyped(loc'[p])
  BY <1>1, <1>7, <1>8 DEF LocTyped, Pcs, AtIp, AtCur, ToName
<1>10. RefsFollow(p)
  <2> SUFFICES ASSUME NEW j \in Inum
               PROVE  Points(loc'[p], ofile'[p], cwd'[p], j) = Points(loc[p], ofile[p], cwd[p], j)
    BY <1>1, <1>4, Quiet DEF RefsFollow, RefsSame
  <2>1. Count(loc'[p].puts, j) = One(u = j)
    BY <1>8, Counts
  <2> QED  BY <1>1, <1>2, <1>3, <1>6, <1>8, <2>1 DEF Points, AtCur, AtIp, One
<1>11. FileTyped(loc'[p], ofile'[p]) /\ Kept(disk', loc'[p], ofile'[p]) /\ NeedsFound(p)
  BY <1>1, <1>3, <1>8 DEF FileTyped, Kept, NeedsFound, Needs
<1> QED  BY <1>3, <1>5, <1>8, <1>9, <1>10, <1>11, StepIs DEF HasCur, HasIp

\* The end of create's callers.
LEMMA MadeKeeps ==
  ASSUME IInv, NEW p \in Proc, Made(p)
  PROVE  IInv'
<1>1. /\ LocTyped(loc[p]) /\ FileTyped(loc[p], ofile[p]) /\ LocHolds(p, loc[p], lock)
      /\ cwd[p] \in Inum /\ ofile[p] \in Files /\ Kept(disk, loc[p], ofile[p])
      /\ DOMAIN loc = Proc /\ DOMAIN loc[p] = Fields
      /\ loc[p].pc = "made" /\ loc[p].puts = <<>> /\ loc[p].put = "check"
      /\ \A i \in Inum : /\ Points(loc[p], ofile[p], cwd[p], i) \in Nat
                         /\ Count(loc[p].puts, i) = 0
  BY AtIs DEF Made, Under
<1>2. PICK i \in Inum : i = loc[p].ip
  BY <1>1 DEF LocTyped, AtIp
<1>3. /\ disk' = disk /\ committed' = committed /\ cwd' = cwd /\ icache' = icache
      /\ ops' \subseteq Proc /\ lock' = [lock EXCEPT ![i] = Nobody] /\ lock[i] = p
  BY <1>1, <1>2, Quiet DEF Made, LocHolds, HasIp
<1>4. /\ disk.inode[i].type # "free" /\ disk.inode[i].size \in Nat
      /\ LocksOf(lock', disk) /\ \A j \in Inum \ {i} : lock'[j] = lock[j]
  <2>1. disk.inode[i].type # "free" /\ disk.inode[i].size \in Nat
    BY <1>3, DiskFields, Quiet, Constants DEF Sound, LocksOf
  <2> QED  BY <1>3, <2>1, LockSet, Quiet, ZenonT(30)
<1>5. LocksOfOthers(p) /\ StillThere(disk, disk') /\ DiskKept
  BY <1>3, <1>4, Quiet DEF LocksOfOthers, DiskKept
<1>6. CASE Local(p, [puts |-> <<i>>, pc |-> "end"]) /\ ofile' = ofile
  <2>1. <<i>> \in Seq(Inum) /\ Len(<<i>>) = 1 /\ <<i>> # <<>>
    OBVIOUS
  <2>2. /\ Alone(p) /\ DOMAIN loc'[p] = Fields
        /\ loc'[p].pc = "end" /\ loc'[p].call = loc[p].call /\ loc'[p].rest = loc[p].rest
        /\ loc'[p].want = loc[p].want /\ loc'[p].cur = loc[p].cur /\ loc'[p].ip = i
        /\ loc'[p].puts = <<i>> /\ loc'[p].left = loc[p].left /\ loc'[p].put = "check"
    BY <1>1, <1>2, <1>3, <1>6, Quiet, Zenon DEF Local, Updated, Fields, Alone
  <2>3. LocTyped(loc'[p])
    BY <1>1, <2>1, <2>2 DEF LocTyped, Pcs, AtIp, AtCur, ToName
  <2>4. RefsFollow(p)
    <3> SUFFICES ASSUME NEW j \in Inum
                 PROVE  Points(loc'[p], ofile'[p], cwd'[p], j) = Points(loc[p], ofile[p], cwd[p], j)
      BY <1>1, <1>3, Quiet DEF RefsFollow
    <3>1. Count(loc'[p].puts, j) = One(i = j)
      BY <2>2, Counts
    <3> QED  BY <1>1, <1>2, <1>3, <1>6, <2>2, <3>1 DEF Points, AtCur, AtIp, One
  <2>5. FileTyped(loc'[p], ofile'[p]) /\ Kept(disk', loc'[p], ofile'[p]) /\ NeedsFound(p)
    BY <1>1, <1>3, <1>6, <2>2 DEF FileTyped, Kept, NeedsFound, Needs
  <2> QED  BY <1>3, <1>5, <2>2, <2>3, <2>4, <2>5, StepIs DEF HasCur, HasIp
<1>7. CASE /\ loc[p].call.op = "creat" /\ ofile[p] = NoFile
           /\ Local(p, [pc |-> "end"]) /\ ofile' = [ofile EXCEPT ![p] = [ip |-> i, off |-> 0, writable |-> TRUE]]
  <2>1. PICK f \in Files : f = [ip |-> i, off |-> 0, writable |-> TRUE]
    <3>1. 0 \in 0 .. MAXFILE /\ i \in Inum \cup {0}
      BY Constants
    <3>2. [ip |-> i, off |-> 0, writable |-> TRUE] \in Files
      BY <3>1 DEF Files
    <3> QED  BY <3>2
  <2>2. f.ip = i /\ f.off = 0 /\ f.writable = TRUE /\ f # NoFile
    BY <2>1, Constants DEF NoFile
  <2>3. ofile' \in [Proc -> Files] /\ ofile'[p] = f /\ \A q \in Proc \ {p} : ofile'[q] = ofile[q]
    BY <1>7, <2>1, Quiet
  <2>4. /\ Alone(p) /\ DOMAIN loc'[p] = Fields
        /\ loc'[p].pc = "end" /\ loc'[p].call = loc[p].call /\ loc'[p].rest = loc[p].rest
        /\ loc'[p].want = loc[p].want /\ loc'[p].cur = loc[p].cur /\ loc'[p].ip = i
        /\ loc'[p].puts = <<>> /\ loc'[p].left = loc[p].left /\ loc'[p].put = "check"
    BY <1>1, <1>2, <1>3, <1>7, <2>3, Quiet DEF Local, Updated, Fields, Alone
  <2>5. LocTyped(loc'[p])
    BY <1>1, <2>4 DEF LocTyped, Pcs, AtIp, AtCur, ToName
  <2>6. RefsFollow(p)
    <3> SUFFICES ASSUME NEW j \in Inum
                 PROVE  Points(loc'[p], ofile'[p], cwd'[p], j) = Points(loc[p], ofile[p], cwd[p], j)
      BY <1>1, <1>3, Quiet DEF RefsFollow
    <3>1. Count(loc'[p].puts, j) = 0
      BY <2>4, CountNone
    <3>2. /\ ofile[p] = NoFile /\ ofile'[p] # NoFile /\ ofile'[p].ip = i
          /\ cwd'[p] = cwd[p] /\ Count(loc[p].puts, j) = 0
      BY <1>1, <1>3, <1>7, <2>2, <2>3
    <3>3. Points(loc[p], ofile[p], cwd[p], j) = One(i = j) + One(cwd[p] = j)
      BY <1>1, <1>2, <3>2 DEF Points, AtCur, AtIp, One
    <3>4. Points(loc'[p], ofile'[p], cwd'[p], j) = One(i = j) + One(cwd[p] = j)
      BY <2>4, <3>1, <3>2 DEF Points, AtCur, AtIp, One
    <3> QED  BY <3>3, <3>4
  <2>9. disk.inode[i].type = "file"
    BY <1>1, <1>2, <1>7 DEF Kept
  <2>7. FileTyped(loc'[p], ofile'[p]) /\ Kept(disk', loc'[p], ofile'[p])
    <3>1. FileTyped(loc'[p], ofile'[p])
      BY <2>2, <2>3, <2>4, Constants DEF FileTyped
    <3>2. disk'.inode[i].type = "file" /\ 0 <= disk'.inode[i].size
      BY <1>3, <1>4, <2>9
    <3>3. Kept(disk', loc'[p], ofile'[p])
      BY <2>2, <2>3, <2>4, <3>2 DEF Kept
    <3> QED  BY <3>1, <3>3
  <2>8. NeedsFound(p)
    BY <1>3, <2>2, <2>3, <2>4, Constants DEF NeedsFound, Needs
  <2> QED  BY <1>3, <1>5, <2>4, <2>5, <2>6, <2>7, <2>8, StepIs DEF HasCur, HasIp
<1> QED  BY <1>2, <1>6, <1>7 DEF Made

-----------------------------------------------------------------------------
\* The steps of sys_link, sys_unlink and create.

\* A change of the link count changes nothing else of an inode.
LEMMA CountIs ==
  ASSUME NEW din \in Dinodes
  PROVE  /\ Linked(din, 1) \in Dinodes /\ Linked(din, 1).type = din.type
         /\ Linked(din, 1).size = din.size /\ Linked(din, 1).addrs = din.addrs
         /\ Unlinked(din) \in Dinodes /\ Unlinked(din).type = din.type
         /\ Unlinked(din).size = din.size /\ Unlinked(din).addrs = din.addrs
BY DEF Linked, Unlinked, Dinodes

\* iupdate of a count.
Iupdated(c, d, k, x, e) ==
  /\ Sound(e) /\ CacheOf(x, e) /\ RefsSame(c, x) /\ LocksOf(k, e) /\ StillThere(d, e)
  /\ \A j \in Inum : e.inode[j].type = d.inode[j].type
  /\ e.dir = d.dir /\ e.used = d.used

\* iupdate of an inode whose type, size and blocks stay.
LEMMA CountUpdated ==
  ASSUME NEW d, Sound(d), NEW c, CacheOf(c, d), NEW k, LocksOf(k, d), NEW i \in Inum,
         NEW din \in Dinodes, d.inode[i].type # "free", din.type = d.inode[i].type,
         din.size = d.inode[i].size, din.addrs = d.inode[i].addrs
  PROVE  Iupdated(c, d, k, Cached(c, i, din), Stored(d, i, din))
<1>1. /\ DiskTyped(Stored(d, i, din)) /\ Stored(d, i, din).dir = d.dir
      /\ Stored(d, i, din).used = d.used
      /\ Stored(d, i, din).inode[i] = din
      /\ \A j \in Inum \ {i} : Stored(d, i, din).inode[j] = d.inode[j]
  BY StoredIs DEF Sound
<1>2. \A n \in 0 .. MAXFILE - 1 : n < din.size => Missing(din, n) = {}
  BY DEF Sound, SizeIsThere, Missing
<1>3. Sound(Stored(d, i, din))
  BY <1>2, StoredSound
<1>4. CacheOf(Cached(c, i, din), Stored(d, i, din)) /\ RefsSame(c, Cached(c, i, din))
  BY <1>1, CachedIs
<1>5. \A j \in Inum : /\ Stored(d, i, din).inode[j].type = d.inode[j].type
                      /\ Stored(d, i, din).inode[j].size = d.inode[j].size
                      /\ d.inode[j].size \in Nat
  BY <1>1, DiskFields DEF Sound
<1>6. LocksOf(k, Stored(d, i, din)) /\ StillThere(d, Stored(d, i, din))
  BY <1>5 DEF LocksOf, StillThere
<1> QED  BY <1>1, <1>3, <1>4, <1>5, <1>6 DEF Iupdated

\* The name that a call looks up, and what its directory has for it.
LEMMA NameIs ==
  ASSUME NEW l, LocTyped(l), l.pc \in ToName, NEW d, Sound(d), NEW i \in Inum
  PROVE  Head(l.rest) \in AllNames /\ d.dir[i][Head(l.rest)] \in Inum \cup {0}
<1>1. l.rest \in Seq(AllNames) /\ l.rest # <<>>
  BY DEF LocTyped
<1>2. Head(l.rest) \in AllNames
  BY <1>1
<1> QED  BY <1>2 DEF Sound, DiskTyped

\* A name of the directory i that becomes that of j, or no longer one.
LEMMA NamedSound ==
  ASSUME NEW d, Sound(d), NEW i \in Inum, NEW x \in AllNames, NEW j \in Inum \cup {0}
  PROVE  LET e == [d EXCEPT !.dir[i][x] = j]
         IN  Sound(e) /\ e.inode = d.inode
<1> DEFINE e == [d EXCEPT !.dir[i][x] = j]
           r == [d.dir[i] EXCEPT ![x] = j]
<1>1. DOMAIN d = {"inode", "dir", "used"} /\ d.dir \in [Inum -> [AllNames -> Inum \cup {0}]]
  BY DEF Sound, DiskTyped
<1>2. /\ DOMAIN e = DOMAIN d /\ e.inode = d.inode /\ e.used = d.used
      /\ e.dir = [d.dir EXCEPT ![i] = r]
  BY <1>1
<1>3. r \in [AllNames -> Inum \cup {0}]
  BY <1>1
<1> HIDE DEF r, e
<1>4. e.dir \in [Inum -> [AllNames -> Inum \cup {0}]]
  BY <1>1, <1>2, <1>3
<1>5. Sound(e)
  BY <1>2, <1>4, EntrySound
<1> QED  BY <1>2, <1>5 DEF e

\* sys_link counts the link, and walks to the new name.
LEMMA LinkOldKeeps ==
  ASSUME IInv, NEW p \in Proc, LinkOld(p)
  PROVE  IInv'
<1>1. /\ LocTyped(loc[p]) /\ FileTyped(loc[p], ofile[p]) /\ LocHolds(p, loc[p], lock)
      /\ cwd[p] \in Inum /\ ofile[p] \in Files /\ Kept(disk, loc[p], ofile[p])
      /\ DOMAIN loc = Proc /\ DOMAIN loc[p] = Fields
      /\ loc[p].pc = "linkold" /\ loc[p].puts = <<>> /\ loc[p].put = "check"
      /\ \A i \in Inum : /\ Points(loc[p], ofile[p], cwd[p], i) \in Nat
                         /\ Count(loc[p].puts, i) = 0
  BY AtIs DEF LinkOld, Under
<1>2. PICK i \in Inum : i = loc[p].cur
  BY <1>1 DEF LocTyped, AtCur
<1>3. PICK s : s = Start(p, loc[p].call)
  OBVIOUS
<1>4. /\ committed' = committed /\ lock' = lock /\ cwd' = cwd /\ ofile' = ofile
      /\ ops' \subseteq Proc /\ CanLock(i)
  BY <1>2, Quiet DEF LinkOld, Under, Rest1
<1>5. /\ CacheOf(Ilock(icache, i), disk) /\ RefsSame(icache, Ilock(icache, i))
      /\ Found(i) = disk.inode[i] /\ disk.inode[i] \in Dinodes /\ disk.inode[i].type # "free"
  BY <1>4, IlockIs, Quiet
<1>6. LocksOfOthers(p)
  BY <1>4 DEF LocksOfOthers
<1>7. s \in Inum /\ loc[p].call.to \in Seq(AllNames)
  <2>1. loc[p].call \in Programs
    BY <1>1 DEF LocTyped
  <2> QED  BY <1>1, <1>3, <2>1, Constants, XvCallsAssumption DEF Start
<1>8. CASE /\ Local(p, [puts |-> <<i>>, pc |-> "end"])
           /\ icache' = Ilock(icache, i) /\ disk' = disk
  <2>1. <<i>> \in Seq(Inum) /\ Len(<<i>>) = 1 /\ <<i>> # <<>>
    OBVIOUS
  <2>2. /\ Alone(p) /\ DOMAIN loc'[p] = Fields
        /\ loc'[p].pc = "end" /\ loc'[p].call = loc[p].call /\ loc'[p].rest = loc[p].rest
        /\ loc'[p].want = loc[p].want /\ loc'[p].cur = i /\ loc'[p].ip = loc[p].ip
        /\ loc'[p].puts = <<i>> /\ loc'[p].left = loc[p].left /\ loc'[p].put = "check"
    BY <1>1, <1>2, <1>4, <1>8, Quiet, Zenon DEF Local, Updated, Fields, Alone
  <2>3. LocTyped(loc'[p])
    BY <1>1, <2>1, <2>2 DEF LocTyped, Pcs, AtIp, AtCur, ToName
  <2>4. RefsFollow(p)
    <3> SUFFICES ASSUME NEW j \in Inum
                 PROVE  Points(loc'[p], ofile'[p], cwd'[p], j) = Points(loc[p], ofile[p], cwd[p], j)
      BY <1>1, <1>5, <1>8, Quiet DEF RefsFollow, RefsSame
    <3>1. Count(loc'[p].puts, j) = One(i = j)
      BY <2>2, Counts
    <3> QED  BY <1>1, <1>2, <1>4, <2>2, <3>1 DEF Points, AtCur, AtIp, One
  <2>5. FileTyped(loc'[p], ofile'[p]) /\ Kept(disk', loc'[p], ofile'[p]) /\ NeedsFound(p)
    BY <1>1, <1>4, <1>8, <2>2 DEF FileTyped, Kept, NeedsFound, Needs
  <2>6. DiskKept /\ StillThere(disk, disk')
    BY <1>4, <1>5, <1>8, Quiet DEF DiskKept
  <2> QED  BY <1>4, <1>6, <2>2, <2>3, <2>4, <2>5, <2>6, StepIs DEF HasCur, HasIp
<1>9. CASE /\ disk' = Stored(disk, i, Linked(Found(i), 1))
           /\ icache' = Iget(Cached(icache, i, Linked(Found(i), 1)), s)
           /\ Local(p, [ip |-> i, cur |-> s, rest |-> loc[p].call.to,
                        want |-> "linknew", pc |-> "namex"])
  <2>1. PICK din \in Dinodes : /\ din = Linked(Found(i), 1) /\ din.type = disk.inode[i].type
                               /\ din.size = disk.inode[i].size /\ din.addrs = disk.inode[i].addrs
    BY <1>5, CountIs
  <2>2. PICK c : c = Cached(icache, i, din)
    OBVIOUS
  <2>3. Iupdated(icache, disk, lock, c, disk')
    BY <1>5, <1>9, <2>1, <2>2, CountUpdated, Quiet
  <2>4. CacheOf(icache', disk') /\ RefsPlus(c, icache', s)
    BY <1>7, <1>9, <2>1, <2>2, <2>3, IgetIs DEF Iupdated
  <2>5. DiskKept /\ StillThere(disk, disk')
    BY <1>4, <2>3, <2>4, Quiet DEF DiskKept, Iupdated
  <2>6. /\ Alone(p) /\ DOMAIN loc'[p] = Fields
        /\ loc'[p].pc = "namex" /\ loc'[p].call = loc[p].call /\ loc'[p].rest = loc[p].call.to
        /\ loc'[p].want = "linknew" /\ loc'[p].cur = s /\ loc'[p].ip = i
        /\ loc'[p].puts = <<>> /\ loc'[p].left = loc[p].left /\ loc'[p].put = "check"
    BY <1>1, <1>2, <1>4, <1>9, Quiet, Zenon DEF Local, Updated, Fields, Alone
  <2>7. LocTyped(loc'[p])
    BY <1>1, <1>7, <2>6 DEF LocTyped, Pcs, Wanted, AtIp, AtCur, ToName
  <2>8. RefsFollow(p)
    <3> SUFFICES ASSUME NEW j \in Inum
                 PROVE  icache'[j].ref = icache[j].ref - Points(loc[p], ofile[p], cwd[p], j)
                                                       + Points(loc'[p], ofile'[p], cwd'[p], j)
      BY DEF RefsFollow
    <3>1. Count(loc'[p].puts, j) = 0
      BY <2>6, CountNone
    <3>2. icache'[j].ref = icache[j].ref + One(j = s) /\ icache[j].ref \in Nat
      BY <2>3, <2>4, Quiet DEF RefsPlus, RefsSame, Iupdated
    <3>3. Points(loc'[p], ofile'[p], cwd'[p], j)
            = One(s = j) + Points(loc[p], ofile[p], cwd[p], j)
      BY <1>1, <1>2, <1>4, <2>6, <3>1 DEF Points, AtCur, AtIp, One
    <3> QED  BY <1>1, <3>2, <3>3 DEF One
  <2>9. FileTyped(loc'[p], ofile'[p]) /\ Kept(disk', loc'[p], ofile'[p]) /\ NeedsFound(p)
    <3>1. Kept(disk', loc[p], ofile[p])
      BY <2>5, OthersKept DEF DiskKept
    <3> QED  BY <1>1, <1>4, <2>6, <3>1 DEF FileTyped, Kept, NeedsFound, Needs
  <2> QED  BY <1>4, <1>6, <2>5, <2>6, <2>7, <2>8, <2>9, StepIs DEF HasCur, HasIp
<1> QED  BY <1>2, <1>3, <1>8, <1>9 DEF LinkOld

\* sys_link's dirlink, which makes the name or finds it taken.
LEMMA LinkNewKeeps ==
  ASSUME IInv, NEW p \in Proc, LinkNew(p)
  PROVE  IInv'
<1>1. /\ LocTyped(loc[p]) /\ FileTyped(loc[p], ofile[p]) /\ LocHolds(p, loc[p], lock)
      /\ cwd[p] \in Inum /\ ofile[p] \in Files /\ Kept(disk, loc[p], ofile[p])
      /\ DOMAIN loc = Proc /\ DOMAIN loc[p] = Fields
      /\ loc[p].pc = "linknew" /\ loc[p].puts = <<>> /\ loc[p].put = "check"
      /\ \A i \in Inum : /\ Points(loc[p], ofile[p], cwd[p], i) \in Nat
                         /\ Count(loc[p].puts, i) = 0
  BY AtIs DEF LinkNew, Under
<1>2. PICK i \in Inum, k \in Inum : i = loc[p].cur /\ k = loc[p].ip
  BY <1>1 DEF LocTyped, AtCur, AtIp
<1>3. PICK x \in AllNames : x = Name(p) /\ disk.dir[i][x] \in Inum \cup {0}
  BY <1>1, NameIs, Quiet, Zenon DEF Name, ToName
<1>4. /\ committed' = committed /\ cwd' = cwd /\ ofile' = ofile
      /\ ops' \subseteq Proc /\ CanLock(i)
  BY <1>2, Quiet DEF LinkNew, Under, Rest1
<1>5. /\ CacheOf(Ilock(icache, i), disk) /\ RefsSame(icache, Ilock(icache, i))
      /\ disk.inode[i].type # "free" /\ lock[i] = Nobody
  BY <1>4, IlockIs, Quiet
<1>6. CASE /\ disk' = [disk EXCEPT !.dir[i][x] = k]
           /\ icache' = Ilock(icache, i) /\ lock' = lock
           /\ Local(p, [puts |-> <<i, k>>, pc |-> "end"])
  <2>1. <<i, k>> \in Seq(Inum) /\ Len(<<i, k>>) = 2 /\ <<i, k>> # <<>>
    OBVIOUS
  <2>2. /\ Alone(p) /\ DOMAIN loc'[p] = Fields
        /\ loc'[p].pc = "end" /\ loc'[p].call = loc[p].call /\ loc'[p].rest = loc[p].rest
        /\ loc'[p].want = loc[p].want /\ loc'[p].cur = i /\ loc'[p].ip = k
        /\ loc'[p].puts = <<i, k>> /\ loc'[p].left = loc[p].left /\ loc'[p].put = "check"
    BY <1>1, <1>2, <1>4, <1>6, Quiet, Zenon DEF Local, Updated, Fields, Alone
  <2>3. LocTyped(loc'[p])
    BY <1>1, <2>1, <2>2 DEF LocTyped, Pcs, AtIp, AtCur, ToName
  <2>4. RefsFollow(p)
    <3> SUFFICES ASSUME NEW j \in Inum
                 PROVE  Points(loc'[p], ofile'[p], cwd'[p], j) = Points(loc[p], ofile[p], cwd[p], j)
      BY <1>1, <1>5, <1>6, Quiet DEF RefsFollow, RefsSame
    <3>1. Count(loc'[p].puts, j) = One(i = j) + One(k = j)
      BY <2>2, Counts
    <3> QED  BY <1>1, <1>2, <1>4, <2>2, <3>1 DEF Points, AtCur, AtIp, One
  <2>5. Sound(disk') /\ disk'.inode = disk.inode
    BY <1>6, NamedSound, Quiet
  <2>6. FileTyped(loc'[p], ofile'[p]) /\ Kept(disk', loc'[p], ofile'[p]) /\ NeedsFound(p)
    BY <1>1, <1>4, <2>2, <2>5 DEF FileTyped, Kept, NeedsFound, Needs
  <2>7. DiskKept /\ StillThere(disk, disk')
    BY <1>4, <1>5, <1>6, <2>5, Quiet DEF DiskKept, StillThere, CacheOf, LocksOf
  <2>8. LocksOfOthers(p)
    BY <1>6 DEF LocksOfOthers
  <2> QED  BY <1>4, <2>2, <2>3, <2>4, <2>6, <2>7, <2>8, StepIs DEF HasCur, HasIp
<1>7. CASE /\ disk.dir[i][x] # 0
           /\ icache' = Iget(Ilock(icache, i), disk.dir[i][x])
           /\ lock' = [lock EXCEPT ![i] = p]
           /\ Local(p, [puts |-> <<disk.dir[i][x]>>, pc |-> "linkfail"])
           /\ disk' = disk
  <2>1. PICK o \in Inum : o = disk.dir[i][x]
    BY <1>3, <1>7
  <2>2. PICK c : c = Ilock(icache, i)
    OBVIOUS
  <2>3. CacheOf(icache', disk) /\ RefsPlus(c, icache', o) /\ RefsSame(icache, c)
    BY <1>5, <1>7, <2>1, <2>2, IgetIs
  <2>4. /\ LocksOf(lock', disk) /\ lock'[i] = p /\ \A j \in Inum \ {i} : lock'[j] = lock[j]
    BY <1>5, <1>7, LockSet, Quiet, ZenonT(30)
  <2>5. DiskKept /\ StillThere(disk, disk') /\ LocksOfOthers(p)
    BY <1>4, <1>5, <1>7, <2>3, <2>4, Quiet, Constants DEF DiskKept, LocksOfOthers
  <2>6. <<o>> \in Seq(Inum) /\ Len(<<o>>) = 1 /\ <<o>> # <<>>
    BY SMTT(30)
  <2>7. /\ Alone(p) /\ DOMAIN loc'[p] = Fields
        /\ loc'[p].pc = "linkfail" /\ loc'[p].call = loc[p].call /\ loc'[p].rest = loc[p].rest
        /\ loc'[p].want = loc[p].want /\ loc'[p].cur = i /\ loc'[p].ip = k
        /\ loc'[p].puts = <<o>> /\ loc'[p].left = loc[p].left /\ loc'[p].put = "check"
    BY <1>1, <1>2, <1>4, <1>7, <2>1, Quiet, Zenon DEF Local, Updated, Fields, Alone
  <2>8. LocTyped(loc'[p])
    BY <1>1, <2>6, <2>7 DEF LocTyped, Pcs, AtIp, AtCur, ToName
  <2>9. RefsFollow(p)
    <3> SUFFICES ASSUME NEW j \in Inum
                 PROVE  icache'[j].ref = icache[j].ref - Points(loc[p], ofile[p], cwd[p], j)
                                                       + Points(loc'[p], ofile'[p], cwd'[p], j)
      BY DEF RefsFollow
    <3>1. Count(loc'[p].puts, j) = One(o = j)
      BY <2>7, Counts
    <3>2. icache'[j].ref = icache[j].ref + One(j = o) /\ icache[j].ref \in Nat
      BY <2>3, Quiet DEF RefsPlus, RefsSame
    <3>3. Points(loc'[p], ofile'[p], cwd'[p], j)
            = One(o = j) + Points(loc[p], ofile[p], cwd[p], j)
      BY <1>1, <1>2, <1>4, <2>7, <3>1 DEF Points, AtCur, AtIp, One
    <3> QED  BY <1>1, <3>2, <3>3 DEF One
  <2>10. FileTyped(loc'[p], ofile'[p]) /\ Kept(disk', loc'[p], ofile'[p]) /\ NeedsFound(p)
    BY <1>1, <1>4, <1>7, <2>7 DEF FileTyped, Kept, NeedsFound, Needs
  <2> QED  BY <1>4, <2>4, <2>5, <2>7, <2>8, <2>9, <2>10, StepIs DEF HasCur, HasIp
<1> QED  BY <1>2, <1>3, <1>6, <1>7 DEF LinkNew

\* sys_link's dp is put after a name that was taken.
LEMMA LinkFailKeeps ==
  ASSUME IInv, NEW p \in Proc, LinkFail(p)
  PROVE  IInv'
<1>1. /\ LocTyped(loc[p]) /\ FileTyped(loc[p], ofile[p]) /\ LocHolds(p, loc[p], lock)
      /\ cwd[p] \in Inum /\ ofile[p] \in Files /\ Kept(disk, loc[p], ofile[p])
      /\ DOMAIN loc = Proc /\ DOMAIN loc[p] = Fields
      /\ loc[p].pc = "linkfail" /\ loc[p].puts = <<>> /\ loc[p].put = "check"
      /\ \A i \in Inum : /\ Points(loc[p], ofile[p], cwd[p], i) \in Nat
                         /\ Count(loc[p].puts, i) = 0
  BY AtIs DEF LinkFail, Bad
<1>2. PICK i \in Inum : i = loc[p].cur
  BY <1>1 DEF LocTyped, AtCur
<1>3. /\ committed' = committed /\ cwd' = cwd /\ ofile' = ofile /\ disk' = disk
      /\ ops' \subseteq Proc /\ icache' = icache /\ lock' = [lock EXCEPT ![i] = Nobody]
      /\ lock[i] = p
  BY <1>1, <1>2, Quiet DEF LinkFail, Bad, Rest1, LocHolds, HasCur
<1>4. LocksOf(lock', disk) /\ \A j \in Inum \ {i} : lock'[j] = lock[j]
  BY <1>3, LockSet, Quiet, ZenonT(30)
<1>5. DiskKept /\ StillThere(disk, disk') /\ LocksOfOthers(p)
  BY <1>3, <1>4, Quiet DEF DiskKept, LocksOfOthers
<1>6. <<i>> \in Seq(Inum) /\ Len(<<i>>) = 1 /\ <<i>> # <<>>
  OBVIOUS
<1>7. /\ Alone(p) /\ DOMAIN loc'[p] = Fields
      /\ loc'[p].pc = "undo" /\ loc'[p].call = loc[p].call /\ loc'[p].rest = loc[p].rest
      /\ loc'[p].want = loc[p].want /\ loc'[p].cur = i /\ loc'[p].ip = loc[p].ip
      /\ loc'[p].puts = <<i>> /\ loc'[p].left = loc[p].left /\ loc'[p].put = "check"
  BY <1>1, <1>2, <1>3, Quiet DEF LinkFail, Bad, Local, Updated, Fields, Alone
<1>8. LocTyped(loc'[p])
  BY <1>1, <1>6, <1>7 DEF LocTyped, Pcs, AtIp, AtCur, ToName
<1>9. RefsFollow(p)
  <2> SUFFICES ASSUME NEW j \in Inum
               PROVE  Points(loc'[p], ofile'[p], cwd'[p], j) = Points(loc[p], ofile[p], cwd[p], j)
    BY <1>1, <1>3, Quiet DEF RefsFollow
  <2>1. Count(loc'[p].puts, j) = One(i = j)
    BY <1>7, Counts
  <2> QED  BY <1>1, <1>2, <1>3, <1>7, <2>1 DEF Points, AtCur, AtIp, One
<1>10. FileTyped(loc'[p], ofile'[p]) /\ Kept(disk', loc'[p], ofile'[p]) /\ NeedsFound(p)
  BY <1>1, <1>3, <1>7 DEF FileTyped, Kept, NeedsFound, Needs
<1> QED  BY <1>3, <1>5, <1>7, <1>8, <1>9, <1>10, StepIs DEF HasCur, HasIp

\* sys_unlink's dp is put when the directory was not empty.
LEMMA UnlinkBadKeeps ==
  ASSUME IInv, NEW p \in Proc, UnlinkBad(p)
  PROVE  IInv'
<1>1. /\ LocTyped(loc[p]) /\ FileTyped(loc[p], ofile[p]) /\ LocHolds(p, loc[p], lock)
      /\ cwd[p] \in Inum /\ ofile[p] \in Files /\ Kept(disk, loc[p], ofile[p])
      /\ DOMAIN loc = Proc /\ DOMAIN loc[p] = Fields
      /\ loc[p].pc = "unlinkbad" /\ loc[p].puts = <<>> /\ loc[p].put = "check"
      /\ \A i \in Inum : /\ Points(loc[p], ofile[p], cwd[p], i) \in Nat
                         /\ Count(loc[p].puts, i) = 0
  BY AtIs DEF UnlinkBad, Bad
<1>2. PICK i \in Inum : i = loc[p].cur
  BY <1>1 DEF LocTyped, AtCur
<1>3. /\ committed' = committed /\ cwd' = cwd /\ ofile' = ofile /\ disk' = disk
      /\ ops' \subseteq Proc /\ icache' = icache /\ lock' = [lock EXCEPT ![i] = Nobody]
      /\ lock[i] = p
  BY <1>1, <1>2, Quiet DEF UnlinkBad, Bad, Rest1, LocHolds, HasCur
<1>4. LocksOf(lock', disk) /\ \A j \in Inum \ {i} : lock'[j] = lock[j]
  BY <1>3, LockSet, Quiet, Zenon
<1>5. DiskKept /\ StillThere(disk, disk') /\ LocksOfOthers(p)
  BY <1>3, <1>4, Quiet DEF DiskKept, LocksOfOthers
<1>6. <<i>> \in Seq(Inum) /\ Len(<<i>>) = 1 /\ <<i>> # <<>>
  OBVIOUS
<1>7. /\ Alone(p) /\ DOMAIN loc'[p] = Fields
      /\ loc'[p].pc = "end" /\ loc'[p].call = loc[p].call /\ loc'[p].rest = loc[p].rest
      /\ loc'[p].want = loc[p].want /\ loc'[p].cur = i /\ loc'[p].ip = loc[p].ip
      /\ loc'[p].puts = <<i>> /\ loc'[p].left = loc[p].left /\ loc'[p].put = "check"
  BY <1>1, <1>2, <1>3, Quiet DEF UnlinkBad, Bad, Local, Updated, Fields, Alone
<1>8. LocTyped(loc'[p])
  BY <1>1, <1>6, <1>7 DEF LocTyped, Pcs, AtIp, AtCur, ToName
<1>9. RefsFollow(p)
  <2> SUFFICES ASSUME NEW j \in Inum
               PROVE  Points(loc'[p], ofile'[p], cwd'[p], j) = Points(loc[p], ofile[p], cwd[p], j)
    BY <1>1, <1>3, Quiet DEF RefsFollow
  <2>1. Count(loc'[p].puts, j) = One(i = j)
    BY <1>7, Counts
  <2> QED  BY <1>1, <1>2, <1>3, <1>7, <2>1 DEF Points, AtCur, AtIp, One
<1>10. FileTyped(loc'[p], ofile'[p]) /\ Kept(disk', loc'[p], ofile'[p]) /\ NeedsFound(p)
  BY <1>1, <1>3, <1>7 DEF FileTyped, Kept, NeedsFound, Needs
<1> QED  BY <1>3, <1>5, <1>7, <1>8, <1>9, <1>10, StepIs DEF HasCur, HasIp

\* sys_link takes back the count.
LEMMA LinkUndoKeeps ==
  ASSUME IInv, NEW p \in Proc, LinkUndo(p)
  PROVE  IInv'
<1>1. /\ LocTyped(loc[p]) /\ FileTyped(loc[p], ofile[p]) /\ LocHolds(p, loc[p], lock)
      /\ cwd[p] \in Inum /\ ofile[p] \in Files /\ Kept(disk, loc[p], ofile[p])
      /\ DOMAIN loc = Proc /\ DOMAIN loc[p] = Fields
      /\ loc[p].pc = "undo" /\ loc[p].puts = <<>> /\ loc[p].put = "check"
      /\ \A i \in Inum : /\ Points(loc[p], ofile[p], cwd[p], i) \in Nat
                         /\ Count(loc[p].puts, i) = 0
  BY AtIs DEF LinkUndo, Under
<1>2. PICK i \in Inum : i = loc[p].ip
  BY <1>1 DEF LocTyped, AtIp
<1>3. /\ committed' = committed /\ cwd' = cwd /\ ofile' = ofile /\ lock' = lock
      /\ ops' \subseteq Proc /\ CanLock(i)
  BY <1>2, Quiet DEF LinkUndo, Under, Rest1
<1>4. Found(i) = disk.inode[i] /\ disk.inode[i] \in Dinodes /\ disk.inode[i].type # "free"
  BY <1>3, IlockIs, Quiet
<1>5. PICK din \in Dinodes : /\ din = Unlinked(Found(i)) /\ din.type = disk.inode[i].type
                             /\ din.size = disk.inode[i].size /\ din.addrs = disk.inode[i].addrs
  BY <1>4, CountIs
<1>6. Iupdated(icache, disk, lock, icache', disk')
  <2>1. disk' = Stored(disk, i, din) /\ icache' = Cached(icache, i, din)
    BY <1>2, <1>5 DEF LinkUndo
  <2> QED  BY <1>4, <1>5, <2>1, CountUpdated, Quiet
<1>7. DiskKept /\ StillThere(disk, disk') /\ LocksOfOthers(p)
  BY <1>3, <1>6, Quiet DEF DiskKept, LocksOfOthers, Iupdated
<1>8. <<i>> \in Seq(Inum) /\ Len(<<i>>) = 1 /\ <<i>> # <<>>
  OBVIOUS
<1>9. /\ Alone(p) /\ DOMAIN loc'[p] = Fields
      /\ loc'[p].pc = "end" /\ loc'[p].call = loc[p].call /\ loc'[p].rest = loc[p].rest
      /\ loc'[p].want = loc[p].want /\ loc'[p].cur = loc[p].cur /\ loc'[p].ip = i
      /\ loc'[p].puts = <<i>> /\ loc'[p].left = loc[p].left /\ loc'[p].put = "check"
  BY <1>1, <1>2, <1>3, Quiet DEF LinkUndo, Local, Updated, Fields, Alone
<1>10. LocTyped(loc'[p])
  BY <1>1, <1>8, <1>9 DEF LocTyped, Pcs, AtIp, AtCur, ToName
<1>11. RefsFollow(p)
  <2> SUFFICES ASSUME NEW j \in Inum
               PROVE  Points(loc'[p], ofile'[p], cwd'[p], j) = Points(loc[p], ofile[p], cwd[p], j)
    BY <1>1, <1>6, Quiet DEF RefsFollow, RefsSame, Iupdated
  <2>1. Count(loc'[p].puts, j) = One(i = j)
    BY <1>9, Counts
  <2> QED  BY <1>1, <1>2, <1>3, <1>9, <2>1 DEF Points, AtCur, AtIp, One
<1>12. FileTyped(loc'[p], ofile'[p]) /\ Kept(disk', loc'[p], ofile'[p]) /\ NeedsFound(p)
  <2>1. Kept(disk', loc[p], ofile[p])
    BY <1>7, OthersKept DEF DiskKept
  <2> QED  BY <1>1, <1>3, <1>9, <2>1 DEF FileTyped, Kept, NeedsFound, Needs
<1> QED  BY <1>3, <1>7, <1>9, <1>10, <1>11, <1>12, StepIs DEF HasCur, HasIp

\* sys_unlink lowers the count of the inode that lost its name.
LEMMA UnlinkCountKeeps ==
  ASSUME IInv, NEW p \in Proc, UnlinkCount(p)
  PROVE  IInv'
<1>1. /\ LocTyped(loc[p]) /\ FileTyped(loc[p], ofile[p]) /\ LocHolds(p, loc[p], lock)
      /\ cwd[p] \in Inum /\ ofile[p] \in Files /\ Kept(disk, loc[p], ofile[p])
      /\ DOMAIN loc = Proc /\ DOMAIN loc[p] = Fields
      /\ loc[p].pc = "unlink3" /\ loc[p].puts = <<>> /\ loc[p].put = "check"
      /\ \A i \in Inum : /\ Points(loc[p], ofile[p], cwd[p], i) \in Nat
                         /\ Count(loc[p].puts, i) = 0
  BY AtIs DEF UnlinkCount, Under
<1>2. PICK i \in Inum : i = loc[p].ip
  BY <1>1 DEF LocTyped, AtIp
<1>3. /\ committed' = committed /\ cwd' = cwd /\ ofile' = ofile
      /\ lock' = [lock EXCEPT ![i] = Nobody] /\ ops' \subseteq Proc /\ lock[i] = p
  BY <1>1, <1>2, Quiet DEF UnlinkCount, Rest1, LocHolds, HasIp
<1>4. Found(i) = disk.inode[i] /\ disk.inode[i] \in Dinodes /\ disk.inode[i].type # "free"
  BY <1>3, FoundIs, DiskFields, Quiet, Constants DEF Sound, LocksOf
<1>5. PICK din \in Dinodes : /\ din = Unlinked(Found(i)) /\ din.type = disk.inode[i].type
                             /\ din.size = disk.inode[i].size /\ din.addrs = disk.inode[i].addrs
  BY <1>4, CountIs
<1>6. Iupdated(icache, disk, lock, icache', disk')
  <2>1. disk' = Stored(disk, i, din) /\ icache' = Cached(icache, i, din)
    BY <1>2, <1>5 DEF UnlinkCount
  <2> QED  BY <1>4, <1>5, <2>1, CountUpdated, Quiet
<1>7. DiskKept /\ StillThere(disk, disk') /\ LocksOfOthers(p)
  <2>1. LocksOf(lock', disk') /\ \A j \in Inum \ {i} : lock'[j] = lock[j]
    BY <1>3, <1>6, LockSet, Quiet, ZenonT(30) DEF Iupdated
  <2> QED  BY <1>3, <1>6, <2>1, Quiet DEF DiskKept, LocksOfOthers, Iupdated
<1>8. <<i>> \in Seq(Inum) /\ Len(<<i>>) = 1 /\ <<i>> # <<>>
  OBVIOUS
<1>9. /\ Alone(p) /\ DOMAIN loc'[p] = Fields
      /\ loc'[p].pc = "end" /\ loc'[p].call = loc[p].call /\ loc'[p].rest = loc[p].rest
      /\ loc'[p].want = loc[p].want /\ loc'[p].cur = loc[p].cur /\ loc'[p].ip = i
      /\ loc'[p].puts = <<i>> /\ loc'[p].left = loc[p].left /\ loc'[p].put = "check"
  BY <1>1, <1>2, <1>3, Quiet DEF UnlinkCount, Local, Updated, Fields, Alone
<1>10. LocTyped(loc'[p])
  BY <1>1, <1>8, <1>9 DEF LocTyped, Pcs, AtIp, AtCur, ToName
<1>11. RefsFollow(p)
  <2> SUFFICES ASSUME NEW j \in Inum
               PROVE  Points(loc'[p], ofile'[p], cwd'[p], j) = Points(loc[p], ofile[p], cwd[p], j)
    BY <1>1, <1>6, Quiet DEF RefsFollow, RefsSame, Iupdated
  <2>1. Count(loc'[p].puts, j) = One(i = j)
    BY <1>9, Counts
  <2> QED  BY <1>1, <1>2, <1>3, <1>9, <2>1 DEF Points, AtCur, AtIp, One
<1>12. FileTyped(loc'[p], ofile'[p]) /\ Kept(disk', loc'[p], ofile'[p]) /\ NeedsFound(p)
  <2>1. Kept(disk', loc[p], ofile[p])
    BY <1>7, OthersKept DEF DiskKept
  <2> QED  BY <1>1, <1>3, <1>9, <2>1 DEF FileTyped, Kept, NeedsFound, Needs
<1> QED  BY <1>3, <1>7, <1>9, <1>10, <1>11, <1>12, StepIs DEF HasCur, HasIp

\* sys_unlink finds the name, and keeps its directory locked.
LEMMA UnlinkKeeps ==
  ASSUME IInv, NEW p \in Proc, Unlink(p)
  PROVE  IInv'
<1>1. /\ LocTyped(loc[p]) /\ FileTyped(loc[p], ofile[p]) /\ LocHolds(p, loc[p], lock)
      /\ cwd[p] \in Inum /\ ofile[p] \in Files /\ Kept(disk, loc[p], ofile[p])
      /\ DOMAIN loc = Proc /\ DOMAIN loc[p] = Fields
      /\ loc[p].pc = "unlink" /\ loc[p].puts = <<>> /\ loc[p].put = "check"
      /\ \A i \in Inum : /\ Points(loc[p], ofile[p], cwd[p], i) \in Nat
                         /\ Count(loc[p].puts, i) = 0
  BY AtIs DEF Unlink, Under
<1>2. PICK i \in Inum : i = loc[p].cur
  BY <1>1 DEF LocTyped, AtCur
<1>3. PICK x \in AllNames : x = Name(p) /\ disk.dir[i][x] \in Inum \cup {0}
  BY <1>1, NameIs, Quiet DEF Name, ToName
<1>4. /\ committed' = committed /\ cwd' = cwd /\ ofile' = ofile /\ disk' = disk
      /\ ops' \subseteq Proc /\ CanLock(i)
  BY <1>2, Quiet DEF Unlink, Under, Rest1
<1>5. /\ CacheOf(Ilock(icache, i), disk) /\ RefsSame(icache, Ilock(icache, i))
      /\ disk.inode[i].type # "free" /\ lock[i] = Nobody
  BY <1>4, IlockIs, Quiet
<1>6. CASE /\ icache' = Ilock(icache, i) /\ lock' = lock
           /\ Local(p, [puts |-> <<i>>, pc |-> "end"])
  <2>1. <<i>> \in Seq(Inum) /\ Len(<<i>>) = 1 /\ <<i>> # <<>>
    OBVIOUS
  <2>2. /\ Alone(p) /\ DOMAIN loc'[p] = Fields
        /\ loc'[p].pc = "end" /\ loc'[p].call = loc[p].call /\ loc'[p].rest = loc[p].rest
        /\ loc'[p].want = loc[p].want /\ loc'[p].cur = i /\ loc'[p].ip = loc[p].ip
        /\ loc'[p].puts = <<i>> /\ loc'[p].left = loc[p].left /\ loc'[p].put = "check"
    BY <1>1, <1>2, <1>4, <1>6, Quiet, Zenon DEF Local, Updated, Fields, Alone
  <2>3. LocTyped(loc'[p])
    BY <1>1, <2>1, <2>2 DEF LocTyped, Pcs, AtIp, AtCur, ToName
  <2>4. RefsFollow(p)
    <3> SUFFICES ASSUME NEW j \in Inum
                 PROVE  Points(loc'[p], ofile'[p], cwd'[p], j) = Points(loc[p], ofile[p], cwd[p], j)
      BY <1>1, <1>5, <1>6, Quiet DEF RefsFollow, RefsSame
    <3>1. Count(loc'[p].puts, j) = One(i = j)
      BY <2>2, Counts
    <3> QED  BY <1>1, <1>2, <1>4, <2>2, <3>1 DEF Points, AtCur, AtIp, One
  <2>5. FileTyped(loc'[p], ofile'[p]) /\ Kept(disk', loc'[p], ofile'[p]) /\ NeedsFound(p)
    BY <1>1, <1>4, <2>2 DEF FileTyped, Kept, NeedsFound, Needs
  <2>6. DiskKept /\ StillThere(disk, disk') /\ LocksOfOthers(p)
    BY <1>4, <1>5, <1>6, Quiet DEF DiskKept, LocksOfOthers
  <2> QED  BY <1>4, <2>2, <2>3, <2>4, <2>5, <2>6, StepIs DEF HasCur, HasIp
<1>7. CASE /\ disk.dir[i][x] # 0
           /\ icache' = Iget(Ilock(icache, i), disk.dir[i][x])
           /\ lock' = [lock EXCEPT ![i] = p]
           /\ Local(p, [ip |-> disk.dir[i][x], pc |-> "unlink2"])
  <2>1. PICK o \in Inum : o = disk.dir[i][x]
    BY <1>3, <1>7
  <2>2. PICK c : c = Ilock(icache, i)
    OBVIOUS
  <2>3. CacheOf(icache', disk) /\ RefsPlus(c, icache', o) /\ RefsSame(icache, c)
    BY <1>5, <1>7, <2>1, <2>2, IgetIs
  <2>4. /\ LocksOf(lock', disk) /\ lock'[i] = p /\ \A j \in Inum \ {i} : lock'[j] = lock[j]
    BY <1>5, <1>7, LockSet, Quiet, ZenonT(30)
  <2>5. DiskKept /\ StillThere(disk, disk') /\ LocksOfOthers(p)
    BY <1>4, <1>5, <2>3, <2>4, Quiet, Constants DEF DiskKept, LocksOfOthers
  <2>7. /\ Alone(p) /\ DOMAIN loc'[p] = Fields
        /\ loc'[p].pc = "unlink2" /\ loc'[p].call = loc[p].call /\ loc'[p].rest = loc[p].rest
        /\ loc'[p].want = loc[p].want /\ loc'[p].cur = i /\ loc'[p].ip = o
        /\ loc'[p].puts = <<>> /\ loc'[p].left = loc[p].left /\ loc'[p].put = "check"
    BY <1>1, <1>2, <1>4, <1>7, <2>1, Quiet, Zenon DEF Local, Updated, Fields, Alone
  <2>8. LocTyped(loc'[p])
    BY <1>1, <2>7 DEF LocTyped, Pcs, AtIp, AtCur, ToName
  <2>9. RefsFollow(p)
    <3> SUFFICES ASSUME NEW j \in Inum
                 PROVE  icache'[j].ref = icache[j].ref - Points(loc[p], ofile[p], cwd[p], j)
                                                       + Points(loc'[p], ofile'[p], cwd'[p], j)
      BY DEF RefsFollow
    <3>1. Count(loc'[p].puts, j) = 0
      BY <2>7, CountNone
    <3>2. icache'[j].ref = icache[j].ref + One(j = o) /\ icache[j].ref \in Nat
      BY <2>3, Quiet DEF RefsPlus, RefsSame
    <3>3. Points(loc'[p], ofile'[p], cwd'[p], j)
            = One(o = j) + Points(loc[p], ofile[p], cwd[p], j)
      BY <1>1, <1>2, <1>4, <2>7, <3>1 DEF Points, AtCur, AtIp, One
    <3> QED  BY <1>1, <3>2, <3>3 DEF One
  <2>10. FileTyped(loc'[p], ofile'[p]) /\ Kept(disk', loc'[p], ofile'[p]) /\ NeedsFound(p)
    BY <1>1, <1>4, <2>7 DEF FileTyped, Kept, NeedsFound, Needs
  <2> QED  BY <1>4, <2>4, <2>5, <2>7, <2>8, <2>9, <2>10, StepIs DEF HasCur, HasIp
<1> QED  BY <1>2, <1>3, <1>6, <1>7 DEF Unlink

\* sys_unlink clears the entry under the locks of both inodes.
LEMMA UnlinkEntryKeeps ==
  ASSUME IInv, NEW p \in Proc, UnlinkEntry(p)
  PROVE  IInv'
<1>1. /\ LocTyped(loc[p]) /\ FileTyped(loc[p], ofile[p]) /\ LocHolds(p, loc[p], lock)
      /\ cwd[p] \in Inum /\ ofile[p] \in Files /\ Kept(disk, loc[p], ofile[p])
      /\ DOMAIN loc = Proc /\ DOMAIN loc[p] = Fields
      /\ loc[p].pc = "unlink2" /\ loc[p].puts = <<>> /\ loc[p].put = "check"
      /\ \A i \in Inum : /\ Points(loc[p], ofile[p], cwd[p], i) \in Nat
                         /\ Count(loc[p].puts, i) = 0
  BY AtIs DEF UnlinkEntry, Under
<1>2. PICK i \in Inum, k \in Inum : i = loc[p].cur /\ k = loc[p].ip
  BY <1>1 DEF LocTyped, AtCur, AtIp
<1>3. PICK x \in AllNames : x = Name(p)
  BY <1>1, <1>2, NameIs, Quiet, Zenon DEF Name, ToName
<1>4. /\ committed' = committed /\ cwd' = cwd /\ ofile' = ofile
      /\ ops' \subseteq Proc /\ CanLock(k) /\ lock[i] = p
  BY <1>1, <1>2, Quiet DEF UnlinkEntry, Under, Rest1, LocHolds, HasCur
<1>5. /\ CacheOf(Ilock(icache, k), disk) /\ RefsSame(icache, Ilock(icache, k))
      /\ disk.inode[k].type # "free" /\ lock[k] = Nobody /\ k # i
  BY <1>4, IlockIs, Quiet, Constants
<1>6. CASE /\ icache' = Ilock(icache, k) /\ lock' = lock /\ disk' = disk
           /\ Local(p, [puts |-> <<k>>, pc |-> "unlinkbad"])
  <2>1. <<k>> \in Seq(Inum) /\ Len(<<k>>) = 1 /\ <<k>> # <<>>
    OBVIOUS
  <2>2. /\ Alone(p) /\ DOMAIN loc'[p] = Fields
        /\ loc'[p].pc = "unlinkbad" /\ loc'[p].call = loc[p].call /\ loc'[p].rest = loc[p].rest
        /\ loc'[p].want = loc[p].want /\ loc'[p].cur = i /\ loc'[p].ip = k
        /\ loc'[p].puts = <<k>> /\ loc'[p].left = loc[p].left /\ loc'[p].put = "check"
    BY <1>1, <1>2, <1>4, <1>6, Quiet, Zenon DEF Local, Updated, Fields, Alone
  <2>3. LocTyped(loc'[p])
    BY <1>1, <2>1, <2>2 DEF LocTyped, Pcs, AtIp, AtCur, ToName
  <2>4. RefsFollow(p)
    <3> SUFFICES ASSUME NEW j \in Inum
                 PROVE  Points(loc'[p], ofile'[p], cwd'[p], j) = Points(loc[p], ofile[p], cwd[p], j)
      BY <1>1, <1>5, <1>6, Quiet DEF RefsFollow, RefsSame
    <3>1. Count(loc'[p].puts, j) = One(k = j)
      BY <2>2, Counts
    <3> QED  BY <1>1, <1>2, <1>4, <2>2, <3>1 DEF Points, AtCur, AtIp, One
  <2>5. FileTyped(loc'[p], ofile'[p]) /\ Kept(disk', loc'[p], ofile'[p]) /\ NeedsFound(p)
    BY <1>1, <1>4, <1>6, <2>2 DEF FileTyped, Kept, NeedsFound, Needs
  <2>6. DiskKept /\ StillThere(disk, disk') /\ LocksOfOthers(p)
    BY <1>4, <1>5, <1>6, Quiet DEF DiskKept, LocksOfOthers
  <2> QED  BY <1>4, <1>6, <2>2, <2>3, <2>4, <2>5, <2>6, StepIs DEF HasCur, HasIp
<1> DEFINE cut == [disk EXCEPT !.dir[i][x] = 0]
           din == IF Found(k).type = "dir" THEN Unlinked(Found(i)) ELSE Found(i)
<1>7. CASE /\ disk' = Stored(cut, i, din)
           /\ icache' = Cached(Ilock(icache, k), i, din)
           /\ lock' = [lock EXCEPT ![i] = Nobody, ![k] = p]
           /\ Local(p, [puts |-> <<i>>, pc |-> "unlink3"])
  <2>1. Sound(cut) /\ cut.inode = disk.inode
    <3>1. PICK z \in Inum \cup {0} : z = 0
      OBVIOUS
    <3>2. cut = [disk EXCEPT !.dir[i][x] = z]
      BY <3>1
    <3> HIDE DEF cut
    <3> QED  BY <3>2, NamedSound, Quiet
  <2>2. /\ disk.inode[i].type # "free" /\ Found(i) = disk.inode[i] /\ disk.inode[i] \in Dinodes
    BY <1>4, FoundIs, DiskFields, Quiet, Constants DEF Sound, LocksOf
  <2>3. /\ din \in Dinodes /\ din.type = disk.inode[i].type
        /\ din.size = disk.inode[i].size /\ din.addrs = disk.inode[i].addrs
    BY <2>2, CountIs
  <2> HIDE DEF din, cut
  <2>4. PICK c : c = Ilock(icache, k)
    OBVIOUS
  <2>5. CacheOf(c, cut) /\ LocksOf(lock, cut)
    BY <1>5, <2>1, <2>4, Quiet DEF CacheOf, LocksOf
  <2>6. Iupdated(c, cut, lock, icache', disk')
    BY <1>7, <2>1, <2>2, <2>3, <2>4, <2>5, CountUpdated
  <2>7. LocksOf(lock', disk') /\ lock'[k] = p /\ lock'[i] = Nobody
        /\ \A j \in Inum \ {i, k} : lock'[j] = lock[j]
    <3>1. LocksOf(lock, disk')
      BY <2>6 DEF Iupdated
    <3>2. disk'.inode[k].type # "free"
      BY <1>5, <2>1, <2>6 DEF Iupdated
    <3>3. lock' \in [Inum -> Proc \cup {Nobody}] /\ lock'[k] = p /\ lock'[i] = Nobody
          /\ \A j \in Inum \ {i, k} : lock'[j] = lock[j]
      BY <1>5, <1>7, <3>1 DEF LocksOf
    <3>4. \A j \in Inum : lock'[j] # Nobody => disk'.inode[j].type # "free"
      BY <3>1, <3>2, <3>3 DEF LocksOf
    <3> QED  BY <3>3, <3>4 DEF LocksOf
  <2>8. DiskKept /\ StillThere(disk, disk') /\ LocksOfOthers(p)
    BY <1>4, <1>5, <2>1, <2>6, <2>7, Quiet, Constants
       DEF DiskKept, LocksOfOthers, StillThere, Iupdated
  <2>9. <<i>> \in Seq(Inum) /\ Len(<<i>>) = 1 /\ <<i>> # <<>>
    OBVIOUS
  <2>10. /\ Alone(p) /\ DOMAIN loc'[p] = Fields
         /\ loc'[p].pc = "unlink3" /\ loc'[p].call = loc[p].call /\ loc'[p].rest = loc[p].rest
         /\ loc'[p].want = loc[p].want /\ loc'[p].cur = i /\ loc'[p].ip = k
         /\ loc'[p].puts = <<i>> /\ loc'[p].left = loc[p].left /\ loc'[p].put = "check"
    BY <1>1, <1>2, <1>4, <1>7, Quiet, Zenon DEF Local, Updated, Fields, Alone
  <2>11. LocTyped(loc'[p])
    BY <1>1, <2>9, <2>10 DEF LocTyped, Pcs, AtIp, AtCur, ToName
  <2>12. RefsFollow(p)
    <3> SUFFICES ASSUME NEW j \in Inum
                 PROVE  Points(loc'[p], ofile'[p], cwd'[p], j) = Points(loc[p], ofile[p], cwd[p], j)
      BY <1>1, <1>5, <2>4, <2>6, Quiet DEF RefsFollow, RefsSame, Iupdated
    <3>1. Count(loc'[p].puts, j) = One(i = j)
      BY <2>10, Counts
    <3> QED  BY <1>1, <1>2, <1>4, <2>10, <3>1 DEF Points, AtCur, AtIp, One
  <2>13. FileTyped(loc'[p], ofile'[p]) /\ Kept(disk', loc'[p], ofile'[p]) /\ NeedsFound(p)
    <3>1. Kept(disk', loc[p], ofile[p])
      BY <2>8, OthersKept DEF DiskKept
    <3> QED  BY <1>1, <1>4, <2>10, <3>1 DEF FileTyped, Kept, NeedsFound, Needs
  <2> QED  BY <1>4, <2>7, <2>8, <2>10, <2>11, <2>12, <2>13, StepIs DEF HasCur, HasIp
<1> QED  BY <1>2, <1>3, <1>6, <1>7 DEF UnlinkEntry

\* create finds the name, or ialloc takes an inode, which no process has open or locked.
LEMMA CreateKeeps ==
  ASSUME IInv, NEW p \in Proc, Create(p)
  PROVE  IInv'
<1>1. /\ LocTyped(loc[p]) /\ FileTyped(loc[p], ofile[p]) /\ LocHolds(p, loc[p], lock)
      /\ cwd[p] \in Inum /\ ofile[p] \in Files /\ Kept(disk, loc[p], ofile[p])
      /\ DOMAIN loc = Proc /\ DOMAIN loc[p] = Fields
      /\ loc[p].pc = "create" /\ loc[p].puts = <<>> /\ loc[p].put = "check"
      /\ \A i \in Inum : /\ Points(loc[p], ofile[p], cwd[p], i) \in Nat
                         /\ Count(loc[p].puts, i) = 0
  BY AtIs DEF Create, Under
<1>2. PICK i \in Inum : i = loc[p].cur
  BY <1>1 DEF LocTyped, AtCur
<1>3. PICK x \in AllNames : x = Name(p) /\ disk.dir[i][x] \in Inum \cup {0}
  BY <1>1, NameIs, Quiet DEF Name, ToName
<1>4. /\ committed' = committed /\ cwd' = cwd /\ ofile' = ofile
      /\ ops' \subseteq Proc /\ CanLock(i)
  BY <1>2, Quiet DEF Create, Under, Rest1
<1>5. /\ CacheOf(Ilock(icache, i), disk) /\ RefsSame(icache, Ilock(icache, i))
      /\ disk.inode[i].type # "free" /\ lock[i] = Nobody
  BY <1>4, IlockIs, Quiet
<1>6. PICK c : c = Ilock(icache, i)
  OBVIOUS
<1>7. CASE /\ disk.dir[i][x] # 0 /\ disk' = disk /\ lock' = lock
           /\ Local(p, [puts |-> <<i>>, ip |-> disk.dir[i][x], pc |-> "exists"])
           /\ icache' = Iget(Ilock(icache, i), disk.dir[i][x])
  <2>1. PICK o \in Inum : o = disk.dir[i][x]
    BY <1>3, <1>7
  <2>2. CacheOf(icache', disk) /\ RefsPlus(c, icache', o) /\ RefsSame(icache, c)
    BY <1>5, <1>6, <1>7, <2>1, IgetIs
  <2>3. DiskKept /\ StillThere(disk, disk') /\ LocksOfOthers(p)
    BY <1>4, <1>7, <2>2, Quiet DEF DiskKept, LocksOfOthers
  <2>4. <<i>> \in Seq(Inum) /\ Len(<<i>>) = 1 /\ <<i>> # <<>>
    BY SMTT(30)
  <2>5. /\ Alone(p) /\ DOMAIN loc'[p] = Fields
        /\ loc'[p].pc = "exists" /\ loc'[p].call = loc[p].call /\ loc'[p].rest = loc[p].rest
        /\ loc'[p].want = loc[p].want /\ loc'[p].cur = i /\ loc'[p].ip = o
        /\ loc'[p].puts = <<i>> /\ loc'[p].left = loc[p].left /\ loc'[p].put = "check"
    BY <1>1, <1>2, <1>4, <1>7, <2>1, Quiet, Zenon DEF Local, Updated, Fields, Alone
  <2>6. LocTyped(loc'[p])
    BY <1>1, <2>4, <2>5 DEF LocTyped, Pcs, AtIp, AtCur, ToName
  <2>7. RefsFollow(p)
    <3> SUFFICES ASSUME NEW j \in Inum
                 PROVE  icache'[j].ref = icache[j].ref - Points(loc[p], ofile[p], cwd[p], j)
                                                       + Points(loc'[p], ofile'[p], cwd'[p], j)
      BY DEF RefsFollow
    <3>1. Count(loc'[p].puts, j) = One(i = j)
      BY <2>5, Counts
    <3>2. icache'[j].ref = icache[j].ref + One(j = o) /\ icache[j].ref \in Nat
      BY <2>2, Quiet DEF RefsPlus, RefsSame
    <3>3. Points(loc'[p], ofile'[p], cwd'[p], j)
            = One(o = j) + Points(loc[p], ofile[p], cwd[p], j)
      BY <1>1, <1>2, <1>4, <2>5, <3>1 DEF Points, AtCur, AtIp, One
    <3> QED  BY <1>1, <3>2, <3>3 DEF One
  <2>8. FileTyped(loc'[p], ofile'[p]) /\ Kept(disk', loc'[p], ofile'[p]) /\ NeedsFound(p)
    BY <1>1, <1>4, <1>7, <2>5 DEF FileTyped, Kept, NeedsFound, Needs
  <2> QED  BY <1>4, <2>3, <2>5, <2>6, <2>7, <2>8, StepIs DEF HasCur, HasIp
<1> DEFINE n == Least(FreeInodes)
           din == [FreeInode EXCEPT !.type = TypeOf(loc[p].call.op)]
<1>8. CASE /\ FreeInodes # {}
           /\ Local(p, [ip |-> n, pc |-> "create2"])
           /\ disk' = Stored(disk, n, din)
           /\ icache' = Iget(Ilock(icache, i), n)
           /\ lock' = [lock EXCEPT ![i] = p]
  <2>1. PICK o \in Inum : o = n /\ disk.inode[o].type = "free"
    <3>1. FreeInodes \in SUBSET Nat /\ FreeInodes \subseteq Inum
      BY DEF FreeInodes, Inum
    <3>2. n \in FreeInodes
      BY <1>8, <3>1, LeastElement
    <3> QED  BY <3>1, <3>2, Zenon DEF FreeInodes
  <2>2. /\ din \in Dinodes /\ din.type = TypeOf(loc[p].call.op) /\ din.type # "free"
        /\ din.size = 0 /\ din.addrs = NoAddrs
    <3>1. TypeOf(loc[p].call.op) \in Kinds \ {"free"}
      BY TypesOf DEF Kinds
    <3> QED  BY <3>1, EmptyTyped DEF Dinodes
  <2>3. disk.inode[o].addrs = NoAddrs
    BY <2>1, EmptyTyped, Quiet DEF Sound, FreeIsEmpty
  <2>4. PICK e : e = Stored(disk, o, din)
    OBVIOUS
  <2> HIDE DEF din, n
  <2>5. /\ Sound(e) /\ e.inode[o] = din /\ \A j \in Inum \ {o} : e.inode[j] = disk.inode[j]
    <3>1. \A m \in 0 .. MAXFILE - 1 : m < din.size => Missing(din, m) = {}
      BY <2>2, Constants
    <3>2. Sound(Stored(disk, o, din))
      BY <2>2, <2>3, <3>1, StoredSound, Quiet
    <3>3. e.inode[o] = din /\ \A j \in Inum \ {o} : e.inode[j] = disk.inode[j]
      BY <2>2, <2>4, StoredIs, Quiet, SMTT(30) DEF Sound
    <3> QED  BY <2>4, <3>2, <3>3
  <2>6. disk' = e
    BY <1>8, <2>1, <2>4
  <2>7. CacheOf(c, disk')
    BY <1>5, <1>6, <2>1, <2>5, <2>6, CacheKept
  <2>8. CacheOf(icache', disk') /\ RefsPlus(c, icache', o) /\ RefsSame(icache, c)
    BY <1>5, <1>6, <1>8, <2>1, <2>7, IgetIs
  <2>9. /\ LocksOf(lock', disk') /\ lock'[i] = p /\ \A j \in Inum \ {i} : lock'[j] = lock[j]
    <3>1. /\ lock' \in [Inum -> Proc \cup {Nobody}] /\ lock'[i] = p
          /\ \A j \in Inum \ {i} : lock'[j] = lock[j]
      BY <1>8, Quiet
    <3>2. \A j \in Inum : lock'[j] # Nobody => disk'.inode[j].type # "free"
      BY <1>5, <2>1, <2>5, <2>6, <3>1, Quiet DEF LocksOf
    <3> QED  BY <3>1, <3>2 DEF LocksOf
  <2>10. StillThere(disk, disk')
    BY <2>1, <2>5, <2>6, Quiet DEF StillThere
  <2>11. DiskKept /\ LocksOfOthers(p)
    BY <1>4, <1>5, <2>5, <2>6, <2>8, <2>9, Quiet, Constants DEF DiskKept, LocksOfOthers
  <2>12. /\ Alone(p) /\ DOMAIN loc'[p] = Fields
         /\ loc'[p].pc = "create2" /\ loc'[p].call = loc[p].call /\ loc'[p].rest = loc[p].rest
         /\ loc'[p].want = loc[p].want /\ loc'[p].cur = i /\ loc'[p].ip = o
         /\ loc'[p].puts = <<>> /\ loc'[p].left = loc[p].left /\ loc'[p].put = "check"
    BY <1>1, <1>2, <1>4, <1>8, <2>1, Quiet, Zenon DEF Local, Updated, Fields, Alone
  <2>13. LocTyped(loc'[p])
    BY <1>1, <2>12 DEF LocTyped, Pcs, AtIp, AtCur, ToName
  <2>14. RefsFollow(p)
    <3> SUFFICES ASSUME NEW j \in Inum
                 PROVE  icache'[j].ref = icache[j].ref - Points(loc[p], ofile[p], cwd[p], j)
                                                       + Points(loc'[p], ofile'[p], cwd'[p], j)
      BY DEF RefsFollow
    <3>1. Count(loc'[p].puts, j) = 0
      BY <2>12, CountNone
    <3>2. icache'[j].ref = icache[j].ref + One(j = o) /\ icache[j].ref \in Nat
      BY <2>8, Quiet DEF RefsPlus, RefsSame
    <3>3. Points(loc'[p], ofile'[p], cwd'[p], j)
            = One(o = j) + Points(loc[p], ofile[p], cwd[p], j)
      BY <1>1, <1>2, <1>4, <2>12, <3>1 DEF Points, AtCur, AtIp, One
    <3> QED  BY <1>1, <3>2, <3>3 DEF One
  <2>15. Kept(disk', loc'[p], ofile'[p])
    <3>1. Kept(disk', loc[p], ofile[p])
      BY <2>10, <2>11, OthersKept DEF DiskKept
    <3>2. disk'.inode[o].type = TypeOf(loc[p].call.op)
      BY <2>2, <2>5, <2>6
    <3> QED  BY <1>4, <2>12, <3>1, <3>2 DEF Kept
  <2>16. FileTyped(loc'[p], ofile'[p])
    BY <1>1, <1>4, <2>12 DEF FileTyped
  <2>17. NeedsFound(p)
    <3>1. lock[o] = Nobody
      BY <2>1, Quiet DEF LocksOf
    <3> QED  BY <1>4, <2>12, <3>1, Constants DEF NeedsFound, Needs
  <2> QED  BY <1>4, <2>9, <2>10, <2>11, <2>12, <2>13, <2>14, <2>15, <2>16, <2>17, StepIs
           DEF HasCur, HasIp
<1> QED  BY <1>2, <1>3, <1>7, <1>8 DEF Create

\* create of a name that was there.
LEMMA CreateExistsKeeps ==
  ASSUME IInv, NEW p \in Proc, CreateExists(p)
  PROVE  IInv'
<1>1. /\ LocTyped(loc[p]) /\ FileTyped(loc[p], ofile[p]) /\ LocHolds(p, loc[p], lock)
      /\ cwd[p] \in Inum /\ ofile[p] \in Files /\ Kept(disk, loc[p], ofile[p])
      /\ DOMAIN loc = Proc /\ DOMAIN loc[p] = Fields
      /\ loc[p].pc = "exists" /\ loc[p].puts = <<>> /\ loc[p].put = "check"
      /\ \A i \in Inum : /\ Points(loc[p], ofile[p], cwd[p], i) \in Nat
                         /\ Count(loc[p].puts, i) = 0
  BY AtIs DEF CreateExists, Under
<1>2. PICK i \in Inum : i = loc[p].ip
  BY <1>1 DEF LocTyped, AtIp
<1>3. /\ disk' = disk /\ committed' = committed /\ cwd' = cwd /\ ofile' = ofile
      /\ ops' \subseteq Proc /\ CanLock(i) /\ icache' = Ilock(icache, i)
  BY <1>2, Quiet DEF CreateExists, Under, Rest1
<1>4. /\ CacheOf(icache', disk) /\ RefsSame(icache, icache') /\ Found(i) = disk.inode[i]
      /\ disk.inode[i].type # "free" /\ lock[i] = Nobody
  BY <1>3, IlockIs, Quiet
<1>5. CASE /\ Found(i).type = "file" /\ lock' = [lock EXCEPT ![i] = p]
           /\ Local(p, [pc |-> "made"])
  <2>1. /\ LocksOf(lock', disk) /\ lock'[i] = p /\ \A j \in Inum \ {i} : lock'[j] = lock[j]
    BY <1>4, <1>5, LockSet, Quiet, Zenon
  <2>2. DiskKept /\ StillThere(disk, disk') /\ LocksOfOthers(p)
    BY <1>3, <1>4, <2>1, Quiet, Constants DEF DiskKept, LocksOfOthers
  <2>3. /\ Alone(p) /\ DOMAIN loc'[p] = Fields
        /\ loc'[p].pc = "made" /\ loc'[p].call = loc[p].call /\ loc'[p].rest = loc[p].rest
        /\ loc'[p].want = loc[p].want /\ loc'[p].cur = loc[p].cur /\ loc'[p].ip = i
        /\ loc'[p].puts = <<>> /\ loc'[p].left = loc[p].left /\ loc'[p].put = "check"
    BY <1>1, <1>2, <1>3, <1>5, Quiet, Zenon DEF Local, Updated, Fields, Alone
  <2>4. LocTyped(loc'[p])
    BY <1>1, <2>3 DEF LocTyped, Pcs, AtIp, AtCur, ToName
  <2>5. RefsFollow(p)
    <3> SUFFICES ASSUME NEW j \in Inum
                 PROVE  Points(loc'[p], ofile'[p], cwd'[p], j) = Points(loc[p], ofile[p], cwd[p], j)
      BY <1>1, <1>4, Quiet DEF RefsFollow, RefsSame
    <3>1. Count(loc'[p].puts, j) = 0
      BY <2>3, CountNone
    <3> QED  BY <1>1, <1>2, <1>3, <2>3, <3>1 DEF Points, AtCur, AtIp, One
  <2>6. FileTyped(loc'[p], ofile'[p]) /\ Kept(disk', loc'[p], ofile'[p]) /\ NeedsFound(p)
    BY <1>1, <1>3, <1>4, <1>5, <2>3 DEF FileTyped, Kept, NeedsFound, Needs
  <2> QED  BY <1>3, <2>1, <2>2, <2>3, <2>4, <2>5, <2>6, StepIs DEF HasCur, HasIp
<1>6. CASE Local(p, [puts |-> <<i>>, pc |-> "end"]) /\ lock' = lock
  <2>1. <<i>> \in Seq(Inum) /\ Len(<<i>>) = 1 /\ <<i>> # <<>>
    OBVIOUS
  <2>2. DiskKept /\ StillThere(disk, disk') /\ LocksOfOthers(p)
    BY <1>3, <1>4, <1>6, Quiet DEF DiskKept, LocksOfOthers
  <2>3. /\ Alone(p) /\ DOMAIN loc'[p] = Fields
        /\ loc'[p].pc = "end" /\ loc'[p].call = loc[p].call /\ loc'[p].rest = loc[p].rest
        /\ loc'[p].want = loc[p].want /\ loc'[p].cur = loc[p].cur /\ loc'[p].ip = i
        /\ loc'[p].puts = <<i>> /\ loc'[p].left = loc[p].left /\ loc'[p].put = "check"
    BY <1>1, <1>2, <1>3, <1>6, Quiet, Zenon DEF Local, Updated, Fields, Alone
  <2>4. LocTyped(loc'[p])
    BY <1>1, <2>1, <2>3 DEF LocTyped, Pcs, AtIp, AtCur, ToName
  <2>5. RefsFollow(p)
    <3> SUFFICES ASSUME NEW j \in Inum
                 PROVE  Points(loc'[p], ofile'[p], cwd'[p], j) = Points(loc[p], ofile[p], cwd[p], j)
      BY <1>1, <1>4, Quiet DEF RefsFollow, RefsSame
    <3>1. Count(loc'[p].puts, j) = One(i = j)
      BY <2>3, Counts
    <3> QED  BY <1>1, <1>2, <1>3, <2>3, <3>1 DEF Points, AtCur, AtIp, One
  <2>6. FileTyped(loc'[p], ofile'[p]) /\ Kept(disk', loc'[p], ofile'[p]) /\ NeedsFound(p)
    BY <1>1, <1>3, <2>3 DEF FileTyped, Kept, NeedsFound, Needs
  <2> QED  BY <1>3, <2>2, <2>3, <2>4, <2>5, <2>6, StepIs DEF HasCur, HasIp
<1> QED  BY <1>2, <1>5, <1>6 DEF CreateExists

\* One transaction of filewrite, for a file that has not become shorter than the offset.
LEMMA WriteKeeps ==
  ASSUME IInv, NEW p \in Proc, Write(p)
  PROVE  IInv'
<1>1. /\ LocTyped(loc[p]) /\ FileTyped(loc[p], ofile[p]) /\ LocHolds(p, loc[p], lock)
      /\ cwd[p] \in Inum /\ ofile[p] \in Files /\ Kept(disk, loc[p], ofile[p])
      /\ DOMAIN loc = Proc /\ DOMAIN loc[p] = Fields
      /\ loc[p].pc = "write" /\ loc[p].puts = <<>> /\ loc[p].put = "check"
      /\ \A i \in Inum : /\ Points(loc[p], ofile[p], cwd[p], i) \in Nat
                         /\ Count(loc[p].puts, i) = 0
  BY AtIs DEF Write, Under
<1>2. PICK i \in Inum : i = ofile[p].ip
  BY <1>1 DEF FileTyped, Files
<1>3. PICK off \in Nat, n \in Nat : off = ofile[p].off /\ n = Chunk(p)
  <2>1. ofile[p].off \in Nat /\ Chunk(p) \in Nat
    BY <1>1, XvFilesAssumption DEF Files, Chunk, LocTyped
  <2> QED  BY <2>1
<1>4. /\ committed' = committed /\ cwd' = cwd /\ lock' = lock
      /\ ops' \subseteq Proc /\ CanLock(i)
  BY <1>2, Quiet DEF Write, Under
<1>5. /\ CacheOf(Ilock(icache, i), disk) /\ RefsSame(icache, Ilock(icache, i))
      /\ Found(i) = disk.inode[i] /\ disk.inode[i] \in Dinodes /\ disk.inode[i].type # "free"
  BY <1>4, IlockIs, Quiet
<1>6. LocksOfOthers(p) /\ ofile[p] # NoFile /\ off <= disk.inode[i].size
  BY <1>1, <1>2, <1>3, <1>4 DEF LocksOfOthers, FileTyped, Kept
<1>7. CASE /\ ~(off + n <= MAXFILE) /\ Local(p, [left |-> 0, pc |-> "end"])
           /\ icache' = Ilock(icache, i) /\ UNCHANGED <<disk, ofile>>
  <2>1. DiskKept /\ StillThere(disk, disk')
    BY <1>4, <1>5, <1>7, Quiet DEF DiskKept
  <2>2. /\ Alone(p) /\ DOMAIN loc'[p] = Fields
        /\ loc'[p].pc = "end" /\ loc'[p].call = loc[p].call /\ loc'[p].rest = loc[p].rest
        /\ loc'[p].want = loc[p].want /\ loc'[p].cur = loc[p].cur /\ loc'[p].ip = loc[p].ip
        /\ loc'[p].puts = <<>> /\ loc'[p].left = 0 /\ loc'[p].put = "check"
    BY <1>1, <1>4, <1>7, Quiet, Zenon DEF Local, Updated, Fields, Alone
  <2>3. LocTyped(loc'[p])
    BY <1>1, <2>2 DEF LocTyped, Pcs, AtIp, AtCur, ToName
  <2>4. RefsFollow(p)
    <3> SUFFICES ASSUME NEW j \in Inum
                 PROVE  Points(loc'[p], ofile'[p], cwd'[p], j) = Points(loc[p], ofile[p], cwd[p], j)
      BY <1>1, <1>5, <1>7, Quiet DEF RefsFollow, RefsSame
    <3>1. Count(loc'[p].puts, j) = 0
      BY <2>2, CountNone
    <3> QED  BY <1>1, <1>4, <1>7, <2>2, <3>1 DEF Points, AtCur, AtIp, One
  <2>5. FileTyped(loc'[p], ofile'[p]) /\ Kept(disk', loc'[p], ofile'[p]) /\ NeedsFound(p)
    BY <1>1, <1>7, <2>2 DEF FileTyped, Kept, NeedsFound, Needs
  <2> QED  BY <1>4, <1>6, <2>1, <2>2, <2>3, <2>4, <2>5, StepIs DEF HasCur, HasIp
<1> DEFINE d == Writei(disk, i, off, n)
<1>8. CASE /\ off + n <= MAXFILE /\ Room(p, i, off, n)
           /\ disk' = d /\ icache' = Cached(icache, i, d.inode[i])
           /\ ofile' = [ofile EXCEPT ![p].off = @ + n]
           /\ Local(p, [left |-> loc[p].left - n, pc |-> "end"])
  <2>1. Cardinality(Needed(disk.inode[i], off, 0, n)) <= Cardinality(Unowned(disk))
    BY <1>5, <1>8 DEF Room, Needed
  <2>2. Grown(disk, d, i) /\ d.inode[i].size >= off + n
    BY <1>5, <1>6, <1>8, <2>1, WriteiSound, Quiet
  <2> HIDE DEF d
  <2>3. /\ Sound(d) /\ \A j \in Inum \ {i} : d.inode[j] = disk.inode[j]
        /\ d.inode[i] \in Dinodes /\ d.inode[i].type = disk.inode[i].type
        /\ d.inode[i].size >= disk.inode[i].size
    BY <2>2, DiskFields DEF Grown, Sound
  <2>4. CacheOf(icache', disk') /\ RefsSame(icache, icache')
    BY <1>5, <1>8, <2>3, CachedIs, Quiet, Zenon
  <2>5. StillThere(disk, disk') /\ LocksOf(lock', disk')
    BY <1>4, <1>8, <2>3, Quiet, Zenon DEF StillThere, LocksOf
  <2>6. DiskKept
    BY <1>4, <1>8, <2>3, <2>4, <2>5, Quiet DEF DiskKept
  <2>7. off + n \in 0 .. MAXFILE /\ n <= loc[p].left /\ loc[p].left - n \in Nat
    <3>1. loc[p].left \in Nat /\ MaxChunk \in Nat /\ MAXFILE \in Nat
      BY <1>1, Constants, XvFilesAssumption DEF LocTyped
    <3>2. n <= loc[p].left
      BY <1>3, <3>1 DEF Chunk
    <3>3. loc[p].left - n \in Nat
      BY <3>1, <3>2
    <3>4. off + n \in 0 .. MAXFILE
      BY <1>8, <3>1
    <3> QED  BY <3>2, <3>3, <3>4
  <2> DEFINE f == [ofile[p] EXCEPT !.off = @ + n]
  <2>8. /\ f \in Files /\ f.ip = i /\ f.off = off + n /\ f.writable = ofile[p].writable /\ f # NoFile
        /\ ofile' = [ofile EXCEPT ![p] = f]
    <3>1. f \in Files /\ f.ip = i /\ f.off = off + n /\ f.writable = ofile[p].writable
      BY <1>1, <1>2, <1>3, <2>7 DEF Files
    <3> QED  BY <1>2, <1>8, <3>1, Quiet, Constants DEF NoFile
  <2> HIDE DEF f
  <2>9. ofile' \in [Proc -> Files] /\ ofile'[p] = f /\ \A q \in Proc \ {p} : ofile'[q] = ofile[q]
    BY <2>8, Quiet
  <2>10. /\ Alone(p) /\ DOMAIN loc'[p] = Fields
         /\ loc'[p].pc = "end" /\ loc'[p].call = loc[p].call /\ loc'[p].rest = loc[p].rest
         /\ loc'[p].want = loc[p].want /\ loc'[p].cur = loc[p].cur /\ loc'[p].ip = loc[p].ip
         /\ loc'[p].puts = <<>> /\ loc'[p].left = loc[p].left - n /\ loc'[p].put = "check"
    BY <1>1, <1>4, <1>8, <2>9, Quiet DEF Local, Updated, Fields, Alone
  <2>11. LocTyped(loc'[p])
    BY <1>1, <2>7, <2>10 DEF LocTyped, Pcs, AtIp, AtCur, ToName
  <2>12. RefsFollow(p)
    <3> SUFFICES ASSUME NEW j \in Inum
                 PROVE  Points(loc'[p], ofile'[p], cwd'[p], j) = Points(loc[p], ofile[p], cwd[p], j)
      BY <1>1, <2>4, Quiet DEF RefsFollow, RefsSame
    <3>1. Count(loc'[p].puts, j) = 0
      BY <2>10, CountNone
    <3> QED  BY <1>1, <1>2, <1>4, <1>6, <2>8, <2>9, <2>10, <3>1 DEF Points, AtCur, AtIp, One
  <2>13. Kept(disk', loc'[p], ofile'[p])
    <3>1. disk.inode[i].type \in {"file", "dev", "dir"} /\ disk.inode[i].type # "dir"
      BY <1>1, <1>2, <1>6 DEF Kept, FileTyped
    <3> QED  BY <1>8, <2>2, <2>3, <2>8, <2>9, <2>10, <3>1, Zenon DEF Kept
  <2>14. FileTyped(loc'[p], ofile'[p]) /\ NeedsFound(p)
    <3>1. ofile[p].writable
      BY <1>1 DEF FileTyped
    <3>2. FileTyped(loc'[p], ofile'[p])
      BY <1>2, <2>8, <2>9, <3>1, Constants DEF FileTyped
    <3>3. NeedsFound(p)
      BY <1>2, <1>6, <2>8, <2>9, <2>10, Constants DEF NeedsFound, Needs
    <3> QED  BY <3>2, <3>3
  <2> QED  BY <1>4, <1>6, <2>5, <2>6, <2>10, <2>11, <2>12, <2>13, <2>14, StepIs DEF HasCur, HasIp
<1> QED  BY <1>2, <1>3, <1>7, <1>8 DEF Write

\* The first block of a directory.
LEMMA FirstBlock ==
  ASSUME NEW d, Sound(d), NEW i \in Inum, d.inode[i].type = "dir", Unowned(d) # {}
  PROVE  LET b == Bmap(d, i, 0)
         IN  /\ Sound(b) /\ b.dir = d.dir /\ b.inode[i].type = "dir"
             /\ \A j \in Inum \ {i} : b.inode[j] = d.inode[j]
             /\ Missing(b.inode[i], 0) = {}
<1>1. 0 \in 0 .. MAXFILE - 1
  BY Constants DEF MAXFILE
<1>2. Missing(d.inode[i], 0) \subseteq {0}
  BY Constants DEF Missing, Slots
<1>3. Cardinality(Missing(d.inode[i], 0)) <= 1
  <2>1. IsFiniteSet({0}) /\ Cardinality({0}) = 1
    BY FS_Singleton, Zenon
  <2> QED  BY <1>2, <2>1, FS_Subset
<1>4. Cardinality(Unowned(d)) >= 1
  <2>1. Cardinality(Unowned(d)) \in Nat /\ Cardinality(Unowned(d)) # 0
    BY UnownedFinite, FS_EmptySet
  <2> QED  BY <2>1
<1>5. Cardinality(Missing(d.inode[i], 0)) <= Cardinality(Unowned(d))
  <2>1. Cardinality(Missing(d.inode[i], 0)) \in Nat /\ Cardinality(Unowned(d)) \in Nat
    BY <1>1, MissingFinite, UnownedFinite, FS_CardinalityType
  <2> QED  BY <1>3, <1>4, <2>1
<1> QED  BY <1>1, <1>5, BmapSound, ZenonT(60)

\* The disk after create: dp is i, with the links that it gets, and ip is k.
Enters(d, e, i, k, din) ==
  /\ Sound(e) /\ \A j \in Inum \ {i, k} : e.inode[j] = d.inode[j]
  /\ e.inode[i] = din /\ e.inode[k] \in Dinodes /\ e.inode[k].type = d.inode[k].type
  /\ d.inode[k].type # "dir" => e.inode[k].size = d.inode[k].size

Names2(d, i, k, x, din) == [Stored(Stored(d, i, din), k, [d.inode[k] EXCEPT !.nlink = 1])
                              EXCEPT !.dir[i][x] = k]

\* create's new inode with its count, and its name in the directory.
LEMMA NamesSound ==
  ASSUME NEW d, Sound(d), NEW i \in Inum, NEW k \in Inum, i # k, NEW x \in AllNames,
         NEW din \in Dinodes, din.type = d.inode[i].type, din.size = d.inode[i].size,
         din.addrs = d.inode[i].addrs, d.inode[i].type # "free", d.inode[k].type # "free"
  PROVE  /\ Enters(d, Names2(d, i, k, x, din), i, k, din)
         /\ Unowned(Names2(d, i, k, x, din)) = Unowned(d)
<1>1. PICK new \in Dinodes : /\ new = [d.inode[k] EXCEPT !.nlink = 1]
                             /\ new.type = d.inode[k].type
                             /\ new.size = d.inode[k].size /\ new.addrs = d.inode[k].addrs
  <2>1. d.inode[k] \in Dinodes
    BY DiskFields DEF Sound
  <2>2. [d.inode[k] EXCEPT !.nlink = 1] \in Dinodes
    BY <2>1, 1 \in Int DEF Dinodes
  <2>3. PICK new : new = [d.inode[k] EXCEPT !.nlink = 1]
    BY Zenon
  <2>4. /\ new.type = d.inode[k].type /\ new.size = d.inode[k].size
        /\ new.addrs = d.inode[k].addrs
    BY <2>1, <2>3 DEF Dinodes
  <2> QED  BY <2>2, <2>3, <2>4, Zenon
<1>2. PICK c : c = Stored(d, i, din)
  OBVIOUS
<1>3. PICK e : e = Stored(c, k, new)
  OBVIOUS
<1>4. \A m \in 0 .. MAXFILE - 1 : /\ m < din.size => Missing(din, m) = {}
                                  /\ m < new.size => Missing(new, m) = {}
  BY <1>1 DEF Sound, SizeIsThere, Missing
<1>5. /\ Sound(c) /\ c.inode[i] = din /\ \A j \in Inum \ {i} : c.inode[j] = d.inode[j]
      /\ Unowned(c) = Unowned(d)
  <2>1. Sound(Stored(d, i, din))
    BY <1>4, StoredSound
  <2>2. DiskTyped(d)
    BY DEF Sound
  <2>3. /\ Stored(d, i, din).inode[i] = din /\ Unowned(Stored(d, i, din)) = Unowned(d)
        /\ \A j \in Inum \ {i} : Stored(d, i, din).inode[j] = d.inode[j]
    BY <2>2, StoredIs
  <2> QED  BY <1>2, <2>1, <2>3
<1>6. /\ Sound(e) /\ e.inode[k] = new /\ \A j \in Inum \ {k} : e.inode[j] = c.inode[j]
      /\ Unowned(e) = Unowned(c)
  <2>1. new.addrs = c.inode[k].addrs /\ new.type # "free"
    BY <1>1, <1>5
  <2>2. Sound(Stored(c, k, new))
    BY <1>4, <1>5, <2>1, StoredSound
  <2>3. DiskTyped(c)
    BY <1>5 DEF Sound
  <2>4. /\ Stored(c, k, new).inode[k] = new /\ Unowned(Stored(c, k, new)) = Unowned(c)
        /\ \A j \in Inum \ {k} : Stored(c, k, new).inode[j] = c.inode[j]
    BY <2>3, StoredIs
  <2> QED  BY <1>3, <2>2, <2>4
<1>7. PICK f : f = [e EXCEPT !.dir[i][x] = k]
  BY Zenon
<1>8. Sound(f) /\ f.inode = e.inode
  BY <1>6, <1>7, NamedSound
<1>9. Unowned(f) = Unowned(e)
  BY <1>6, <1>7 DEF Unowned, Sound, DiskTyped
<1>10. f = Names2(d, i, k, x, din)
  BY <1>1, <1>2, <1>3, <1>7 DEF Names2
<1>11. Enters(d, f, i, k, din)
  BY <1>1, <1>5, <1>6, <1>8, ZenonT(30) DEF Enters
<1> QED  BY <1>5, <1>6, <1>9, <1>10, <1>11

Dotted(d, i, k) == [Bmap(d, k, 0) EXCEPT !.dir[k] = [EmptyDir EXCEPT !["."] = k, ![".."] = i],
                                         !.inode[k].size = 1]

\* create's new directory with "." and ".." in its first block.
LEMMA DotsSound ==
  ASSUME NEW c, NEW d, NEW i \in Inum, NEW k \in Inum, i # k, NEW din,
         Enters(c, d, i, k, din), d.inode[k].type = "dir", Unowned(d) # {}
  PROVE  Enters(c, Dotted(d, i, k), i, k, din)
<1>1. PICK b : b = Bmap(d, k, 0)
  OBVIOUS
<1>2. /\ Sound(b) /\ b.dir = d.dir /\ b.inode[k].type = "dir"
      /\ \A j \in Inum \ {k} : b.inode[j] = d.inode[j]
      /\ Missing(b.inode[k], 0) = {}
  BY <1>1, FirstBlock DEF Enters
<1> DEFINE new == [b.inode[k] EXCEPT !.size = 1]
           dots == [EmptyDir EXCEPT !["."] = k, ![".."] = i]
<1>3. /\ new \in Dinodes /\ new.type = "dir" /\ new.size = 1 /\ new.addrs = b.inode[k].addrs
  <2>1. b.inode[k] \in Dinodes
    BY <1>2, DiskFields DEF Sound
  <2>2. 1 \in 0 .. MAXFILE
    BY Constants DEF MAXFILE
  <2> QED  BY <1>2, <2>1, <2>2 DEF Dinodes
<1>4. dots \in [AllNames -> Inum \cup {0}]
  BY EmptyTyped, Zenon
<1> HIDE DEF new, dots
<1>5. \A m \in 0 .. MAXFILE - 1 : m < new.size => Missing(new, m) = {}
  <2> SUFFICES ASSUME NEW m \in 0 .. MAXFILE - 1, m < new.size PROVE Missing(new, m) = {}
    OBVIOUS
  <2>1. m = 0
    BY <1>3
  <2> QED  BY <1>2, <1>3, <2>1 DEF Missing
<1>6. PICK s : s = Stored(b, k, new)
  OBVIOUS
<1>7. /\ Sound(s) /\ s.inode[k] = new /\ \A j \in Inum \ {k} : s.inode[j] = b.inode[j]
  <2>1. Sound(Stored(b, k, new))
    BY <1>2, <1>3, <1>5, StoredSound
  <2> QED  BY <1>2, <1>3, <1>6, <2>1, StoredIs DEF Sound
<1>8. PICK e : e = Dotted(d, i, k)
  OBVIOUS
<1>9. /\ DOMAIN e = DOMAIN s /\ e.inode = s.inode /\ e.used = s.used
      /\ e.dir = [b.dir EXCEPT ![k] = dots]
  <2>1. DOMAIN b = {"inode", "dir", "used"}
    BY <1>2 DEF Sound, DiskTyped
  <2>2. e = [b EXCEPT !.dir[k] = dots, !.inode[k] = new]
    BY <1>1, <1>8 DEF Dotted, new, dots
  <2> QED  BY <1>6, <2>1, <2>2 DEF Stored
<1>10. e.dir \in [Inum -> [AllNames -> Inum \cup {0}]]
  BY <1>2, <1>4, <1>9 DEF Sound, DiskTyped
<1>11. Sound(e)
  BY <1>7, <1>9, <1>10, EntrySound
<1>12. Enters(c, e, i, k, din)
  BY <1>2, <1>3, <1>7, <1>9, <1>11 DEF Enters
<1> QED  BY <1>8, <1>12

\* The cache after create.
LEMMA EntersCached ==
  ASSUME NEW c, NEW d, CacheOf(c, d), NEW e, NEW i \in Inum, NEW k \in Inum, i # k,
         NEW din \in Dinodes, Enters(d, e, i, k, din), din.type # "free", d.inode[k].type # "free"
  PROVE  LET y == Cached(Cached(c, k, e.inode[k]), i, din)
         IN  CacheOf(y, e) /\ RefsSame(c, y)
<1>1. PICK new \in Dinodes : new = e.inode[k] /\ new.type # "free"
  BY DEF Enters
<1>2. PICK b : b = [inode |-> [j \in Inum |-> IF j = k THEN new ELSE d.inode[j]]]
  BY Zenon
<1>3. b.inode[k] = new /\ \A j \in Inum \ {k} : b.inode[j] = d.inode[j]
  BY <1>2
<1>4. PICK x : x = Cached(c, k, new)
  OBVIOUS
<1>5. CacheOf(x, b) /\ RefsSame(c, x)
  BY <1>1, <1>3, <1>4, CachedIs, ZenonT(30)
<1>6. e.inode[i] = din /\ \A j \in Inum \ {i} : e.inode[j] = b.inode[j]
  BY <1>1, <1>3 DEF Enters
<1>7. CacheOf(Cached(x, i, din), e) /\ RefsSame(x, Cached(x, i, din))
  BY <1>5, <1>6, CachedIs, Zenon
<1> QED  BY <1>1, <1>4, <1>5, <1>7 DEF RefsSame

\* create makes the entry under the locks of both inodes.
LEMMA CreateEntryKeeps ==
  ASSUME IInv, NEW p \in Proc, CreateEntry(p)
  PROVE  IInv'
<1>1. /\ LocTyped(loc[p]) /\ FileTyped(loc[p], ofile[p]) /\ LocHolds(p, loc[p], lock)
      /\ cwd[p] \in Inum /\ ofile[p] \in Files /\ Kept(disk, loc[p], ofile[p])
      /\ DOMAIN loc = Proc /\ DOMAIN loc[p] = Fields
      /\ loc[p].pc = "create2" /\ loc[p].puts = <<>> /\ loc[p].put = "check"
      /\ \A i \in Inum : /\ Points(loc[p], ofile[p], cwd[p], i) \in Nat
                         /\ Count(loc[p].puts, i) = 0
  BY AtIs DEF CreateEntry, Under
<1>2. PICK i \in Inum, k \in Inum : i = loc[p].cur /\ k = loc[p].ip
  BY <1>1 DEF LocTyped, AtCur, AtIp
<1>3. PICK x \in AllNames : x = Name(p)
  BY <1>1, <1>2, NameIs, Quiet, Zenon DEF Name, ToName
<1>4. /\ committed' = committed /\ cwd' = cwd /\ ofile' = ofile
      /\ ops' \subseteq Proc /\ CanLock(k) /\ lock[i] = p
      /\ lock' = [lock EXCEPT ![i] = Nobody, ![k] = p]
      /\ Local(p, [puts |-> <<i>>, pc |-> "made"])
  BY <1>1, <1>2, Quiet, ZenonT(30) DEF CreateEntry, Entered, Under, Rest1, LocHolds, HasCur
<1>5. /\ disk.inode[k] \in Dinodes /\ disk.inode[k].type # "free" /\ lock[k] = Nobody /\ k # i
      /\ Found(k) = disk.inode[k] /\ Found(i) = disk.inode[i]
      /\ disk.inode[i] \in Dinodes /\ disk.inode[i].type # "free"
  <2>1. disk.inode[k] \in Dinodes /\ disk.inode[k].type # "free" /\ lock[k] = Nobody /\ k # i
    BY <1>4, IlockIs, Quiet, Constants
  <2>2. Found(k) = disk.inode[k] /\ Found(i) = disk.inode[i]
    BY FoundIs, Quiet
  <2> QED  BY <1>4, <2>1, <2>2, DiskFields, Quiet, Constants DEF Sound, LocksOf
<1>6. PICK din \in Dinodes :
        /\ Enters(disk, disk', i, k, din)
        /\ din.type = disk.inode[i].type /\ din.size = disk.inode[i].size
        /\ icache' = Cached(Cached(icache, k, disk'.inode[k]), i, din)
  <2> DEFINE new == [disk.inode[k] EXCEPT !.nlink = 1]
             more == Linked(disk.inode[i], 1)
  <2>1. new.type = disk.inode[k].type
    BY <1>5 DEF Dinodes
  <2>2. /\ more \in Dinodes /\ more.type = disk.inode[i].type
        /\ more.size = disk.inode[i].size /\ more.addrs = disk.inode[i].addrs
    BY <1>5, CountIs
  <2>3. CASE disk.inode[k].type = "dir"
    <3>1. PICK d : d = Names2(disk, i, k, x, more)
      OBVIOUS
    <3>2. Enters(disk, d, i, k, more) /\ Unowned(d) = Unowned(disk)
      BY <1>5, <2>2, <3>1, NamesSound, Quiet
    <3>3. PICK e : e = Dotted(d, i, k)
      BY SMTT(30)
    <3>4. /\ Unowned(disk) # {} /\ disk' = e
          /\ icache' = Cached(Cached(icache, k, e.inode[k]), i, more)
      BY <1>2, <1>3, <1>5, <2>1, <2>3, <3>1, <3>3, ZenonT(30) DEF CreateEntry, Entered, Dotted, Names2
    <3>5. d.inode[k].type = "dir"
      BY <2>3, <3>2 DEF Enters
    <3>6. Enters(disk, e, i, k, more)
      BY <1>5, <3>2, <3>3, <3>4, <3>5, DotsSound
    <3> QED  BY <2>2, <3>4, <3>6
  <2>4. CASE disk.inode[k].type # "dir"
    <3>1. PICK din \in Dinodes : din = disk.inode[i]
      BY <1>5
    <3>2. PICK e : e = Names2(disk, i, k, x, din)
      OBVIOUS
    <3>3. Enters(disk, e, i, k, din)
      BY <1>5, <3>1, <3>2, NamesSound, Quiet
    <3>4. e.inode[k] = new
      BY <1>5, <3>2, Quiet, SMTT(30) DEF Names2, Stored, Sound, DiskTyped
    <3>5. disk' = e /\ icache' = Cached(Cached(icache, k, e.inode[k]), i, din)
      BY <1>2, <1>3, <1>5, <2>1, <2>4, <3>1, <3>2, <3>4, ZenonT(30) DEF CreateEntry, Entered, Names2
    <3> QED  BY <3>1, <3>3, <3>5
  <2> QED  BY <2>3, <2>4
<1>7. CacheOf(icache', disk') /\ RefsSame(icache, icache')
  BY <1>5, <1>6, EntersCached, Quiet, Zenon
<1>8. /\ Sound(disk') /\ StillThere(disk, disk')
      /\ \A j \in Inum : disk'.inode[j].type = disk.inode[j].type
  <2>1. \A j \in Inum : disk.inode[j].size \in Nat
    BY DiskFields, Quiet DEF Sound
  <2> QED  BY <1>5, <1>6, <2>1 DEF Enters, StillThere
<1>9. LocksOf(lock', disk') /\ lock'[k] = p /\ \A j \in Inum \ {i, k} : lock'[j] = lock[j]
  <2>1. lock' \in [Inum -> Proc \cup {Nobody}] /\ lock'[k] = p /\ lock'[i] = Nobody
        /\ \A j \in Inum \ {i, k} : lock'[j] = lock[j]
    BY <1>4, <1>5, Quiet
  <2>2. \A j \in Inum : lock'[j] # Nobody => disk'.inode[j].type # "free"
    BY <1>5, <1>8, <2>1, Quiet DEF LocksOf
  <2> QED  BY <2>1, <2>2 DEF LocksOf
<1>10. DiskKept /\ LocksOfOthers(p)
  BY <1>4, <1>5, <1>7, <1>8, <1>9, Quiet, Constants DEF DiskKept, LocksOfOthers
<1>11. <<i>> \in Seq(Inum) /\ Len(<<i>>) = 1 /\ <<i>> # <<>>
  OBVIOUS
<1>12. /\ Alone(p) /\ DOMAIN loc'[p] = Fields
       /\ loc'[p].pc = "made" /\ loc'[p].call = loc[p].call /\ loc'[p].rest = loc[p].rest
       /\ loc'[p].want = loc[p].want /\ loc'[p].cur = i /\ loc'[p].ip = k
       /\ loc'[p].puts = <<i>> /\ loc'[p].left = loc[p].left /\ loc'[p].put = "check"
  BY <1>1, <1>2, <1>4, Quiet, Zenon DEF Local, Updated, Fields, Alone
<1>13. LocTyped(loc'[p])
  BY <1>1, <1>11, <1>12 DEF LocTyped, Pcs, AtIp, AtCur, ToName
<1>14. RefsFollow(p)
  <2> SUFFICES ASSUME NEW j \in Inum
               PROVE  Points(loc'[p], ofile'[p], cwd'[p], j) = Points(loc[p], ofile[p], cwd[p], j)
    BY <1>1, <1>7, Quiet DEF RefsFollow, RefsSame
  <2>1. Count(loc'[p].puts, j) = One(i = j)
    BY <1>12, Counts
  <2> QED  BY <1>1, <1>2, <1>4, <1>12, <2>1 DEF Points, AtCur, AtIp, One
<1>15. Kept(disk', loc'[p], ofile'[p])
  <2>1. Kept(disk', loc[p], ofile[p])
    BY <1>8, OthersKept
  <2>2. disk'.inode[k].type = TypeOf(loc[p].call.op)
    BY <1>1, <1>2, <1>8 DEF Kept
  <2> QED  BY <1>4, <1>12, <2>1, <2>2 DEF Kept, TypeOf
<1>16. FileTyped(loc'[p], ofile'[p]) /\ NeedsFound(p)
  BY <1>1, <1>4, <1>12 DEF FileTyped, NeedsFound, Needs
<1> QED  BY <1>4, <1>8, <1>9, <1>10, <1>12, <1>13, <1>14, <1>15, <1>16, StepIs, Zenon DEF HasCur, HasIp

-----------------------------------------------------------------------------
\* mkfs and the boot.

MkfsFile == 2
MkfsRoot == [EmptyDir EXCEPT !["."] = Root, ![".."] = Root, ![Image] = MkfsFile]
Bare ==
  [inode |-> [i \in Inum |-> IF i = Root THEN Inode("dir", 1, 1, [NoAddrs EXCEPT ![0] = 1])
                             ELSE IF i = MkfsFile THEN Inode("file", 1, 0, NoAddrs)
                             ELSE FreeInode],
   dir |-> [i \in Inum |-> IF i = Root THEN MkfsRoot ELSE EmptyDir],
   used |-> {1}]

\* The image of mkfs is the bare one with the file written.
LEMMA MkfsIs == Mkfs = Writei(Bare, MkfsFile, 0, ImageSize)
BY DEF Mkfs, Bare, MkfsRoot, MkfsFile

\* The inodes of the bare image: the root with its block, and an empty file.
LEMMA BareInodes ==
  /\ 1 \in Block
  /\ Bare.inode \in [Inum -> Dinodes]
  /\ Bare.inode[MkfsFile].type = "file" /\ Bare.inode[MkfsFile].size = 0
  /\ Bare.inode[MkfsFile].addrs = NoAddrs
  /\ Bare.inode[Root].size = 1 /\ Bare.inode[Root].type = "dir"
  /\ Bare.inode[Root].addrs[0] = 1
  /\ \A k \in Addrs \ {0} : Bare.inode[Root].addrs[k] = 0
  /\ \A i \in Inum \ {Root} : /\ Bare.inode[i].size = 0 /\ Bare.inode[i].addrs = NoAddrs
                              /\ Bare.inode[i].type = "free" => Bare.inode[i] = FreeInode
<1>1. NBLOCKS >= 1
  <2>1. 1 + ImageSize <= NBLOCKS
    BY XvFilesAssumption
  <2> QED  BY <2>1, XvFilesAssumption
<1>2. 1 \in Block
  BY <1>1, Constants DEF Block
<1> DEFINE a == [NoAddrs EXCEPT ![0] = 1]
           root == Inode("dir", 1, 1, a)
           file == Inode("file", 1, 0, NoAddrs)
<1>3. 0 \in Addrs /\ 1 \in 0 .. MAXFILE /\ 0 \in 0 .. MAXFILE /\ 1 \in Int
  BY Constants DEF MAXFILE
<1>4. a \in [Addrs -> Block \cup {0}] /\ a[0] = 1 /\ \A k \in Addrs \ {0} : a[k] = 0
  BY <1>2, <1>3, EmptyTyped
<1> HIDE DEF a
<1>5. root \in Dinodes /\ root.type = "dir" /\ root.size = 1 /\ root.addrs = a
  BY <1>3, <1>4 DEF Dinodes, Kinds, Inode
<1>6. file \in Dinodes /\ file.type = "file" /\ file.size = 0 /\ file.addrs = NoAddrs
  BY <1>3, EmptyTyped DEF Dinodes, Kinds, Inode
<1>7. Bare.inode = [i \in Inum |-> IF i = Root THEN root ELSE IF i = MkfsFile THEN file ELSE FreeInode]
  BY DEF Bare, a
<1> HIDE DEF root, file
<1>8. MkfsFile \in Inum /\ Root \in Inum /\ MkfsFile # Root
  BY Constants DEF MkfsFile, Root
<1> QED  BY <1>2, <1>4, <1>5, <1>6, <1>7, <1>8, EmptyTyped

\* The bare image is sound.
LEMMA BareSound == Sound(Bare)
<1>0. /\ Root \in Inum /\ 0 \in Addrs /\ 1 \in Block /\ 0 \notin Block
      /\ \A k \in Addrs : NoAddrs[k] = 0
  BY Constants, BareInodes, EmptyTyped
<1>1. DiskTyped(Bare)
  <2>1. MkfsRoot \in [AllNames -> Inum \cup {0}]
    BY EmptyTyped, TheNames, Constants DEF MkfsRoot, MkfsFile
  <2> QED  BY <2>1, BareInodes, EmptyTyped, Zenon DEF DiskTyped, Bare
<1>2. \A i \in Inum, k \in Addrs : Bare.inode[i].addrs[k] # 0 => i = Root /\ k = 0
  BY <1>0, BareInodes
<1>3. OneOwner(Bare)
  BY <1>2 DEF OneOwner
<1>4. UsedIsOwned(Bare)
  <2>1. Bare.used = {1}
    BY DEF Bare
  <2> QED  BY <1>0, <1>2, <2>1, BareInodes DEF UsedIsOwned
<1>5. SizeIsThere(Bare)
  <2> SUFFICES ASSUME NEW i \in Inum, NEW n \in 0 .. MAXFILE - 1, n < Bare.inode[i].size
               PROVE  Missing(Bare.inode[i], n) = {}
    BY DEF SizeIsThere
  <2>1. i = Root /\ n = 0
    BY BareInodes
  <2>2. Slots(0) = {0}
    BY Constants DEF Slots
  <2> QED  BY <2>1, <2>2, BareInodes DEF Missing
<1>6. FreeIsEmpty(Bare)
  BY BareInodes DEF FreeIsEmpty
<1> QED  BY <1>1, <1>3, <1>4, <1>5, <1>6 DEF Sound

\* The blocks of the file that mkfs is given, and its indirect block, fit.
LEMMA ImageFits ==
  Cardinality(Needed(Bare.inode[MkfsFile], 0, 0, ImageSize)) <= Cardinality(Unowned(Bare))
<1> DEFINE need == Needed(Bare.inode[MkfsFile], 0, 0, ImageSize)
           last == IF ImageSize > NDIRECT THEN ImageSize ELSE ImageSize - 1
<1>0. ImageSize \in Nat /\ NBLOCKS \in Nat /\ NDIRECT \in Nat /\ NDIRECT > 0
      /\ ImageSize <= NDIRECT + NINDIRECT /\ NINDIRECT \in Nat
      /\ 1 + ImageSize + (IF ImageSize > NDIRECT THEN 1 ELSE 0) <= NBLOCKS
  BY XvFilesAssumption
<1>1. Cardinality(Unowned(Bare)) = NBLOCKS - 1
  <2>1. Unowned(Bare) = Block \ {1}
    BY DEF Unowned, Bare
  <2>2. IsFiniteSet(Block) /\ Cardinality(Block) = NBLOCKS
    <3>1. 1 \in Int /\ NBLOCKS \in Int
      BY <1>0
    <3>2. Cardinality(1 .. NBLOCKS) = IF 1 > NBLOCKS THEN 0 ELSE NBLOCKS - 1 + 1
      BY <3>1, FS_Interval
    <3> QED  BY <1>0, <3>2, Constants DEF Block
  <2> QED  BY <2>1, <2>2, BareInodes, FS_RemoveElement, Zenon
<1>2. need \subseteq 0 .. last
  <2> SUFFICES ASSUME NEW x \in need PROVE x \in 0 .. last
    OBVIOUS
  <2>1. PICK m \in 0 .. ImageSize - 1 : x \in Missing(Bare.inode[MkfsFile], 0 + m)
    BY DEF Needed
  <2>2. x \in Slots(m) /\ m \in Nat /\ m <= ImageSize - 1
    BY <1>0, <2>1 DEF Missing
  <2> QED  BY <1>0, <2>2 DEF Slots
<1>3. last \in Int /\ last + 1 <= NBLOCKS - 1 /\ last >= 0 - 1
  BY <1>0
<1> HIDE DEF need, last
<1>4. IsFiniteSet(0 .. last) /\ Cardinality(0 .. last) <= NBLOCKS - 1
  <2>1. 0 \in Int
    OBVIOUS
  <2>2. /\ IsFiniteSet(0 .. last)
        /\ Cardinality(0 .. last) = IF 0 > last THEN 0 ELSE last - 0 + 1
    BY <1>3, <2>1, FS_Interval
  <2> QED  BY <1>0, <1>3, <2>2
<1>5. Cardinality(need) \in Nat /\ Cardinality(0 .. last) \in Nat /\ Cardinality(need) <= Cardinality(0 .. last)
  BY <1>2, <1>4, FS_Subset, FS_CardinalityType, Zenon
<1> QED  BY <1>0, <1>1, <1>4, <1>5 DEF need

\* The image that mkfs writes is sound.
LEMMA MkfsSound == Sound(Mkfs)
<1>1. /\ 0 \in Nat /\ ImageSize \in Nat /\ 0 + ImageSize <= MAXFILE /\ MkfsFile \in Inum
  BY XvFilesAssumption, Constants DEF MAXFILE, MkfsFile
<1>2. 0 <= Bare.inode[MkfsFile].size /\ Bare.inode[MkfsFile].type # "free"
  BY BareInodes
<1>3. Grown(Bare, Writei(Bare, MkfsFile, 0, ImageSize), MkfsFile)
  BY <1>1, <1>2, BareSound, ImageFits, WriteiSound
<1> QED  BY <1>3, MkfsIs DEF Grown

\* What a boot finds, before the first step and after a crash.
Fresh == /\ disk = committed /\ Sound(committed) /\ ops = {}
         /\ icache = Booted.icache /\ lock = Booted.lock /\ ofile = Booted.ofile
         /\ cwd = Booted.cwd /\ loc = Booted.loc

\* A boot from a sound disk: every process has the root as its directory, and that is all.
LEMMA FreshIs == Fresh => IInv
<1> SUFFICES ASSUME Fresh PROVE IInv
  OBVIOUS
<1>0. /\ Root \in Inum /\ IsFiniteSet(Proc) /\ Cardinality(Proc) \in Nat
  BY Constants, XvFilesAssumption, FS_CardinalityType
<1>1. /\ icache = [i \in Inum |-> IF i = Root THEN [Unused EXCEPT !.ref = Cardinality(Proc)] ELSE Unused]
      /\ lock = [i \in Inum |-> Nobody] /\ ofile = [p \in Proc |-> NoFile]
      /\ cwd = [p \in Proc |-> Root] /\ loc = [p \in Proc |-> AtRest]
  BY DEF Fresh, Booted
<1>2. /\ [Unused EXCEPT !.ref = Cardinality(Proc)] \in Entries /\ Unused \in Entries
      /\ [Unused EXCEPT !.ref = Cardinality(Proc)].ref = Cardinality(Proc)
      /\ [Unused EXCEPT !.ref = Cardinality(Proc)].valid = FALSE
      /\ Unused.valid = FALSE /\ Unused.ref = 0
  BY <1>0, EmptyTyped, Zenon DEF Unused, Entries
<1>3. CacheOf(icache, disk)
  BY <1>1, <1>2 DEF CacheOf
<1>4. LocksOf(lock, disk)
  BY <1>1 DEF LocksOf
<1>5. /\ LocTyped(AtRest) /\ \A p \in Proc : LocHolds(p, AtRest, lock)
  <2>1. <<>> \in Seq(AllNames) /\ <<>> \in Seq(Inum) /\ Len(<<>>) = 0
    OBVIOUS
  <2> QED  BY <2>1, WantsAre DEF LocTyped, LocHolds, Pcs, Wanted, AtCur, AtIp, ToName, HasCur, HasIp
<1>6. FileTyped(AtRest, NoFile)
  BY Constants, WantsAre DEF FileTyped, NoFile, Files
<1>7. Typed
  BY <1>0, <1>1, <1>5, <1>6 DEF Typed, FileTyped, Fresh
<1>8. OpenKept
  BY <1>1, WantsAre DEF OpenKept, Kept, Needs, Frees
<1>9. RefsCounted
  <2> SUFFICES ASSUME NEW i \in Inum PROVE icache[i].ref = Refs(i)
    BY RefsAre
  <2>1. PICK h : h = PointersHere
    OBVIOUS
  <2>2. \A p \in Proc : h[p] = <<Root>>
    <3> SUFFICES ASSUME NEW p \in Proc PROVE PointersOf(AtRest, NoFile, Root) = <<Root>>
      BY <1>1, <1>7, <2>1, PointersTyped
    <3>1. <<>> \in Seq(Inum) /\ <<Root>> \in Seq(Inum) /\ <<>> \o <<Root>> = <<Root>>
      BY <1>0
    <3> QED  BY <3>1, AddNone, WantsAre DEF PointersOf, AtCur, AtIp
  <2>3. CASE i = Root
    <3> DEFINE S == {<<p, 1>> : p \in Proc}
               f == [p \in Proc |-> <<p, 1>>]
    <3>1. Sites(h, i) = S
      <4>1. \A p \in Proc : {n \in DOMAIN h[p] : h[p][n] = i} = {1}
        BY <2>2, <2>3
      <4> QED  BY <4>1 DEF Sites
    <3>2. f \in Bijection(Proc, S)
      BY Zenon DEF Bijection, Injection, Surjection, IsInjective
    <3>3. Cardinality(S) = Cardinality(Proc)
      BY <1>0, <3>2, FS_Bijection DEF ExistsBijection
    <3> HIDE DEF S, f
    <3> QED  BY <1>1, <1>2, <2>1, <2>3, <3>1, <3>3, Zenon DEF Refs
  <2>4. CASE i # Root
    <3>1. Sites(h, i) = {}
      <4>1. \A p \in Proc : {n \in DOMAIN h[p] : h[p][n] = i} = {}
        BY <2>2, <2>4
      <4> QED  BY <4>1 DEF Sites
    <3> QED  BY <1>1, <1>2, <2>1, <2>4, <3>1, FS_EmptySet DEF Refs
  <2> QED  BY <2>3, <2>4
<1> QED  BY <1>3, <1>4, <1>7, <1>8, <1>9 DEF IInv, Fresh

\* The same after a crash.
LEMMA FreshIsThen == Fresh' => IInv'
BY FreshIs, PTL

\* A crash goes back to what was committed, which is sound.
LEMMA CrashKeeps ==
  ASSUME IInv, Crash
  PROVE  IInv'
<1>1. Fresh'
  BY DEF Fresh, Crash, IInv, Booted
<1> QED  BY <1>1, FreshIsThen

-----------------------------------------------------------------------------
\* The invariant of the specification, and what follows from it.

\* Every step of a process keeps the invariant.
LEMMA StepKeeps ==
  ASSUME IInv, NEW p \in Proc, Step(p)
  PROVE  IInv'
<1>1. CASE \E c \in Programs : Begin(p, c)
  BY <1>1, BeginKeeps
<1>2. CASE PutCheck(p) \/ PutFree(p) \/ PutDrop(p) \/ Namex(p)
  BY <1>2, PutCheckKeeps, PutFreeKeeps, PutDropKeeps, NamexKeeps
<1>3. CASE LinkOld(p) \/ LinkNew(p) \/ LinkFail(p) \/ LinkUndo(p)
  BY <1>3, LinkOldKeeps, LinkNewKeeps, LinkFailKeeps, LinkUndoKeeps
<1>4. CASE Unlink(p) \/ UnlinkEntry(p) \/ UnlinkBad(p) \/ UnlinkCount(p)
  BY <1>4, UnlinkKeeps, UnlinkEntryKeeps, UnlinkBadKeeps, UnlinkCountKeeps
<1>5. CASE Create(p) \/ CreateEntry(p) \/ CreateExists(p) \/ Made(p) \/ Open(p) \/ Chdir(p)
  BY <1>5, CreateKeeps, CreateEntryKeeps, CreateExistsKeeps, MadeKeeps, OpenKeeps, ChdirKeeps
<1>6. CASE Read(p) \/ Write(p) \/ More(p) \/ End(p) \/ Panics(p)
  BY <1>6, ReadKeeps, WriteKeeps, MoreKeeps, EndKeeps, PanicsKeeps
<1> QED  BY <1>1, <1>2, <1>3, <1>4, <1>5, <1>6 DEF Step

\* Every step keeps the invariant.
LEMMA NextKeeps == IInv /\ [Next]_vars => IInv'
<1> SUFFICES ASSUME IInv, [Next]_vars PROVE IInv'
  OBVIOUS
<1>1. CASE Next
  BY <1>1, CrashKeeps, StepKeeps DEF Next
<1>2. CASE vars' = vars
  BY <1>2, UnchangedKeeps DEF vars
<1> QED  BY <1>1, <1>2

\* The invariant holds at a boot from any sound disk.
LEMMA BootIs == \A d : Sound(d) /\ Boot(d) => IInv
BY FreshIs DEF Boot, Fresh

\* A set that a function takes one to one onto another has as many members.
LEMMA CountOnto ==
  ASSUME NEW S, NEW T, IsFiniteSet(S), NEW g \in [S -> T],
         \A q, r \in S : g[q] = g[r] => q = r,
         \A a \in T : \E q \in S : g[q] = a
  PROVE  Cardinality(S) = Cardinality(T)
<1>1. g \in Bijection(S, T)
  BY DEF Bijection, Injection, Surjection, IsInjective
<1> QED  BY <1>1, FS_Bijection DEF ExistsBijection

\* The blocks that a table of inodes points to, one in each place that has one.
Placed(A) == {q \in Inum \X Addrs : A[q[1]][q[2]] # 0}
OnceEach(A, used) == /\ used = {A[q[1]][q[2]] : q \in Placed(A)}
                     /\ Cardinality(Placed(A)) = Cardinality(used)
\* ... are as many as its places, when no two have the same one.
LEMMA PlacesCount ==
  ASSUME NEW A, NEW used,
         A \in [Inum -> [Addrs -> Block \cup {0}]],
         \A i, j \in Inum : \A k, m \in Addrs : A[i][k] = A[j][m] /\ A[i][k] # 0 => i = j /\ k = m,
         used \subseteq Block,
         \A a \in Block : a \in used <=> \E i \in Inum, k \in Addrs : A[i][k] = a
  PROVE  OnceEach(A, used)
<1> DEFINE places == {q \in Inum \X Addrs : A[q[1]][q[2]] # 0}
<1>1. PICK g : g = [q \in places |-> A[q[1]][q[2]]]
  BY Zenon
<1>2. \A q \in places : g[q] = A[q[1]][q[2]]
  BY <1>1
<1>3. \A q \in places : /\ q[1] \in Inum /\ q[2] \in Addrs
                        /\ q = <<q[1], q[2]>> /\ A[q[1]][q[2]] # 0
  OBVIOUS
<1>4. \A q \in places : A[q[1]][q[2]] \in used
  <2> SUFFICES ASSUME NEW q \in places PROVE A[q[1]][q[2]] \in used
    OBVIOUS
  <2>1. PICK i \in Inum, k \in Addrs : i = q[1] /\ k = q[2] /\ A[i][k] # 0
    BY <1>3
  <2>2. A[i][k] \in Block
    BY <2>1
  <2> QED  BY <2>1, <2>2
<1>5. \A a \in used : \E q \in places : A[q[1]][q[2]] = a
  <2> SUFFICES ASSUME NEW a \in used PROVE \E q \in places : A[q[1]][q[2]] = a
    OBVIOUS
  <2>1. PICK i \in Inum, k \in Addrs : A[i][k] = a
    OBVIOUS
  <2>2. A[i][k] # 0
    BY <2>1, Constants
  <2>3. <<i, k>> \in places
    BY <2>2
  <2> QED  BY <2>1, <2>3
<1>6. IsFiniteSet(places)
  <2>1. IsFiniteSet(Inum \X Addrs)
    BY Constants, FS_Product, Zenon
  <2> QED  BY <2>1, FS_Subset
<1>7. g \in [places -> used]
  BY <1>1, <1>4
<1>8. \A q, r \in places : g[q] = g[r] => q = r
  <2> SUFFICES ASSUME NEW q \in places, NEW r \in places, g[q] = g[r] PROVE q = r
    OBVIOUS
  <2>1. A[q[1]][q[2]] = A[r[1]][r[2]]
    BY <1>2, Zenon
  <2>2. q[1] = r[1] /\ q[2] = r[2]
    BY <1>3, <2>1
  <2> QED  BY <1>3, <2>2
<1>9. \A a \in used : \E q \in places : g[q] = a
  BY <1>2, <1>5
<1>10. Cardinality(places) = Cardinality(used)
  <2> HIDE DEF places
  <2> QED  BY <1>6, <1>7, <1>8, <1>9, CountOnto
<1>11. used = {A[q[1]][q[2]] : q \in places}
  <2> HIDE DEF places
  <2> QED  BY <1>4, <1>5
<1> QED  BY <1>10, <1>11 DEF OnceEach, Placed

\* A block in use has one owner: there are as many as places that hold one.
LEMMA OwnedOnce == IInv => BlocksOwnedOnce
<1> SUFFICES ASSUME IInv PROVE BlocksOwnedOnce
  OBVIOUS
<1>1. /\ DiskTyped(committed) /\ OneOwner(committed) /\ UsedIsOwned(committed)
      /\ SizeIsThere(committed)
  BY DEF IInv, Sound
<1>2. PICK A : A = [i \in Inum |-> committed.inode[i].addrs]
  BY Zenon
<1>3. A \in [Inum -> [Addrs -> Block \cup {0}]]
  BY <1>1, <1>2, DiskFields
<1>4. \A i \in Inum : A[i] = committed.inode[i].addrs
  BY <1>2
<1>5. committed.used \subseteq Block
  BY <1>1 DEF DiskTyped
<1>6. \A i, j \in Inum : \A k, m \in Addrs : A[i][k] = A[j][m] /\ A[i][k] # 0 => i = j /\ k = m
  BY <1>1, <1>4 DEF OneOwner
<1>7. \A a \in Block : a \in committed.used <=> \E i \in Inum, k \in Addrs : A[i][k] = a
  BY <1>1, <1>4 DEF UsedIsOwned
<1>8. OnceEach(A, committed.used)
  <2> HIDE DEF IInv
  <2> QED  BY <1>3, <1>5, <1>6, <1>7, PlacesCount
<1> DEFINE held == {q \in Inum \X Addrs : committed.inode[q[1]].addrs[q[2]] # 0}
<1>9. Placed(A) = held /\ \A q \in held : A[q[1]][q[2]] = committed.inode[q[1]].addrs[q[2]]
  BY <1>4 DEF Placed
<1>10. committed.used = {committed.inode[q[1]].addrs[q[2]] : q \in held}
  <2>1. committed.used = {A[q[1]][q[2]] : q \in held}
    BY <1>8, <1>9 DEF OnceEach
  <2> HIDE DEF held
  <2> QED  BY <1>9, <2>1, SMTT(30)
<1>11. Cardinality(held) = Cardinality(committed.used)
  <2> HIDE DEF held
  <2> QED  BY <1>8, <1>9 DEF OnceEach
<1>12. \A i \in Inum : \A n \in 0 .. MAXFILE - 1 :
         n < committed.inode[i].size => Missing(committed.inode[i], n) = {}
  BY <1>1 DEF SizeIsThere
<1> QED
  <2> SUFFICES /\ committed.used = {committed.inode[q[1]].addrs[q[2]] : q \in held}
               /\ Cardinality(held) = Cardinality(committed.used)
    BY <1>12, Zenon DEF BlocksOwnedOnce
  <2> HIDE DEF held
  <2> QED  BY <1>10, <1>11

\* bfree is never given a block that is free, on any path of iput.
NoFreeBlockFreed == \A p \in Proc : ~FreesFree(p)

\* What iput frees belongs to the inode, and is in use.
LEMMA FreesOwned == IInv => NoFreeBlockFreed
<1> SUFFICES ASSUME IInv, NEW p \in Proc, FreesFree(p) PROVE FALSE
  BY DEF NoFreeBlockFreed
<1>1. PICK i \in Inum : i = Head(loc[p].puts)
  <2>1. LocTyped(loc[p]) /\ loc[p].puts # <<>>
    BY Mine DEF MineTyped, FreesFree, Putting
  <2>2. Head(loc[p].puts) \in Inum
    BY <2>1, CountTail DEF LocTyped
  <2> QED  BY <2>2
<1>2. UsedIsOwned(disk) /\ disk.inode[i].addrs \in [Addrs -> Block \cup {0}]
  BY Quiet, DiskFields DEF Sound
<1>3. Owned(disk.inode[i]) \subseteq disk.used
  BY <1>2 DEF Owned, UsedIsOwned
<1> QED  BY <1>1, <1>3 DEF FreesFree

\* The inode of an open file is the one that was opened: it is not free, nor a directory when
\* the file can be written, and the offset in a file is not behind its end.
OpenFilesStay ==
  \A p \in Proc : ofile[p] # NoFile => /\ disk.inode[ofile[p].ip].type \in {"file", "dev", "dir"}
                                       /\ ofile[p].writable => disk.inode[ofile[p].ip].type # "dir"
                                       /\ disk.inode[ofile[p].ip].type # "dir" =>
                                            ofile[p].off <= disk.inode[ofile[p].ip].size

\* What the invariant says of the open files.
LEMMA OpenStays == IInv => OpenFilesStay
BY DEF IInv, OpenKept, Kept, OpenFilesStay

\* The invariant of fs.c, file.c and sysfile.c: the disk and what is committed of it are sound,
\* the cache agrees with the disk, locks are held only of inodes in use, the locals of every
\* call are what its code relies on, and ref counts the pointers to an inode.
THEOREM InvariantHolds == Spec => []IInv
<1>1. Init => IInv
  BY BootIs, MkfsSound DEF Init
<1> QED  BY <1>1, NextKeeps, PTL DEF Spec

\* References are counted and blocks have one owner after a boot from every sound disk, that of an
\* earlier boot for example, not only from the image of mkfs.
THEOREM AnySoundDisk ==
  ASSUME NEW d, Sound(d)
  PROVE  Boot(d) /\ [][Next]_vars => [](RefsCounted /\ BlocksOwnedOnce)
<1>1. Boot(d) => IInv
  BY BootIs
<1>2. IInv => RefsCounted /\ BlocksOwnedOnce
  BY OwnedOnce DEF IInv
<1> QED  BY <1>1, <1>2, NextKeeps, PTL

\* ref in the inode cache is the number of pointers to the inode, on every path through iget, idup,
\* iput and the calls of sysfile.c that use them, for any processes, calls, inodes and crashes.
THEOREM RefsCountedHolds == Spec => []RefsCounted
<1>1. IInv => RefsCounted
  BY DEF IInv
<1> QED  BY <1>1, InvariantHolds, PTL

\* In what a crash goes back to, bitmap and inodes agree: balloc, bfree, bmap and itrunc never
\* leave a block to two inodes, a block in use without an owner, or a hole below a file's size.
THEOREM BlocksOwnedOnceHolds == Spec => []BlocksOwnedOnce
BY OwnedOnce, InvariantHolds, PTL

\* bfree's panic "freeing free block" is never reached.
THEOREM NoFreeBlockFreedHolds == Spec => []NoFreeBlockFreed
BY FreesOwned, InvariantHolds, PTL

\* filealloc'd files keep their inode: iput frees none that another process has open, and writei
\* and itrunc never leave an offset behind the end.
THEOREM OpenFilesStayHolds == Spec => []OpenFilesStay
BY OpenStays, InvariantHolds, PTL
-----------------------------------------------------------------------------
\* Links.  The claims about them are for paths without "..": a removed directory keeps its
\* ".." when the inode of its parent is freed, and may be made into something else.
ParentlessPaths ==
  \A c \in Programs : /\ \A n \in DOMAIN c.path : c.path[n] # ".."
                      /\ \A n \in DOMAIN c.to : c.to[n] # ".."

\* Whom p owes a link: the calls that have counted a name which is not there yet, or not
\* there any more.
WithIp(l) == l.pc \in AtIp \/ (l.pc = "namex" /\ l.want = "linknew")
Owing(l) == l.pc \in {"linknew", "linkfail", "undo", "unlink3"} \/ (l.pc = "namex" /\ l.want = "linknew")
Owed(l) == [i \in Inum |-> {p \in Proc : Owing(l[p]) /\ l[p].ip = i}]
NobodyOwes == [i \in Inum |-> {}]

\* What nlink of i stands for: the names of i, the directories in i, for the root itself, and
\* the calls that owe it.
IsKid(d, i, x) == d.dir[i][x] # 0 /\ d.inode[d.dir[i][x]].type = "dir"
Uses(d, o, i) ==
  {u \in {"name", "kid", "root", "owed"} \X (Inum \cup Proc) \X Names :
     \/ u[1] = "name" /\ u[2] \in Inum /\ d.dir[u[2]][u[3]] = i
     \/ u[1] = "kid" /\ u[2] = i /\ IsKid(d, i, u[3])
     \/ u[1] = "root" /\ u[2] = i /\ i = Root /\ u[3] = Image
     \/ u[1] = "owed" /\ u[2] \in o[i] /\ u[3] = Image}
Backed(d, o) == \A i \in Inum : Cardinality(Uses(d, o, i)) <= d.inode[i].nlink

\* Directories know where they are; made are the inodes that create has allocated and not yet
\* given a name.
KidsKnow(d) == \A i \in Inum, x \in Names : IsKid(d, i, x) => d.dir[d.dir[i][x]][".."] = i
DirsKnow(d, made) ==
  \A i \in Inum : /\ d.dir[i]["."] \in {0, i}
                  /\ d.inode[i].type = "dir" => d.dir[i]["."] = i \/ i \in made
                  /\ d.inode[i].type # "dir" => d.dir[i] = EmptyDir
RootThere(d) == d.inode[Root].type = "dir" /\ d.dir[Root][".."] = Root
Treelike(d, o, made) == Backed(d, o) /\ KidsKnow(d) /\ DirsKnow(d, made) /\ RootThere(d)

\* The inodes that p points to: those it will put after the first, its locals, its open file
\* and its directory; and the first, unless it has been freed and is about to be dropped.
Besides(l, f, c) ==
  {i \in Inum : \/ \E n \in DOMAIN l.puts \ {1} : l.puts[n] = i
                \/ l.pc \in AtCur /\ l.cur = i
                \/ WithIp(l) /\ l.ip = i
                \/ f # NoFile /\ f.ip = i
                \/ l.pc # "moved" /\ c = i}
Firm(l, f, c) ==
  Besides(l, f, c) \cup {i \in Inum : l.puts # <<>> /\ l.put # "drop" /\ Head(l.puts) = i}

\* The inodes without a link that p alone has: allocated by create, or to be freed by iput.
Owns(l, i) == (l.pc = "create2" /\ l.ip = i) \/ (l.put = "free" /\ Head(l.puts) = i)
Making(l) == {i \in Inum : \E p \in Proc : l[p].pc = "create2" /\ l[p].ip = i}

\* What p relies on: of links and types ...
FirmInUse(d, l, f, c) ==
  /\ \A i \in Firm(l, f, c) : d.inode[i].type # "free"
  /\ \A i \in Inum : Owns(l, i) => d.inode[i].nlink = 0
  /\ l.put = "free" => Head(l.puts) \notin Besides(l, f, c)
\* ... and where it is in a call.
Underway(p, d, l, c, s) ==
  /\ Owing(l) /\ l.pc # "unlink3" => d.inode[l.ip].type # "dir"
  /\ d.inode[c].type = "dir" \/ l.pc = "moved"
  /\ l.pc \in ToName \cup {"moved"} => d.inode[l.cur].type = "dir"
  /\ l.pc \in {"unlink2", "create2"} => Head(l.rest) \in Names
  /\ l.pc = "unlink2" => d.dir[l.cur][Head(l.rest)] = l.ip
  /\ \A n \in DOMAIN l.rest : l.rest[n] # ".."
  /\ l.pc \notin {"idle", "more"} => p \in s
Relies(p, d, l, f, c, s) == FirmInUse(d, l, f, c) /\ Underway(p, d, l, c, s)

OwnsAlone ==
  \A p, q \in Proc : p # q =>
    \A i \in Inum : Owns(loc[p], i) => i \notin Firm(loc[q], ofile[q], cwd[q])

LInv ==
  /\ ParentlessPaths
  /\ Treelike(disk, Owed(loc), Making(loc)) /\ Treelike(committed, NobodyOwes, {})
  /\ \A p \in Proc : Relies(p, disk, loc[p], ofile[p], cwd[p], ops)
  /\ OwnsAlone

-----------------------------------------------------------------------------
\* Uses, and how a step changes them.

\* Each kind of use.
LEMMA UsesAre ==
  ASSUME NEW d, NEW o \in [Inum -> SUBSET Proc], NEW i \in Inum
  PROVE  /\ \A j \in Inum, x \in Names : <<"name", j, x>> \in Uses(d, o, i) <=> d.dir[j][x] = i
         /\ \A x \in Names : <<"kid", i, x>> \in Uses(d, o, i) <=> IsKid(d, i, x)
         /\ <<"root", i, Image>> \in Uses(d, o, i) <=> i = Root
         /\ \A p \in Proc : <<"owed", p, Image>> \in Uses(d, o, i) <=> p \in o[i]
<1>1. ASSUME NEW j \in Inum, NEW x \in Names
      PROVE  <<"name", j, x>> \in Uses(d, o, i) <=> d.dir[j][x] = i
  BY DEF Uses
<1>2. ASSUME NEW x \in Names PROVE <<"kid", i, x>> \in Uses(d, o, i) <=> IsKid(d, i, x)
  BY DEF Uses
<1>3. <<"root", i, Image>> \in Uses(d, o, i) <=> i = Root
  BY TheNames DEF Uses
<1>4. ASSUME NEW p \in Proc PROVE <<"owed", p, Image>> \in Uses(d, o, i) <=> p \in o[i]
  BY TheNames DEF Uses
<1> QED  BY <1>1, <1>2, <1>3, <1>4

\* A set with every use has all of them.
LEMMA UsesWithin ==
  ASSUME NEW d, NEW o \in [Inum -> SUBSET Proc], NEW i \in Inum, NEW S,
         \A j \in Inum, x \in Names : d.dir[j][x] = i => <<"name", j, x>> \in S,
         \A x \in Names : IsKid(d, i, x) => <<"kid", i, x>> \in S,
         i = Root => <<"root", i, Image>> \in S,
         \A p \in o[i] : <<"owed", p, Image>> \in S
  PROVE  Uses(d, o, i) \subseteq S
<1> SUFFICES ASSUME NEW u \in Uses(d, o, i) PROVE u \in S
  OBVIOUS
<1>1. PICK a, b, x : u = <<a, b, x>> /\ x \in Names
  BY DEF Uses
<1>2. \/ a = "name" /\ b \in Inum /\ d.dir[b][x] = i
      \/ a = "kid" /\ b = i /\ IsKid(d, i, x)
      \/ a = "root" /\ b = i /\ i = Root /\ x = Image
      \/ a = "owed" /\ b \in o[i] /\ x = Image
  BY <1>1 DEF Uses
<1> QED  BY <1>1, <1>2

\* The uses of an inode are finitely many.
LEMMA UsesFinite ==
  ASSUME NEW d, NEW o, NEW i
  PROVE  IsFiniteSet(Uses(d, o, i)) /\ Cardinality(Uses(d, o, i)) \in Nat
<1>1. IsFiniteSet({"name", "kid", "root", "owed"})
  <2>1. IsFiniteSet({"name"}) /\ IsFiniteSet({"kid"}) /\ IsFiniteSet({"root"}) /\ IsFiniteSet({"owed"})
    BY FS_Singleton, Zenon
  <2>2. IsFiniteSet({"name"} \cup {"kid"}) /\ IsFiniteSet({"root"} \cup {"owed"})
    BY <2>1, FS_Union, Zenon
  <2>3. IsFiniteSet(({"name"} \cup {"kid"}) \cup ({"root"} \cup {"owed"}))
    BY <2>2, FS_Union, Zenon
  <2>4. {"name", "kid", "root", "owed"} = ({"name"} \cup {"kid"}) \cup ({"root"} \cup {"owed"})
    OBVIOUS
  <2> QED  BY <2>3, <2>4
<1>2. IsFiniteSet(Inum \cup Proc) /\ IsFiniteSet(Names)
  BY Constants, XvFilesAssumption, FS_Union, Zenon
<1>3. PICK A, B, C : /\ A = {"name", "kid", "root", "owed"} /\ B = Inum \cup Proc /\ C = Names
                     /\ IsFiniteSet(A) /\ IsFiniteSet(B) /\ IsFiniteSet(C)
  BY <1>1, <1>2
<1>4. \E S : IsFiniteSet(S) /\ \A a \in A, b \in B, c \in C : <<a, b, c>> \in S
  <2>1. IsFiniteSet(B \X C)
    BY <1>3, FS_Product
  <2>2. IsFiniteSet(A \X (B \X C))
    BY <1>3, <2>1, FS_Product
  <2> DEFINE f == [v \in A \X (B \X C) |-> <<v[1], v[2][1], v[2][2]>>]
             S == {f[v] : v \in A \X (B \X C)}
  <2>3. f \in Surjection(A \X (B \X C), S)
    BY Zenon DEF Surjection
  <2>4. IsFiniteSet(S)
    <3> HIDE DEF f, S
    <3> QED  BY <2>2, <2>3, FS_Surjection
  <2>5. ASSUME NEW a \in A, NEW b \in B, NEW c \in C PROVE <<a, b, c>> \in S
    <3>1. <<a, <<b, c>>>> \in A \X (B \X C) /\ f[<<a, <<b, c>>>>] = <<a, b, c>>
      OBVIOUS
    <3> HIDE DEF f
    <3> QED  BY <3>1
  <2> HIDE DEF S
  <2> QED  BY <2>4, <2>5
<1>5. PICK S : IsFiniteSet(S) /\ \A a \in A, b \in B, c \in C : <<a, b, c>> \in S
  BY <1>4
<1>6. Uses(d, o, i) \subseteq S
  <2> SUFFICES ASSUME NEW u \in Uses(d, o, i) PROVE u \in S
    OBVIOUS
  <2>1. PICK a \in A, b \in B, c \in C : u = <<a, b, c>>
    BY <1>3 DEF Uses
  <2> QED  BY <1>5, <2>1
<1> QED  BY <1>5, <1>6, FS_Subset, FS_CardinalityType

\* How many there are after one is added, taken away, or replaced.
LEMMA Fewer ==
  ASSUME NEW S, NEW T, NEW u, NEW v, IsFiniteSet(S)
  PROVE  /\ T \subseteq S => Cardinality(T) <= Cardinality(S)
         /\ T \subseteq S \cup {u} => Cardinality(T) <= Cardinality(S) + 1
         /\ T \subseteq S \ {v} /\ v \in S => Cardinality(T) <= Cardinality(S) - 1
         /\ T \subseteq (S \ {v}) \cup {u} /\ v \in S => Cardinality(T) <= Cardinality(S)
<1> DEFINE s == Cardinality(S)
           r == Cardinality(S \ {v})
<1>1. ASSUME NEW A, IsFiniteSet(A), NEW B, B \subseteq A
      PROVE  Cardinality(B) <= Cardinality(A) /\ Cardinality(A) \in Nat /\ Cardinality(B) \in Nat
  BY <1>1, FS_Subset, FS_CardinalityType
<1>2. ASSUME NEW A, IsFiniteSet(A)
      PROVE  IsFiniteSet(A \cup {u}) /\ Cardinality(A \cup {u}) <= Cardinality(A) + 1
  <2>1. CASE u \in A
    <3>1. A \cup {u} = A
      BY <2>1
    <3> QED  BY <1>1, <1>2, <3>1
  <2>2. CASE u \notin A
    <3>1. IsFiniteSet(A \cup {u}) /\ Cardinality(A \cup {u}) = Cardinality(A) + 1
      BY <1>2, <2>2, FS_AddElement
    <3>2. Cardinality(A) \in Nat
      BY <1>2, FS_CardinalityType
    <3> QED  BY <3>1, <3>2
  <2> QED  BY <2>1, <2>2
<1>3. IsFiniteSet(S \ {v}) /\ (v \in S => r = s - 1)
  BY FS_RemoveElement, FS_Subset, S \ {v} \subseteq S
<1>4. s \in Nat /\ r \in Nat
  BY <1>1, <1>3
<1> HIDE DEF s, r
<1>5. T \subseteq S => Cardinality(T) <= s
  BY <1>1 DEF s
<1>6. T \subseteq S \cup {u} => Cardinality(T) <= s + 1
  <2>1. IsFiniteSet(S \cup {u}) /\ Cardinality(S \cup {u}) <= s + 1
    BY <1>2 DEF s
  <2> QED  BY <1>1, <1>4, <2>1
<1>7. T \subseteq S \ {v} => Cardinality(T) <= r
  BY <1>1, <1>3 DEF r
<1>8. T \subseteq (S \ {v}) \cup {u} => Cardinality(T) <= r + 1
  <2>1. IsFiniteSet((S \ {v}) \cup {u}) /\ Cardinality((S \ {v}) \cup {u}) <= r + 1
    BY <1>2, <1>3 DEF r
  <2> QED  BY <1>1, <1>4, <2>1
<1> QED  BY <1>3, <1>4, <1>5, <1>6, <1>7, <1>8 DEF s

\* A use counts; without a link there is none.
LEMMA UsedHasLinks ==
  ASSUME NEW d, NEW o, Backed(d, o), Sound(d), NEW i \in Inum
  PROVE  /\ Uses(d, o, i) # {} => d.inode[i].nlink >= 1
         /\ d.inode[i].nlink = 0 => Uses(d, o, i) = {}
         /\ d.inode[i].type = "free" => d.inode[i].nlink = 0
<1>1. Cardinality(Uses(d, o, i)) <= d.inode[i].nlink /\ d.inode[i].nlink \in Int
  BY DiskFields DEF Backed, Sound
<1>2. IsFiniteSet(Uses(d, o, i)) /\ Cardinality(Uses(d, o, i)) \in Nat
  BY UsesFinite
<1>3. Uses(d, o, i) # {} => Cardinality(Uses(d, o, i)) # 0
  BY <1>2, FS_EmptySet
<1>4. d.inode[i].type = "free" => d.inode[i].nlink = 0
  BY DEF Sound, FreeIsEmpty, FreeInode, Inode
<1> QED  BY <1>1, <1>2, <1>3, <1>4

-----------------------------------------------------------------------------
\* A step of p, as far as links go.

\* The places of l, f and c that make i a pointer of p.
LEMMA FirmPlaces ==
  ASSUME NEW l, NEW f, NEW c \in Inum, LocTyped(l), FileTyped(l, f)
  PROVE  /\ l.pc \in AtCur => l.cur \in Firm(l, f, c)
         /\ WithIp(l) => l.ip \in Firm(l, f, c)
         /\ f # NoFile => f.ip \in Firm(l, f, c)
         /\ l.pc # "moved" => c \in Firm(l, f, c)
         /\ Besides(l, f, c) \subseteq Firm(l, f, c) /\ Firm(l, f, c) \subseteq Inum
<1>1. /\ l.pc \in AtCur => l.cur \in Inum
      /\ WithIp(l) => l.ip \in Inum
      /\ f # NoFile => f.ip \in Inum
  BY DEF LocTyped, FileTyped, Files, WithIp
<1> QED  BY <1>1 DEF Firm, Besides

\* What a process owns it points to.
LEMMA OwnedFirm ==
  ASSUME IInv, NEW q \in Proc, NEW i \in Inum, Owns(loc[q], i)
  PROVE  i \in Firm(loc[q], ofile[q], cwd[q])
<1>1. MineTyped(q, loc[q], ofile[q], cwd[q], lock)
  BY Mine
<1>2. CASE loc[q].pc = "create2" /\ loc[q].ip = i
  BY <1>1, <1>2, FirmPlaces DEF MineTyped, WithIp, AtIp
<1>3. CASE loc[q].put = "free" /\ Head(loc[q].puts) = i
  <2>1. loc[q].puts # <<>>
    BY <1>1, <1>3 DEF MineTyped, LocHolds
  <2> QED  BY <1>3, <2>1 DEF Firm
<1> QED  BY <1>2, <1>3 DEF Owns

\* p changes links only of what it points to, types only of what it owns or finds free, and
\* directories only where nobody else has the lock.
Touches(p) ==
  /\ \A i \in Inum : disk'.inode[i].type # disk.inode[i].type =>
                       disk.inode[i].type = "free" \/ Owns(loc[p], i)
  /\ \A i \in Inum : disk'.inode[i].nlink # disk.inode[i].nlink => i \in Firm(loc[p], ofile[p], cwd[p])
  /\ \A i \in Inum : disk'.dir[i] # disk.dir[i] => lock[i] \in {p, Nobody}

\* What p comes to point to, it pointed to before, has a use, or was free.
FirmFound(p) ==
  \A i \in Firm(loc'[p], ofile'[p], cwd'[p]) :
    i \in Firm(loc[p], ofile[p], cwd[p]) \/ Uses(disk, Owed(loc), i) # {} \/ disk.inode[i].type = "free"

\* Nobody points to what p comes to own.
OwnsFound(p) ==
  \A i \in Inum : Owns(loc'[p], i) =>
    Owns(loc[p], i) \/ \A q \in Proc \ {p} : i \notin Firm(loc[q], ofile[q], cwd[q])

\* What another relies on stays.
LEMMA OthersRely ==
  ASSUME IInv, LInv, NEW p \in Proc, NEW q \in Proc \ {p}, Touches(p), ops \ {p} \subseteq ops'
  PROVE  Relies(q, disk', loc[q], ofile[q], cwd[q], ops')
<1> DEFINE l == loc[q]
           F == Firm(l, ofile[q], cwd[q])
<1>1. /\ MineTyped(q, l, ofile[q], cwd[q], lock) /\ Relies(q, disk, l, ofile[q], cwd[q], ops)
      /\ \A i \in Inum : Owns(loc[p], i) => i \notin F
      /\ \A i \in Inum : Owns(l, i) => i \notin Firm(loc[p], ofile[p], cwd[p])
  BY Mine DEF LInv, OwnsAlone
<1>2. /\ l.pc \in AtCur => l.cur \in F /\ l.cur \in Inum
      /\ WithIp(l) => l.ip \in F /\ l.ip \in Inum
      /\ l.pc # "moved" => cwd[q] \in F
      /\ F \subseteq Inum /\ cwd[q] \in Inum
  BY <1>1, FirmPlaces DEF MineTyped, LocTyped, WithIp
<1> HIDE DEF F
<1>3. \A i \in F : /\ disk.inode[i].type # "free"
                   /\ disk'.inode[i].type = disk.inode[i].type
  BY <1>1, <1>2 DEF Touches, Relies, FirmInUse, F
<1>4. \A i \in Inum : Owns(l, i) => disk'.inode[i].nlink = 0
  BY <1>1 DEF Touches, Relies, FirmInUse
<1>5. FirmInUse(disk', l, ofile[q], cwd[q])
  BY <1>1, <1>3, <1>4 DEF Relies, FirmInUse, F
<1>6. Underway(q, disk, l, cwd[q], ops)
  BY <1>1 DEF Relies
<1>7. l.pc = "unlink2" => disk'.dir[l.cur] = disk.dir[l.cur]
  <2> SUFFICES ASSUME l.pc = "unlink2" PROVE disk'.dir[l.cur] = disk.dir[l.cur]
    OBVIOUS
  <2>1. lock[l.cur] = q /\ l.cur \in Inum /\ q # Nobody /\ q # p
    BY <1>1, <1>2, Constants DEF MineTyped, LocHolds, HasCur, AtCur
  <2> QED  BY <2>1 DEF Touches
<1>8. Underway(q, disk', l, cwd[q], ops')
  <2>1. Owing(l) /\ l.pc # "unlink3" => disk'.inode[l.ip].type # "dir"
    BY <1>2, <1>3, <1>6 DEF Underway, Owing, WithIp, AtIp
  <2>2. disk'.inode[cwd[q]].type = "dir" \/ l.pc = "moved"
    BY <1>2, <1>3, <1>6 DEF Underway
  <2>3. l.pc \in ToName \cup {"moved"} => disk'.inode[l.cur].type = "dir"
    BY <1>2, <1>3, <1>6 DEF Underway, ToName, AtCur
  <2>4. l.pc \notin {"idle", "more"} => q \in ops'
    BY <1>6 DEF Underway
  <2>5. l.pc = "unlink2" => disk'.dir[l.cur][Head(l.rest)] = l.ip
    BY <1>6, <1>7 DEF Underway
  <2>6. /\ l.pc \in {"unlink2", "create2"} => Head(l.rest) \in Names
        /\ \A n \in DOMAIN l.rest : l.rest[n] # ".."
    BY <1>6 DEF Underway
  <2> QED  BY <2>1, <2>2, <2>3, <2>4, <2>5, <2>6 DEF Underway
<1> QED  BY <1>5, <1>8 DEF Relies

\* What a process owns stays its own.
LEMMA AloneKept ==
  ASSUME IInv, LInv, NEW p \in Proc, Alone(p), FirmFound(p), OwnsFound(p)
  PROVE  OwnsAlone'
<1>1. ASSUME NEW q \in Proc, NEW r \in Proc, q # r, NEW i \in Inum, Owns(loc'[q], i),
             i \in Firm(loc'[r], ofile'[r], cwd'[r])
      PROVE  FALSE
  <2>1. CASE q # p /\ r # p
    BY <1>1, <2>1 DEF Alone, LInv, OwnsAlone
  <2>2. CASE q = p
    <3>1. i \in Firm(loc[r], ofile[r], cwd[r])
      BY <1>1, <2>2 DEF Alone
    <3> QED  BY <1>1, <2>2, <3>1 DEF OwnsFound, LInv, OwnsAlone
  <2>3. CASE r = p
    <3>1. Owns(loc[q], i)
      BY <1>1, <2>3 DEF Alone
    <3>2. i \notin Firm(loc[p], ofile[p], cwd[p])
      BY <1>1, <2>3, <3>1 DEF LInv, OwnsAlone
    <3>3. disk.inode[i].nlink = 0 /\ disk.inode[i].type # "free"
      BY <3>1, OwnedFirm DEF LInv, Relies, FirmInUse
    <3>4. Uses(disk, Owed(loc), i) = {}
      BY <3>3, UsedHasLinks, Quiet DEF LInv, Treelike
    <3> QED  BY <1>1, <2>3, <3>2, <3>3, <3>4 DEF FirmFound
  <2> QED  BY <2>1, <2>2, <2>3
<1> QED  BY <1>1 DEF OwnsAlone

\* A step of p keeps what is said of links, from what it does to the disk and to p.
LEMMA LinksStep ==
  ASSUME IInv, LInv, NEW p \in Proc, Alone(p), Touches(p), FirmFound(p), OwnsFound(p),
         ops \ {p} \subseteq ops',
         Treelike(disk', Owed(loc'), Making(loc')), Treelike(committed', NobodyOwes, {}),
         Relies(p, disk', loc'[p], ofile'[p], cwd'[p], ops')
  PROVE  LInv'
<1>1. ASSUME NEW q \in Proc PROVE Relies(q, disk', loc'[q], ofile'[q], cwd'[q], ops')
  <2>1. CASE q = p
    BY <2>1
  <2>2. CASE q # p
    <3>1. loc'[q] = loc[q] /\ ofile'[q] = ofile[q] /\ cwd'[q] = cwd[q]
      BY <2>2 DEF Alone
    <3> QED  BY <2>2, <3>1, OthersRely
  <2> QED  BY <2>1, <2>2
<1>2. OwnsAlone'
  BY AloneKept
<1>3. Treelike(disk, Owed(loc), Making(loc))' /\ Treelike(committed, NobodyOwes, {})'
  BY Zenon DEF Treelike, Backed, KidsKnow, DirsKnow, RootThere, IsKid, Uses, NobodyOwes
<1> QED  BY <1>1, <1>2, <1>3 DEF LInv, ParentlessPaths

-----------------------------------------------------------------------------
\* The steps that leave the disk as it is.

\* Calls under way owe links of inodes.
LEMMA OwedTyped ==
  /\ \A l : Owed(l) \in [Inum -> SUBSET Proc]
  /\ NobodyOwes \in [Inum -> SUBSET Proc]
BY DEF Owed, NobodyOwes

\* With fewer calls under way fewer links are needed.
LEMMA BackedLess ==
  ASSUME NEW d, NEW o \in [Inum -> SUBSET Proc], NEW r \in [Inum -> SUBSET Proc],
         Sound(d), Backed(d, o), \A i \in Inum : r[i] \subseteq o[i]
  PROVE  Backed(d, r)
<1> SUFFICES ASSUME NEW i \in Inum PROVE Cardinality(Uses(d, r, i)) <= d.inode[i].nlink
  BY DEF Backed
<1>1. Uses(d, r, i) \subseteq Uses(d, o, i)
  BY DEF Uses
<1>2. Cardinality(Uses(d, r, i)) <= Cardinality(Uses(d, o, i))
  BY <1>1, UsesFinite, FS_Subset
<1>3. Cardinality(Uses(d, o, i)) <= d.inode[i].nlink /\ d.inode[i].nlink \in Int
  BY DiskFields DEF Backed, Sound
<1> QED  BY <1>2, <1>3, UsesFinite

\* What p owes and owns after a quiet step it did before, and it reaches only what has a use.
Quietly(p) ==
  /\ Owing(loc'[p]) => Owing(loc[p]) /\ loc'[p].ip = loc[p].ip
  /\ loc'[p].pc = "create2" <=> loc[p].pc = "create2"
  /\ loc'[p].pc = "create2" => loc'[p].ip = loc[p].ip
  /\ loc'[p].put # "free"
  /\ \A i \in Firm(loc'[p], ofile'[p], cwd'[p]) :
       i \in Firm(loc[p], ofile[p], cwd[p]) \/ Uses(disk, Owed(loc), i) # {}

\* A step that leaves the disk alone keeps what is said of links.
LEMMA LinksQuiet ==
  ASSUME IInv, LInv, NEW p \in Proc, Alone(p), disk' = disk, committed' = committed,
         ops \ {p} \subseteq ops', Quietly(p), Underway(p, disk, loc'[p], cwd'[p], ops')
  PROVE  LInv'
<1>1. Touches(p)
  BY DEF Touches
<1>2. FirmFound(p)
  BY DEF FirmFound, Quietly
<1>3. OwnsFound(p)
  BY DEF OwnsFound, Owns, Quietly
<1>4. Treelike(disk, Owed(loc), Making(loc)) /\ Treelike(committed, NobodyOwes, {})
  BY DEF LInv
<1>5. Treelike(disk', Owed(loc'), Making(loc'))
  <2>1. \A i \in Inum : Owed(loc')[i] \subseteq Owed(loc)[i]
    BY DEF Owed, Quietly, Alone
  <2>2. Backed(disk, Owed(loc'))
    BY <1>4, <2>1, BackedLess, OwedTyped, Quiet DEF Treelike
  <2>3. Making(loc') = Making(loc)
    BY DEF Making, Quietly, Alone
  <2> QED  BY <1>4, <2>2, <2>3 DEF Treelike
<1>6. Relies(p, disk, loc[p], ofile[p], cwd[p], ops)
  BY DEF LInv
<1>7. \A i \in Inum : Uses(disk, Owed(loc), i) # {} => disk.inode[i].type # "free"
  BY <1>4, UsedHasLinks, Quiet DEF Treelike
<1>8. FirmInUse(disk, loc'[p], ofile'[p], cwd'[p])
  <2>1. \A i \in Firm(loc'[p], ofile'[p], cwd'[p]) : i \in Inum /\ disk.inode[i].type # "free"
    BY <1>6, <1>7 DEF Quietly, Relies, FirmInUse, Firm, Besides
  <2>2. \A i \in Inum : Owns(loc'[p], i) => disk.inode[i].nlink = 0
    BY <1>6 DEF Quietly, Relies, FirmInUse, Owns
  <2> QED  BY <2>1, <2>2 DEF FirmInUse, Quietly
<1>9. Relies(p, disk', loc'[p], ofile'[p], cwd'[p], ops')
  BY <1>8 DEF Relies
<1> QED  BY <1>1, <1>2, <1>3, <1>4, <1>5, <1>9, LinksStep

\* An entry that a walk or a call finds: what it names has a use, or is the directory itself.
LEMMA NamedIsUsed ==
  ASSUME IInv, LInv, NEW i \in Inum, NEW x \in AllNames, x # "..", disk.dir[i][x] # 0
  PROVE  /\ disk.dir[i][x] \in Inum
         /\ disk.dir[i][x] = i \/ Uses(disk, Owed(loc), disk.dir[i][x]) # {}
         /\ x \in Names => Uses(disk, Owed(loc), disk.dir[i][x]) # {}
<1>1. PICK k : k = disk.dir[i][x]
  OBVIOUS
<1>2. k \in Inum
  BY <1>1, Quiet DEF Sound, DiskTyped
<1>3. x \in Names => Uses(disk, Owed(loc), k) # {}
  BY <1>1, <1>2, UsesAre, OwedTyped, Zenon
<1>4. x = "." => k = i
  BY <1>1 DEF LInv, Treelike, DirsKnow
<1>5. x \in Names \/ x = "."
  BY DEF AllNames
<1> QED  BY <1>1, <1>2, <1>3, <1>4, <1>5

\* The root has a use, itself; so it is a directory, and nobody's own.
LEMMA RootIsUsed ==
  ASSUME IInv, LInv
  PROVE  Root \in Inum /\ Uses(disk, Owed(loc), Root) # {} /\ disk.inode[Root].type = "dir"
<1>1. <<"root", Root, Image>> \in Uses(disk, Owed(loc), Root)
  BY UsesAre, OwedTyped, Constants, Zenon
<1> QED  BY <1>1, Constants DEF LInv, Treelike, RootThere

\* What LInv says of p at pc.
LEMMA LinksAt ==
  ASSUME IInv, LInv, NEW p \in Proc, NEW pc, At(p, pc)
  PROVE  /\ LocTyped(loc[p]) /\ FileTyped(loc[p], ofile[p]) /\ LocHolds(p, loc[p], lock)
         /\ cwd[p] \in Inum /\ ofile[p] \in Files /\ DOMAIN loc = Proc /\ DOMAIN loc[p] = Fields
         /\ loc[p].pc = pc /\ loc[p].puts = <<>> /\ loc[p].put = "check"
         /\ Underway(p, disk, loc[p], cwd[p], ops)
         /\ FirmInUse(disk, loc[p], ofile[p], cwd[p])
BY AtIs DEF LInv, Relies

\* The first place of one pointer or two, and the others.
LEMMA PutsAre ==
  /\ \A i : <<i>> # <<>> /\ Head(<<i>>) = i /\ DOMAIN <<i>> \ {1} = {}
  /\ \A i, k : <<i, k>> # <<>> /\ Head(<<i, k>>) = i /\ DOMAIN <<i, k>> \ {1} = {2} /\ <<i, k>>[2] = k
  /\ DOMAIN <<>> \ {1} = {}
OBVIOUS


-----------------------------------------------------------------------------
\* The steps that leave links alone.

\* A call begins: the walk starts where p is or at the root.
LEMMA BeginLinks ==
  ASSUME IInv, LInv, NEW p \in Proc, NEW c \in Programs, Begin(p, c)
  PROVE  LInv'
<1>1. /\ LocTyped(loc[p]) /\ FileTyped(loc[p], ofile[p]) /\ LocHolds(p, loc[p], lock)
      /\ cwd[p] \in Inum /\ ofile[p] \in Files /\ DOMAIN loc = Proc /\ DOMAIN loc[p] = Fields
      /\ loc[p].pc = "idle" /\ loc[p].puts = <<>> /\ loc[p].put = "check"
      /\ Underway(p, disk, loc[p], cwd[p], ops)
  BY LinksAt DEF Begin
<1>2. loc[p] = AtRest /\ loc[p].rest = <<>>
  BY <1>1, WantsAre DEF LocTyped
<1>3. /\ disk' = disk /\ committed' = committed /\ cwd' = cwd
      /\ ops' = ops \cup {p} /\ ops \ {p} \subseteq ops'
  BY Quiet DEF Begin
<1>4. \A n \in DOMAIN c.path : c.path[n] # ".."
  BY DEF LInv, ParentlessPaths
<1>5. disk.inode[cwd[p]].type = "dir"
  BY <1>1 DEF Underway
<1>7. CASE /\ c.op \in DOMAIN Wants
           /\ Local(p, [call |-> c, cur |-> Start(p, c), rest |-> c.path,
                        want |-> Wants[c.op], pc |-> "namex"])
           /\ UNCHANGED ofile
  <2>1. PICK s : s = Start(p, c)
    OBVIOUS
  <2>2. s = cwd[p] \/ (s = Root /\ Uses(disk, Owed(loc), s) # {})
    BY <2>1, RootIsUsed DEF Start
  <2>3. PICK w \in Wanted \ {"end", "linknew"} : w = Wants[c.op]
    BY <1>7, WantsAre
  <2>4. /\ Alone(p) /\ DOMAIN loc'[p] = Fields
        /\ loc'[p].pc = "namex" /\ loc'[p].rest = c.path /\ loc'[p].want = w /\ loc'[p].cur = s
        /\ loc'[p].puts = <<>> /\ loc'[p].put = "check"
    BY <1>1, <1>2, <1>3, <1>7, <2>1, <2>3, Quiet, Zenon DEF Local, Updated, Fields, Alone
  <2>5. Quietly(p)
    BY <1>1, <1>3, <1>7, <2>2, <2>3, <2>4, PutsAre DEF Quietly, Owing, Firm, Besides, WithIp, AtCur, AtIp
  <2>6. Underway(p, disk, loc'[p], cwd'[p], ops')
    BY <1>3, <1>4, <1>5, <2>3, <2>4 DEF Underway, Owing, ToName
  <2> QED  BY <1>3, <2>4, <2>5, <2>6, LinksQuiet, Zenon
<1>8. CASE /\ Local(p, [call |-> c, left |-> c.n, pc |-> "write"])
           /\ UNCHANGED ofile
  <2>4. /\ Alone(p) /\ DOMAIN loc'[p] = Fields
        /\ loc'[p].pc = "write" /\ loc'[p].rest = <<>>
        /\ loc'[p].puts = <<>> /\ loc'[p].put = "check"
    BY <1>1, <1>2, <1>3, <1>8, Quiet, Zenon DEF Local, Updated, Fields, Alone
  <2>5. Quietly(p)
    BY <1>1, <1>3, <1>8, <2>4, PutsAre DEF Quietly, Owing, Firm, Besides, WithIp, AtCur, AtIp
  <2>6. Underway(p, disk, loc'[p], cwd'[p], ops')
    BY <1>3, <1>5, <2>4 DEF Underway, Owing, ToName
  <2> QED  BY <1>3, <2>4, <2>5, <2>6, LinksQuiet, Zenon
<1>9. CASE /\ ofile[p] # NoFile
           /\ Local(p, [call |-> c, puts |-> <<ofile[p].ip>>, pc |-> "end"])
           /\ ofile' = [ofile EXCEPT ![p] = NoFile]
  <2>3. ofile' \in [Proc -> Files] /\ ofile'[p] = NoFile /\ \A q \in Proc \ {p} : ofile'[q] = ofile[q]
    <3>1. NoFile \in Files
      BY Constants DEF NoFile, Files
    <3> QED  BY <1>9, <3>1, Quiet
  <2>4. /\ Alone(p) /\ DOMAIN loc'[p] = Fields
        /\ loc'[p].pc = "end" /\ loc'[p].rest = <<>>
        /\ loc'[p].puts = <<ofile[p].ip>> /\ loc'[p].put = "check"
    BY <1>1, <1>2, <1>3, <1>9, <2>3, Quiet DEF Local, Updated, Fields, Alone
  <2>5. Quietly(p)
    BY <1>1, <1>3, <1>9, <2>3, <2>4, PutsAre DEF Quietly, Owing, Firm, Besides, WithIp, AtCur, AtIp
  <2>6. Underway(p, disk, loc'[p], cwd'[p], ops')
    BY <1>3, <1>5, <2>4 DEF Underway, Owing, ToName
  <2> QED  BY <1>3, <2>4, <2>5, <2>6, LinksQuiet, Zenon
<1> QED  BY <1>7, <1>8, <1>9, ZenonT(30) DEF Begin

\* iput drops a pointer.
LEMMA PutDropLinks ==
  ASSUME IInv, LInv, NEW p \in Proc, PutDrop(p)
  PROVE  LInv'
<1>1. /\ MineTyped(p, loc[p], ofile[p], cwd[p], lock) /\ DOMAIN loc = Proc /\ DOMAIN loc[p] = Fields
      /\ Underway(p, disk, loc[p], cwd[p], ops)
  BY Mine DEF MineTyped, LocTyped, LInv, Relies
<1>2. /\ Alone(p) /\ DOMAIN loc'[p] = Fields
      /\ loc'[p].pc = loc[p].pc /\ loc'[p].call = loc[p].call /\ loc'[p].rest = loc[p].rest
      /\ loc'[p].want = loc[p].want /\ loc'[p].cur = loc[p].cur /\ loc'[p].ip = loc[p].ip
      /\ loc'[p].puts = Tail(loc[p].puts) /\ loc'[p].put = "check"
  BY <1>1, Quiet DEF PutDrop, Local, Updated, Fields, Alone
<1>3. /\ disk' = disk /\ committed' = committed /\ ops' = ops
      /\ ofile' = ofile /\ cwd' = cwd /\ loc[p].puts # <<>>
  BY DEF PutDrop, Putting
<1>4. \A n \in DOMAIN loc'[p].puts : n + 1 \in DOMAIN loc[p].puts \ {1} /\ loc'[p].puts[n] = loc[p].puts[n + 1]
  BY <1>1, <1>2, <1>3 DEF MineTyped, LocTyped
<1>5. loc'[p].puts # <<>> => 1 \in DOMAIN loc'[p].puts /\ Head(loc'[p].puts) = loc'[p].puts[1]
  BY <1>1, <1>2, <1>3 DEF MineTyped, LocTyped
<1>6. Firm(loc'[p], ofile'[p], cwd'[p]) \subseteq Besides(loc[p], ofile[p], cwd[p])
  <2>1. ASSUME NEW i \in Inum, NEW n \in DOMAIN loc'[p].puts, loc'[p].puts[n] = i
        PROVE  \E m \in DOMAIN loc[p].puts \ {1} : loc[p].puts[m] = i
    BY <1>4, <2>1
  <2> QED  BY <1>2, <1>3, <1>5, <2>1 DEF Firm, Besides, WithIp
<1>7. Quietly(p)
  BY <1>2, <1>6 DEF Quietly, Owing, Firm
<1>8. Underway(p, disk, loc'[p], cwd'[p], ops')
  BY <1>1, <1>2, <1>3 DEF Underway, Owing
<1> QED  BY <1>2, <1>3, <1>7, <1>8, LinksQuiet

\* One step of a walk: what a directory names has a use.
LEMMA NamexLinks ==
  ASSUME IInv, LInv, NEW p \in Proc, Namex(p)
  PROVE  LInv'
<1>1. /\ LocTyped(loc[p]) /\ FileTyped(loc[p], ofile[p]) /\ LocHolds(p, loc[p], lock)
      /\ cwd[p] \in Inum /\ ofile[p] \in Files /\ DOMAIN loc = Proc /\ DOMAIN loc[p] = Fields
      /\ loc[p].pc = "namex" /\ loc[p].puts = <<>> /\ loc[p].put = "check"
      /\ Underway(p, disk, loc[p], cwd[p], ops)
  BY LinksAt DEF Namex
<1>2. PICK i \in Inum : i = loc[p].cur
  BY <1>1 DEF LocTyped, AtCur
<1>3. /\ disk' = disk /\ committed' = committed /\ cwd' = cwd /\ ofile' = ofile
      /\ ops' = ops /\ ops \ {p} \subseteq ops'
  BY Quiet DEF Namex
<1>5. /\ loc[p].want \in Wanted \ {"end"} /\ loc[p].rest \in Seq(AllNames)
  BY <1>1 DEF LocTyped
<1> DEFINE path == loc[p].rest
           next == disk.dir[i][Head(path)]
           There == Local(p, [pc |-> loc[p].want])
           Deeper == Local(p, [cur |-> next, rest |-> Tail(path), puts |-> <<i>>])
<1>7. \/ GiveUp(p)
      \/ There /\ (loc[p].want \in ToName => disk.inode[i].type = "dir")
      \/ Deeper /\ next # 0 /\ path # <<>>
  <2>1. Found(i) = disk.inode[i]
    BY FoundIs, Quiet
  <2>2. CASE path = <<>>
    <3>1. /\ GiveUp(p) \/ Local(p, [pc |-> loc[p].want])
          /\ loc[p].want \in OfParent => GiveUp(p)
      BY <2>2 DEF Namex
    <3>2. loc[p].want \notin OfParent => loc[p].want \notin ToName
      BY <1>5, SMTT(30) DEF OfParent, ToName, Wanted
    <3> QED  BY <3>1, <3>2
  <2>3. CASE path # <<>>
    BY <1>2, <2>1, <2>3, SMTT(30) DEF Namex
  <2> QED  BY <2>2, <2>3
<1>10. CASE GiveUp(p)
  <2>1. PICK pc \in {"undo", "end"} : pc = IF loc[p].want = "linknew" THEN "undo" ELSE "end"
    OBVIOUS
  <2>2. /\ Alone(p) /\ DOMAIN loc'[p] = Fields
        /\ loc'[p].pc = pc /\ loc'[p].rest = loc[p].rest
        /\ loc'[p].want = loc[p].want /\ loc'[p].cur = loc[p].cur /\ loc'[p].ip = loc[p].ip
        /\ loc'[p].puts = <<i>> /\ loc'[p].put = "check"
    BY <1>1, <1>2, <1>3, <1>10, <2>1, Quiet, Zenon DEF GiveUp, Local, Updated, Fields, Alone
  <2>5. Quietly(p)
    BY <1>1, <1>2, <1>3, <2>1, <2>2, PutsAre DEF Quietly, Owing, Firm, Besides, WithIp, AtCur, AtIp
  <2>6. Underway(p, disk, loc'[p], cwd'[p], ops')
    BY <1>1, <1>3, <2>1, <2>2 DEF Underway, Owing, ToName
  <2> QED  BY <1>3, <2>2, <2>5, <2>6, LinksQuiet
<1>11. CASE There /\ (loc[p].want \in ToName => disk.inode[i].type = "dir")
  <2>1. PICK pc \in Wanted \ {"end"} : pc = loc[p].want
    BY <1>5
  <2>2. /\ Alone(p) /\ DOMAIN loc'[p] = Fields
        /\ loc'[p].pc = pc /\ loc'[p].rest = loc[p].rest
        /\ loc'[p].want = loc[p].want /\ loc'[p].cur = i /\ loc'[p].ip = loc[p].ip
        /\ loc'[p].puts = <<>> /\ loc'[p].put = "check"
    BY <1>1, <1>2, <1>3, <1>11, <2>1, Quiet, Zenon DEF Local, Updated, Fields, Alone
  <2>5. Quietly(p)
    BY <1>1, <1>2, <1>3, <2>1, <2>2, PutsAre DEF Quietly, Owing, Firm, Besides, WithIp, AtCur, AtIp, Wanted
  <2>6. Underway(p, disk, loc'[p], cwd'[p], ops')
    BY <1>1, <1>3, <1>11, <2>1, <2>2 DEF Underway, Owing, ToName, Wanted
  <2> QED  BY <1>3, <2>2, <2>5, <2>6, LinksQuiet
<1>12. CASE Deeper /\ next # 0 /\ path # <<>>
  <2>1. Head(path) \in AllNames /\ Head(path) # ".." /\ path # <<>>
    <3>1. Head(path) \in AllNames /\ Head(path) = path[1] /\ 1 \in DOMAIN path
      BY <1>5, <1>12, SMTT(30)
    <3> QED  BY <1>1, <1>12, <3>1 DEF Underway
  <2>2. PICK n \in Inum : n = next /\ (n = i \/ Uses(disk, Owed(loc), n) # {})
    BY <1>12, <2>1, NamedIsUsed
  <2>3. /\ Alone(p) /\ DOMAIN loc'[p] = Fields
        /\ loc'[p].pc = "namex" /\ loc'[p].rest = Tail(loc[p].rest)
        /\ loc'[p].want = loc[p].want /\ loc'[p].cur = n /\ loc'[p].ip = loc[p].ip
        /\ loc'[p].puts = <<i>> /\ loc'[p].put = "check"
    BY <1>1, <1>3, <1>12, <2>2, Quiet, ZenonT(30) DEF Local, Updated, Fields, Alone
  <2>4. Quietly(p)
    <3>1. /\ Owing(loc'[p]) => Owing(loc[p]) /\ loc'[p].ip = loc[p].ip
          /\ loc'[p].pc # "create2" /\ loc[p].pc # "create2" /\ loc'[p].put # "free"
      BY <1>1, <2>3 DEF Owing
    <3>2. WithIp(loc'[p]) <=> WithIp(loc[p])
      BY <1>1, <2>3 DEF WithIp, AtIp
    <3>3. Head(loc'[p].puts) = i /\ DOMAIN loc'[p].puts \ {1} = {}
      BY <2>3, PutsAre
    <3>4. i \in Besides(loc[p], ofile[p], cwd[p])
      BY <1>1, <1>2 DEF Besides, AtCur
    <3>5. ASSUME NEW m \in Firm(loc'[p], ofile'[p], cwd'[p]), m # i, m # n
          PROVE  m \in Besides(loc[p], ofile[p], cwd[p])
      BY <1>1, <1>3, <2>3, <3>2, <3>3, <3>5 DEF Firm, Besides
    <3> QED  BY <2>2, <3>1, <3>4, <3>5 DEF Quietly, Firm
  <2>5. \A m \in DOMAIN loc'[p].rest : loc'[p].rest[m] # ".."
    <3>1. ASSUME NEW m \in DOMAIN Tail(path) PROVE Tail(path)[m] # ".."
      <4>1. m + 1 \in DOMAIN path /\ Tail(path)[m] = path[m + 1]
        BY <1>5, <2>1, <3>1
      <4> QED  BY <1>1, <4>1 DEF Underway
    <3> QED  BY <2>3, <3>1
  <2>6. Underway(p, disk, loc'[p], cwd'[p], ops')
    BY <1>1, <1>3, <2>3, <2>5 DEF Underway, Owing, ToName
  <2> QED  BY <1>3, <2>3, <2>4, <2>6, LinksQuiet
<1> QED  BY <1>7, <1>10, <1>11, <1>12

\* sys_open of what is there.
LEMMA OpenLinks ==
  ASSUME IInv, LInv, NEW p \in Proc, Open(p)
  PROVE  LInv'
<1>1. /\ LocTyped(loc[p]) /\ FileTyped(loc[p], ofile[p]) /\ LocHolds(p, loc[p], lock)
      /\ cwd[p] \in Inum /\ ofile[p] \in Files /\ DOMAIN loc = Proc /\ DOMAIN loc[p] = Fields
      /\ loc[p].pc = "open" /\ loc[p].puts = <<>> /\ loc[p].put = "check"
      /\ Underway(p, disk, loc[p], cwd[p], ops)
  BY LinksAt DEF Open, Under
<1>2. PICK i \in Inum : i = loc[p].cur
  BY <1>1 DEF LocTyped, AtCur
<1>3. /\ disk' = disk /\ committed' = committed /\ cwd' = cwd /\ ops' = ops /\ ops \ {p} \subseteq ops'
  BY DEF Open
<1>4. PICK s, w :
               /\ w \in BOOLEAN
               /\ s = <<>> \/ s = <<i>>
               /\ \/ Local(p, [puts |-> <<i>>, pc |-> "end"]) /\ ofile' = ofile /\ s = <<i>>
                  \/ /\ Local(p, [pc |-> "end"]) /\ ofile' = [ofile EXCEPT ![p] = [ip |-> i, off |-> 0, writable |-> w]]
                     /\ s = <<>>
  <2>1. (loc[p].call.op = "open") \in BOOLEAN
    OBVIOUS
  <2> QED  BY <1>2, <2>1 DEF Open
<1>5. /\ ofile' \in [Proc -> Files] /\ \A q \in Proc \ {p} : ofile'[q] = ofile[q]
      /\ ofile'[p] = ofile[p] \/ ofile'[p].ip = i
  <2>1. 0 \in 0 .. MAXFILE /\ i \in Inum \cup {0}
    BY Constants
  <2>2. [ip |-> i, off |-> 0, writable |-> w] \in Files
    BY <1>4, <2>1 DEF Files
  <2> QED  BY <1>4, <2>2, Quiet
<1>6. /\ Alone(p) /\ DOMAIN loc'[p] = Fields
      /\ loc'[p].pc = "end" /\ loc'[p].rest = loc[p].rest
      /\ loc'[p].puts = s /\ loc'[p].put = "check"
  BY <1>1, <1>2, <1>3, <1>4, <1>5, Quiet DEF Local, Updated, Fields, Alone
<1>7. Quietly(p)
  BY <1>1, <1>2, <1>3, <1>4, <1>5, <1>6, PutsAre DEF Quietly, Owing, Firm, Besides, WithIp, AtCur, AtIp
<1>8. Underway(p, disk, loc'[p], cwd'[p], ops')
  BY <1>1, <1>3, <1>6 DEF Underway, Owing, ToName
<1> QED  BY <1>3, <1>6, <1>7, <1>8, LinksQuiet

\* sys_chdir: where p goes is a directory.
LEMMA ChdirLinks ==
  ASSUME IInv, LInv, NEW p \in Proc, Chdir(p)
  PROVE  LInv'
<1>1. /\ LocTyped(loc[p]) /\ FileTyped(loc[p], ofile[p]) /\ LocHolds(p, loc[p], lock)
      /\ cwd[p] \in Inum /\ ofile[p] \in Files /\ DOMAIN loc = Proc /\ DOMAIN loc[p] = Fields
      /\ loc[p].pc = "chdir" /\ loc[p].puts = <<>> /\ loc[p].put = "check"
      /\ Underway(p, disk, loc[p], cwd[p], ops)
  BY LinksAt DEF Chdir, Under
<1>2. PICK i \in Inum : i = loc[p].cur
  BY <1>1 DEF LocTyped, AtCur
<1>3. /\ disk' = disk /\ committed' = committed /\ cwd' = cwd /\ ofile' = ofile
      /\ ops' = ops /\ ops \ {p} \subseteq ops'
  BY DEF Chdir, Rest1
<1>4. PICK ok \in BOOLEAN : ok <=> disk.inode[i].type = "dir"
  BY Zenon
<1>5. PICK k, pc : k \in Inum /\ k = (IF ok THEN cwd[p] ELSE i) /\ pc = (IF ok THEN "moved" ELSE "end")
  BY <1>1, Zenon
<1>6. Local(p, [puts |-> <<k>>, pc |-> pc])
  <2>1. Found(i) = disk.inode[i]
    BY FoundIs, Quiet
  <2> QED  BY <1>2, <1>4, <1>5, <2>1 DEF Chdir
<1>7. /\ Alone(p) /\ DOMAIN loc'[p] = Fields
      /\ loc'[p].pc = pc /\ loc'[p].rest = loc[p].rest /\ loc'[p].cur = i
      /\ loc'[p].puts = <<k>> /\ loc'[p].put = "check"
  BY <1>1, <1>2, <1>3, <1>6, Quiet, Zenon DEF Local, Updated, Fields, Alone
<1>8. Quietly(p)
  BY <1>1, <1>2, <1>3, <1>5, <1>7, PutsAre DEF Quietly, Owing, Firm, Besides, WithIp, AtCur, AtIp
<1>9. Underway(p, disk, loc'[p], cwd'[p], ops')
  BY <1>1, <1>3, <1>4, <1>5, <1>7 DEF Underway, Owing, ToName
<1> QED  BY <1>3, <1>7, <1>8, <1>9, LinksQuiet

\* The rest of sys_open, sys_mkdir and sys_mknod.
LEMMA MadeLinks ==
  ASSUME IInv, LInv, NEW p \in Proc, Made(p)
  PROVE  LInv'
<1>1. /\ LocTyped(loc[p]) /\ FileTyped(loc[p], ofile[p]) /\ LocHolds(p, loc[p], lock)
      /\ cwd[p] \in Inum /\ ofile[p] \in Files /\ DOMAIN loc = Proc /\ DOMAIN loc[p] = Fields
      /\ loc[p].pc = "made" /\ loc[p].puts = <<>> /\ loc[p].put = "check"
      /\ Underway(p, disk, loc[p], cwd[p], ops)
  BY LinksAt DEF Made
<1>2. PICK i \in Inum : i = loc[p].ip
  BY <1>1 DEF LocTyped, AtIp
<1>3. /\ disk' = disk /\ committed' = committed /\ cwd' = cwd /\ ops' = ops /\ ops \ {p} \subseteq ops'
  BY DEF Made
<1>4. PICK s : /\ s = <<>> \/ s = <<i>>
               /\ \/ Local(p, [puts |-> <<i>>, pc |-> "end"]) /\ ofile' = ofile /\ s = <<i>>
                  \/ /\ Local(p, [pc |-> "end"]) /\ ofile' = [ofile EXCEPT ![p] = [ip |-> i, off |-> 0, writable |-> TRUE]]
                     /\ s = <<>>
  BY <1>2 DEF Made
<1>5. /\ ofile' \in [Proc -> Files] /\ \A q \in Proc \ {p} : ofile'[q] = ofile[q]
      /\ ofile'[p] = ofile[p] \/ ofile'[p].ip = i
  <2>1. 0 \in 0 .. MAXFILE /\ i \in Inum \cup {0}
    BY Constants
  <2>2. PICK f \in Files : f = [ip |-> i, off |-> 0, writable |-> TRUE]
    <3>1. [ip |-> i, off |-> 0, writable |-> TRUE] \in Files
      BY <2>1 DEF Files
    <3> QED  BY <3>1
  <2>3. f.ip = i
    BY <2>2
  <2>4. ofile' = ofile \/ ofile' = [ofile EXCEPT ![p] = f]
    BY <1>4, <2>2
  <2> QED  BY <2>3, <2>4, Quiet
<1>6. /\ Alone(p) /\ DOMAIN loc'[p] = Fields
      /\ loc'[p].pc = "end" /\ loc'[p].rest = loc[p].rest
      /\ loc'[p].puts = s /\ loc'[p].put = "check"
  BY <1>1, <1>2, <1>3, <1>4, <1>5, Quiet DEF Local, Updated, Fields, Alone
<1>7. Quietly(p)
  BY <1>1, <1>2, <1>3, <1>4, <1>5, <1>6, PutsAre DEF Quietly, Owing, Firm, Besides, WithIp, AtCur, AtIp
<1>8. Underway(p, disk, loc'[p], cwd'[p], ops')
  BY <1>1, <1>3, <1>6 DEF Underway, Owing, ToName
<1> QED  BY <1>3, <1>6, <1>7, <1>8, LinksQuiet

\* Reads, further chunks of a write, and steps that stutter here.
LEMMA ReadLinks ==
  ASSUME IInv, LInv, NEW p \in Proc, Read(p)
  PROVE  LInv'
<1>1. /\ LocTyped(loc[p]) /\ FileTyped(loc[p], ofile[p]) /\ LocHolds(p, loc[p], lock)
      /\ cwd[p] \in Inum /\ ofile[p] \in Files /\ DOMAIN loc = Proc /\ DOMAIN loc[p] = Fields
      /\ loc[p].pc = "idle" /\ loc[p].puts = <<>> /\ loc[p].put = "check"
      /\ Underway(p, disk, loc[p], cwd[p], ops)
  BY LinksAt DEF Read
<1>2. /\ disk' = disk /\ committed' = committed /\ cwd' = cwd /\ ops' = ops /\ ops \ {p} \subseteq ops'
      /\ loc' = loc /\ ofile[p] # NoFile /\ ofile' = [ofile EXCEPT ![p].off = @ + 1]
  BY DEF Read
<1>3. Alone(p)
  <2>1. IInv'
    BY ReadKeeps
  <2>2. \A q \in Proc \ {p} : ofile'[q] = ofile[q]
    BY <1>2, Quiet
  <2> QED  BY <1>1, <1>2, <2>1, <2>2 DEF Alone, IInv, Typed
<1>4. ofile'[p].ip = ofile[p].ip
  BY <1>1, <1>2, Quiet DEF Files
<1>5. Quietly(p)
  BY <1>1, <1>2, <1>4 DEF Quietly, Owing, Firm, Besides
<1> QED  BY <1>1, <1>2, <1>3, <1>5, LinksQuiet

\* filewrite's next transaction.
LEMMA MoreLinks ==
  ASSUME IInv, LInv, NEW p \in Proc, More(p)
  PROVE  LInv'
<1>1. /\ LocTyped(loc[p]) /\ FileTyped(loc[p], ofile[p]) /\ LocHolds(p, loc[p], lock)
      /\ cwd[p] \in Inum /\ ofile[p] \in Files /\ DOMAIN loc = Proc /\ DOMAIN loc[p] = Fields
      /\ loc[p].pc = "more" /\ loc[p].puts = <<>> /\ loc[p].put = "check"
      /\ Underway(p, disk, loc[p], cwd[p], ops)
  BY LinksAt DEF More
<1>2. /\ disk' = disk /\ committed' = committed /\ cwd' = cwd /\ ofile' = ofile
      /\ ops' = ops \cup {p} /\ ops \ {p} \subseteq ops'
  BY DEF More
<1>3. /\ Alone(p) /\ DOMAIN loc'[p] = Fields
      /\ loc'[p].pc = "write" /\ loc'[p].rest = loc[p].rest
      /\ loc'[p].puts = <<>> /\ loc'[p].put = "check"
  BY <1>1, <1>2, Quiet DEF More, Local, Updated, Fields, Alone
<1>4. Quietly(p)
  BY <1>1, <1>2, <1>3, PutsAre DEF Quietly, Owing, Firm, Besides, WithIp, AtCur, AtIp
<1>5. Underway(p, disk, loc'[p], cwd'[p], ops')
  BY <1>1, <1>2, <1>3 DEF Underway, Owing, ToName
<1> QED  BY <1>2, <1>3, <1>4, <1>5, LinksQuiet, Zenon

\* The rest of the state has nothing to do with links.
LEMMA UnchangedLinks ==
  ASSUME LInv, UNCHANGED <<disk, committed, ops, ofile, cwd, loc>>
  PROVE  LInv'
<1>0. Treelike(disk', Owed(loc'), Making(loc')) /\ Treelike(committed', NobodyOwes, {})
  BY DEF LInv
<1>1. Treelike(disk, Owed(loc), Making(loc))' /\ Treelike(committed, NobodyOwes, {})'
  BY <1>0, Zenon DEF Treelike, Backed, KidsKnow, DirsKnow, RootThere, IsKid, Uses, NobodyOwes
<1>2. ParentlessPaths'
  BY DEF LInv, ParentlessPaths
<1>3. (\A p \in Proc : Relies(p, disk, loc[p], ofile[p], cwd[p], ops))'
  BY DEF LInv
<1>4. OwnsAlone'
  BY DEF LInv, OwnsAlone
<1> QED  BY <1>1, <1>2, <1>3, <1>4 DEF LInv

\* The directory is put where a name was there already, or was not to be removed.
LEMMA BadLinks ==
  ASSUME IInv, LInv, NEW p \in Proc, LinkFail(p) \/ UnlinkBad(p)
  PROVE  LInv'
<1>0. PICK pc, then : /\ Bad(p, pc, then)
                      /\ (pc = "linkfail" /\ then = "undo") \/ (pc = "unlinkbad" /\ then = "end")
  BY DEF LinkFail, UnlinkBad
<1>1. /\ LocTyped(loc[p]) /\ FileTyped(loc[p], ofile[p]) /\ LocHolds(p, loc[p], lock)
      /\ cwd[p] \in Inum /\ ofile[p] \in Files /\ DOMAIN loc = Proc /\ DOMAIN loc[p] = Fields
      /\ loc[p].pc = pc /\ loc[p].puts = <<>> /\ loc[p].put = "check"
      /\ Underway(p, disk, loc[p], cwd[p], ops)
  BY <1>0, LinksAt DEF Bad
<1>2. PICK i \in Inum : i = loc[p].cur
  BY <1>0, <1>1 DEF LocTyped, AtCur
<1>3. /\ disk' = disk /\ committed' = committed /\ cwd' = cwd /\ ofile' = ofile
      /\ ops' = ops /\ ops \ {p} \subseteq ops'
  BY <1>0 DEF Bad, Rest1
<1>4. /\ Alone(p) /\ DOMAIN loc'[p] = Fields
      /\ loc'[p].pc = then /\ loc'[p].rest = loc[p].rest /\ loc'[p].ip = loc[p].ip
      /\ loc'[p].puts = <<i>> /\ loc'[p].put = "check"
  BY <1>0, <1>1, <1>2, <1>3, Quiet DEF Bad, Local, Updated, Fields, Alone
<1>5. Quietly(p)
  BY <1>0, <1>1, <1>2, <1>3, <1>4, PutsAre DEF Quietly, Owing, Firm, Besides, WithIp, AtCur, AtIp
<1>6. Underway(p, disk, loc'[p], cwd'[p], ops')
  BY <1>0, <1>1, <1>3, <1>4 DEF Underway, Owing, ToName
<1> QED  BY <1>3, <1>4, <1>5, <1>6, LinksQuiet

\* create finds the name there.
LEMMA CreateExistsLinks ==
  ASSUME IInv, LInv, NEW p \in Proc, CreateExists(p)
  PROVE  LInv'
<1>1. /\ LocTyped(loc[p]) /\ FileTyped(loc[p], ofile[p]) /\ LocHolds(p, loc[p], lock)
      /\ cwd[p] \in Inum /\ ofile[p] \in Files /\ DOMAIN loc = Proc /\ DOMAIN loc[p] = Fields
      /\ loc[p].pc = "exists" /\ loc[p].puts = <<>> /\ loc[p].put = "check"
      /\ Underway(p, disk, loc[p], cwd[p], ops)
  BY LinksAt DEF CreateExists, Under
<1>2. PICK i \in Inum : i = loc[p].ip
  BY <1>1 DEF LocTyped, AtIp
<1>3. /\ disk' = disk /\ committed' = committed /\ cwd' = cwd /\ ofile' = ofile
      /\ ops' = ops /\ ops \ {p} \subseteq ops'
  BY DEF CreateExists, Rest1
<1>4. PICK s, pc : \/ s = <<>> /\ pc = "made" /\ Local(p, [pc |-> "made"])
                   \/ s = <<i>> /\ pc = "end" /\ Local(p, [puts |-> <<i>>, pc |-> "end"])
  BY <1>2 DEF CreateExists
<1>5. /\ Alone(p) /\ DOMAIN loc'[p] = Fields
      /\ loc'[p].pc = pc /\ loc'[p].rest = loc[p].rest /\ loc'[p].ip = i
      /\ loc'[p].puts = s /\ loc'[p].put = "check"
  BY <1>1, <1>2, <1>3, <1>4, Quiet DEF Local, Updated, Fields, Alone
<1>6. Quietly(p)
  BY <1>1, <1>2, <1>3, <1>4, <1>5, PutsAre DEF Quietly, Owing, Firm, Besides, WithIp, AtCur, AtIp
<1>7. Underway(p, disk, loc'[p], cwd'[p], ops')
  BY <1>1, <1>3, <1>4, <1>5 DEF Underway, Owing, ToName
<1> QED  BY <1>3, <1>5, <1>6, <1>7, LinksQuiet

\* sys_unlink finds the name: neither "." nor "..".
LEMMA UnlinkLinks ==
  ASSUME IInv, LInv, NEW p \in Proc, Unlink(p)
  PROVE  LInv'
<1>1. /\ LocTyped(loc[p]) /\ FileTyped(loc[p], ofile[p]) /\ LocHolds(p, loc[p], lock)
      /\ cwd[p] \in Inum /\ ofile[p] \in Files /\ DOMAIN loc = Proc /\ DOMAIN loc[p] = Fields
      /\ loc[p].pc = "unlink" /\ loc[p].puts = <<>> /\ loc[p].put = "check"
      /\ Underway(p, disk, loc[p], cwd[p], ops)
  BY LinksAt DEF Unlink, Under
<1>2. PICK dp \in Inum : dp = loc[p].cur
  BY <1>1 DEF LocTyped, AtCur
<1>3. /\ disk' = disk /\ committed' = committed /\ cwd' = cwd /\ ofile' = ofile
      /\ ops' = ops /\ ops \ {p} \subseteq ops'
  BY DEF Unlink, Rest1
<1>4. PICK x \in AllNames, k \in Inum \cup {0} : x = Name(p) /\ k = disk.dir[dp][x]
  <2>1. Head(loc[p].rest) \in AllNames /\ disk.dir[dp][Head(loc[p].rest)] \in Inum \cup {0}
    BY <1>1, NameIs, Quiet DEF ToName
  <2> QED  BY <2>1 DEF Name
<1>5. \/ Local(p, [puts |-> <<dp>>, pc |-> "end"])
      \/ x \notin {".", ".."} /\ k # 0 /\ Local(p, [ip |-> k, pc |-> "unlink2"])
  BY <1>2, <1>4 DEF Unlink
<1>6. CASE Local(p, [puts |-> <<dp>>, pc |-> "end"])
  <2>1. /\ Alone(p) /\ DOMAIN loc'[p] = Fields
        /\ loc'[p].pc = "end" /\ loc'[p].rest = loc[p].rest
        /\ loc'[p].puts = <<dp>> /\ loc'[p].put = "check"
    BY <1>1, <1>2, <1>3, <1>6, Quiet, Zenon DEF Local, Updated, Fields, Alone
  <2>2. Quietly(p)
    BY <1>1, <1>2, <1>3, <2>1, PutsAre DEF Quietly, Owing, Firm, Besides, WithIp, AtCur, AtIp
  <2>3. Underway(p, disk, loc'[p], cwd'[p], ops')
    BY <1>1, <1>3, <2>1 DEF Underway, Owing, ToName
  <2> QED  BY <1>3, <2>1, <2>2, <2>3, LinksQuiet
<1>7. CASE x \notin {".", ".."} /\ k # 0 /\ Local(p, [ip |-> k, pc |-> "unlink2"])
  <2>1. /\ Alone(p) /\ DOMAIN loc'[p] = Fields
        /\ loc'[p].pc = "unlink2" /\ loc'[p].rest = loc[p].rest /\ loc'[p].cur = dp /\ loc'[p].ip = k
        /\ loc'[p].puts = <<>> /\ loc'[p].put = "check"
    BY <1>1, <1>2, <1>3, <1>7, Quiet, Zenon DEF Local, Updated, Fields, Alone
  <2>2. x \in Names /\ Uses(disk, Owed(loc), k) # {}
    BY <1>4, <1>7, NamedIsUsed DEF AllNames
  <2>3. Quietly(p)
    BY <1>1, <1>2, <1>3, <2>1, <2>2, PutsAre DEF Quietly, Owing, Firm, Besides, WithIp, AtCur, AtIp
  <2>4. Underway(p, disk, loc'[p], cwd'[p], ops')
    BY <1>1, <1>2, <1>3, <1>4, <2>1, <2>2, Zenon DEF Underway, Owing, ToName, Name
  <2> QED  BY <1>3, <2>1, <2>3, <2>4, LinksQuiet
<1> QED  BY <1>5, <1>6, <1>7

-----------------------------------------------------------------------------
\* iput's look at the counts, the end of a transaction, and writes.

\* A pointer among those to be put counts.
LEMMA CountHas ==
  ASSUME NEW s \in Seq(Inum), NEW n \in DOMAIN s
  PROVE  Count(s, s[n]) \in Nat /\ Count(s, s[n]) >= 1
<1> DEFINE S == {m \in DOMAIN s : s[m] = s[n]}
<1>1. Cardinality(S) \in Nat /\ IsFiniteSet(S)
  <2>1. IsFiniteSet(1 .. Len(s))
    BY FS_Interval
  <2>2. S \subseteq 1 .. Len(s)
    OBVIOUS
  <2> QED  BY <2>1, <2>2, FS_Subset, FS_CardinalityType
<1>2. S # {}
  OBVIOUS
<1> HIDE DEF S
<1>3. Cardinality(S) # 0
  BY <1>1, <1>2, FS_EmptySet
<1>4. Cardinality(S) >= 1
  BY <1>1, <1>3
<1> QED  BY <1>1, <1>4 DEF Count, S

\* Whoever points to i has a pointer that ref counts; and two, if it points to i beside the
\* pointer that it puts.
LEMMA FirmCounts ==
  ASSUME NEW l, NEW f, NEW c \in Inum, LocTyped(l), FileTyped(l, f), NEW i \in Inum
  PROVE  /\ i \in Firm(l, f, c) => Points(l, f, c, i) >= 1
         /\ l.puts # <<>> /\ Head(l.puts) = i => Points(l, f, c, i) >= 1
         /\ l.puts # <<>> /\ Head(l.puts) = i /\ i \in Besides(l, f, c) => Points(l, f, c, i) >= 2
<1>1. PICK n, a, b, g, h :
        /\ n = Count(l.puts, i) /\ a = One(l.pc \in AtCur /\ l.cur = i) /\ b = One(WithIp(l) /\ l.ip = i)
        /\ g = One(f # NoFile /\ f.ip = i) /\ h = One(l.pc # "moved" /\ c = i)
  OBVIOUS
<1>2. n \in Nat /\ a \in 0 .. 1 /\ b \in 0 .. 1 /\ g \in 0 .. 1 /\ h \in 0 .. 1
  <2>1. n \in Nat
    BY <1>1, CountOne, Constants, Zenon DEF LocTyped
  <2> QED  BY <1>1, <2>1 DEF One
<1>3. Points(l, f, c, i) = n + a + b + g + h
  BY <1>1 DEF Points, WithIp
<1>4. ASSUME NEW m \in DOMAIN l.puts \ {1}, l.puts[m] = i
      PROVE  n >= 1 /\ (Head(l.puts) = i => n >= 2)
  <2>1. PICK s \in Seq(Inum) : s = l.puts /\ Len(s) <= 2 /\ s # <<>>
    BY <1>4 DEF LocTyped
  <2>2. n >= 1
    BY <1>1, <1>4, CountHas DEF LocTyped
  <2>3. Tail(s) \in Seq(Inum) /\ n = One(Head(s) = i) + Count(Tail(s), i)
    BY <1>1, <2>1, CountTail
  <2>4. m - 1 \in DOMAIN Tail(s) /\ Tail(s)[m - 1] = i
    BY <1>4, <2>1
  <2>5. Count(Tail(s), i) \in Nat /\ Count(Tail(s), i) >= 1
    BY <2>3, <2>4, CountHas, Zenon
  <2> QED  BY <2>1, <2>2, <2>3, <2>5 DEF One
<1>5. l.puts # <<>> /\ Head(l.puts) = i => n >= 1
  <2> SUFFICES ASSUME l.puts # <<>>, Head(l.puts) = i PROVE n >= 1
    OBVIOUS
  <2>1. 1 \in DOMAIN l.puts /\ l.puts[1] = i /\ l.puts \in Seq(Inum)
    BY DEF LocTyped
  <2> QED  BY <1>1, <2>1, CountHas
<1>6. i \in Besides(l, f, c) =>
        \/ \E m \in DOMAIN l.puts \ {1} : l.puts[m] = i
        \/ a = 1 \/ b = 1 \/ g = 1 \/ h = 1
  BY <1>1 DEF Besides, One
<1>7. i \in Besides(l, f, c) => n >= 1 \/ a = 1 \/ b = 1 \/ g = 1 \/ h = 1
  BY <1>4, <1>6
<1>8. l.puts # <<>> /\ Head(l.puts) = i /\ i \in Besides(l, f, c) =>
        n >= 2 \/ (n >= 1 /\ (a = 1 \/ b = 1 \/ g = 1 \/ h = 1))
  BY <1>4, <1>5, <1>6
<1>9. i \in Firm(l, f, c) => n >= 1 \/ a = 1 \/ b = 1 \/ g = 1 \/ h = 1
  BY <1>5, <1>7 DEF Firm
<1>10. l.puts # <<>> /\ Head(l.puts) = i => n + a + b + g + h >= 1
  BY <1>2, <1>5
<1>11. l.puts # <<>> /\ Head(l.puts) = i /\ i \in Besides(l, f, c) => n + a + b + g + h >= 2
  BY <1>2, <1>8
<1>12. i \in Firm(l, f, c) => n + a + b + g + h >= 1
  BY <1>2, <1>9
<1> QED  BY <1>3, <1>10, <1>11, <1>12

\* iput frees an inode without links to which only this one pointer points.
LEMMA PutCheckLinks ==
  ASSUME IInv, LInv, NEW p \in Proc, PutCheck(p)
  PROVE  LInv'
<1>0. PICK i : i = Head(loc[p].puts)
  OBVIOUS
<1>1. /\ MineTyped(p, loc[p], ofile[p], cwd[p], lock) /\ DOMAIN loc = Proc /\ DOMAIN loc[p] = Fields
      /\ Underway(p, disk, loc[p], cwd[p], ops) /\ FirmInUse(disk, loc[p], ofile[p], cwd[p])
  BY Mine DEF MineTyped, LocTyped, LInv, Relies
<1>2. /\ Alone(p) /\ DOMAIN loc'[p] = Fields
      /\ loc'[p].pc = loc[p].pc /\ loc'[p].call = loc[p].call /\ loc'[p].rest = loc[p].rest
      /\ loc'[p].want = loc[p].want /\ loc'[p].cur = loc[p].cur /\ loc'[p].ip = loc[p].ip
      /\ loc'[p].puts = loc[p].puts /\ loc'[p].put = IF Last(i) THEN "free" ELSE "drop"
  BY <1>0, <1>1, Quiet DEF PutCheck, Local, Updated, Fields, Alone
<1>3. /\ disk' = disk /\ committed' = committed /\ ops' = ops /\ icache' = icache
      /\ ofile' = ofile /\ cwd' = cwd /\ loc[p].puts # <<>> /\ loc[p].put = "check"
      /\ ops \ {p} \subseteq ops'
  BY <1>0 DEF PutCheck, Putting
<1>4. i \in Inum
  BY <1>0, <1>1, <1>3, CountTail, Constants DEF MineTyped, LocTyped
<1>5. /\ Besides(loc'[p], ofile'[p], cwd'[p]) = Besides(loc[p], ofile[p], cwd[p])
      /\ Firm(loc'[p], ofile'[p], cwd'[p]) \subseteq Firm(loc[p], ofile[p], cwd[p])
  <2>1. Besides(loc'[p], ofile'[p], cwd'[p]) = Besides(loc[p], ofile[p], cwd[p])
    BY <1>2, <1>3 DEF Besides, WithIp
  <2> QED  BY <1>2, <1>3, <2>1 DEF Firm
<1>6. Points(loc[p], ofile[p], cwd[p], i) >= 1
  BY <1>0, <1>1, <1>3, <1>4, FirmCounts, Zenon DEF MineTyped
<1>7. ASSUME Last(i)
      PROVE  /\ disk.inode[i].nlink = 0 /\ i \notin Besides(loc[p], ofile[p], cwd[p])
             /\ \A q \in Proc \ {p} : i \notin Firm(loc[q], ofile[q], cwd[q])
  <2>1. icache[i].ref = 1 /\ disk.inode[i].nlink = 0
    BY <1>4, <1>7, Quiet DEF Last, CacheOf
  <2>2. \A q \in Proc : Points(loc[q], ofile[q], cwd[q], i) \in Nat
    BY <1>4, PointersTyped, Quiet
  <2>3. icache[i].ref >= Points(loc[p], ofile[p], cwd[p], i)
    BY <1>4, RefsAtLeast, Quiet
  <2>4. i \notin Besides(loc[p], ofile[p], cwd[p])
    <3> SUFFICES ASSUME i \in Besides(loc[p], ofile[p], cwd[p]) PROVE FALSE
      OBVIOUS
    <3>1. Points(loc[p], ofile[p], cwd[p], i) >= 2
      BY <1>0, <1>1, <1>3, <1>4, FirmCounts DEF MineTyped
    <3> QED  BY <2>1, <2>2, <2>3, <3>1
  <2>5. ASSUME NEW q \in Proc \ {p}, i \in Firm(loc[q], ofile[q], cwd[q]) PROVE FALSE
    <3>1. Points(loc[q], ofile[q], cwd[q], i) >= 1
      BY <1>4, <2>5, FirmCounts, Mine DEF MineTyped
    <3>2. icache[i].ref >= Points(loc[p], ofile[p], cwd[p], i) + Points(loc[q], ofile[q], cwd[q], i)
      BY <1>4, <2>5, RefsAtLeast, Quiet
    <3> QED  BY <1>6, <2>1, <2>2, <3>1, <3>2
  <2> QED  BY <2>1, <2>4, <2>5
<1>8. Touches(p) /\ FirmFound(p)
  BY <1>3, <1>5 DEF Touches, FirmFound
<1>9. OwnsFound(p)
  BY <1>0, <1>2, <1>7 DEF OwnsFound, Owns
<1>10. Treelike(disk', Owed(loc'), Making(loc')) /\ Treelike(committed', NobodyOwes, {})
  <2>1. Owed(loc') = Owed(loc) /\ Making(loc') = Making(loc)
    BY <1>2 DEF Owed, Making, Owing, Alone
  <2> QED  BY <1>3, <2>1 DEF LInv
<1>11. FirmInUse(disk, loc'[p], ofile'[p], cwd'[p])
  BY <1>0, <1>1, <1>2, <1>3, <1>5, <1>7 DEF FirmInUse, Owns
<1>12. Relies(p, disk', loc'[p], ofile'[p], cwd'[p], ops')
  BY <1>1, <1>2, <1>3, <1>11 DEF Relies, Underway, Owing
<1> QED  BY <1>2, <1>3, <1>8, <1>9, <1>10, <1>12, LinksStep

\* end_op: when the last call leaves its transaction, nobody owes a link and nobody is
\* making an inode, so the disk that is committed is a tree as it stands.
LEMMA EndLinks ==
  ASSUME IInv, LInv, NEW p \in Proc, End(p)
  PROVE  LInv'
<1>1. /\ LocTyped(loc[p]) /\ FileTyped(loc[p], ofile[p])
      /\ cwd[p] \in Inum /\ ofile[p] \in Files /\ DOMAIN loc = Proc /\ DOMAIN loc[p] = Fields
      /\ loc[p].pc \in {"end", "moved"} /\ loc[p].puts = <<>> /\ loc[p].put = "check"
      /\ Underway(p, disk, loc[p], cwd[p], ops) /\ FirmInUse(disk, loc[p], ofile[p], cwd[p])
  BY LinksAt DEF End
<1>2. /\ disk' = disk /\ ofile' = ofile /\ ops' = ops \ {p}
      /\ committed' = IF ops = {p} THEN disk ELSE committed
      /\ cwd' = IF loc[p].pc = "moved" THEN [cwd EXCEPT ![p] = loc[p].cur] ELSE cwd
      /\ IF loc[p].left > 0 THEN Local(p, [pc |-> "more"]) ELSE loc' = [loc EXCEPT ![p] = AtRest]
  BY DEF End
<1>3. /\ cwd' \in [Proc -> Inum] /\ \A q \in Proc \ {p} : cwd'[q] = cwd[q]
      /\ cwd'[p] = IF loc[p].pc = "moved" THEN loc[p].cur ELSE cwd[p]
  <2>1. loc[p].pc = "moved" => loc[p].cur \in Inum
    BY <1>1 DEF LocTyped, AtCur
  <2> QED  BY <1>2, <2>1, Quiet
<1>4. /\ Alone(p) /\ loc'[p].pc \in {"idle", "more"} /\ loc'[p].put = "check" /\ loc'[p].puts = <<>>
      /\ loc'[p].rest = loc[p].rest \/ loc'[p].rest = <<>>
  <2>1. CASE loc[p].left > 0
    BY <1>1, <1>2, <1>3, <2>1, Quiet DEF Local, Updated, Fields, Alone
  <2>2. CASE ~(loc[p].left > 0)
    BY <1>1, <1>2, <1>3, <2>2, Quiet, WantsAre DEF Alone
  <2> QED  BY <2>1, <2>2
<1>5. Firm(loc'[p], ofile'[p], cwd'[p]) \subseteq Firm(loc[p], ofile[p], cwd[p])
  BY <1>1, <1>2, <1>3, <1>4, PutsAre DEF Firm, Besides, WithIp, AtCur, AtIp
<1>6. Touches(p) /\ FirmFound(p) /\ OwnsFound(p)
  BY <1>2, <1>4, <1>5 DEF Touches, FirmFound, OwnsFound, Owns
<1>7. /\ Treelike(disk, Owed(loc), Making(loc)) /\ Treelike(committed, NobodyOwes, {})
      /\ \A q \in Proc : Underway(q, disk, loc[q], cwd[q], ops)
  BY DEF LInv, Relies
<1>8. Treelike(disk', Owed(loc'), Making(loc'))
  <2>1. Owed(loc') = Owed(loc) /\ Making(loc') = Making(loc)
    BY <1>1, <1>4 DEF Owed, Making, Owing, Alone
  <2> QED  BY <1>2, <1>7, <2>1
<1>9. Treelike(committed', NobodyOwes, {})
  <2>1. CASE ops = {p}
    <3>1. \A q \in Proc : ~Owing(loc[q]) /\ loc[q].pc # "create2"
      BY <1>1, <1>7, <2>1 DEF Underway, Owing
    <3>2. Owed(loc) = NobodyOwes /\ Making(loc) = {}
      BY <3>1 DEF Owed, NobodyOwes, Making
    <3> QED  BY <1>2, <1>7, <2>1, <3>2
  <2>2. CASE ops # {p}
    BY <1>2, <1>7, <2>2
  <2> QED  BY <2>1, <2>2
<1>10. FirmInUse(disk, loc'[p], ofile'[p], cwd'[p])
  BY <1>1, <1>4, <1>5 DEF FirmInUse, Owns
<1>11. Underway(p, disk, loc'[p], cwd'[p], ops')
  BY <1>1, <1>3, <1>4 DEF Underway, Owing, ToName
<1>12. Relies(p, disk', loc'[p], ofile'[p], cwd'[p], ops') /\ ops \ {p} \subseteq ops'
  BY <1>2, <1>10, <1>11 DEF Relies
<1> QED  BY <1>4, <1>6, <1>8, <1>9, <1>12, LinksStep

-----------------------------------------------------------------------------
\* The steps that change a count of links.

\* What p points to after a step that frees and makes nothing.
LEMMA FirmKept ==
  ASSUME IInv, LInv, NEW p \in Proc, Alone(p),
         \A j \in Inum : disk'.inode[j].type = disk.inode[j].type,
         loc'[p].put # "free", loc'[p].pc # "create2",
         \A i \in Firm(loc'[p], ofile'[p], cwd'[p]) :
           i \in Firm(loc[p], ofile[p], cwd[p]) \/ Uses(disk, Owed(loc), i) # {}
  PROVE  FirmInUse(disk', loc'[p], ofile'[p], cwd'[p]) /\ FirmFound(p) /\ OwnsFound(p)
<1>1. \A i \in Inum : Uses(disk, Owed(loc), i) # {} => disk.inode[i].type # "free"
  BY UsedHasLinks, Quiet DEF LInv, Treelike
<1>2. \A i \in Firm(loc'[p], ofile'[p], cwd'[p]) : i \in Inum /\ disk'.inode[i].type # "free"
  BY <1>1 DEF LInv, Relies, FirmInUse, Firm, Besides
<1> QED  BY <1>2 DEF FirmInUse, FirmFound, OwnsFound, Owns

\* Disks with the same links are trees alike.
SameLinks(d, e) ==
  /\ e.dir = d.dir
  /\ \A i \in Inum : e.inode[i].type = d.inode[i].type /\ e.inode[i].nlink = d.inode[i].nlink

\* With the same links a disk is a tree as well.
LEMMA SameTree ==
  ASSUME NEW d, NEW e, NEW o, NEW made, Sound(d), SameLinks(d, e), Treelike(d, o, made)
  PROVE  Treelike(e, o, made)
<1>1. \A i \in Inum, x \in AllNames : d.dir[i][x] # 0 => d.dir[i][x] \in Inum
  BY DEF Sound, DiskTyped
<1>2. \A i \in Inum, x \in Names : IsKid(e, i, x) <=> IsKid(d, i, x)
  BY <1>1, TheNames DEF IsKid, SameLinks
<1>3. \A i \in Inum : Uses(e, o, i) = Uses(d, o, i)
  BY <1>2 DEF Uses, SameLinks
<1>4. Backed(e, o) /\ KidsKnow(e)
  BY <1>2, <1>3 DEF Treelike, Backed, KidsKnow, SameLinks
<1>5. DirsKnow(e, made) /\ RootThere(e)
  BY Constants DEF Treelike, DirsKnow, RootThere, SameLinks
<1> QED  BY <1>4, <1>5 DEF Treelike

\* filewrite changes no link.
LEMMA WriteLinks ==
  ASSUME IInv, LInv, NEW p \in Proc, Write(p)
  PROVE  LInv'
<1>1. /\ LocTyped(loc[p]) /\ FileTyped(loc[p], ofile[p]) /\ Kept(disk, loc[p], ofile[p])
      /\ cwd[p] \in Inum /\ ofile[p] \in Files /\ DOMAIN loc = Proc /\ DOMAIN loc[p] = Fields
      /\ loc[p].pc = "write" /\ loc[p].puts = <<>> /\ loc[p].put = "check"
      /\ Underway(p, disk, loc[p], cwd[p], ops)
  BY LinksAt, AtIs DEF Write, Under
<1>2. PICK i \in Inum : i = ofile[p].ip /\ ofile[p] # NoFile
  BY <1>1 DEF FileTyped, Files
<1>3. PICK off \in Nat, n \in Nat : off = ofile[p].off /\ n = Chunk(p)
  <2>1. ofile[p].off \in Nat /\ Chunk(p) \in Nat
    BY <1>1, XvFilesAssumption DEF Files, Chunk, LocTyped
  <2> QED  BY <2>1
<1>4. /\ committed' = committed /\ cwd' = cwd /\ ops' = ops /\ ops \ {p} \subseteq ops' /\ CanLock(i)
  BY <1>2 DEF Write, Under
<1>5. Found(i) = disk.inode[i] /\ disk.inode[i].type # "free"
  BY <1>4, IlockIs, Quiet
<1>6. SameLinks(disk, disk')
  <2>1. CASE ~(off + n <= MAXFILE)
    BY <1>2, <1>3, <2>1 DEF Write, SameLinks
  <2>2. CASE off + n <= MAXFILE
    <3>1. disk' = Writei(disk, i, off, n) /\ Room(p, i, off, n)
      BY <1>2, <1>3, <2>2 DEF Write
    <3>2. Cardinality(Needed(disk.inode[i], off, 0, n)) <= Cardinality(Unowned(disk))
      BY <1>5, <3>1 DEF Room, Needed
    <3>3. off <= disk.inode[i].size
      BY <1>1, <1>2, <1>3 DEF FileTyped, Kept
    <3>4. Grown(disk, disk', i)
      BY <1>5, <2>2, <3>1, <3>2, <3>3, WriteiSound, Quiet
    <3> QED  BY <3>4 DEF Grown, SameLinks
  <2> QED  BY <2>1, <2>2
<1>7. /\ Alone(p) /\ loc'[p].pc = "end" /\ loc'[p].puts = <<>> /\ loc'[p].put = "check"
      /\ loc'[p].rest = loc[p].rest /\ ofile'[p].ip = i
  <2>1. IInv'
    BY WriteKeeps
  <2>2. \/ ofile' = ofile /\ Local(p, [left |-> 0, pc |-> "end"])
        \/ ofile' = [ofile EXCEPT ![p].off = @ + n] /\ Local(p, [left |-> loc[p].left - n, pc |-> "end"])
    BY <1>2, <1>3 DEF Write
  <2>3. (\A q \in Proc \ {p} : ofile'[q] = ofile[q]) /\ ofile'[p].ip = i
    BY <1>1, <1>2, <2>2, Quiet DEF Files
  <2>4. /\ \A q \in Proc \ {p} : loc'[q] = loc[q]
        /\ loc'[p].pc = "end" /\ loc'[p].puts = <<>> /\ loc'[p].put = "check"
        /\ loc'[p].rest = loc[p].rest
    BY <1>1, <2>2 DEF Local, Updated, Fields
  <2> QED  BY <1>4, <2>1, <2>3, <2>4 DEF Alone, IInv, Typed
<1>8. Touches(p)
  BY <1>6 DEF Touches, SameLinks
<1>9. Firm(loc'[p], ofile'[p], cwd'[p]) \subseteq Firm(loc[p], ofile[p], cwd[p])
  BY <1>1, <1>2, <1>4, <1>7, PutsAre DEF Firm, Besides, WithIp, AtCur, AtIp
<1>10. FirmInUse(disk', loc'[p], ofile'[p], cwd'[p]) /\ FirmFound(p) /\ OwnsFound(p)
  BY <1>6, <1>7, <1>9, FirmKept DEF SameLinks
<1>11. Underway(p, disk', loc'[p], cwd'[p], ops')
  BY <1>1, <1>4, <1>6, <1>7 DEF Underway, Owing, ToName, SameLinks
<1>12. Treelike(disk', Owed(loc'), Making(loc')) /\ Treelike(committed', NobodyOwes, {})
  <2>1. Owed(loc') = Owed(loc) /\ Making(loc') = Making(loc)
    BY <1>1, <1>7 DEF Owed, Making, Owing, Alone
  <2> QED  BY <1>4, <1>6, <2>1, SameTree, Quiet DEF LInv
<1> QED  BY <1>4, <1>7, <1>8, <1>10, <1>11, <1>12, LinksStep DEF Relies

\* One link more for a call that owes it, or one less for a call that owes it no longer.
CountMoves(d, e, i, p, o, r) ==
  \/ e.inode[i].nlink = d.inode[i].nlink + 1 /\ r[i] \subseteq o[i] \cup {p}
  \/ e.inode[i].nlink = d.inode[i].nlink - 1 /\ r[i] \subseteq o[i] \ {p} /\ p \in o[i]

\* Changing a count together with what is owed keeps a disk a tree.
LEMMA CountTree ==
  ASSUME NEW d, NEW e, NEW o \in [Inum -> SUBSET Proc], NEW r \in [Inum -> SUBSET Proc], NEW made,
         NEW i \in Inum, NEW p \in Proc, Sound(d), Treelike(d, o, made), e.dir = d.dir,
         \A j \in Inum : e.inode[j].type = d.inode[j].type,
         \A j \in Inum \ {i} : e.inode[j].nlink = d.inode[j].nlink /\ r[j] \subseteq o[j],
         CountMoves(d, e, i, p, o, r)
  PROVE  Treelike(e, r, made)
<1>1. \A j \in Inum, x \in AllNames : d.dir[j][x] # 0 => d.dir[j][x] \in Inum
  BY DEF Sound, DiskTyped
<1>2. \A j \in Inum, x \in Names : IsKid(e, j, x) <=> IsKid(d, j, x)
  BY <1>1, TheNames DEF IsKid
<1>3. KidsKnow(e) /\ DirsKnow(e, made) /\ RootThere(e)
  BY <1>2, Constants DEF Treelike, KidsKnow, DirsKnow, RootThere
<1>4. ASSUME NEW j \in Inum \ {i} PROVE Cardinality(Uses(e, r, j)) <= e.inode[j].nlink
  <2>1. Uses(e, r, j) \subseteq Uses(d, o, j)
    BY <1>2 DEF Uses
  <2>2. Cardinality(Uses(e, r, j)) <= Cardinality(Uses(d, o, j))
    BY <2>1, UsesFinite, FS_Subset
  <2>3. Cardinality(Uses(d, o, j)) <= d.inode[j].nlink /\ d.inode[j].nlink \in Int
    BY DiskFields DEF Treelike, Backed, Sound
  <2> QED  BY <2>2, <2>3, UsesFinite
<1>5. Cardinality(Uses(e, r, i)) <= e.inode[i].nlink
  <2>0. PICK u : u = <<"owed", p, Image>>
    BY Zenon
  <2>1. Cardinality(Uses(d, o, i)) <= d.inode[i].nlink /\ d.inode[i].nlink \in Int
    BY DiskFields DEF Treelike, Backed, Sound
  <2>2. Cardinality(Uses(e, r, i)) \in Nat /\ Cardinality(Uses(d, o, i)) \in Nat
    BY UsesFinite
  <2>3. CASE e.inode[i].nlink = d.inode[i].nlink + 1 /\ r[i] \subseteq o[i] \cup {p}
    <3>1. Uses(e, r, i) \subseteq Uses(d, o, i) \cup {u}
      BY <1>2, <2>0, <2>3 DEF Uses
    <3>2. Cardinality(Uses(e, r, i)) <= Cardinality(Uses(d, o, i)) + 1
      BY <3>1, UsesFinite, Fewer, Zenon
    <3> QED  BY <2>1, <2>2, <2>3, <3>2
  <2>4. CASE e.inode[i].nlink = d.inode[i].nlink - 1 /\ r[i] \subseteq o[i] \ {p} /\ p \in o[i]
    <3>1. u \in Uses(d, o, i)
      BY <2>0, <2>4, UsesAre, Zenon
    <3>2. u \notin Uses(e, r, i)
      BY <2>0, <2>4, UsesAre, Zenon
    <3>3. Uses(e, r, i) \subseteq Uses(d, o, i)
      BY <1>2, <2>4 DEF Uses
    <3>4. Cardinality(Uses(e, r, i)) <= Cardinality(Uses(d, o, i)) - 1
      BY <3>1, <3>2, <3>3, UsesFinite, Fewer, ZenonT(30)
    <3> QED  BY <2>1, <2>2, <2>4, <3>4
  <2> QED  BY <2>3, <2>4 DEF CountMoves
<1> QED  BY <1>3, <1>4, <1>5 DEF Treelike, Backed

\* What iupdate writes.
LEMMA OneStored ==
  ASSUME NEW d, Sound(d), NEW i \in Inum, NEW y, NEW e, e = Stored(d, i, y)
  PROVE  /\ e.dir = d.dir /\ e.inode[i] = y /\ \A j \in Inum \ {i} : e.inode[j] = d.inode[j]
BY DEF Sound, DiskTyped, Stored

\* sys_link counts the name before it is there.
LEMMA LinkOldLinks ==
  ASSUME IInv, LInv, NEW p \in Proc, LinkOld(p)
  PROVE  LInv'
<1>1. /\ LocTyped(loc[p]) /\ FileTyped(loc[p], ofile[p]) /\ LocHolds(p, loc[p], lock)
      /\ cwd[p] \in Inum /\ ofile[p] \in Files /\ DOMAIN loc = Proc /\ DOMAIN loc[p] = Fields
      /\ loc[p].pc = "linkold" /\ loc[p].puts = <<>> /\ loc[p].put = "check"
      /\ Underway(p, disk, loc[p], cwd[p], ops)
  BY LinksAt DEF LinkOld, Under
<1>2. PICK i \in Inum : i = loc[p].cur
  BY <1>1 DEF LocTyped, AtCur
<1>3. /\ committed' = committed /\ cwd' = cwd /\ ofile' = ofile
      /\ ops' = ops /\ ops \ {p} \subseteq ops' /\ CanLock(i)
  BY <1>2 DEF LinkOld, Rest1, Under
<1>4. PICK din \in Dinodes : din = disk.inode[i] /\ din = Found(i)
  BY <1>3, IlockIs, Quiet
<1>5. CASE din.type = "dir"
  <2>1. disk' = disk /\ Local(p, [puts |-> <<i>>, pc |-> "end"])
    BY <1>2, <1>4, <1>5 DEF LinkOld
  <2>2. /\ Alone(p) /\ DOMAIN loc'[p] = Fields
        /\ loc'[p].pc = "end" /\ loc'[p].rest = loc[p].rest
        /\ loc'[p].puts = <<i>> /\ loc'[p].put = "check"
    BY <1>1, <1>2, <1>3, <2>1, Quiet, Zenon DEF Local, Updated, Fields, Alone
  <2>3. Quietly(p)
    BY <1>1, <1>2, <1>3, <2>2, PutsAre DEF Quietly, Owing, Firm, Besides, WithIp, AtCur, AtIp
  <2>4. Underway(p, disk, loc'[p], cwd'[p], ops')
    BY <1>1, <1>3, <2>2 DEF Underway, Owing, ToName
  <2> QED  BY <1>3, <2>1, <2>2, <2>3, <2>4, LinksQuiet
<1>6. CASE din.type # "dir"
  <2>1. PICK s : s = Start(p, loc[p].call)
    OBVIOUS
  <2>2. /\ disk' = Stored(disk, i, Linked(din, 1))
        /\ Local(p, [ip |-> i, cur |-> s, rest |-> loc[p].call.to, want |-> "linknew", pc |-> "namex"])
    BY <1>2, <1>4, <1>6, <2>1 DEF LinkOld
  <2>3. /\ Alone(p) /\ DOMAIN loc'[p] = Fields
        /\ loc'[p].pc = "namex" /\ loc'[p].rest = loc[p].call.to /\ loc'[p].want = "linknew"
        /\ loc'[p].cur = s /\ loc'[p].ip = i /\ loc'[p].puts = <<>> /\ loc'[p].put = "check"
    BY <1>1, <1>2, <1>3, <2>2, Quiet, Zenon DEF Local, Updated, Fields, Alone
  <2>4. /\ disk'.dir = disk.dir /\ \A j \in Inum : disk'.inode[j].type = disk.inode[j].type
        /\ \A j \in Inum \ {i} : disk'.inode[j].nlink = disk.inode[j].nlink
        /\ disk'.inode[i].nlink = disk.inode[i].nlink + 1
    <3>1. PICK y \in Dinodes : y = Linked(din, 1) /\ y.type = din.type /\ y.nlink = din.nlink + 1
      BY CountIs, Zenon DEF Linked, Dinodes
    <3>2. /\ disk'.dir = disk.dir /\ disk'.inode[i] = y
          /\ \A j \in Inum \ {i} : disk'.inode[j] = disk.inode[j]
      BY <2>2, <3>1, OneStored, Quiet
    <3> QED  BY <1>4, <3>1, <3>2, Zenon
  <2>5. s = cwd[p] \/ (s = Root /\ Uses(disk, Owed(loc), s) # {})
    BY <2>1, RootIsUsed DEF Start
  <2>6. Touches(p)
    <3>1. i \in Firm(loc[p], ofile[p], cwd[p])
      BY <1>1, <1>2, FirmPlaces DEF AtCur
    <3> QED  BY <2>4, <3>1 DEF Touches
  <2>7. FirmInUse(disk', loc'[p], ofile'[p], cwd'[p]) /\ FirmFound(p) /\ OwnsFound(p)
    <3>1. \A j \in Firm(loc'[p], ofile'[p], cwd'[p]) :
            j \in Firm(loc[p], ofile[p], cwd[p]) \/ Uses(disk, Owed(loc), j) # {}
      BY <1>1, <1>2, <1>3, <2>3, <2>5, PutsAre DEF Firm, Besides, WithIp, AtCur, AtIp
    <3> QED  BY <2>3, <2>4, <3>1, FirmKept, Zenon
  <2>8. Underway(p, disk', loc'[p], cwd'[p], ops')
    <3>1. \A n \in DOMAIN loc[p].call.to : loc[p].call.to[n] # ".."
      BY <1>1 DEF LInv, ParentlessPaths, LocTyped
    <3> QED  BY <1>1, <1>3, <1>4, <1>6, <2>3, <2>4, <3>1, Zenon DEF Underway, Owing, ToName
  <2>9. Treelike(disk', Owed(loc'), Making(loc')) /\ Treelike(committed', NobodyOwes, {})
    <3>1. /\ \A j \in Inum \ {i} : Owed(loc')[j] \subseteq Owed(loc)[j]
          /\ Owed(loc')[i] \subseteq Owed(loc)[i] \cup {p}
      BY <1>1, <2>3 DEF Owed, Owing, Alone
    <3>2. Making(loc') = Making(loc)
      BY <1>1, <2>3 DEF Making, Alone
    <3>3. CountMoves(disk, disk', i, p, Owed(loc), Owed(loc'))
      BY <2>4, <3>1 DEF CountMoves
    <3>4. Treelike(disk', Owed(loc'), Making(loc))
      BY <2>4, <3>1, <3>3, CountTree, OwedTyped, Quiet, Zenon DEF LInv
    <3> QED  BY <1>3, <3>2, <3>4 DEF LInv
  <2> QED  BY <1>3, <2>3, <2>6, <2>7, <2>8, <2>9, LinksStep DEF Relies
<1> QED  BY <1>5, <1>6

\* A call takes back the link that it owes.
LEMMA TakenBack ==
  ASSUME IInv, LInv, NEW p \in Proc, LinkUndo(p) \/ UnlinkCount(p)
  PROVE  LInv'
<1>1. /\ LocTyped(loc[p]) /\ FileTyped(loc[p], ofile[p]) /\ LocHolds(p, loc[p], lock)
      /\ cwd[p] \in Inum /\ ofile[p] \in Files /\ DOMAIN loc = Proc /\ DOMAIN loc[p] = Fields
      /\ loc[p].pc \in {"undo", "unlink3"} /\ loc[p].puts = <<>> /\ loc[p].put = "check"
      /\ Underway(p, disk, loc[p], cwd[p], ops)
  BY LinksAt DEF LinkUndo, UnlinkCount, Under
<1>2. PICK i \in Inum : i = loc[p].ip
  BY <1>1 DEF LocTyped, AtIp
<1>3. /\ committed' = committed /\ cwd' = cwd /\ ofile' = ofile
      /\ ops' = ops /\ ops \ {p} \subseteq ops'
  BY DEF LinkUndo, UnlinkCount, Rest1
<1>4. PICK din \in Dinodes : din = disk.inode[i] /\ din = Found(i)
  BY FoundIs, DiskFields, Quiet DEF Sound
<1>5. disk' = Stored(disk, i, Unlinked(din)) /\ Local(p, [puts |-> <<i>>, pc |-> "end"])
  BY <1>2, <1>4 DEF LinkUndo, UnlinkCount
<1>6. /\ Alone(p) /\ DOMAIN loc'[p] = Fields
      /\ loc'[p].pc = "end" /\ loc'[p].rest = loc[p].rest
      /\ loc'[p].puts = <<i>> /\ loc'[p].put = "check"
  BY <1>1, <1>2, <1>3, <1>5, Quiet, Zenon DEF Local, Updated, Fields, Alone
<1>7. /\ disk'.dir = disk.dir /\ \A j \in Inum : disk'.inode[j].type = disk.inode[j].type
      /\ \A j \in Inum \ {i} : disk'.inode[j].nlink = disk.inode[j].nlink
      /\ disk'.inode[i].nlink = disk.inode[i].nlink - 1
  <2>1. PICK y \in Dinodes : y = Unlinked(din) /\ y.type = din.type /\ y.nlink = din.nlink - 1
    BY CountIs, Zenon DEF Unlinked, Dinodes
  <2>2. /\ disk'.dir = disk.dir /\ disk'.inode[i] = y
        /\ \A j \in Inum \ {i} : disk'.inode[j] = disk.inode[j]
    BY <1>5, <2>1, OneStored, Quiet
  <2> QED  BY <1>4, <2>1, <2>2, Zenon
<1>8. Touches(p)
  <2>1. i \in Firm(loc[p], ofile[p], cwd[p])
    BY <1>1, <1>2, FirmPlaces DEF AtIp, WithIp
  <2> QED  BY <1>7, <2>1 DEF Touches
<1>9. FirmInUse(disk', loc'[p], ofile'[p], cwd'[p]) /\ FirmFound(p) /\ OwnsFound(p)
  <2>1. Firm(loc'[p], ofile'[p], cwd'[p]) \subseteq Firm(loc[p], ofile[p], cwd[p])
    BY <1>1, <1>2, <1>3, <1>6, PutsAre DEF Firm, Besides, WithIp, AtCur, AtIp
  <2> QED  BY <1>6, <1>7, <2>1, FirmKept
<1>10. Underway(p, disk', loc'[p], cwd'[p], ops')
  BY <1>1, <1>3, <1>6, <1>7 DEF Underway, Owing, ToName
<1>11. Treelike(disk', Owed(loc'), Making(loc')) /\ Treelike(committed', NobodyOwes, {})
  <2>1. /\ \A j \in Inum \ {i} : Owed(loc')[j] \subseteq Owed(loc)[j]
        /\ Owed(loc')[i] \subseteq Owed(loc)[i] \ {p} /\ p \in Owed(loc)[i]
    BY <1>1, <1>2, <1>6 DEF Owed, Owing, Alone
  <2>2. Making(loc') = Making(loc)
    BY <1>1, <1>6 DEF Making, Alone
  <2>3. CountMoves(disk, disk', i, p, Owed(loc), Owed(loc'))
    BY <1>7, <2>1 DEF CountMoves
  <2>4. Treelike(disk', Owed(loc'), Making(loc))
    BY <1>7, <2>1, <2>3, CountTree, OwedTyped, Quiet, ZenonT(30) DEF LInv
  <2> QED  BY <1>3, <2>2, <2>4 DEF LInv
<1> QED  BY <1>3, <1>6, <1>8, <1>9, <1>10, <1>11, LinksStep DEF Relies

-----------------------------------------------------------------------------
\* The steps that change an entry of a directory.

\* What a process has locked or looks at has its "." already.
LEMMA DotThere ==
  ASSUME IInv, LInv, NEW p \in Proc, loc[p].pc \in ToName \ {"create2"}
  PROVE  /\ loc[p].cur \in Inum /\ disk.inode[loc[p].cur].type = "dir"
         /\ disk.dir[loc[p].cur]["."] = loc[p].cur
<1>1. LocTyped(loc[p]) /\ FileTyped(loc[p], ofile[p]) /\ cwd[p] \in Inum
  BY Mine DEF MineTyped
<1>2. PICK dp \in Inum : dp = loc[p].cur
  BY <1>1 DEF LocTyped, AtCur, ToName
<1>3. dp \in Firm(loc[p], ofile[p], cwd[p]) /\ disk.inode[dp].type = "dir"
  BY <1>1, <1>2, FirmPlaces DEF AtCur, ToName, LInv, Relies, Underway
<1>4. dp \notin Making(loc)
  BY <1>3 DEF Making, LInv, OwnsAlone, Owns
<1> QED  BY <1>2, <1>3, <1>4 DEF LInv, Treelike, DirsKnow

\* The name that a call looks for in its directory, or has found missing.
LEMMA CallsName ==
  ASSUME IInv, LInv, NEW p \in Proc, loc[p].pc \in ToName \ {"create2"}
  PROVE  /\ Name(p) \in AllNames /\ Name(p) # ".."
         /\ disk.dir[loc[p].cur][Name(p)] \in Inum \cup {0}
         /\ disk.dir[loc[p].cur][Name(p)] = 0 => Name(p) \in Names
<1>1. LocTyped(loc[p])
  BY Mine DEF MineTyped
<1>2. loc[p].rest \in Seq(AllNames) /\ loc[p].rest # <<>>
  BY <1>1 DEF LocTyped
<1>3. Name(p) \in AllNames /\ Name(p) = loc[p].rest[1] /\ 1 \in DOMAIN loc[p].rest
  BY <1>2 DEF Name
<1>4. Name(p) # ".."
  BY <1>3 DEF LInv, Relies, Underway
<1>5. loc[p].cur \in Inum /\ disk.dir[loc[p].cur]["."] = loc[p].cur
  BY DotThere
<1>6. disk.dir[loc[p].cur][Name(p)] \in Inum \cup {0}
  BY <1>3, <1>5, Quiet DEF Sound, DiskTyped
<1>7. disk.dir[loc[p].cur][Name(p)] = 0 => Name(p) # "."
  BY <1>5, Constants
<1> QED  BY <1>3, <1>4, <1>6, <1>7 DEF AllNames

\* A directory with one entry changed.
Entry(d, e, i, x, k) ==
  /\ \A j \in Inum : \A y \in AllNames : e.dir[j][y] = IF j = i /\ y = x THEN k ELSE d.dir[j][y]
  /\ \A j \in Inum \ {i} : e.dir[j] = d.dir[j]
  /\ \A j \in Inum : e.inode[j].type = d.inode[j].type

\* Setting one entry changes nothing else.
LEMMA EntryIs ==
  ASSUME NEW d, Sound(d), NEW i \in Inum, NEW x \in AllNames, NEW k, NEW e,
         e = [d EXCEPT !.dir[i][x] = k]
  PROVE  Entry(d, e, i, x, k) /\ e.inode = d.inode
BY DEF Sound, DiskTyped, Entry

\* What does not depend on the counts, after a name is entered or removed.
LEMMA EntryTree ==
  ASSUME NEW d, NEW e, NEW o, NEW made, Sound(d), Treelike(d, o, made), NEW i \in Inum,
         NEW x \in Names, NEW k \in Inum \cup {0}, Entry(d, e, i, x, k), d.inode[i].type = "dir",
         k = 0 \/ d.inode[k].type # "dir"
  PROVE  /\ KidsKnow(e) /\ DirsKnow(e, made) /\ RootThere(e)
         /\ \A j \in Inum, y \in Names : IsKid(e, j, y) => IsKid(d, j, y) /\ ~(j = i /\ y = x)
<1>1. \A j \in Inum, y \in AllNames : d.dir[j][y] # 0 => d.dir[j][y] \in Inum
  BY DEF Sound, DiskTyped
<1>2. \A j \in Inum, y \in Names : IsKid(e, j, y) => IsKid(d, j, y) /\ ~(j = i /\ y = x)
  BY <1>1, TheNames, SMTT(30) DEF IsKid, Entry
<1>3. KidsKnow(e)
  <2> SUFFICES ASSUME NEW j \in Inum, NEW y \in Names, IsKid(e, j, y)
               PROVE  e.dir[e.dir[j][y]][".."] = j
    BY DEF KidsKnow
  <2>1. IsKid(d, j, y) /\ e.dir[j][y] = d.dir[j][y]
    BY <1>2, TheNames DEF Entry
  <2>2. d.dir[d.dir[j][y]][".."] = j /\ d.dir[j][y] \in Inum
    BY <1>1, <2>1, TheNames DEF Treelike, KidsKnow, IsKid
  <2> QED  BY <2>1, <2>2, TheNames DEF Entry
<1>4. DirsKnow(e, made) /\ RootThere(e)
  BY TheNames, Constants DEF Treelike, DirsKnow, RootThere, Entry
<1> QED  BY <1>2, <1>3, <1>4

\* sys_link's name: it stands for the link that was owed.
LEMMA NamedTree ==
  ASSUME NEW d, NEW e, NEW o \in [Inum -> SUBSET Proc], NEW r \in [Inum -> SUBSET Proc], NEW made,
         Sound(d), Treelike(d, o, made), NEW i \in Inum, NEW x \in Names, NEW k \in Inum, NEW p \in Proc,
         d.inode[i].type = "dir", d.inode[k].type # "dir", e = [d EXCEPT !.dir[i][x] = k],
         \A j \in Inum \ {k} : r[j] \subseteq o[j], r[k] \subseteq o[k] \ {p}, p \in o[k]
  PROVE  Treelike(e, r, made)
<1>1. Entry(d, e, i, x, k) /\ e.inode = d.inode
  BY TheNames, EntryIs
<1>0. k \in Inum \cup {0} /\ (k = 0 \/ d.inode[k].type # "dir")
  OBVIOUS
<1>2. /\ KidsKnow(e) /\ DirsKnow(e, made) /\ RootThere(e)
      /\ \A j \in Inum, y \in Names : IsKid(e, j, y) => IsKid(d, j, y) /\ ~(j = i /\ y = x)
  BY <1>0, <1>1, EntryTree
<1>3. ASSUME NEW j \in Inum PROVE Cardinality(Uses(e, r, j)) <= e.inode[j].nlink
  <2>1. Cardinality(Uses(d, o, j)) <= d.inode[j].nlink /\ d.inode[j].nlink \in Int
    BY DiskFields DEF Treelike, Backed, Sound
  <2>2. Cardinality(Uses(e, r, j)) \in Nat /\ Cardinality(Uses(d, o, j)) \in Nat
    BY UsesFinite
  <2>3. CASE j # k
    <3>1. Uses(e, r, j) \subseteq Uses(d, o, j)
      BY <1>1, <1>2, <2>3, TheNames DEF Uses, Entry
    <3>2. Cardinality(Uses(e, r, j)) <= Cardinality(Uses(d, o, j))
      BY <3>1, UsesFinite, FS_Subset
    <3> QED  BY <1>1, <2>1, <2>2, <3>2
  <2>4. CASE j = k
    <3>0. PICK u, v : u = <<"name", i, x>> /\ v = <<"owed", p, Image>>
      BY Zenon
    <3>1. v \in Uses(d, o, k) /\ v \notin Uses(e, r, k)
      BY <3>0, UsesAre, Zenon
    <3>2. Uses(e, r, k) \subseteq Uses(d, o, k) \cup {u}
      BY <1>1, <1>2, <3>0, TheNames, SMTT(30) DEF Uses, Entry
    <3>3. Uses(e, r, k) \subseteq (Uses(d, o, k) \ {v}) \cup {u}
      BY <3>1, <3>2
    <3>4. Cardinality(Uses(e, r, k)) <= Cardinality(Uses(d, o, k))
      BY <3>1, <3>3, UsesFinite, Fewer, Zenon
    <3> QED  BY <1>1, <2>1, <2>2, <2>4, <3>4
  <2> QED  BY <2>3, <2>4
<1> QED  BY <1>2, <1>3 DEF Treelike, Backed

\* sys_link enters the name, or finds it there.
LEMMA LinkNewLinks ==
  ASSUME IInv, LInv, NEW p \in Proc, LinkNew(p)
  PROVE  LInv'
<1>1. /\ LocTyped(loc[p]) /\ FileTyped(loc[p], ofile[p]) /\ LocHolds(p, loc[p], lock)
      /\ cwd[p] \in Inum /\ ofile[p] \in Files /\ DOMAIN loc = Proc /\ DOMAIN loc[p] = Fields
      /\ loc[p].pc = "linknew" /\ loc[p].puts = <<>> /\ loc[p].put = "check"
      /\ Underway(p, disk, loc[p], cwd[p], ops)
  BY LinksAt DEF LinkNew, Under
<1>2. PICK dp \in Inum, k \in Inum : dp = loc[p].cur /\ k = loc[p].ip
  BY <1>1 DEF LocTyped, AtCur, AtIp
<1>3. /\ committed' = committed /\ cwd' = cwd /\ ofile' = ofile
      /\ ops' = ops /\ ops \ {p} \subseteq ops' /\ lock[dp] = Nobody
  BY <1>2 DEF LinkNew, Rest1, Under, CanLock
<1>4. PICK x \in AllNames : /\ x = Name(p) /\ x # ".." /\ disk.dir[dp][x] \in Inum \cup {0}
                            /\ disk.dir[dp][x] = 0 => x \in Names
  BY <1>1, <1>2, CallsName DEF ToName
<1>5. disk.inode[dp].type = "dir" /\ disk.inode[k].type # "dir"
  BY <1>1, <1>2 DEF Underway, Owing, ToName
<1>6. CASE disk.dir[dp][x] = 0
  <2>1. disk' = [disk EXCEPT !.dir[dp][x] = k] /\ Local(p, [puts |-> <<dp, k>>, pc |-> "end"])
    BY <1>2, <1>4, <1>6 DEF LinkNew
  <2>2. /\ Alone(p) /\ DOMAIN loc'[p] = Fields
        /\ loc'[p].pc = "end" /\ loc'[p].rest = loc[p].rest
        /\ loc'[p].puts = <<dp, k>> /\ loc'[p].put = "check"
    BY <1>1, <1>3, <2>1, Quiet, Zenon DEF Local, Updated, Fields, Alone
  <2>3. disk'.inode = disk.inode /\ \A j \in Inum \ {dp} : disk'.dir[j] = disk.dir[j]
    BY <1>4, <2>1, EntryIs, Quiet DEF Entry
  <2>4. Touches(p)
    BY <1>3, <2>3 DEF Touches
  <2>5. FirmInUse(disk', loc'[p], ofile'[p], cwd'[p]) /\ FirmFound(p) /\ OwnsFound(p)
    <3>1. Firm(loc'[p], ofile'[p], cwd'[p]) \subseteq Firm(loc[p], ofile[p], cwd[p])
      BY <1>1, <1>2, <1>3, <2>2, PutsAre DEF Firm, Besides, WithIp, AtCur, AtIp
    <3> QED  BY <2>2, <2>3, <3>1, FirmKept
  <2>6. Underway(p, disk', loc'[p], cwd'[p], ops')
    BY <1>1, <1>3, <2>2, <2>3 DEF Underway, Owing, ToName
  <2>7. Treelike(disk', Owed(loc'), Making(loc')) /\ Treelike(committed', NobodyOwes, {})
    <3>1. /\ \A j \in Inum \ {k} : Owed(loc')[j] \subseteq Owed(loc)[j]
          /\ Owed(loc')[k] \subseteq Owed(loc)[k] \ {p} /\ p \in Owed(loc)[k]
      BY <1>1, <1>2, <2>2 DEF Owed, Owing, Alone
    <3>2. Making(loc') = Making(loc)
      BY <1>1, <2>2 DEF Making, Alone
    <3>3. Treelike(disk', Owed(loc'), Making(loc))
      BY <1>4, <1>5, <1>6, <2>1, <3>1, NamedTree, OwedTyped, Quiet, Zenon DEF LInv
    <3> QED  BY <1>3, <3>2, <3>3 DEF LInv
  <2> QED  BY <1>3, <2>2, <2>4, <2>5, <2>6, <2>7, LinksStep DEF Relies
<1>7. CASE disk.dir[dp][x] # 0
  <2>1. PICK old \in Inum : old = disk.dir[dp][x] /\ (old = dp \/ Uses(disk, Owed(loc), old) # {})
    BY <1>4, <1>7, NamedIsUsed, SMTT(30)
  <2>2. disk' = disk /\ Local(p, [puts |-> <<old>>, pc |-> "linkfail"])
    BY <1>2, <1>4, <1>7, <2>1 DEF LinkNew
  <2>3. /\ Alone(p) /\ DOMAIN loc'[p] = Fields
        /\ loc'[p].pc = "linkfail" /\ loc'[p].rest = loc[p].rest /\ loc'[p].cur = dp /\ loc'[p].ip = k
        /\ loc'[p].puts = <<old>> /\ loc'[p].put = "check"
    BY <1>1, <1>2, <1>3, <2>2, Quiet, ZenonT(30) DEF Local, Updated, Fields, Alone
  <2>4. Quietly(p)
    BY <1>1, <1>2, <1>3, <2>1, <2>3, PutsAre DEF Quietly, Owing, Firm, Besides, WithIp, AtCur, AtIp
  <2>5. Underway(p, disk, loc'[p], cwd'[p], ops')
    BY <1>1, <1>3, <1>5, <2>3 DEF Underway, Owing, ToName
  <2> QED  BY <1>3, <2>2, <2>3, <2>4, <2>5, LinksQuiet
<1> QED  BY <1>6, <1>7

\* sys_unlink's entry: the name becomes a link that is owed, and a directory loses its ".."
\* from the count of its parent.
Removed(d, e, i, x, k) ==
  /\ Entry(d, e, i, x, 0)
  /\ \A j \in Inum \ {i} : e.inode[j].nlink = d.inode[j].nlink
  /\ e.inode[i].nlink = IF d.inode[k].type = "dir" THEN d.inode[i].nlink - 1 ELSE d.inode[i].nlink

\* The link of the name removed is owed to the call that will count down.
LEMMA RemovedTree ==
  ASSUME NEW d, NEW e, NEW o \in [Inum -> SUBSET Proc], NEW r \in [Inum -> SUBSET Proc], NEW made,
         Sound(d), Treelike(d, o, made), NEW i \in Inum, NEW x \in Names, NEW k \in Inum, NEW p \in Proc,
         d.inode[i].type = "dir", d.dir[i][x] = k, i # k, Removed(d, e, i, x, k),
         \A j \in Inum \ {k} : r[j] \subseteq o[j], r[k] \subseteq o[k] \cup {p}
  PROVE  Treelike(e, r, made)
<1>1. Entry(d, e, i, x, 0)
  BY DEF Removed
<1>2. /\ KidsKnow(e) /\ DirsKnow(e, made) /\ RootThere(e)
      /\ \A j \in Inum, y \in Names : IsKid(e, j, y) => IsKid(d, j, y) /\ ~(j = i /\ y = x)
  BY <1>1, EntryTree, Zenon
<1>3. ASSUME NEW j \in Inum PROVE Cardinality(Uses(e, r, j)) <= e.inode[j].nlink
  <2>1. Cardinality(Uses(d, o, j)) <= d.inode[j].nlink /\ d.inode[j].nlink \in Int
    BY DiskFields DEF Treelike, Backed, Sound
  <2>2. Cardinality(Uses(e, r, j)) \in Nat /\ Cardinality(Uses(d, o, j)) \in Nat
    BY UsesFinite
  <2>3. CASE j # k
    <3>1. Uses(e, r, j) \subseteq Uses(d, o, j)
      BY <1>1, <1>2, <2>3, TheNames, Constants DEF Uses, Entry
    <3>2. Cardinality(Uses(e, r, j)) <= Cardinality(Uses(d, o, j))
      BY <3>1, UsesFinite, FS_Subset
    <3>3. CASE j = i /\ d.inode[k].type = "dir"
      <4>1. PICK v : v = <<"kid", i, x>>
        BY Zenon
      <4>2. IsKid(d, i, x) /\ ~IsKid(e, i, x)
        BY <1>2, <3>3, Constants DEF IsKid
      <4>3. v \in Uses(d, o, i) /\ v \notin Uses(e, r, i)
        BY <4>1, <4>2, UsesAre, Zenon
      <4>4. Uses(e, r, i) \subseteq Uses(d, o, i) \ {v}
        BY <3>1, <3>3, <4>3
      <4>5. Cardinality(Uses(e, r, i)) <= Cardinality(Uses(d, o, i)) - 1
        BY <4>3, <4>4, UsesFinite, Fewer, Zenon
      <4> QED  BY <2>1, <2>2, <3>3, <4>5 DEF Removed
    <3> QED  BY <2>1, <2>2, <3>2, <3>3 DEF Removed
  <2>4. CASE j = k
    <3>0. PICK u, v : v = <<"name", i, x>> /\ u = <<"owed", p, Image>>
      BY Zenon
    <3>1. v \in Uses(d, o, k)
      BY <3>0, UsesAre, Zenon
    <3>2. v \notin Uses(e, r, k)
      <4>1. e.dir[i][x] # k
        BY <1>1, TheNames, Constants DEF Entry
      <4> QED  BY <3>0, <4>1 DEF Uses
    <3>3. Uses(e, r, k) \subseteq Uses(d, o, k) \cup {u}
      BY <1>1, <1>2, <3>0, TheNames, Constants DEF Uses, Entry
    <3>4. Uses(e, r, k) \subseteq (Uses(d, o, k) \ {v}) \cup {u}
      BY <3>2, <3>3
    <3>5. Cardinality(Uses(e, r, k)) <= Cardinality(Uses(d, o, k))
      BY <3>1, <3>4, UsesFinite, Fewer, ZenonT(30)
    <3> QED  BY <2>1, <2>2, <2>4, <3>5 DEF Removed
  <2> QED  BY <2>3, <2>4
<1> QED  BY <1>2, <1>3 DEF Treelike, Backed

\* sys_unlink removes the entry, with the directory locked since it found it.
LEMMA UnlinkEntryLinks ==
  ASSUME IInv, LInv, NEW p \in Proc, UnlinkEntry(p)
  PROVE  LInv'
<1>1. /\ LocTyped(loc[p]) /\ FileTyped(loc[p], ofile[p]) /\ LocHolds(p, loc[p], lock)
      /\ cwd[p] \in Inum /\ ofile[p] \in Files /\ DOMAIN loc = Proc /\ DOMAIN loc[p] = Fields
      /\ loc[p].pc = "unlink2" /\ loc[p].puts = <<>> /\ loc[p].put = "check"
      /\ Underway(p, disk, loc[p], cwd[p], ops)
  BY LinksAt DEF UnlinkEntry, Under
<1>2. PICK i \in Inum, k \in Inum : i = loc[p].cur /\ k = loc[p].ip
  BY <1>1 DEF LocTyped, AtCur, AtIp
<1>3. /\ committed' = committed /\ cwd' = cwd /\ ofile' = ofile
      /\ ops' = ops /\ ops \ {p} \subseteq ops' /\ lock[k] = Nobody /\ lock[i] = p /\ i # k
  <2>1. lock[k] = Nobody /\ lock[i] = p
    BY <1>1, <1>2 DEF UnlinkEntry, Under, CanLock, LocHolds, HasCur
  <2> QED  BY <2>1, Constants DEF UnlinkEntry, Rest1
<1>4. PICK x \in Names : x = Name(p) /\ disk.dir[i][x] = k
  BY <1>1, <1>2 DEF Underway, Name
<1>5. disk.inode[i].type = "dir"
  BY <1>1, <1>2 DEF Underway, ToName
<1>6. /\ Found(i) = disk.inode[i] /\ Found(k) = disk.inode[k]
  BY FoundIs, Quiet
<1>7. CASE disk' = disk /\ Local(p, [puts |-> <<k>>, pc |-> "unlinkbad"])
  <2>1. /\ Alone(p) /\ DOMAIN loc'[p] = Fields
        /\ loc'[p].pc = "unlinkbad" /\ loc'[p].rest = loc[p].rest /\ loc'[p].cur = i
        /\ loc'[p].puts = <<k>> /\ loc'[p].put = "check"
    BY <1>1, <1>2, <1>3, <1>7, Quiet, Zenon DEF Local, Updated, Fields, Alone
  <2>2. Quietly(p)
    BY <1>1, <1>2, <1>3, <2>1, PutsAre DEF Quietly, Owing, Firm, Besides, WithIp, AtCur, AtIp
  <2>3. Underway(p, disk, loc'[p], cwd'[p], ops')
    BY <1>1, <1>3, <1>5, <2>1 DEF Underway, Owing, ToName
  <2> QED  BY <1>3, <1>7, <2>1, <2>2, <2>3, LinksQuiet
<1> DEFINE cut == [disk EXCEPT !.dir[i][x] = 0]
           din == IF disk.inode[k].type = "dir" THEN Unlinked(disk.inode[i]) ELSE disk.inode[i]
<1>8. CASE disk' = Stored(cut, i, din) /\ Local(p, [puts |-> <<i>>, pc |-> "unlink3"])
  <2>1. Entry(disk, cut, i, x, 0) /\ Sound(cut) /\ cut.inode = disk.inode
    <3>1. PICK z \in Inum \cup {0} : z = 0
      OBVIOUS
    <3>2. cut = [disk EXCEPT !.dir[i][x] = z]
      BY <3>1
    <3>3. x \in AllNames
      BY TheNames
    <3>4. Entry(disk, cut, i, x, z) /\ cut.inode = disk.inode
      BY <3>2, <3>3, EntryIs, Quiet
    <3>5. Sound([disk EXCEPT !.dir[i][x] = z])
      BY <3>3, NamedSound, Quiet
    <3> HIDE DEF cut
    <3> QED  BY <3>1, <3>2, <3>4, <3>5
  <2>2. din.type = disk.inode[i].type
        /\ din.nlink = IF disk.inode[k].type = "dir" THEN disk.inode[i].nlink - 1 ELSE disk.inode[i].nlink
    <3>1. disk.inode[i] \in Dinodes
      BY DiskFields, Quiet DEF Sound
    <3> QED  BY <3>1 DEF Unlinked, Dinodes
  <2> HIDE DEF din, cut
  <2>3. /\ disk'.dir = cut.dir /\ disk'.inode[i] = din
        /\ \A j \in Inum \ {i} : disk'.inode[j] = disk.inode[j]
    BY <1>8, <2>1, OneStored
  <2>4. Removed(disk, disk', i, x, k)
    BY <2>1, <2>2, <2>3 DEF Removed, Entry
  <2>5. /\ Alone(p) /\ DOMAIN loc'[p] = Fields
        /\ loc'[p].pc = "unlink3" /\ loc'[p].rest = loc[p].rest /\ loc'[p].ip = k
        /\ loc'[p].puts = <<i>> /\ loc'[p].put = "check"
    BY <1>1, <1>2, <1>3, <1>8, Quiet, Zenon DEF Local, Updated, Fields, Alone
  <2>6. Touches(p)
    <3>1. i \in Firm(loc[p], ofile[p], cwd[p])
      BY <1>1, <1>2, FirmPlaces DEF AtCur
    <3> QED  BY <1>3, <2>4, <3>1 DEF Touches, Removed, Entry
  <2>7. FirmInUse(disk', loc'[p], ofile'[p], cwd'[p]) /\ FirmFound(p) /\ OwnsFound(p)
    <3>1. Firm(loc'[p], ofile'[p], cwd'[p]) \subseteq Firm(loc[p], ofile[p], cwd[p])
      BY <1>1, <1>2, <1>3, <2>5, PutsAre DEF Firm, Besides, WithIp, AtCur, AtIp
    <3> QED  BY <2>4, <2>5, <3>1, FirmKept DEF Removed, Entry
  <2>8. Underway(p, disk', loc'[p], cwd'[p], ops')
    BY <1>1, <1>3, <2>4, <2>5 DEF Underway, Owing, ToName, Removed, Entry
  <2>9. Treelike(disk', Owed(loc'), Making(loc')) /\ Treelike(committed', NobodyOwes, {})
    <3>1. /\ \A j \in Inum \ {k} : Owed(loc')[j] \subseteq Owed(loc)[j]
          /\ Owed(loc')[k] \subseteq Owed(loc)[k] \cup {p}
      BY <1>1, <1>2, <2>5 DEF Owed, Owing, Alone
    <3>2. Making(loc') = Making(loc)
      BY <1>1, <2>5 DEF Making, Alone
    <3>3. Treelike(disk', Owed(loc'), Making(loc))
      BY <1>3, <1>4, <1>5, <2>4, <3>1, RemovedTree, OwedTyped, Quiet DEF LInv
    <3> QED  BY <1>3, <3>2, <3>3 DEF LInv
  <2> QED  BY <1>3, <2>5, <2>6, <2>7, <2>8, <2>9, LinksStep DEF Relies
<1> QED  BY <1>2, <1>4, <1>6, <1>7, <1>8 DEF UnlinkEntry

-----------------------------------------------------------------------------
\* The steps that make an inode or free it.

\* An inode without links has no use: no entry names it, it is not the root, and nobody owes it.
LEMMA UnusedIs ==
  ASSUME NEW d, NEW o \in [Inum -> SUBSET Proc], Backed(d, o), Sound(d), NEW i \in Inum, d.inode[i].nlink = 0
  PROVE  /\ Uses(d, o, i) = {} /\ i # Root
         /\ \A j \in Inum, x \in Names : d.dir[j][x] # i /\ ~IsKid(d, i, x)
         /\ o[i] = {}
<1>1. Uses(d, o, i) = {}
  BY UsedHasLinks
<1>2. /\ i # Root /\ \A j \in Inum, x \in Names : d.dir[j][x] # i
      /\ \A x \in Names : ~IsKid(d, i, x)
      /\ \A p \in Proc : p \notin o[i]
  BY <1>1, UsesAre, Zenon
<1> QED  BY <1>1, <1>2

\* ialloc gives a free inode a type.
LEMMA MadeTree ==
  ASSUME NEW d, NEW e, NEW o \in [Inum -> SUBSET Proc], NEW made, Sound(d), Treelike(d, o, made),
         NEW i \in Inum, d.inode[i].type = "free", e.dir = d.dir, e.inode[i].nlink = 0,
         \A j \in Inum \ {i} : e.inode[j] = d.inode[j]
  PROVE  Treelike(e, o, made \cup {i})
<1>1. /\ d.inode[i].nlink = 0 /\ i # Root
      /\ \A j \in Inum, x \in Names : d.dir[j][x] # i /\ ~IsKid(d, i, x)
  BY UnusedIs, UsedHasLinks DEF Treelike
<1>2. \A j \in Inum, x \in AllNames : d.dir[j][x] # 0 => d.dir[j][x] \in Inum
  BY DEF Sound, DiskTyped
<1>3. \A j \in Inum, x \in Names : IsKid(e, j, x) <=> IsKid(d, j, x)
  BY <1>1, <1>2, TheNames DEF IsKid
<1>4. \A j \in Inum : Uses(e, o, j) = Uses(d, o, j)
  BY <1>3 DEF Uses
<1>5. Backed(e, o)
  BY <1>1, <1>4 DEF Treelike, Backed
<1>6. KidsKnow(e) /\ RootThere(e)
  BY <1>1, <1>3, Constants DEF Treelike, KidsKnow, RootThere
<1>7. DirsKnow(e, made \cup {i})
  BY DEF Treelike, DirsKnow
<1> QED  BY <1>5, <1>6, <1>7 DEF Treelike

\* iput frees an inode without links.
LEMMA FreedTree ==
  ASSUME NEW d, NEW e, NEW o \in [Inum -> SUBSET Proc], NEW made, Sound(d), Treelike(d, o, made),
         NEW i \in Inum, d.inode[i].nlink = 0, e.inode[i] = FreeInode, e.dir[i] = EmptyDir,
         \A j \in Inum \ {i} : e.inode[j] = d.inode[j] /\ e.dir[j] = d.dir[j]
  PROVE  Treelike(e, o, made)
<1>1. /\ i # Root /\ Uses(d, o, i) = {}
      /\ \A j \in Inum, x \in Names : d.dir[j][x] # i
  BY UnusedIs DEF Treelike
<1>2. \A j \in Inum, x \in AllNames : d.dir[j][x] # 0 => d.dir[j][x] \in Inum
  BY DEF Sound, DiskTyped
<1>3. /\ \A x \in AllNames : e.dir[i][x] = 0
      /\ FreeInode.type = "free" /\ FreeInode.nlink = 0
  BY EmptyTyped DEF EmptyDir
<1>4. \A j \in Inum, x \in Names : IsKid(e, j, x) => IsKid(d, j, x) /\ j # i /\ e.dir[j][x] = d.dir[j][x]
  BY <1>1, <1>2, <1>3, TheNames DEF IsKid
<1>5. \A j \in Inum : Uses(e, o, j) \subseteq Uses(d, o, j)
  BY <1>3, <1>4, TheNames, Constants DEF Uses
<1>6. ASSUME NEW j \in Inum PROVE Cardinality(Uses(e, o, j)) <= e.inode[j].nlink
  <2>1. Cardinality(Uses(d, o, j)) <= d.inode[j].nlink /\ d.inode[j].nlink \in Int
    BY DiskFields DEF Treelike, Backed, Sound
  <2>2. Cardinality(Uses(e, o, j)) <= Cardinality(Uses(d, o, j))
    BY <1>5, UsesFinite, FS_Subset
  <2> QED  BY <1>3, <2>1, <2>2, UsesFinite
<1>7. KidsKnow(e)
  BY <1>1, <1>2, <1>4, TheNames DEF Treelike, KidsKnow, IsKid
<1>8. DirsKnow(e, made) /\ RootThere(e)
  BY <1>1, <1>3, TheNames, Constants DEF Treelike, DirsKnow, RootThere
<1> QED  BY <1>6, <1>7, <1>8 DEF Treelike, Backed

\* iput frees what p alone points to, and drops the pointer next.
LEMMA PutFreeLinks ==
  ASSUME IInv, LInv, NEW p \in Proc, PutFree(p)
  PROVE  LInv'
<1>0. PICK i : i = Head(loc[p].puts)
  OBVIOUS
<1>1. /\ MineTyped(p, loc[p], ofile[p], cwd[p], lock) /\ DOMAIN loc = Proc /\ DOMAIN loc[p] = Fields
      /\ Underway(p, disk, loc[p], cwd[p], ops) /\ FirmInUse(disk, loc[p], ofile[p], cwd[p])
  BY Mine DEF MineTyped, LocTyped, LInv, Relies
<1>2. /\ Alone(p) /\ DOMAIN loc'[p] = Fields
      /\ loc'[p].pc = loc[p].pc /\ loc'[p].call = loc[p].call /\ loc'[p].rest = loc[p].rest
      /\ loc'[p].want = loc[p].want /\ loc'[p].cur = loc[p].cur /\ loc'[p].ip = loc[p].ip
      /\ loc'[p].puts = loc[p].puts /\ loc'[p].put = "drop"
  BY <1>0, <1>1, Quiet DEF PutFree, Local, Updated, Fields, Alone
<1>3. /\ disk' = Truncated(disk, i) /\ committed' = committed /\ ops' = ops
      /\ ofile' = ofile /\ cwd' = cwd /\ loc[p].puts # <<>> /\ loc[p].put = "free"
      /\ ops \ {p} \subseteq ops'
  BY <1>0 DEF PutFree, Putting
<1>4. i \in Inum /\ lock[i] = p
  <2>1. Head(loc[p].puts) \in Inum
    BY <1>1, <1>3, CountTail, Constants DEF MineTyped, LocTyped
  <2> QED  BY <1>0, <1>1, <1>3, <2>1 DEF MineTyped, LocHolds
<1>5. Owns(loc[p], i) /\ disk.inode[i].nlink = 0 /\ i \notin Besides(loc[p], ofile[p], cwd[p])
  BY <1>0, <1>1, <1>3, <1>4 DEF Owns, FirmInUse
<1>6. /\ \A j \in Inum \ {i} : disk'.inode[j] = disk.inode[j] /\ disk'.dir[j] = disk.dir[j]
      /\ disk'.inode[i] = FreeInode /\ disk'.dir[i] = EmptyDir /\ FreeInode.nlink = 0
  <2>1. /\ disk'.inode = [disk.inode EXCEPT ![i] = FreeInode]
        /\ disk'.dir = [disk.dir EXCEPT ![i] = EmptyDir]
    BY <1>3, Quiet DEF Truncated, Sound, DiskTyped
  <2>2. disk.inode \in [Inum -> Dinodes] /\ disk.dir \in [Inum -> [AllNames -> Inum \cup {0}]]
    BY Quiet DEF Sound, DiskTyped
  <2>3. FreeInode.nlink = 0
    BY EmptyTyped
  <2> QED  BY <1>4, <2>1, <2>2, <2>3
<1>7. /\ Besides(loc'[p], ofile'[p], cwd'[p]) = Besides(loc[p], ofile[p], cwd[p])
      /\ Firm(loc'[p], ofile'[p], cwd'[p]) = Besides(loc[p], ofile[p], cwd[p])
      /\ Besides(loc[p], ofile[p], cwd[p]) \subseteq Firm(loc[p], ofile[p], cwd[p])
  <2>1. Besides(loc'[p], ofile'[p], cwd'[p]) = Besides(loc[p], ofile[p], cwd[p])
    BY <1>2, <1>3 DEF Besides, WithIp
  <2> QED  BY <1>2, <1>3, <2>1 DEF Firm
<1>8. \A j \in Besides(loc[p], ofile[p], cwd[p]) : j \in Inum \ {i} /\ disk'.inode[j] = disk.inode[j]
  BY <1>5, <1>6 DEF Besides
<1>9. Touches(p) /\ FirmFound(p) /\ OwnsFound(p)
  BY <1>2, <1>4, <1>5, <1>6, <1>7 DEF Touches, FirmFound, OwnsFound, Owns
<1>10. Treelike(disk', Owed(loc'), Making(loc')) /\ Treelike(committed', NobodyOwes, {})
  <2>1. Owed(loc') = Owed(loc) /\ Making(loc') = Making(loc)
    BY <1>2 DEF Owed, Making, Owing, Alone
  <2>2. Treelike(disk', Owed(loc), Making(loc))
    BY <1>4, <1>5, <1>6, FreedTree, OwedTyped, Quiet, Zenon DEF LInv
  <2> QED  BY <1>3, <2>1, <2>2 DEF LInv
<1>11. /\ loc[p].pc \in AtCur => loc[p].cur \in Besides(loc[p], ofile[p], cwd[p])
       /\ WithIp(loc[p]) => loc[p].ip \in Besides(loc[p], ofile[p], cwd[p])
       /\ loc[p].pc # "moved" => cwd[p] \in Besides(loc[p], ofile[p], cwd[p])
  BY <1>1 DEF Besides, MineTyped, LocTyped, WithIp
<1>12. FirmInUse(disk', loc'[p], ofile'[p], cwd'[p])
  <2>1. \A j \in Firm(loc'[p], ofile'[p], cwd'[p]) : disk'.inode[j].type # "free"
    BY <1>1, <1>7, <1>8 DEF FirmInUse
  <2>2. \A j \in Inum : Owns(loc'[p], j) => disk'.inode[j].nlink = 0
    BY <1>1, <1>2, <1>6 DEF FirmInUse, Owns
  <2> QED  BY <1>2, <2>1, <2>2 DEF FirmInUse
<1>13. Underway(p, disk', loc'[p], cwd'[p], ops')
  <2>1. Owing(loc[p]) /\ loc[p].pc # "unlink3" => disk'.inode[loc[p].ip].type # "dir"
    BY <1>1, <1>8, <1>11 DEF Underway, Owing, WithIp, AtIp
  <2>2. disk'.inode[cwd[p]].type = "dir" \/ loc[p].pc = "moved"
    BY <1>1, <1>8, <1>11 DEF Underway
  <2>3. loc[p].pc \in ToName \cup {"moved"} => disk'.inode[loc[p].cur].type = "dir"
    BY <1>1, <1>8, <1>11 DEF Underway, ToName, AtCur
  <2>4. loc[p].pc = "unlink2" => disk'.dir[loc[p].cur] = disk.dir[loc[p].cur]
    BY <1>6, <1>8, <1>11 DEF AtCur
  <2> QED  BY <1>1, <1>2, <1>3, <2>1, <2>2, <2>3, <2>4 DEF Underway, Owing
<1> QED  BY <1>2, <1>3, <1>9, <1>10, <1>12, <1>13, LinksStep DEF Relies

\* create finds the name, or takes an inode that is free for it: a free inode is nobody's.
LEMMA CreateLinks ==
  ASSUME IInv, LInv, NEW p \in Proc, Create(p)
  PROVE  LInv'
<1>1. /\ LocTyped(loc[p]) /\ FileTyped(loc[p], ofile[p]) /\ LocHolds(p, loc[p], lock)
      /\ cwd[p] \in Inum /\ ofile[p] \in Files /\ DOMAIN loc = Proc /\ DOMAIN loc[p] = Fields
      /\ loc[p].pc = "create" /\ loc[p].puts = <<>> /\ loc[p].put = "check"
      /\ Underway(p, disk, loc[p], cwd[p], ops)
      /\ FirmInUse(disk, loc[p], ofile[p], cwd[p])
  BY LinksAt DEF Create, Under
<1>2. PICK dp \in Inum : dp = loc[p].cur
  BY <1>1 DEF LocTyped, AtCur
<1>3. /\ committed' = committed /\ cwd' = cwd /\ ofile' = ofile
      /\ ops' = ops /\ ops \ {p} \subseteq ops'
  BY DEF Create, Rest1
<1>4. PICK x \in AllNames : /\ x = Name(p) /\ x # ".." /\ disk.dir[dp][x] \in Inum \cup {0}
                            /\ disk.dir[dp][x] = 0 => x \in Names
  BY <1>1, <1>2, CallsName DEF ToName
<1>5. disk.inode[dp].type = "dir"
  BY <1>1, <1>2 DEF Underway, ToName
<1>6. CASE disk.dir[dp][x] # 0
  <2>1. PICK old \in Inum : old = disk.dir[dp][x] /\ (old = dp \/ Uses(disk, Owed(loc), old) # {})
    BY <1>4, <1>6, NamedIsUsed, SMTT(30)
  <2>2. disk' = disk /\ Local(p, [puts |-> <<dp>>, ip |-> old, pc |-> "exists"])
    BY <1>2, <1>4, <1>6, <2>1 DEF Create
  <2>3. /\ Alone(p) /\ DOMAIN loc'[p] = Fields
        /\ loc'[p].pc = "exists" /\ loc'[p].rest = loc[p].rest /\ loc'[p].ip = old
        /\ loc'[p].puts = <<dp>> /\ loc'[p].put = "check"
    BY <1>1, <1>2, <1>3, <2>2, Quiet, ZenonT(30) DEF Local, Updated, Fields, Alone
  <2>4. Quietly(p)
    BY <1>1, <1>2, <1>3, <2>1, <2>3, PutsAre DEF Quietly, Owing, Firm, Besides, WithIp, AtCur, AtIp
  <2>5. Underway(p, disk, loc'[p], cwd'[p], ops')
    BY <1>1, <1>3, <1>5, <2>3 DEF Underway, Owing, ToName
  <2> QED  BY <1>3, <2>2, <2>3, <2>4, <2>5, LinksQuiet
<1> DEFINE n == Least(FreeInodes)
           din == [FreeInode EXCEPT !.type = TypeOf(loc[p].call.op)]
<1>7. CASE /\ disk.dir[dp][x] = 0 /\ FreeInodes # {}
           /\ Local(p, [ip |-> n, pc |-> "create2"])
           /\ disk' = Stored(disk, n, din)
  <2>1. PICK i \in Inum : i = n /\ disk.inode[i].type = "free"
    <3>1. FreeInodes \in SUBSET Nat /\ FreeInodes \subseteq Inum
      BY DEF FreeInodes, Inum
    <3>2. n \in FreeInodes
      BY <1>7, <3>1, LeastElement
    <3> QED  BY <3>1, <3>2, Zenon DEF FreeInodes
  <2>2. din \in Dinodes /\ din.type # "free" /\ din.nlink = 0
    <3>1. TypeOf(loc[p].call.op) \in Kinds \ {"free"}
      BY TypesOf DEF Kinds
    <3> QED  BY <3>1, EmptyTyped DEF Dinodes
  <2> HIDE DEF n, din
  <2>3. /\ disk'.dir = disk.dir /\ disk'.inode[i] = din
        /\ \A j \in Inum \ {i} : disk'.inode[j] = disk.inode[j]
    <3>1. disk' = Stored(disk, i, din)
      BY <1>7, <2>1
    <3>2. /\ disk'.inode = [disk.inode EXCEPT ![i] = din] /\ disk'.dir = disk.dir
          /\ disk.inode \in [Inum -> Dinodes]
      BY <3>1, Quiet DEF Stored, Sound, DiskTyped
    <3> QED  BY <3>2
  <2>4. /\ Alone(p) /\ DOMAIN loc'[p] = Fields
        /\ loc'[p].pc = "create2" /\ loc'[p].rest = loc[p].rest /\ loc'[p].cur = dp
        /\ loc'[p].ip = i /\ loc'[p].puts = <<>> /\ loc'[p].put = "check"
    BY <1>1, <1>2, <1>3, <1>7, <2>1, Quiet, Zenon DEF Local, Updated, Fields, Alone
  <2>5. \A q \in Proc : i \notin Firm(loc[q], ofile[q], cwd[q])
    BY <2>1 DEF LInv, Relies, FirmInUse
  <2>6. disk.inode[i].nlink = 0
    BY <2>1, EmptyTyped, Quiet DEF Sound, FreeIsEmpty
  <2>7. Touches(p)
    BY <1>3, <2>1, <2>2, <2>3, <2>6 DEF Touches
  <2>8. /\ \A j \in Firm(loc'[p], ofile'[p], cwd'[p]) : j \in Firm(loc[p], ofile[p], cwd[p]) \cup {i}
        /\ \A j \in Inum : Owns(loc'[p], j) <=> j = i
    BY <1>1, <1>2, <1>3, <2>4, PutsAre DEF Firm, Besides, WithIp, AtCur, AtIp, Owns
  <2>9. FirmFound(p) /\ OwnsFound(p)
    BY <2>1, <2>5, <2>8 DEF FirmFound, OwnsFound
  <2>10. FirmInUse(disk', loc'[p], ofile'[p], cwd'[p])
    <3>1. \A j \in Firm(loc'[p], ofile'[p], cwd'[p]) : j \in Inum /\ disk'.inode[j].type # "free"
      BY <1>1, <2>2, <2>3, <2>8 DEF FirmInUse, Firm, Besides
    <3> QED  BY <2>2, <2>3, <2>4, <2>8, <3>1 DEF FirmInUse
  <2>11. Underway(p, disk', loc'[p], cwd'[p], ops')
    <3>1. cwd[p] # i /\ dp # i
      <4>1. disk.inode[cwd[p]].type = "dir"
        BY <1>1 DEF Underway
      <4> QED  BY <1>5, <2>1, <4>1
    <3>2. disk'.inode[cwd'[p]].type = "dir" /\ disk'.inode[dp].type = "dir"
      BY <1>1, <1>3, <1>5, <2>3, <3>1 DEF Underway
    <3>3. Head(loc'[p].rest) \in Names
      BY <1>4, <1>7, <2>4 DEF Name
    <3> QED  BY <1>1, <1>3, <2>4, <3>2, <3>3 DEF Underway, Owing
  <2>12. Treelike(disk', Owed(loc'), Making(loc')) /\ Treelike(committed', NobodyOwes, {})
    <3>1. Owed(loc') = Owed(loc)
      BY <1>1, <2>4 DEF Owed, Owing, Alone
    <3>2. Making(loc') = Making(loc) \cup {i}
      BY <1>1, <2>4 DEF Making, Alone
    <3>3. Treelike(disk', Owed(loc), Making(loc) \cup {i})
      BY <2>1, <2>2, <2>3, MadeTree, OwedTyped, Quiet, Zenon DEF LInv
    <3> QED  BY <1>3, <3>1, <3>2, <3>3 DEF LInv
  <2> QED  BY <1>3, <2>4, <2>7, <2>9, <2>10, <2>11, <2>12, LinksStep DEF Relies
<1>8. \/ disk.dir[dp][x] # 0
      \/ /\ disk.dir[dp][x] = 0 /\ FreeInodes # {}
         /\ Local(p, [ip |-> n, pc |-> "create2"])
         /\ disk' = Stored(disk, n, din)
  BY <1>2, <1>4 DEF Create
<1> QED  BY <1>6, <1>7, <1>8

\* create's new inode in its directory, with ".." if it is one.
NewEntry(d, e, i, x, k) ==
  /\ \A j \in Inum \ {i, k} : e.dir[j] = d.dir[j] /\ e.inode[j].nlink = d.inode[j].nlink
  /\ \A j \in Inum : e.inode[j].type = d.inode[j].type
  /\ \A y \in AllNames : e.dir[i][y] = IF y = x THEN k ELSE d.dir[i][y]
  /\ IF d.inode[k].type = "dir"
     THEN /\ \A y \in Names : e.dir[k][y] = 0
          /\ e.dir[k]["."] = k /\ e.dir[k][".."] = i
          /\ e.inode[i].nlink = d.inode[i].nlink + 1
     ELSE e.dir[k] = d.dir[k] /\ e.inode[i].nlink = d.inode[i].nlink
  /\ e.inode[k].nlink = 1

\* The new inode gets its one link, and its directory one for "..".
LEMMA NewEntryTree ==
  ASSUME NEW d, NEW e, NEW o \in [Inum -> SUBSET Proc], NEW made, NEW less, Sound(d),
         Treelike(d, o, made), NEW i \in Inum, NEW x \in Names, NEW k \in Inum, i # k,
         d.inode[i].type = "dir", d.inode[k].nlink = 0, NewEntry(d, e, i, x, k),
         made \ {k} \subseteq less
  PROVE  Treelike(e, o, less)
<1>1. /\ Uses(d, o, k) = {} /\ k # Root /\ o[k] = {}
      /\ \A j \in Inum, y \in Names : d.dir[j][y] # k /\ ~IsKid(d, k, y)
  BY UnusedIs DEF Treelike
<1>2. \A j \in Inum, y \in Names : d.dir[j][y] # 0 => d.dir[j][y] \in Inum
  BY TheNames DEF Sound, DiskTyped
<1>3. \A y \in Names : y \in AllNames /\ y # "." /\ y # ".."
  BY TheNames, Constants
<1>4. /\ \A y \in Names : e.dir[i][y] = IF y = x THEN k ELSE d.dir[i][y]
      /\ \A y \in {".", ".."} : e.dir[i][y] = d.dir[i][y]
  BY <1>3, TheNames DEF NewEntry
<1>5. \A y \in Names : e.dir[k][y] = 0 \/ e.dir[k][y] = d.dir[k][y]
  BY DEF NewEntry
<1>6. \A j \in Inum, y \in Names : e.dir[j][y] = d.dir[j][y] \/ e.dir[j][y] = 0 \/ (j = i /\ y = x)
  BY <1>4, <1>5 DEF NewEntry
<1>7. \A y \in Names : ~IsKid(e, k, y)
  BY <1>1, <1>2, <1>5, SMTT(30) DEF IsKid, NewEntry
<1>8. \A j \in Inum, y \in Names : IsKid(e, j, y) =>
        \/ j = i /\ y = x /\ d.inode[k].type = "dir"
        \/ j # k /\ IsKid(d, j, y) /\ e.dir[j][y] = d.dir[j][y]
  BY <1>2, <1>4, <1>6, <1>7, SMTT(30) DEF IsKid, NewEntry
<1>9. ASSUME NEW j \in Inum PROVE Cardinality(Uses(e, o, j)) <= e.inode[j].nlink
  <2>1. Cardinality(Uses(d, o, j)) <= d.inode[j].nlink /\ d.inode[j].nlink \in Int
    BY DiskFields DEF Treelike, Backed, Sound
  <2>2. Cardinality(Uses(e, o, j)) \in Nat /\ Cardinality(Uses(d, o, j)) \in Nat
    BY UsesFinite
  <2>3. CASE j = k
    <3>1. PICK u : u = <<"name", i, x>>
      BY Zenon
    <3>2. Uses(e, o, k) \subseteq {u}
      BY <1>1, <1>6, <1>7, <3>1, Constants DEF Uses
    <3>3. Cardinality({u}) = 1 /\ IsFiniteSet({u})
      BY FS_Singleton, Zenon
    <3>4. Cardinality(Uses(e, o, k)) <= 1
      BY <3>2, <3>3, FS_Subset
    <3> QED  BY <2>3, <3>4 DEF NewEntry
  <2>4. CASE j = i /\ d.inode[k].type = "dir"
    <3>1. PICK u : u = <<"kid", i, x>>
      BY Zenon
    <3>2. Uses(e, o, i) \subseteq Uses(d, o, i) \cup {u}
      BY <1>4, <1>6, <1>8, <3>1, Constants DEF Uses
    <3>3. Cardinality(Uses(e, o, i)) <= Cardinality(Uses(d, o, i)) + 1
      BY <3>2, UsesFinite, Fewer, Zenon
    <3> QED  BY <2>1, <2>2, <2>4, <3>3 DEF NewEntry
  <2>5. CASE j # k /\ (j # i \/ d.inode[k].type # "dir")
    <3>1. Uses(e, o, j) \subseteq Uses(d, o, j)
      BY <1>4, <1>6, <1>8, <2>5, Constants DEF Uses
    <3>2. Cardinality(Uses(e, o, j)) <= Cardinality(Uses(d, o, j))
      BY <3>1, UsesFinite, FS_Subset
    <3>3. e.inode[j].nlink = d.inode[j].nlink
      BY <2>5 DEF NewEntry
    <3> QED  BY <2>1, <2>2, <3>2, <3>3
  <2> QED  BY <2>3, <2>4, <2>5
<1>10. KidsKnow(e)
  <2> SUFFICES ASSUME NEW j \in Inum, NEW y \in Names, IsKid(e, j, y)
               PROVE  e.dir[e.dir[j][y]][".."] = j
    BY DEF KidsKnow
  <2>1. CASE j = i /\ y = x /\ d.inode[k].type = "dir"
    BY <1>4, <2>1 DEF NewEntry
  <2>2. CASE j # k /\ IsKid(d, j, y) /\ e.dir[j][y] = d.dir[j][y]
    <3>1. PICK m \in Inum : m = d.dir[j][y] /\ m # k
      BY <1>1, <1>2, <2>2 DEF IsKid
    <3>2. d.dir[m][".."] = j
      BY <2>2, <3>1 DEF Treelike, KidsKnow
    <3>3. e.dir[m][".."] = d.dir[m][".."]
      BY <1>4, <3>1 DEF NewEntry
    <3> QED  BY <2>2, <3>1, <3>2, <3>3
  <2> QED  BY <1>8, <2>1, <2>2
<1>11. DirsKnow(e, less)
  <2> SUFFICES ASSUME NEW j \in Inum
               PROVE  /\ e.dir[j]["."] \in {0, j}
                      /\ e.inode[j].type = "dir" => e.dir[j]["."] = j \/ j \in less
                      /\ e.inode[j].type # "dir" => e.dir[j] = EmptyDir
    BY DEF DirsKnow
  <2>1. /\ d.dir[j]["."] \in {0, j}
        /\ d.inode[j].type = "dir" => d.dir[j]["."] = j \/ j \in made
        /\ d.inode[j].type # "dir" => d.dir[j] = EmptyDir
    BY DEF Treelike, DirsKnow
  <2>2. e.inode[j].type = d.inode[j].type
    BY DEF NewEntry
  <2>3. CASE j = k
    BY <2>1, <2>2, <2>3 DEF NewEntry
  <2>4. CASE j = i
    BY <1>4, <2>1, <2>2, <2>4
  <2>5. CASE j # i /\ j # k
    BY <2>1, <2>2, <2>5 DEF NewEntry
  <2> QED  BY <2>3, <2>4, <2>5
<1>12. RootThere(e)
  <2>1. d.dir[Root][".."] = Root /\ d.inode[Root].type = "dir" /\ Root \in Inum
    BY Constants DEF Treelike, RootThere
  <2>2. e.dir[Root][".."] = d.dir[Root][".."]
    BY <1>1, <1>4, <2>1 DEF NewEntry
  <2> QED  BY <2>1, <2>2 DEF RootThere, NewEntry
<1> QED  BY <1>9, <1>10, <1>11, <1>12 DEF Treelike, Backed

\* What create writes, and what it writes of a directory beside that.
EntryMade(d, e, i, k, x, din) ==
  /\ DOMAIN e = DOMAIN d /\ DOMAIN e.inode = Inum
  /\ e.inode[k] = [d.inode[k] EXCEPT !.nlink = 1] /\ e.inode[i] = din
  /\ \A j \in Inum \ {i, k} : e.inode[j] = d.inode[j]
  /\ e.dir = [d.dir EXCEPT ![i][x] = k]
HasShape(d, k) == /\ DOMAIN d = {"inode", "dir", "used"} /\ DOMAIN d.inode = Inum
                  /\ DOMAIN d.inode[k] = {"type", "nlink", "size", "addrs"}
DotsMade(d, e, i, k) ==
  /\ e.inode[k].type = d.inode[k].type /\ e.inode[k].nlink = d.inode[k].nlink
  /\ \A j \in Inum \ {k} : e.inode[j] = d.inode[j]
  /\ e.dir = [d.dir EXCEPT ![k] = [EmptyDir EXCEPT !["."] = k, ![".."] = i]]

\* The inode with its count, and its name.
LEMMA Names2Enters ==
  ASSUME NEW d, Sound(d), NEW i \in Inum, NEW k \in Inum, i # k, NEW x \in AllNames, NEW din
  PROVE  EntryMade(d, Names2(d, i, k, x, din), i, k, x, din)
<1>1. /\ DOMAIN d = {"inode", "dir", "used"} /\ DOMAIN d.inode = Inum
      /\ DOMAIN d.dir = Inum
  BY DEF Sound, DiskTyped
<1> QED  BY <1>1 DEF Names2, Stored, EntryMade

\* The block of a directory with its dots; that changes nothing else.
LEMMA DottedIs ==
  ASSUME NEW d, NEW i, NEW k \in Inum, HasShape(d, k)
  PROVE  DotsMade(d, Dotted(d, i, k), i, k)
<1>1. PICK b, e : b = Bmap(d, k, 0) /\ e = Dotted(d, i, k)
  OBVIOUS
<1>2. PICK a, u : b = [d EXCEPT !.inode[k].addrs = a, !.used = u]
  BY <1>1, Zenon DEF Bmap
<1>3. /\ DOMAIN b = {"inode", "dir", "used"} /\ b.dir = d.dir
      /\ b.inode = [d.inode EXCEPT ![k] = [d.inode[k] EXCEPT !.addrs = a]]
  BY <1>2 DEF HasShape
<1>4. /\ b.inode[k].type = d.inode[k].type /\ b.inode[k].nlink = d.inode[k].nlink
      /\ DOMAIN b.inode[k] = {"type", "nlink", "size", "addrs"} /\ DOMAIN b.inode = Inum
      /\ \A j \in Inum \ {k} : b.inode[j] = d.inode[j]
  BY <1>3 DEF HasShape
<1>5. /\ e.dir = [b.dir EXCEPT ![k] = [EmptyDir EXCEPT !["."] = k, ![".."] = i]]
      /\ e.inode = [b.inode EXCEPT ![k] = [b.inode[k] EXCEPT !.size = 1]]
  BY <1>1, <1>3 DEF Dotted
<1> QED  BY <1>1, <1>3, <1>4, <1>5 DEF DotsMade

\* create makes the entry under the locks of both inodes.
LEMMA CreateEntryLinks ==
  ASSUME IInv, LInv, NEW p \in Proc, CreateEntry(p)
  PROVE  LInv'
<1>1. /\ LocTyped(loc[p]) /\ FileTyped(loc[p], ofile[p]) /\ LocHolds(p, loc[p], lock)
      /\ cwd[p] \in Inum /\ ofile[p] \in Files /\ DOMAIN loc = Proc /\ DOMAIN loc[p] = Fields
      /\ loc[p].pc = "create2" /\ loc[p].puts = <<>> /\ loc[p].put = "check"
      /\ Underway(p, disk, loc[p], cwd[p], ops)
      /\ FirmInUse(disk, loc[p], ofile[p], cwd[p])
  BY LinksAt DEF CreateEntry, Under
<1>2. PICK i \in Inum, k \in Inum : i = loc[p].cur /\ k = loc[p].ip
  BY <1>1 DEF LocTyped, AtCur, AtIp
<1>3. PICK x \in Names : x = Name(p)
  BY <1>1 DEF Underway, Name
<1>4. /\ committed' = committed /\ cwd' = cwd /\ ofile' = ofile
      /\ ops' = ops /\ ops \ {p} \subseteq ops' /\ lock[k] = Nobody /\ lock[i] = p /\ i # k
      /\ Local(p, [puts |-> <<i>>, pc |-> "made"])
  <2>1. /\ committed' = committed /\ cwd' = cwd /\ ofile' = ofile /\ ops' = ops
        /\ lock[k] = Nobody /\ Local(p, [puts |-> <<i>>, pc |-> "made"])
    BY <1>2, ZenonT(30) DEF CreateEntry, Entered, Under, CanLock, Rest1
  <2>2. lock[i] = p
    BY <1>1, <1>2 DEF LocHolds, HasCur
  <2> QED  BY <2>1, <2>2, Constants
<1>5. /\ disk.inode[i].type = "dir" /\ disk.inode[k].nlink = 0
      /\ Found(k) = disk.inode[k] /\ Found(i) = disk.inode[i]
      /\ disk.inode[i] \in Dinodes /\ disk.inode[k] \in Dinodes
  <2>1. disk.inode[i].type = "dir"
    BY <1>1, <1>2 DEF Underway, ToName
  <2>2. disk.inode[k].nlink = 0
    BY <1>1, <1>2 DEF FirmInUse, Owns
  <2> QED  BY <2>1, <2>2, FoundIs, DiskFields, Quiet DEF Sound
<1>6. NewEntry(disk, disk', i, x, k)
  <2> DEFINE new == [disk.inode[k] EXCEPT !.nlink = 1]
             more == Linked(disk.inode[i], 1)
  <2>1. new.type = disk.inode[k].type /\ new.nlink = 1 /\ DOMAIN new = {"type", "nlink", "size", "addrs"}
    BY <1>5 DEF Dinodes
  <2>2. more.type = disk.inode[i].type /\ more.nlink = disk.inode[i].nlink + 1
    BY <1>5 DEF Linked, Dinodes
  <2>3. x \in AllNames /\ x # "." /\ x # ".." /\ DOMAIN disk = {"inode", "dir", "used"}
        /\ disk.dir \in [Inum -> [AllNames -> Inum \cup {0}]]
    BY TheNames, Constants, Quiet DEF Sound, DiskTyped
  <2>4. CASE disk.inode[k].type = "dir"
    <3>1. PICK d : d = Names2(disk, i, k, x, more)
      OBVIOUS
    <3>2. PICK e : e = Dotted(d, i, k)
      BY SMTT(30)
    <3>3. disk' = e
      BY <1>2, <1>3, <1>5, <2>1, <2>4, <3>1, <3>2, ZenonT(30) DEF CreateEntry, Entered, Dotted, Names2
    <3> HIDE DEF more
    <3>4. /\ DOMAIN d = {"inode", "dir", "used"} /\ DOMAIN d.inode = Inum
          /\ d.inode[k] = new /\ d.inode[i] = more
          /\ \A j \in Inum \ {i, k} : d.inode[j] = disk.inode[j]
          /\ d.dir = [disk.dir EXCEPT ![i][x] = k]
      <4>1. EntryMade(disk, d, i, k, x, more)
        BY <1>4, <2>3, <3>1, Names2Enters, Quiet
      <4> QED  BY <2>3, <4>1 DEF EntryMade
    <3> HIDE DEF new
    <3>5. /\ e.inode[k].type = d.inode[k].type /\ e.inode[k].nlink = d.inode[k].nlink
          /\ \A j \in Inum \ {k} : e.inode[j] = d.inode[j]
          /\ e.dir = [d.dir EXCEPT ![k] = [EmptyDir EXCEPT !["."] = k, ![".."] = i]]
      <4>1. HasShape(d, k)
        BY <2>1, <3>4 DEF HasShape
      <4>2. DotsMade(d, e, i, k)
        BY <3>2, <4>1, DottedIs
      <4> QED  BY <4>2 DEF DotsMade
    <3>6. /\ \A j \in Inum \ {i, k} : e.inode[j] = disk.inode[j]
          /\ \A j \in Inum : e.inode[j].type = disk.inode[j].type
          /\ e.inode[i].nlink = disk.inode[i].nlink + 1 /\ e.inode[k].nlink = 1
      BY <1>4, <2>1, <2>2, <3>4, <3>5
    <3>7. /\ \A j \in Inum \ {i, k} : e.dir[j] = disk.dir[j]
          /\ \A y \in AllNames : e.dir[i][y] = IF y = x THEN k ELSE disk.dir[i][y]
          /\ e.dir[k] = [EmptyDir EXCEPT !["."] = k, ![".."] = i]
      BY <1>4, <2>3, <3>4, <3>5
    <3>8. \A y \in Names : y \in AllNames /\ y # "." /\ y # ".."
      BY TheNames, Constants
    <3>9. /\ \A y \in Names : e.dir[k][y] = 0
          /\ e.dir[k]["."] = k /\ e.dir[k][".."] = i
      BY <3>7, <3>8 DEF EmptyDir, AllNames
    <3> QED  BY <2>4, <3>3, <3>6, <3>7, <3>9, Zenon DEF NewEntry
  <2>5. CASE disk.inode[k].type # "dir"
    <3>1. PICK e : e = Names2(disk, i, k, x, disk.inode[i])
      OBVIOUS
    <3>2. disk' = e
      BY <1>2, <1>3, <1>5, <2>1, <2>5, <3>1, ZenonT(30) DEF CreateEntry, Entered, Names2
    <3>3. /\ e.inode[k] = new /\ e.inode[i] = disk.inode[i]
          /\ \A j \in Inum \ {i, k} : e.inode[j] = disk.inode[j]
          /\ e.dir = [disk.dir EXCEPT ![i][x] = k]
      <4>1. EntryMade(disk, e, i, k, x, disk.inode[i])
        BY <1>4, <2>3, <3>1, Names2Enters, Quiet
      <4> QED  BY <4>1 DEF EntryMade
    <3> HIDE DEF new
    <3>4. \A j \in Inum \ {i, k} : e.dir[j] = disk.dir[j]
      BY <2>3, <3>3
    <3>5. /\ \A y \in AllNames : e.dir[i][y] = IF y = x THEN k ELSE disk.dir[i][y]
          /\ e.dir[k] = disk.dir[k]
      BY <1>4, <2>3, <3>3
    <3>6. \A j \in Inum : e.inode[j].type = disk.inode[j].type
      BY <2>1, <3>3
    <3> QED  BY <2>1, <2>5, <3>2, <3>3, <3>4, <3>5, <3>6 DEF NewEntry
  <2> QED  BY <2>4, <2>5
<1>7. /\ Alone(p) /\ DOMAIN loc'[p] = Fields
      /\ loc'[p].pc = "made" /\ loc'[p].rest = loc[p].rest /\ loc'[p].ip = k
      /\ loc'[p].puts = <<i>> /\ loc'[p].put = "check"
  BY <1>1, <1>2, <1>4, Quiet, Zenon DEF Local, Updated, Fields, Alone
<1>8. Touches(p)
  <2>1. i \in Firm(loc[p], ofile[p], cwd[p]) /\ k \in Firm(loc[p], ofile[p], cwd[p])
    BY <1>1, <1>2, FirmPlaces DEF AtCur, WithIp, AtIp
  <2> QED  BY <1>4, <1>6, <2>1 DEF Touches, NewEntry
<1>9. FirmInUse(disk', loc'[p], ofile'[p], cwd'[p]) /\ FirmFound(p) /\ OwnsFound(p)
  <2>1. Firm(loc'[p], ofile'[p], cwd'[p]) \subseteq Firm(loc[p], ofile[p], cwd[p])
    BY <1>1, <1>2, <1>4, <1>7, PutsAre DEF Firm, Besides, WithIp, AtCur, AtIp
  <2> QED  BY <1>6, <1>7, <2>1, FirmKept DEF NewEntry
<1>10. Underway(p, disk', loc'[p], cwd'[p], ops')
  BY <1>1, <1>4, <1>6, <1>7 DEF Underway, Owing, ToName, NewEntry
<1>11. Treelike(disk', Owed(loc'), Making(loc')) /\ Treelike(committed', NobodyOwes, {})
  <2>1. Owed(loc') = Owed(loc)
    BY <1>1, <1>7 DEF Owed, Owing, Alone
  <2>2. Making(loc) \ {k} \subseteq Making(loc')
    BY <1>2, <1>7 DEF Making, Alone
  <2>3. Treelike(disk', Owed(loc), Making(loc'))
    BY <1>4, <1>5, <1>6, <2>2, NewEntryTree, OwedTyped, Quiet DEF LInv
  <2> QED  BY <1>4, <2>1, <2>3 DEF LInv
<1> QED  BY <1>4, <1>7, <1>8, <1>9, <1>10, <1>11, LinksStep DEF Relies

-----------------------------------------------------------------------------
\* What mkfs writes, what a boot and a crash find, and every step.

\* The bare image names its file once and has no directory but the root.
LEMMA BareTree == Treelike(Bare, NobodyOwes, {})
<1>1. /\ Root \in Inum /\ MkfsFile \in Inum /\ MkfsFile # Root /\ Image \in Names /\ 0 \notin Inum
      /\ \A x \in Names : x \in AllNames /\ x # "." /\ x # ".."
      /\ "." \in AllNames /\ ".." \in AllNames
  BY XvFilesAssumption, Constants, TheNames DEF MkfsFile, Root, Inum
<1>2. /\ \A i \in Inum \ {Root} : Bare.dir[i] = EmptyDir
      /\ Bare.dir[Root] = MkfsRoot
      /\ \A i \in Inum : Bare.inode[i] = IF i = Root THEN Inode("dir", 1, 1, [NoAddrs EXCEPT ![0] = 1])
                                         ELSE IF i = MkfsFile THEN Inode("file", 1, 0, NoAddrs)
                                         ELSE FreeInode
  BY <1>1 DEF Bare
<1>3. /\ \A x \in Names : MkfsRoot[x] = IF x = Image THEN MkfsFile ELSE 0
      /\ MkfsRoot["."] = Root /\ MkfsRoot[".."] = Root
  BY <1>1 DEF MkfsRoot, EmptyDir
<1>4. /\ \A x \in AllNames : EmptyDir[x] = 0
      /\ Bare.inode[Root].type = "dir" /\ Bare.inode[Root].nlink = 1
      /\ Bare.inode[MkfsFile].type = "file" /\ Bare.inode[MkfsFile].nlink = 1
      /\ \A i \in Inum \ {Root, MkfsFile} : Bare.inode[i].type = "free" /\ Bare.inode[i].nlink = 0
  BY <1>1, <1>2 DEF EmptyDir, Inode, FreeInode
<1>5. \A j \in Inum, x \in Names : Bare.dir[j][x] # 0 => j = Root /\ x = Image /\ Bare.dir[j][x] = MkfsFile
  BY <1>1, <1>2, <1>3, <1>4
<1>6. \A j \in Inum, x \in Names : ~IsKid(Bare, j, x)
  BY <1>4, <1>5 DEF IsKid
<1>7. ASSUME NEW i \in Inum PROVE Cardinality(Uses(Bare, NobodyOwes, i)) <= Bare.inode[i].nlink
  <2>1. CASE i = Root
    <3>1. PICK u : u = <<"root", Root, Image>>
      BY Zenon
    <3>2. Uses(Bare, NobodyOwes, i) \subseteq {u}
      BY <1>1, <1>5, <1>6, <2>1, <3>1 DEF Uses, NobodyOwes
    <3>3. Cardinality({u}) = 1 /\ IsFiniteSet({u})
      BY FS_Singleton, Zenon
    <3>4. Cardinality(Uses(Bare, NobodyOwes, i)) <= 1
      BY <3>2, <3>3, FS_Subset
    <3> QED  BY <1>4, <2>1, <3>4
  <2>2. CASE i = MkfsFile
    <3>1. PICK u : u = <<"name", Root, Image>>
      BY Zenon
    <3>2. Uses(Bare, NobodyOwes, i) \subseteq {u}
      BY <1>1, <1>5, <1>6, <2>2, <3>1 DEF Uses, NobodyOwes
    <3>3. Cardinality({u}) = 1 /\ IsFiniteSet({u})
      BY FS_Singleton, Zenon
    <3>4. Cardinality(Uses(Bare, NobodyOwes, i)) <= 1
      BY <3>2, <3>3, FS_Subset
    <3> QED  BY <1>4, <2>2, <3>4
  <2>3. CASE i \in Inum \ {Root, MkfsFile}
    <3>1. Uses(Bare, NobodyOwes, i) = {}
      BY <1>1, <1>5, <1>6, <2>3 DEF Uses, NobodyOwes
    <3> QED  BY <1>4, <2>3, <3>1, FS_EmptySet
  <2> QED  BY <2>1, <2>2, <2>3
<1>8. KidsKnow(Bare) /\ RootThere(Bare)
  BY <1>2, <1>3, <1>4, <1>6 DEF KidsKnow, RootThere
<1>9. DirsKnow(Bare, {})
  BY <1>1, <1>2, <1>3, <1>4 DEF DirsKnow
<1> QED  BY <1>7, <1>8, <1>9 DEF Treelike, Backed

\* The image of mkfs has the links it should have.
LEMMA MkfsTree == Treelike(Mkfs, NobodyOwes, {})
<1>1. /\ 0 \in Nat /\ ImageSize \in Nat /\ 0 + ImageSize <= MAXFILE /\ MkfsFile \in Inum
  BY XvFilesAssumption, Constants DEF MAXFILE, MkfsFile
<1>2. 0 <= Bare.inode[MkfsFile].size /\ Bare.inode[MkfsFile].type # "free"
  BY BareInodes
<1>3. Grown(Bare, Writei(Bare, MkfsFile, 0, ImageSize), MkfsFile)
  BY <1>1, <1>2, BareSound, ImageFits, WriteiSound
<1>4. SameLinks(Bare, Mkfs)
  BY <1>3, MkfsIs DEF Grown, SameLinks
<1> QED  BY <1>4, BareTree, BareSound, SameTree

\* A boot: nobody is in a call, and every process has the root as its directory.
LEMMA FreshLinks == Fresh /\ ParentlessPaths /\ Treelike(committed, NobodyOwes, {}) => LInv
<1> SUFFICES ASSUME Fresh, ParentlessPaths, Treelike(committed, NobodyOwes, {}) PROVE LInv
  OBVIOUS
<1>1. /\ disk = committed /\ \A p \in Proc : loc[p] = AtRest /\ ofile[p] = NoFile /\ cwd[p] = Root
  BY DEF Fresh, Booted
<1>2. /\ AtRest.pc = "idle" /\ AtRest.puts = <<>> /\ AtRest.put = "check" /\ AtRest.rest = <<>>
      /\ ~Owing(AtRest) /\ ~WithIp(AtRest) /\ \A i : ~Owns(AtRest, i)
  BY DEF AtRest, Owing, WithIp, Owns, AtIp
<1>3. Owed(loc) = NobodyOwes /\ Making(loc) = {}
  BY <1>1, <1>2 DEF Owed, NobodyOwes, Making
<1>4. disk.inode[Root].type = "dir" /\ Root \in Inum
  BY <1>1, Constants DEF Treelike, RootThere
<1>5. ASSUME NEW p \in Proc PROVE Relies(p, disk, loc[p], ofile[p], cwd[p], ops)
  <2>1. Firm(AtRest, NoFile, Root) \subseteq {Root}
    BY <1>2, PutsAre DEF Firm, Besides, AtCur
  <2>2. FirmInUse(disk, AtRest, NoFile, Root)
    BY <1>2, <1>4, <2>1 DEF FirmInUse
  <2>3. Underway(p, disk, AtRest, Root, ops)
    BY <1>2, <1>4 DEF Underway, ToName
  <2> QED  BY <1>1, <2>2, <2>3 DEF Relies
<1>6. OwnsAlone
  BY <1>1, <1>2 DEF OwnsAlone
<1> QED  BY <1>1, <1>3, <1>5, <1>6 DEF LInv

\* The same after a crash.
LEMMA FreshLinksThen == (Fresh /\ ParentlessPaths /\ Treelike(committed, NobodyOwes, {}))' => LInv'
BY FreshLinks, PTL

\* A crash goes back to what was committed, where nobody owes a link.
LEMMA CrashLinks ==
  ASSUME IInv, LInv, Crash
  PROVE  LInv'
<1>1. Fresh'
  BY DEF Fresh, Crash, IInv, Booted
<1>2. committed' = committed
  BY DEF Crash
<1>3. ParentlessPaths' /\ Treelike(committed, NobodyOwes, {})'
  BY <1>2, ZenonT(30) DEF LInv, ParentlessPaths, Treelike, Backed, KidsKnow, DirsKnow, RootThere, IsKid, Uses, NobodyOwes
<1> QED  BY <1>1, <1>3, FreshLinksThen

\* Every step of a process keeps what is said of links.
LEMMA StepLinks ==
  ASSUME IInv, LInv, NEW p \in Proc, Step(p)
  PROVE  LInv'
<1>1. CASE \E c \in Programs : Begin(p, c)
  BY <1>1, BeginLinks
<1>2. CASE PutCheck(p) \/ PutFree(p) \/ PutDrop(p) \/ Namex(p)
  BY <1>2, PutCheckLinks, PutFreeLinks, PutDropLinks, NamexLinks
<1>3. CASE LinkOld(p) \/ LinkNew(p) \/ LinkFail(p) \/ LinkUndo(p)
  BY <1>3, LinkOldLinks, LinkNewLinks, BadLinks, TakenBack
<1>4. CASE Unlink(p) \/ UnlinkEntry(p) \/ UnlinkBad(p) \/ UnlinkCount(p)
  BY <1>4, UnlinkLinks, UnlinkEntryLinks, BadLinks, TakenBack
<1>5. CASE Create(p) \/ CreateEntry(p) \/ CreateExists(p) \/ Made(p) \/ Open(p) \/ Chdir(p)
  BY <1>5, CreateLinks, CreateEntryLinks, CreateExistsLinks, MadeLinks, OpenLinks, ChdirLinks
<1>6. CASE Read(p) \/ Write(p) \/ More(p) \/ End(p)
  BY <1>6, ReadLinks, WriteLinks, MoreLinks, EndLinks
<1>7. CASE Panics(p)
  BY <1>7, UnchangedLinks DEF Panics
<1> QED  BY <1>1, <1>2, <1>3, <1>4, <1>5, <1>6, <1>7 DEF Step

\* Every step keeps what is said of links.
LEMMA NextLinks == IInv /\ LInv /\ [Next]_vars => LInv'
<1> SUFFICES ASSUME IInv, LInv, [Next]_vars PROVE LInv'
  OBVIOUS
<1>1. CASE Next
  BY <1>1, CrashLinks, StepLinks DEF Next
<1>2. CASE vars' = vars
  BY <1>2, UnchangedLinks DEF vars
<1> QED  BY <1>1, <1>2

-----------------------------------------------------------------------------
\* What follows for links, for the paths without "..".

\* A set that a function takes one to one into another has no more members.
LEMMA CountInto ==
  ASSUME NEW S, NEW T, IsFiniteSet(T), NEW g \in [S -> T],
         \A q, r \in S : g[q] = g[r] => q = r
  PROVE  Cardinality(S) <= Cardinality(T) /\ (S # {} => T # {})
<1>1. g \in Injection(S, T)
  BY DEF Injection, IsInjective
<1> QED  BY <1>1, FS_Injection

\* The entry that names i: in its parent, for "..".
Standing(d, i, q) ==
  IF q[2] # ".." THEN <<"name", q[1], q[2]>>
  ELSE IF q[1] = Root THEN <<"root", i, Image>>
  ELSE <<"kid", i, CHOOSE z \in Names : d.dir[i][z] = q[1]>>

\* The entries of fs.c's count have a use each: ".." stands for the directory it is in.
LEMMA LinksAreUses ==
  ASSUME NEW d, Sound(d), Treelike(d, NobodyOwes, {}), NEW i \in Inum
  PROVE  /\ Cardinality(Links(d, i)) <= d.inode[i].nlink
         /\ Links(d, i) # {} => d.inode[i].type # "free"
<1>1. /\ \A x \in AllNames : x = "." \/ x = ".." \/ x \in Names
      /\ \A x \in Names : x \in AllNames /\ x # ".."
      /\ ".." \in AllNames /\ Root \in Inum /\ 0 \notin Inum
  BY TheNames, Constants DEF AllNames
<1>2. ASSUME NEW q \in Links(d, i)
      PROVE  /\ q = <<q[1], q[2]>> /\ q[1] \in Inum /\ q[2] \in Names \cup {".."} /\ d.dir[q[1]][q[2]] = i
             /\ q[2] = ".." => HasName(d, q[1])
  BY <1>1 DEF Links
<1>3. ASSUME NEW j \in Inum, d.dir[j][".."] = i, j # Root, HasName(d, j)
      PROVE  \E x \in Names : d.dir[i][x] = j /\ IsKid(d, i, x)
  <2>1. PICK k \in Inum, x \in Names : d.dir[k][x] = j
    <3>1. PICK k \in Inum, x \in Names : d.dir[k][x] = j
      BY <1>3 DEF HasName
    <3> QED  BY <3>1
  <2>2. d.inode[j].type = "dir"
    <3>1. EmptyDir[".."] = 0
      BY <1>1 DEF EmptyDir
    <3> QED  BY <1>1, <1>3, <3>1 DEF Treelike, DirsKnow
  <2>3. IsKid(d, k, x)
    BY <1>1, <2>1, <2>2 DEF IsKid
  <2>4. k = i
    BY <1>3, <2>1, <2>3 DEF Treelike, KidsKnow
  <2> QED  BY <2>1, <2>3, <2>4
<1>4. ASSUME NEW q \in Links(d, i)
      PROVE  /\ Standing(d, i, q) \in Uses(d, NobodyOwes, i)
             /\ q[2] = ".." /\ q[1] # Root =>
                  d.dir[i][CHOOSE z \in Names : d.dir[i][z] = q[1]] = q[1]
  <2>1. CASE q[2] \in Names
    <3>1. <<"name", q[1], q[2]>> \in Uses(d, NobodyOwes, i)
      BY <1>2, <2>1, UsesAre, OwedTyped, Zenon
    <3> QED  BY <1>1, <2>1, <3>1 DEF Standing
  <2>2. CASE q[2] = ".." /\ q[1] = Root
    <3>1. i = Root
      BY <1>2, <2>2 DEF Treelike, RootThere
    <3>2. <<"root", i, Image>> \in Uses(d, NobodyOwes, i)
      BY <3>1, UsesAre, OwedTyped, Zenon
    <3> QED  BY <2>2, <3>2 DEF Standing
  <2>3. CASE q[2] = ".." /\ q[1] # Root
    <3>1. PICK y \in Names : d.dir[i][y] = q[1] /\ IsKid(d, i, y)
      BY <1>2, <1>3, <2>3
    <3>2. PICK x : x = CHOOSE z \in Names : d.dir[i][z] = q[1]
      OBVIOUS
    <3>3. x \in Names /\ d.dir[i][x] = q[1]
      BY <3>1, <3>2
    <3>4. IsKid(d, i, x)
      BY <3>1, <3>3 DEF IsKid
    <3>5. <<"kid", i, x>> \in Uses(d, NobodyOwes, i)
      BY <3>3, <3>4, UsesAre, OwedTyped, Zenon
    <3> QED  BY <2>3, <3>2, <3>3, <3>5 DEF Standing
  <2> QED  BY <1>2, <2>1, <2>2, <2>3
<1>5. PICK g : g = [q \in Links(d, i) |-> Standing(d, i, q)]
  BY Zenon
<1>6. g \in [Links(d, i) -> Uses(d, NobodyOwes, i)]
  BY <1>4, <1>5
<1>7. ASSUME NEW q \in Links(d, i), NEW r \in Links(d, i), g[q] = g[r]
      PROVE  q = r
  <2>1. Standing(d, i, q) = Standing(d, i, r)
    BY <1>5, <1>7
  <2>2. q[2] = ".." <=> r[2] = ".."
    BY <2>1 DEF Standing
  <2>3. CASE q[2] # ".."
    BY <1>2, <2>1, <2>2, <2>3 DEF Standing
  <2>4. CASE q[2] = ".."
    <3>1. q[1] = Root <=> r[1] = Root
      BY <2>1, <2>2, <2>4 DEF Standing
    <3>2. CASE q[1] = Root
      BY <1>2, <2>2, <2>4, <3>1, <3>2
    <3>3. CASE q[1] # Root
      <4>1. PICK x, y : /\ x = CHOOSE z \in Names : d.dir[i][z] = q[1]
                        /\ y = CHOOSE z \in Names : d.dir[i][z] = r[1]
        OBVIOUS
      <4>2. x = y
        <5>1. Standing(d, i, q) = <<"kid", i, x>>
          BY <2>4, <3>3, <4>1 DEF Standing
        <5>2. Standing(d, i, r) = <<"kid", i, y>>
          BY <2>2, <2>4, <3>1, <3>3, <4>1 DEF Standing
        <5>3. <<"kid", i, x>> = <<"kid", i, y>>
          BY <2>1, <5>1, <5>2, Zenon
        <5>4. <<"kid", i, x>>[3] = x /\ <<"kid", i, y>>[3] = y
          OBVIOUS
        <5> QED  BY <5>3, <5>4
      <4>3. d.dir[i][x] = q[1] /\ d.dir[i][y] = r[1]
        BY <1>4, <2>2, <2>4, <3>1, <3>3, <4>1, Zenon
      <4> QED  BY <1>2, <2>2, <2>4, <4>2, <4>3
    <3> QED  BY <3>2, <3>3
  <2> QED  BY <2>3, <2>4
<1>8. /\ Cardinality(Links(d, i)) <= Cardinality(Uses(d, NobodyOwes, i))
      /\ Links(d, i) # {} => Uses(d, NobodyOwes, i) # {}
  BY <1>6, <1>7, UsesFinite, CountInto
<1>9. IsFiniteSet(Links(d, i))
  <2>1. IsFiniteSet(AllNames)
    <3>1. IsFiniteSet({"."}) /\ IsFiniteSet({".."}) /\ IsFiniteSet(Names)
      BY FS_Singleton, XvFilesAssumption, Zenon
    <3>2. IsFiniteSet({"."} \cup {".."})
      BY <3>1, FS_Union
    <3>3. IsFiniteSet(Names \cup ({"."} \cup {".."}))
      BY <3>1, <3>2, FS_Union
    <3>4. AllNames = Names \cup ({"."} \cup {".."})
      BY DEF AllNames
    <3> QED  BY <3>3, <3>4
  <2>2. IsFiniteSet(Inum \X AllNames)
    BY <2>1, Constants, FS_Product
  <2>3. Links(d, i) \subseteq Inum \X AllNames
    BY DEF Links
  <2> QED  BY <2>2, <2>3, FS_Subset
<1>10. Cardinality(Links(d, i)) \in Nat /\ Cardinality(Uses(d, NobodyOwes, i)) \in Nat
  BY <1>9, UsesFinite, FS_CardinalityType
<1>11. Cardinality(Uses(d, NobodyOwes, i)) <= d.inode[i].nlink /\ d.inode[i].nlink \in Int
  BY DiskFields DEF Treelike, Backed, Sound
<1>12. Uses(d, NobodyOwes, i) # {} => d.inode[i].type # "free"
  BY UsedHasLinks DEF Treelike
<1> QED  BY <1>8, <1>10, <1>11, <1>12

\* The invariant says of what is committed that its links are counted.
LEMMA BackedIs == IInv /\ LInv => LinksBacked
BY LinksAreUses, Quiet DEF LInv, LinksBacked

\* The invariant says of directories and open files that they stay.
LEMMA OpenStaysIs == IInv /\ LInv => OpenStaysAllocated
<1> SUFFICES ASSUME IInv, LInv PROVE OpenStaysAllocated
  OBVIOUS
<1>1. OpenFilesStay
  BY OpenStays
<1>2. \A p \in Proc : disk.inode[cwd[p]].type = "dir" \/ loc[p].pc = "moved"
  BY DEF LInv, Relies, Underway
<1>3. \A p \in Proc : ofile[p] # NoFile => /\ disk.inode[ofile[p].ip].type \in {"file", "dev", "dir"}
                                           /\ ofile[p].writable => disk.inode[ofile[p].ip].type # "dir"
                                           /\ disk.inode[ofile[p].ip].type # "dir" =>
                                                ofile[p].off <= disk.inode[ofile[p].ip].size
  BY <1>1 DEF OpenFilesStay
<1> QED  BY <1>2, <1>3, Zenon DEF OpenStaysAllocated

\* The step that p is about to take with an inode finds it allocated, and named when p unlinks it.
LEMMA AwaitedIsThere ==
  ASSUME IInv, LInv, NEW p \in Proc, loc[p].puts = <<>>, Awaits(p) # 0
  PROVE  /\ Found(Awaits(p)).type # "free"
         /\ loc[p].pc = "unlink2" => Found(Awaits(p)).nlink >= 1
<1>1. /\ LocTyped(loc[p]) /\ FileTyped(loc[p], ofile[p]) /\ cwd[p] \in Inum
      /\ FirmInUse(disk, loc[p], ofile[p], cwd[p]) /\ Underway(p, disk, loc[p], cwd[p], ops)
  BY Mine DEF MineTyped, LInv, Relies
<1>2. Awaits(p) \in Firm(loc[p], ofile[p], cwd[p])
  BY <1>1, FirmPlaces DEF Awaits, AtCur, AtIp, WithIp, FileTyped
<1>3. Awaits(p) \in Inum
  BY <1>2 DEF Firm, Besides
<1>4. Found(Awaits(p)) = disk.inode[Awaits(p)]
  BY <1>3, FoundIs, Quiet
<1>5. ASSUME loc[p].pc = "unlink2" PROVE disk.inode[Awaits(p)].nlink >= 1
  <2>1. PICK i \in Inum, k \in Inum, x \in Names :
          i = loc[p].cur /\ k = loc[p].ip /\ x = Head(loc[p].rest) /\ disk.dir[i][x] = k
    BY <1>1, <1>5 DEF LocTyped, AtCur, AtIp, Underway
  <2>2. <<"name", i, x>> \in Uses(disk, Owed(loc), k)
    BY <2>1, UsesAre, OwedTyped, Zenon
  <2>3. disk.inode[k].nlink >= 1
    BY <2>2, UsedHasLinks, Quiet DEF LInv, Treelike
  <2>4. Awaits(p) = k
    BY <1>5, <2>1 DEF Awaits
  <2> QED  BY <2>3, <2>4
<1> QED  BY <1>1, <1>2, <1>4, <1>5 DEF FirmInUse

\* Only Panics changes panic, and never to an assertion.
LEMMA PanicsFull ==
  ASSUME IInv, LInv, panic \in {"no", "full"}, [Next]_vars
  PROVE  panic' \in {"no", "full"}
<1>1. ASSUME NEW p \in Proc, Panics(p) PROVE panic' \in {"no", "full"}
  <2>1. ~FreesFree(p)
    BY FreesOwned DEF NoFreeBlockFreed
  <2>2. Awaits(p) # 0 /\ loc[p].puts = <<>> => Found(Awaits(p)).type # "free"
    BY AwaitedIsThere
  <2>3. loc[p].pc = "unlink2" /\ loc[p].puts = <<>> => Found(Awaits(p)).nlink >= 1
    <3> SUFFICES ASSUME loc[p].pc = "unlink2", loc[p].puts = <<>> PROVE Found(Awaits(p)).nlink >= 1
      OBVIOUS
    <3>1. loc[p].ip \in Inum
      BY Mine DEF MineTyped, LocTyped, AtIp
    <3>2. Awaits(p) # 0
      BY <3>1, Constants DEF Awaits
    <3> QED  BY <3>2, AwaitedIsThere
  <2>4. Awaits(p) \in Inum /\ Found(Awaits(p)).nlink >= 1 => ~(Found(Awaits(p)).nlink < 1)
    <3>1. \A i \in Inum : Found(i).nlink \in Int
      BY FoundIs, DiskFields, Quiet DEF Sound
    <3> QED  BY <3>1
  <2>5. loc[p].pc = "unlink2" /\ loc[p].puts = <<>> => Awaits(p) \in Inum
    BY Mine DEF MineTyped, LocTyped, AtIp, Awaits
  <2> QED  BY <1>1, <2>1, <2>2, <2>3, <2>4, <2>5 DEF Panics
<1>2. ASSUME NEW p \in Proc, Step(p), ~Panics(p) PROVE panic' = panic
  <2>1. CASE \E c \in Programs : Begin(p, c)
    BY <2>1 DEF Begin
  <2>2. CASE PutCheck(p) \/ PutFree(p) \/ PutDrop(p) \/ Namex(p)
    BY <2>2, Zenon DEF PutCheck, PutFree, PutDrop, Namex
  <2>3. CASE LinkOld(p) \/ LinkNew(p) \/ LinkFail(p) \/ LinkUndo(p)
    BY <2>3 DEF LinkOld, LinkNew, LinkFail, LinkUndo, Bad, Rest1
  <2>4. CASE Unlink(p) \/ UnlinkEntry(p) \/ UnlinkBad(p) \/ UnlinkCount(p)
    BY <2>4 DEF Unlink, UnlinkEntry, UnlinkBad, UnlinkCount, Bad, Rest1
  <2>5. CASE Create(p) \/ CreateEntry(p) \/ CreateExists(p) \/ Made(p) \/ Open(p) \/ Chdir(p)
    BY <2>5, Zenon DEF Create, CreateEntry, Entered, CreateExists, Made, Open, Chdir, Rest1
  <2>6. CASE Read(p) \/ Write(p) \/ More(p) \/ End(p)
    BY <2>6 DEF Read, Write, More, End
  <2> QED  BY <1>2, <2>1, <2>2, <2>3, <2>4, <2>5, <2>6 DEF Step
<1>3. CASE Crash
  BY <1>3 DEF Crash
<1>4. CASE vars' = vars
  BY <1>4 DEF vars
<1> QED  BY <1>1, <1>2, <1>3, <1>4 DEF Next

\* Counts are never negative: each is at least the number of its uses.
LEMMA TypesAre == IInv /\ LInv /\ panic \in {"no", "full"} => TypeOK
<1> SUFFICES ASSUME IInv, LInv, panic \in {"no", "full"} PROVE TypeOK
  OBVIOUS
<1>1. ASSUME NEW d, Sound(d), NEW o, Backed(d, o)
      PROVE  /\ \A i \in Inum : /\ d.inode[i].type \in {"free", "file", "dir", "dev"}
                                /\ d.inode[i].nlink \in Nat /\ d.inode[i].size \in 0 .. MAXFILE
                                /\ d.inode[i].addrs \in [Addrs -> Block \cup {0}]
             /\ d.dir \in [Inum -> [AllNames -> Inum \cup {0}]]
             /\ d.used \subseteq Block
  <2>1. ASSUME NEW i \in Inum PROVE d.inode[i].nlink \in Nat
    <3>1. Cardinality(Uses(d, o, i)) <= d.inode[i].nlink /\ d.inode[i].nlink \in Int
      BY <1>1, DiskFields DEF Sound, Backed
    <3> QED  BY <3>1, UsesFinite
  <2>2. \A i \in Inum : /\ d.inode[i].type \in {"free", "file", "dir", "dev"}
                        /\ d.inode[i].size \in 0 .. MAXFILE
                        /\ d.inode[i].addrs \in [Addrs -> Block \cup {0}]
    BY <1>1 DEF Sound, DiskTyped, Dinodes, Kinds
  <2> QED  BY <1>1, <2>1, <2>2 DEF Sound, DiskTyped
<1>2. Backed(disk, Owed(loc)) /\ Backed(committed, NobodyOwes)
  BY DEF LInv, Treelike
<1>3. \A i \in Inum : icache[i].ref \in Nat /\ icache[i].valid \in BOOLEAN
  BY Quiet DEF Entries
<1> QED  BY <1>1, <1>2, <1>3, Quiet DEF TypeOK

\* With paths that do not name "..", what a boot finds and every step keep what is said of links:
\* each count of an inode is at least its names, the directories in it, and the calls under way
\* that have counted a name before it is there or after it is gone.
LInvariant == IInv /\ LInv /\ panic \in {"no", "full"}

\* It holds from a boot from any sound disk that is a tree.
LEMMA BootLinks ==
  ASSUME ParentlessPaths, NEW d, Sound(d), Treelike(d, NobodyOwes, {})
  PROVE  Boot(d) /\ [][Next]_vars => []LInvariant
<1>1. Boot(d) => LInvariant
  <2> SUFFICES ASSUME Boot(d) PROVE LInvariant
    OBVIOUS
  <2>1. Fresh /\ committed = d /\ panic = "no"
    BY DEF Boot, Fresh
  <2> QED  BY <2>1, FreshIs, FreshLinks DEF LInvariant
<1>2. LInvariant /\ [Next]_vars => LInvariant'
  BY NextKeeps, NextLinks, PanicsFull DEF LInvariant
<1> QED  BY <1>1, <1>2, PTL

\* The same after a boot from the image of mkfs.
LEMMA LinksInvariant ==
  ASSUME ParentlessPaths
  PROVE  Spec => []LInvariant
<1>1. Boot(Mkfs) /\ [][Next]_vars => []LInvariant
  BY BootLinks, MkfsSound, MkfsTree
<1> QED  BY <1>1, PTL DEF Spec, Init

\* nlink in a block is never less than the entries that name the inode, at every point where a
\* crash may leave the disk, for any calls of any processes whose paths do not name "..": the
\* calls of sysfile.c count before they name and take away the name before they count down.
THEOREM LinksBackedHolds ==
  ASSUME ParentlessPaths
  PROVE  Spec => []LinksBacked
<1>1. LInvariant => LinksBacked
  BY BackedIs DEF LInvariant
<1> QED  BY <1>1, LinksInvariant, PTL

\* The directory and the open file of a process stay what they were while it has them, for any
\* calls whose paths do not name "..".
THEOREM OpenStaysAllocatedHolds ==
  ASSUME ParentlessPaths
  PROVE  Spec => []OpenStaysAllocated
<1>1. LInvariant => OpenStaysAllocated
  BY OpenStaysIs DEF LInvariant
<1> QED  BY <1>1, LinksInvariant, PTL

\* The panics "ilock: no type", "unlink: nlink < 1" and "freeing free block" are never reached,
\* for any calls whose paths do not name "..".
THEOREM NoPanicHolds ==
  ASSUME ParentlessPaths
  PROVE  Spec => []NoPanic
<1>1. LInvariant => NoPanic
  BY DEF LInvariant, NoPanic
<1> QED  BY <1>1, LinksInvariant, PTL

\* Every variable has its type; that nlink is never negative needs the counts of links.
THEOREM TypesHold ==
  ASSUME ParentlessPaths
  PROVE  Spec => []TypeOK
<1>1. LInvariant => TypeOK
  BY TypesAre DEF LInvariant
<1> QED  BY <1>1, LinksInvariant, PTL

\* The same from every disk that is sound and a tree, not only from the image of mkfs.
THEOREM AnyTreeDisk ==
  ASSUME ParentlessPaths, NEW d, Sound(d), Treelike(d, NobodyOwes, {})
  PROVE  Boot(d) /\ [][Next]_vars => [](LinksBacked /\ OpenStaysAllocated /\ NoPanic)
<1>1. LInvariant => LinksBacked /\ OpenStaysAllocated /\ NoPanic
  BY BackedIs, OpenStaysIs DEF LInvariant, NoPanic
<1> QED  BY <1>1, BootLinks, PTL
=============================================================================
