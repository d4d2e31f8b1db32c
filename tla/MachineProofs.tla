----------------------------- MODULE MachineProofs -----------------------------
(***************************************************************************)
(* Proofs about what programs run on, for machines of every size: the      *)
(* memory of the xv6 kernel, where every frame has one use whatever call   *)
(* fails half way and the page tables are memories of the processes' own,  *)
(* and the conditions of the Y86 simulator.                                *)
(***************************************************************************)
EXTENDS MCXvKernel, FiniteSetTheorems, WellFoundedInduction, TLAPS

CONSTANTS WORD, MEM_SIZE, max_steps   \* of the Y86

-----------------------------------------------------------------------------
(* Numbers: pages, and where their entries are *)

\* Products with a natural number keep the order.
LEMMA Product ==
  ASSUME NEW a \in Int, NEW b \in Int, NEW c \in Nat
  PROVE  /\ a * c \in Int /\ (a <= b => a * c <= b * c)
         /\ (c > 0 /\ a < b => a * c < b * c)
         /\ (c > 0 /\ a * c < b * c => a < b)
         /\ (c > 0 /\ a * c <= b * c => a <= b)
  OBVIOUS

\* Quotient and remainder, of negative numbers too
LEMMA Divided ==
  ASSUME NEW a \in Int, NEW b \in Nat, b > 0
  PROVE  /\ a \div b \in Int /\ a % b \in 0 .. b - 1
         /\ a = b * (a \div b) + (a % b)
         /\ a \in Nat => a \div b \in Nat
<1>1. a \div b \in Int /\ a % b \in 0 .. b - 1
  OBVIOUS
<1>2. a = b * (a \div b) + (a % b)
  OBVIOUS
<1>3. ASSUME a >= 0, a \div b < 0 PROVE FALSE
  <2> DEFINE q == a \div b
             i == a % b
  <2>1. q \in Int /\ i \in 0 .. b - 1 /\ a = b * q + i /\ q <= -1
    BY <1>1, <1>2, <1>3
  <2> HIDE DEF q, i
  <2>2. q * b <= (-1) * b
    BY <2>1, Product
  <2>3. (-1) * b = -b /\ q * b = b * q /\ b * q \in Int
    BY <2>1
  <2> QED  BY <1>3, <2>1, <2>2, <2>3
<1> QED  BY <1>1, <1>2, <1>3

\* A number has one quotient and one remainder.
LEMMA Quotient ==
  ASSUME NEW q \in Int, NEW b \in Nat, NEW i \in 0 .. b - 1
  PROVE  (b * q + i) \div b = q /\ (b * q + i) % b = i
<1> DEFINE a == b * q + i
<1>1. a \in Int /\ b > 0
  OBVIOUS
<1>2. /\ a \div b \in Int /\ a % b \in 0 .. b - 1
      /\ a = b * (a \div b) + (a % b)
  BY <1>1, Divided
<1>3. ASSUME NEW x \in Int, NEW y \in Int, NEW j \in 0 .. b - 1, b * x + i = b * y + j
      PROVE  x = y
  <2>1. ASSUME NEW u \in Int, NEW v \in Int, u < v PROVE b * u + b <= b * v
    <3>1. (u + 1) * b <= v * b
      BY <2>1, Product
    <3> QED  BY <3>1
  <2>2. b * x \in Int /\ b * y \in Int
    OBVIOUS
  <2>3. ~(x < y)
    BY <1>1, <1>3, <2>1, <2>2
  <2>4. ~(y < x)
    BY <1>1, <1>3, <2>1, <2>2
  <2> QED  BY <2>3, <2>4
<1>4. a \div b = q
  <2>1. b * q + i = b * (a \div b) + (a % b)
    BY <1>2
  <2> DEFINE x == a \div b
             j == a % b
  <2>2. x \in Int /\ j \in 0 .. b - 1 /\ b * q + i = b * x + j
    BY <1>2, <2>1
  <2> HIDE DEF a, x, j
  <2>3. q = x
    BY <1>3, <2>2
  <2> QED  BY <2>3 DEF x
<1>5. a = b * q + (a % b)
  BY <1>2, <1>4
<1>6. b * q \in Int
  OBVIOUS
<1> QED  BY <1>2, <1>4, <1>5, <1>6

\* Less than so many times b
LEMMA QuotientLess ==
  ASSUME NEW a \in Int, NEW b \in Nat, b > 0, NEW k \in Int
  PROVE  a \div b < k <=> a < k * b
<1> DEFINE q == a \div b
           i == a % b
<1>1. q \in Int /\ i \in 0 .. b - 1 /\ a = b * q + i
  BY Divided
<1> HIDE DEF q, i
<1>2. q < k => q + 1 <= k
  BY <1>1
<1>3. q < k => (q + 1) * b <= k * b
  BY <1>1, <1>2, Product
<1>4. ~(q < k) => k * b <= q * b
  BY <1>1, Product
<1>5. (q + 1) * b = b * q + b /\ q * b = b * q /\ b * q \in Int /\ k * b \in Int
  BY <1>1
<1>6. q < k <=> a < k * b
  BY <1>1, <1>3, <1>4, <1>5
<1> QED  BY <1>6 DEF q

-----------------------------------------------------------------------------
\* The entries of a directory that the pages of programs need
BASE == KERNBASE \div (NPTENTRIES * PGSIZE)

\* What is used of the sizes
LEMMA Sizes ==
  /\ NFRAMES \in Nat /\ NPDENTRIES \in Nat /\ NPTENTRIES \in Nat /\ PGSIZE \in Nat /\ KERNBASE \in Nat
  /\ NPTENTRIES > 0 /\ PGSIZE > 0 /\ KERNBASE > 0 /\ NPROC \in Nat /\ NPROC > 0
  BY GeometryAssumption

\* Programs have the lower entries of a directory, whole ones.
LEMMA Geometry ==
  /\ BASE \in Nat /\ BASE < NPDENTRIES
  /\ KERNBASE \div PGSIZE = BASE * NPTENTRIES
  /\ KERNBASE = BASE * NPTENTRIES * PGSIZE
  /\ BASE * NPTENTRIES \in Nat
  /\ UINT \in Nat /\ KERNBASE + 2 * PGSIZE < UINT
<1> DEFINE TP == NPTENTRIES * PGSIZE
<1>1. TP \in Nat /\ TP > 0
  BY Sizes
<1>2. KERNBASE \div TP \in Nat /\ KERNBASE = TP * (KERNBASE \div TP) + (KERNBASE % TP)
  BY <1>1, Sizes, Divided
<1>3. KERNBASE % TP = 0 /\ KERNBASE + 2 * PGSIZE < NPDENTRIES * NPTENTRIES * PGSIZE
  BY GeometryAssumption
<1>4. BASE \in Nat /\ KERNBASE = BASE * TP
  <2>1. BASE = KERNBASE \div TP
    BY DEF BASE
  <2> HIDE DEF TP
  <2> QED  BY <1>1, <1>2, <1>3, <2>1
<1>5. BASE * NPTENTRIES \in Nat /\ KERNBASE = BASE * NPTENTRIES * PGSIZE
  BY <1>4, Sizes
<1>6. UINT \in Nat /\ UINT = NPDENTRIES * TP /\ KERNBASE + 2 * PGSIZE < UINT
  BY <1>3, Sizes DEF UINT
<1>7. BASE < NPDENTRIES
  <2> HIDE DEF TP
  <2>1. BASE * TP < NPDENTRIES * TP
    BY <1>4, <1>6, Sizes
  <2> QED  BY <1>1, <1>4, <2>1, Sizes, Product
<1>8. KERNBASE \div PGSIZE = BASE * NPTENTRIES
  <2> DEFINE k == BASE * NPTENTRIES
  <2>1. k \in Nat /\ KERNBASE = k * PGSIZE /\ 0 \in 0 .. PGSIZE - 1
    BY <1>5, Sizes
  <2> HIDE DEF k
  <2>2. KERNBASE = PGSIZE * k + 0 /\ k \in Int
    BY <2>1, Sizes
  <2>3. (PGSIZE * k + 0) \div PGSIZE = k
    BY <2>1, <2>2, Sizes, Quotient
  <2>4. KERNBASE \div PGSIZE = k
    BY <2>2, <2>3
  <2> QED  BY <2>4 DEF k
<1> QED  BY <1>4, <1>5, <1>6, <1>7, <1>8

\* Where the entry of a page is: in a table below those of the kernel, and nowhere else
LEMMA PageIs ==
  ASSUME NEW n \in Page
  PROVE  /\ n \in Nat /\ PDX(n) \in 0 .. BASE - 1 /\ PDX(n) \in 0 .. NPDENTRIES - 1
         /\ PTX(n) \in 0 .. NPTENTRIES - 1
         /\ \A m \in Page : PDX(m) = PDX(n) /\ PTX(m) = PTX(n) => m = n
<1>1. ASSUME NEW m \in Page
      PROVE  /\ m \in Nat /\ PDX(m) \in Nat /\ PTX(m) \in 0 .. NPTENTRIES - 1
             /\ m = NPTENTRIES * PDX(m) + PTX(m) /\ m < BASE * NPTENTRIES
  <2>1. m \in Nat /\ m < BASE * NPTENTRIES
    BY Geometry DEF Page
  <2>2. /\ m \div NPTENTRIES \in Int /\ m % NPTENTRIES \in 0 .. NPTENTRIES - 1
        /\ m = NPTENTRIES * (m \div NPTENTRIES) + (m % NPTENTRIES)
        /\ m \div NPTENTRIES \in Nat
    BY <2>1, Sizes, Divided
  <2> QED  BY <2>1, <2>2 DEF PDX, PTX
<1>2. PDX(n) < BASE
  <2>1. n \in Int /\ n < BASE * NPTENTRIES /\ BASE \in Int
    BY <1>1, Geometry
  <2>2. n \div NPTENTRIES < BASE
    BY <2>1, QuotientLess, Sizes
  <2> QED  BY <2>2 DEF PDX
<1>3. PDX(n) \in 0 .. BASE - 1 /\ PDX(n) \in 0 .. NPDENTRIES - 1
  BY <1>1, <1>2, Geometry, Sizes
<1>4. ASSUME NEW m \in Page, PDX(m) = PDX(n), PTX(m) = PTX(n) PROVE m = n
  BY <1>1, <1>4, Zenon
<1> QED  BY <1>1, <1>3, <1>4

\* The pages of a size: those that begin below it
LEMMA PagesAre ==
  ASSUME NEW size \in Nat
  PROVE  /\ Pages(size) \in Nat
         /\ \A n \in Int : n < Pages(size) <=> n * PGSIZE < size
         /\ PGROUNDUP(size) \in Nat /\ size <= PGROUNDUP(size) /\ PGROUNDUP(size) < size + PGSIZE
         /\ \A a \in Int : a \div PGSIZE < Pages(size) <=> a < PGROUNDUP(size)
         /\ size <= KERNBASE => /\ Pages(size) <= KERNBASE \div PGSIZE
                                /\ \A n \in Nat : n < Pages(size) => n \in Page
<1> DEFINE a == size + PGSIZE - 1
           q == a \div PGSIZE
           i == a % PGSIZE
<1>1. a \in Nat /\ Pages(size) = q
  BY Sizes DEF Pages
<1>2. q \in Nat /\ i \in 0 .. PGSIZE - 1 /\ a = PGSIZE * q + i
  BY <1>1, Sizes, Divided
<1> HIDE DEF q, i
<1>3. ASSUME NEW n \in Int PROVE n < q <=> n * PGSIZE < size
  <2>1. n < q => (n + 1) * PGSIZE <= q * PGSIZE
    BY <1>2, Sizes, Product
  <2>2. ~(n < q) => q * PGSIZE <= n * PGSIZE
    BY <1>2, Sizes, Product
  <2>3. (n + 1) * PGSIZE = n * PGSIZE + PGSIZE /\ q * PGSIZE = PGSIZE * q
    BY <1>2, Sizes
  <2>4. n * PGSIZE \in Int /\ q * PGSIZE \in Int
    BY <1>2, Sizes
  <2> QED  BY <1>2, <2>1, <2>2, <2>3, <2>4, Sizes
<1>4. PGROUNDUP(size) = q * PGSIZE
  BY <1>1 DEF PGROUNDUP
<1>5. q * PGSIZE \in Nat /\ q * PGSIZE = PGSIZE * q
  BY <1>2, Sizes
<1>6. size <= q * PGSIZE /\ q * PGSIZE < size + PGSIZE
  BY <1>2, <1>5, Sizes
<1>7. \A b \in Int : b \div PGSIZE < q <=> b < q * PGSIZE
  BY <1>2, Sizes, QuotientLess
<1>8. ASSUME size <= KERNBASE PROVE q <= BASE * NPTENTRIES
  <2> DEFINE k == BASE * NPTENTRIES
  <2>1. k \in Nat /\ KERNBASE = k * PGSIZE
    BY Geometry
  <2> HIDE DEF k
  <2>2. ~(k < q)
    BY <1>3, <1>8, <2>1, Sizes
  <2>3. q <= k
    BY <1>2, <2>1, <2>2
  <2> QED  BY <2>3 DEF k
<1>9. ASSUME size <= KERNBASE, NEW n \in Nat, n < q PROVE n \in Page
  BY <1>8, <1>9, <1>2, Geometry DEF Page
<1> QED  BY <1>1, <1>2, <1>3, <1>4, <1>5, <1>6, <1>7, <1>8, <1>9, Geometry

\* Whole pages need no rounding.
LEMMA PagesOfPages ==
  ASSUME NEW k \in Nat
  PROVE  Pages(k * PGSIZE) = k /\ PGROUNDUP(k * PGSIZE) = k * PGSIZE
<1>1. k * PGSIZE \in Nat
  BY Sizes
<1>2. Pages(k * PGSIZE) \in Nat /\ \A n \in Int : n < Pages(k * PGSIZE) <=> n * PGSIZE < k * PGSIZE
  BY <1>1, PagesAre
<1>3. \A n \in Int : n * PGSIZE < k * PGSIZE <=> n < k
  BY Sizes, Product
<1>4. ~(k < Pages(k * PGSIZE)) /\ ~(Pages(k * PGSIZE) < k)
  BY <1>2, <1>3
<1> QED  BY <1>2, <1>4 DEF PGROUNDUP

\* More bytes have no fewer pages.
LEMMA PagesGrow ==
  ASSUME NEW s \in Nat, NEW t \in Nat, s <= t
  PROVE  Pages(s) <= Pages(t)
<1>1. Pages(s) \in Nat /\ Pages(t) \in Nat
  BY PagesAre
<1>2. ~(Pages(t) < Pages(s))
  <2>1. Pages(t) < Pages(s) => Pages(t) * PGSIZE < s /\ ~(Pages(t) * PGSIZE < t)
    BY <1>1, PagesAre
  <2>2. Pages(t) * PGSIZE \in Int
    BY <1>1, Sizes
  <2> QED  BY <2>1, <2>2
<1> QED  BY <1>1, <1>2

-----------------------------------------------------------------------------
(* kalloc.c *)

\* The numbers of a finite set in order: each of them has one place.
LEMMA InOrderIs ==
  ASSUME NEW S \in SUBSET Nat, IsFiniteSet(S)
  PROVE  /\ Cardinality(S) \in Nat
         /\ InOrder(S) \in [1 .. Cardinality(S) -> S]
         /\ IsInjective(InOrder(S))
         /\ \A n \in S : \E k \in 1 .. Cardinality(S) : InOrder(S)[k] = n
<1> DEFINE c == Cardinality(S)
           To(n) == {m \in S : m <= n}
           rank == [n \in S |-> Cardinality(To(n))]
<1>1. c \in Nat
  BY FS_CardinalityType
<1>2. ASSUME NEW n \in S
      PROVE  /\ IsFiniteSet(To(n)) /\ Cardinality(To(n)) \in 1 .. c
  <2>1. To(n) \in SUBSET S /\ n \in To(n)
    OBVIOUS
  <2> HIDE DEF To
  <2>2. IsFiniteSet(To(n)) /\ Cardinality(To(n)) <= c /\ Cardinality(To(n)) \in Nat
    BY <2>1, FS_Subset, FS_CardinalityType
  <2>3. Cardinality(To(n)) # 0
    BY <2>1, <2>2, FS_EmptySet
  <2> QED  BY <1>1, <2>2, <2>3
<1>3. ASSUME NEW n \in S, NEW m \in S, n < m
      PROVE  rank[n] < rank[m]
  <2>1. To(n) \in SUBSET To(m) /\ m \in To(m) /\ m \notin To(n)
    <3>1. n \in Nat /\ m \in Nat /\ \A x \in S : x \in Nat
      OBVIOUS
    <3>2. \A x \in S : x <= n => x <= m
      BY <1>3, <3>1
    <3>3. m <= m /\ ~(m <= n)
      BY <1>3, <3>1
    <3> QED  BY <3>2, <3>3
  <2>2. IsFiniteSet(To(n)) /\ IsFiniteSet(To(m)) /\ rank[n] \in Nat /\ rank[m] \in Nat
    BY <1>2
  <2>3. rank[n] = Cardinality(To(n)) /\ rank[m] = Cardinality(To(m))
    OBVIOUS
  <2> HIDE DEF To, rank
  <2>4. Cardinality(To(n)) <= Cardinality(To(m)) /\ Cardinality(To(n)) # Cardinality(To(m))
    BY <2>1, <2>2, FS_Subset
  <2> QED  BY <2>2, <2>3, <2>4
<1>4. rank \in [S -> 1 .. c]
  BY <1>2
<1> HIDE DEF rank
<1>5. \A n, m \in S : rank[n] = rank[m] => n = m
  <2>1. \A n, m \in S : n < m => rank[n] < rank[m]
    BY <1>3
  <2>2. \A n \in S : rank[n] \in Nat
    BY <1>4
  <2> QED  BY <2>1, <2>2
<1>6. rank \in Injection(S, 1 .. c)
  BY <1>4, <1>5 DEF Injection, IsInjective
<1>7. rank \in Surjection(S, 1 .. c)
  <2>1. IsFiniteSet(1 .. c) /\ Cardinality(1 .. c) = c
    BY <1>1, FS_Interval
  <2> QED  BY <1>6, <2>1, FS_Injection
<1>8. \A k \in 1 .. c : \E n \in S : rank[n] = k
  BY <1>7 DEF Surjection
<1>9. ASSUME NEW k \in 1 .. c
      PROVE  InOrder(S)[k] \in S /\ rank[InOrder(S)[k]] = k
  <2>1. InOrder(S)[k] = CHOOSE n \in S : Cardinality({m \in S : m <= n}) = k
    BY DEF InOrder
  <2>2. \E n \in S : Cardinality({m \in S : m <= n}) = k
    BY <1>8 DEF rank
  <2>3. InOrder(S)[k] \in S /\ Cardinality({m \in S : m <= InOrder(S)[k]}) = k
    BY <2>1, <2>2, Zenon
  <2> QED  BY <2>3 DEF rank
<1>10. InOrder(S) = [k \in 1 .. c |-> InOrder(S)[k]]
  BY DEF InOrder
<1>11. InOrder(S) \in [1 .. c -> S]
  BY <1>9, <1>10
<1>12. IsInjective(InOrder(S))
  <2>1. ASSUME NEW i \in DOMAIN InOrder(S), NEW j \in DOMAIN InOrder(S), InOrder(S)[i] = InOrder(S)[j]
        PROVE  i = j
    <3>1. i \in 1 .. c /\ j \in 1 .. c
      BY <1>11
    <3> QED  BY <1>9, <2>1, <3>1
  <2> QED  BY <2>1 DEF IsInjective
<1>13. ASSUME NEW n \in S PROVE \E k \in 1 .. c : InOrder(S)[k] = n
  <2>1. rank[n] \in 1 .. c
    BY <1>4
  <2>2. InOrder(S)[rank[n]] \in S /\ rank[InOrder(S)[rank[n]]] = rank[n]
    BY <1>9, <2>1
  <2> QED  BY <1>5, <2>1, <2>2
<1> QED  BY <1>1, <1>11, <1>12, <1>13

\* Memory: every frame holds something, and the free list has no frame twice.
Ram(r) ==
  /\ r = [free |-> r.free, frame |-> r.frame] /\ r.frame = [f \in Frame |-> r.frame[f]]
  /\ r.free \in Seq(Frame) /\ IsInjective(r.free)

\* kalloc takes a free frame, and changes what it holds only.
LEMMA KallocTakes ==
  ASSUME NEW r, Ram(r), r.free # << >>, NEW content
  PROVE  LET head == Head(r.free)
         IN /\ head \in Frame /\ head \in Range(r.free)
            /\ Ram(Kalloc(r, content))
            /\ Range(Kalloc(r, content).free) = Range(r.free) \ {head}
            /\ Kalloc(r, content).free = Tail(r.free)
            /\ Kalloc(r, content).frame[head] = content
            /\ \A f \in Frame \ {head} : Kalloc(r, content).frame[f] = r.frame[f]
<1> DEFINE s == r.free
           head == Head(s)
           k == Kalloc(r, content)
<1>1. s \in Seq(Frame) /\ s # << >> /\ \A a, b \in DOMAIN s : s[a] = s[b] => a = b
  BY DEF Ram, IsInjective
<1>2. /\ Len(s) \in Nat /\ Len(s) > 0 /\ DOMAIN s = 1 .. Len(s)
      /\ head = s[1] /\ 1 \in DOMAIN s /\ head \in Frame
      /\ Tail(s) \in Seq(Frame) /\ Len(Tail(s)) = Len(s) - 1 /\ DOMAIN Tail(s) = 1 .. Len(s) - 1
      /\ \A i \in 1 .. Len(s) - 1 : Tail(s)[i] = s[i + 1]
  BY <1>1
<1>3. k.free = Tail(s) /\ k.frame = [r.frame EXCEPT ![head] = content]
      /\ k = [free |-> k.free, frame |-> k.frame]
  BY DEF Kalloc
<1>4. head \in Range(s)
  BY <1>2 DEF Range
<1>5. \A a, b \in DOMAIN Tail(s) : Tail(s)[a] = Tail(s)[b] => a = b
  <2> TAKE a, b \in DOMAIN Tail(s)
  <2>1. /\ a + 1 \in DOMAIN s /\ Tail(s)[a] = s[a + 1] /\ a \in Int
        /\ b + 1 \in DOMAIN s /\ Tail(s)[b] = s[b + 1] /\ b \in Int
    BY <1>2
  <2>2. Tail(s)[a] = Tail(s)[b] => a + 1 = b + 1
    BY <1>1, <2>1
  <2> QED  BY <2>1, <2>2
<1>6. Range(Tail(s)) = Range(s) \ {head}
  <2>1. ASSUME NEW f \in Range(Tail(s)) PROVE f \in Range(s) \ {head}
    <3>1. PICK i \in DOMAIN Tail(s) : Tail(s)[i] = f
      BY DEF Range
    <3>2. i + 1 \in DOMAIN s /\ s[i + 1] = f /\ i + 1 # 1
      BY <1>2, <3>1
    <3> QED  BY <1>1, <1>2, <3>2 DEF Range
  <2>2. ASSUME NEW f \in Range(s) \ {head} PROVE f \in Range(Tail(s))
    <3>1. PICK i \in DOMAIN s : s[i] = f
      BY DEF Range
    <3>2. i - 1 \in DOMAIN Tail(s) /\ Tail(s)[i - 1] = f
      <4>1. i # 1
        BY <1>2, <2>2, <3>1
      <4>2. i - 1 \in 1 .. Len(s) - 1 /\ (i - 1) + 1 = i
        BY <1>2, <3>1, <4>1
      <4> QED  BY <1>2, <3>1, <4>2
    <3> QED  BY <3>2 DEF Range
  <2> QED  BY <2>1, <2>2
<1>7. r.frame = [f \in Frame |-> r.frame[f]]
  BY DEF Ram
<1>8. /\ k.frame = [f \in Frame |-> k.frame[f]] /\ k.frame[head] = content
      /\ \A f \in Frame \ {head} : k.frame[f] = r.frame[f]
  <2> DEFINE g == r.frame
  <2>1. g = [f \in Frame |-> g[f]] /\ k.frame = [g EXCEPT ![head] = content]
    BY <1>3, <1>7
  <2> HIDE DEF g, k, head
  <2>2. DOMAIN g = Frame
    BY <2>1
  <2>3. k.frame = [f \in Frame |-> IF f = head THEN content ELSE g[f]]
    BY <2>1, <2>2
  <2> QED  BY <1>2, <2>3 DEF g
<1>9. Ram(k)
  <2> HIDE DEF k
  <2>1. k.free \in Seq(Frame) /\ IsInjective(k.free)
    BY <1>2, <1>3, <1>5 DEF IsInjective
  <2> QED  BY <1>3, <1>8, <2>1 DEF Ram
<1> HIDE DEF k
<1>10. /\ head \in Frame /\ head \in Range(r.free) /\ Range(k.free) = Range(r.free) \ {head}
       /\ k.free = Tail(r.free)
  BY <1>2, <1>3, <1>4, <1>6
<1> QED  BY <1>3, <1>8, <1>9, <1>10 DEF k

\* kfree gives frames back, that were not free: all of them become free and hold junk.
LEMMA KfreeGives ==
  ASSUME NEW r, Ram(r), NEW fs \in Seq(Frame), IsInjective(fs), Range(fs) \cap Range(r.free) = {}
  PROVE  /\ Ram(Kfree(r, fs))
         /\ Range(Kfree(r, fs).free) = Range(r.free) \cup Range(fs)
         /\ \A f \in Frame \ Range(fs) : Kfree(r, fs).frame[f] = r.frame[f]
<1> DEFINE s == r.free
           v == Reverse(fs)
           k == Kfree(r, fs)
           n == Len(fs)
<1>1. s \in Seq(Frame) /\ IsInjective(s)
  BY DEF Ram
<1>2. /\ n \in Nat /\ DOMAIN fs = 1 .. n /\ v = [i \in 1 .. n |-> fs[(n - i) + 1]]
      /\ \A i \in 1 .. n : fs[i] \in Frame
  BY DEF Reverse
<1>3. \A i \in 1 .. n : (n - i) + 1 \in 1 .. n
  BY <1>2
<1>4. v \in Seq(Frame) /\ Len(v) = n /\ DOMAIN v = 1 .. n /\ \A i \in 1 .. n : v[i] = fs[(n - i) + 1]
  <2>1. v \in [1 .. n -> Frame]
    BY <1>2, <1>3
  <2> HIDE DEF v
  <2>2. v \in Seq(Frame) /\ Len(v) = n
    BY <1>2, <2>1
  <2> QED  BY <1>2, <2>1, <2>2
<1>5. Range(v) = Range(fs)
  <2>1. ASSUME NEW f \in Range(v) PROVE f \in Range(fs)
    <3>1. PICK i \in 1 .. n : v[i] = f
      BY <1>4 DEF Range
    <3> QED  BY <1>2, <1>3, <1>4, <3>1 DEF Range
  <2>2. ASSUME NEW f \in Range(fs) PROVE f \in Range(v)
    <3>1. PICK i \in 1 .. n : fs[i] = f
      BY <1>2 DEF Range
    <3>2. (n - ((n - i) + 1)) + 1 = i
      BY <1>2
    <3>3. v[(n - i) + 1] = f
      BY <1>3, <1>4, <3>1, <3>2
    <3> QED  BY <1>3, <1>4, <3>3 DEF Range
  <2> QED  BY <2>1, <2>2
<1>6. \A i, j \in 1 .. n : v[i] = v[j] => i = j
  <2> TAKE i, j \in 1 .. n
  <2>1. v[i] = v[j] => (n - i) + 1 = (n - j) + 1
    BY <1>2, <1>3, <1>4 DEF IsInjective
  <2> QED  BY <1>2, <2>1
<1> HIDE DEF v
<1>7. /\ k.free = v \o s /\ k.frame = [f \in Frame |-> IF f \in Range(fs) THEN "junk" ELSE r.frame[f]]
      /\ k = [free |-> k.free, frame |-> k.frame]
  BY DEF Kfree, v
<1> HIDE DEF k, n
<1>8. /\ v \o s \in Seq(Frame) /\ Len(v \o s) = n + Len(s) /\ DOMAIN (v \o s) = 1 .. n + Len(s)
      /\ \A i \in 1 .. n + Len(s) : (v \o s)[i] = IF i <= n THEN v[i] ELSE s[i - n]
      /\ Len(s) \in Nat /\ DOMAIN s = 1 .. Len(s)
  <2>1. ASSUME NEW x \in Seq(Frame), NEW y \in Seq(Frame)
        PROVE  /\ x \o y \in Seq(Frame) /\ Len(x \o y) = Len(x) + Len(y)
               /\ DOMAIN (x \o y) = 1 .. Len(x) + Len(y)
               /\ \A i \in 1 .. Len(x) + Len(y) :
                    (x \o y)[i] = IF i <= Len(x) THEN x[i] ELSE y[i - Len(x)]
               /\ Len(y) \in Nat /\ DOMAIN y = 1 .. Len(y)
    OBVIOUS
  <2> HIDE DEF s
  <2> QED  BY <1>1, <1>4, <2>1
<1>9. Range(v \o s) = Range(s) \cup Range(fs)
  <2>1. ASSUME NEW f \in Range(v \o s) PROVE f \in Range(s) \cup Range(v)
    <3>1. PICK i \in 1 .. n + Len(s) : (v \o s)[i] = f
      BY <1>8 DEF Range
    <3>2. CASE i <= n
      <4>1. i \in 1 .. n /\ v[i] = f
        BY <1>2, <1>8, <3>1, <3>2
      <4> QED  BY <1>4, <4>1 DEF Range
    <3>3. CASE ~(i <= n)
      <4>1. i - n \in 1 .. Len(s) /\ s[i - n] = f
        BY <1>2, <1>8, <3>1, <3>3
      <4> QED  BY <1>8, <4>1 DEF Range
    <3> QED  BY <3>2, <3>3
  <2>2. ASSUME NEW f \in Range(v) PROVE f \in Range(v \o s)
    <3>1. PICK i \in 1 .. n : v[i] = f
      BY <1>4 DEF Range
    <3>2. i \in 1 .. n + Len(s) /\ (v \o s)[i] = f
      BY <1>2, <1>8, <3>1
    <3> QED  BY <1>8, <3>2 DEF Range
  <2>3. ASSUME NEW f \in Range(s) PROVE f \in Range(v \o s)
    <3>1. PICK i \in 1 .. Len(s) : s[i] = f
      BY <1>8 DEF Range
    <3>2. i + n \in 1 .. n + Len(s) /\ ~(i + n <= n) /\ (i + n) - n = i
      BY <1>2, <1>8, <3>1
    <3>3. (v \o s)[i + n] = f
      BY <1>8, <3>1, <3>2
    <3> QED  BY <1>8, <3>2, <3>3 DEF Range
  <2> QED  BY <1>5, <2>1, <2>2, <2>3
<1>10. \A i \in 1 .. n, j \in 1 .. Len(s) : v[i] # s[j]
  <2> TAKE i \in 1 .. n, j \in 1 .. Len(s)
  <2>1. v[i] \in Range(fs) /\ s[j] \in Range(s)
    BY <1>4, <1>5, <1>8 DEF Range
  <2> QED  BY <2>1
<1>11. IsInjective(v \o s)
  <2>1. ASSUME NEW i \in 1 .. n + Len(s), NEW j \in 1 .. n + Len(s), (v \o s)[i] = (v \o s)[j]
        PROVE  i = j
    <3>1. CASE i <= n /\ j <= n
      <4>1. i \in 1 .. n /\ j \in 1 .. n /\ v[i] = v[j]
        BY <1>2, <1>8, <2>1, <3>1
      <4> QED  BY <1>6, <4>1
    <3>2. CASE ~(i <= n) /\ ~(j <= n)
      <4>1. i - n \in 1 .. Len(s) /\ j - n \in 1 .. Len(s) /\ s[i - n] = s[j - n]
        BY <1>2, <1>8, <2>1, <3>2
      <4>2. i - n = j - n
        BY <1>1, <1>8, <4>1 DEF IsInjective
      <4> QED  BY <1>2, <4>2
    <3>3. CASE i <= n /\ ~(j <= n)
      <4>1. i \in 1 .. n /\ j - n \in 1 .. Len(s) /\ v[i] = s[j - n]
        BY <1>2, <1>8, <2>1, <3>3
      <4> QED  BY <1>10, <4>1
    <3>4. CASE ~(i <= n) /\ j <= n
      <4>1. i - n \in 1 .. Len(s) /\ j \in 1 .. n /\ s[i - n] = v[j]
        BY <1>2, <1>8, <2>1, <3>4
      <4> QED  BY <1>10, <4>1
    <3> QED  BY <3>1, <3>2, <3>3, <3>4
  <2> QED  BY <1>8, <2>1 DEF IsInjective
<1>12. /\ k.frame = [f \in Frame |-> k.frame[f]]
       /\ \A f \in Frame \ Range(fs) : k.frame[f] = r.frame[f]
  BY <1>7
<1>13. Ram(k)
  BY <1>7, <1>8, <1>11, <1>12 DEF Ram
<1> QED  BY <1>7, <1>9, <1>12, <1>13 DEF k

-----------------------------------------------------------------------------
(* Address spaces *)

\* What a frame may hold, where it is a directory, a table or a page of a program.
Entry == 0 .. NPDENTRIES - 1
Pte == [frame : Frame \cup {0}, user : BOOLEAN]
Contents == [0 .. PGSIZE - 1 -> {"zero", "text", "data", "argument"}]
PageDirs == [Entry -> Frame \cup {0}]
PageTables == [0 .. NPTENTRIES - 1 -> Pte]

\* The frames of the address space with directory d
TablesOf(r, d) == {r.frame[d][i] : i \in Entry} \ {0}
PagesOf(r, d) == {Walk(r, d, n).frame : n \in Page} \ {0}
Own(r, d) == {d} \cup TablesOf(r, d) \cup PagesOf(r, d)

\* An address space: a tree of frames, with nothing of the program's in the kernel's part.
Upper == BASE .. NPDENTRIES - 1
Typed(r, d) ==
  /\ d \in Frame /\ r.frame[d] \in PageDirs
  /\ \A i \in Entry : r.frame[d][i] # 0 => r.frame[r.frame[d][i]] \in PageTables
  /\ \A i \in Upper : r.frame[d][i] # 0 => r.frame[r.frame[d][i]] = EmptyTable
  /\ \A n \in Page : Walk(r, d, n).frame # 0 => r.frame[Walk(r, d, n).frame] \in Contents
Treelike(r, d) ==
  /\ \A i, j \in Entry : r.frame[d][i] = r.frame[d][j] /\ r.frame[d][i] # 0 => i = j
  /\ \A m, n \in Page : Walk(r, d, m).frame = Walk(r, d, n).frame /\ Walk(r, d, m).frame # 0 => m = n
  /\ d \notin TablesOf(r, d) /\ d \notin PagesOf(r, d) /\ TablesOf(r, d) \cap PagesOf(r, d) = {}
Space(r, d) == Typed(r, d) /\ Treelike(r, d)

\* The pages that are there are the first k.
Has(r, d, k) == \A n \in Page : Walk(r, d, n).frame # 0 <=> n < k

\* No frame is frame 0.
LEMMA FrameIs == \A f \in Frame : f \in Nat /\ f # 0
  BY Sizes DEF Frame

\* The entries of the kernel are entries of a directory.
LEMMA UpperIs == Upper \subseteq Entry
  BY Geometry DEF Upper, Entry

\* No entry, and a table of them
LEMMA NoPteIs == NoPte \in Pte /\ NoPte.frame = 0 /\ EmptyTable \in PageTables /\ 0 \notin Frame
<1>1. NoPte \in Pte /\ NoPte.frame = 0
  BY DEF NoPte, Pte
<1>2. EmptyTable \in PageTables
  BY <1>1 DEF EmptyTable, PageTables
<1> QED  BY <1>1, <1>2, FrameIs

\* Where a page of a space is looked up, and what is found
LEMMA WalkIs ==
  ASSUME NEW r, NEW d, Space(r, d), NEW n \in Page
  PROVE  /\ PDX(n) \in Entry /\ PDX(n) \notin Upper /\ PTX(n) \in 0 .. NPTENTRIES - 1
         /\ r.frame[d][PDX(n)] \in Frame \cup {0}
         /\ r.frame[d][PDX(n)] = 0 => Walk(r, d, n) = NoPte
         /\ r.frame[d][PDX(n)] # 0 =>
              /\ r.frame[r.frame[d][PDX(n)]] \in PageTables
              /\ Walk(r, d, n) = r.frame[r.frame[d][PDX(n)]][PTX(n)]
              /\ r.frame[d][PDX(n)] \in TablesOf(r, d)
         /\ Walk(r, d, n) \in Pte
         /\ Walk(r, d, n).frame # 0 => /\ Walk(r, d, n).frame \in Frame
                                       /\ Walk(r, d, n).frame \in PagesOf(r, d)
                                       /\ r.frame[d][PDX(n)] # 0
<1> DEFINE t == r.frame[d][PDX(n)]
<1>1. PDX(n) \in Entry /\ PDX(n) \notin Upper /\ PTX(n) \in 0 .. NPTENTRIES - 1
  BY PageIs, Geometry DEF Entry, Upper
<1>2. t \in Frame \cup {0} /\ (t # 0 => r.frame[t] \in PageTables)
  BY <1>1 DEF Space, Typed, PageDirs
<1>3. /\ t = 0 => Walk(r, d, n) = NoPte
      /\ t # 0 => Walk(r, d, n) = r.frame[t][PTX(n)]
  BY DEF Walk
<1>4. t # 0 => t \in TablesOf(r, d)
  BY <1>1 DEF TablesOf
<1> HIDE DEF t
<1>5. Walk(r, d, n) \in Pte /\ (t = 0 => Walk(r, d, n).frame = 0)
  BY <1>1, <1>2, <1>3, NoPteIs DEF PageTables
<1>6. Walk(r, d, n).frame \in Frame \cup {0}
  BY <1>5 DEF Pte
<1>7. Walk(r, d, n).frame # 0 => Walk(r, d, n).frame \in PagesOf(r, d)
  BY DEF PagesOf
<1> QED  BY <1>1, <1>2, <1>3, <1>4, <1>5, <1>6, <1>7 DEF t

\* A space's directory, tables and pages are frames of its own.
LEMMA OwnFrames ==
  ASSUME NEW r, NEW d, Space(r, d)
  PROVE  /\ d \in Own(r, d) /\ d \in Frame /\ TablesOf(r, d) \subseteq Own(r, d)
         /\ PagesOf(r, d) \subseteq Own(r, d) /\ Own(r, d) \subseteq Frame
<1>1. PagesOf(r, d) \subseteq Frame
  BY WalkIs DEF PagesOf
<1>2. TablesOf(r, d) \subseteq Frame /\ d \in Frame
  BY DEF TablesOf, Space, Typed, PageDirs
<1> QED  BY <1>1, <1>2 DEF Own

\* A space with the directory of another and some of its pages is a space.
LEMMA SpaceFrom ==
  ASSUME NEW r, NEW r2, NEW d, Space(r, d), r2.frame[d] = r.frame[d],
         \A i \in Entry : r.frame[d][i] # 0 =>
           /\ r2.frame[r.frame[d][i]] \in PageTables
           /\ i \in Upper => r2.frame[r.frame[d][i]] = r.frame[r.frame[d][i]],
         \A n \in Page : Walk(r2, d, n).frame # 0 =>
           /\ Walk(r2, d, n).frame = Walk(r, d, n).frame
           /\ r2.frame[Walk(r, d, n).frame] \in Contents
  PROVE  Space(r2, d) /\ TablesOf(r2, d) = TablesOf(r, d) /\ PagesOf(r2, d) \subseteq PagesOf(r, d)
<1>1. TablesOf(r2, d) = TablesOf(r, d)
  BY DEF TablesOf
<1>2. PagesOf(r2, d) \subseteq PagesOf(r, d)
  BY DEF PagesOf
<1>3. Typed(r2, d)
  BY UpperIs DEF Space, Typed
<1>4. Treelike(r2, d)
  BY <1>1, <1>2 DEF Space, Treelike
<1> QED  BY <1>1, <1>2, <1>3, <1>4 DEF Space

\* From r to s the space of d keeps its frames, its entries and the contents of its pages.
Kept(r, s, d) ==
  /\ Space(s, d) /\ Own(s, d) = Own(r, d) /\ s.frame[d] = r.frame[d]
  /\ \A n \in Page : Walk(s, d, n) = Walk(r, d, n)
  /\ \A n \in Page : Walk(r, d, n).frame # 0 =>
       s.frame[Walk(r, d, n).frame] = r.frame[Walk(r, d, n).frame]

\* A space is what its own frames hold.
LEMMA SpaceKept ==
  ASSUME NEW r, NEW r2, NEW d, Space(r, d), \A f \in Own(r, d) : r2.frame[f] = r.frame[f]
  PROVE  Kept(r, r2, d)
<1>1. r2.frame[d] = r.frame[d]
  BY OwnFrames
<1>2. \A i \in Entry : r.frame[d][i] # 0 => r2.frame[r.frame[d][i]] = r.frame[r.frame[d][i]]
  BY OwnFrames DEF TablesOf
<1>3. ASSUME NEW n \in Page PROVE Walk(r2, d, n) = Walk(r, d, n)
  BY <1>1, <1>2, WalkIs DEF Walk
<1>4. \A n \in Page : Walk(r, d, n).frame # 0 =>
        r2.frame[Walk(r, d, n).frame] = r.frame[Walk(r, d, n).frame]
  BY WalkIs, OwnFrames
<1>5. Space(r2, d) /\ TablesOf(r2, d) = TablesOf(r, d)
  <2>1. \A i \in Entry : r.frame[d][i] # 0 => r2.frame[r.frame[d][i]] \in PageTables
    BY <1>2 DEF Space, Typed
  <2>2. \A n \in Page : Walk(r, d, n).frame # 0 => r2.frame[Walk(r, d, n).frame] \in Contents
    BY <1>4 DEF Space, Typed
  <2> QED  BY <1>1, <1>2, <1>3, <2>1, <2>2, SpaceFrom
<1>6. PagesOf(r2, d) = PagesOf(r, d)
  BY <1>3 DEF PagesOf
<1>7. Own(r2, d) = Own(r, d)
  BY <1>5, <1>6 DEF Own
<1> QED  BY <1>1, <1>3, <1>4, <1>5, <1>7 DEF Kept

-----------------------------------------------------------------------------
(* vm.c *)

\* setupkvm's directory, before there are tables in it
LEMMA DirectoryMade ==
  ASSUME NEW r, Ram(r), r.free # << >>
  PROVE  LET d == Head(r.free)
             k == Kalloc(r, EmptyDir)
         IN Space(k, d) /\ Own(k, d) = {d} /\ Has(k, d, 0) /\ \A i \in Entry : k.frame[d][i] = 0
<1> DEFINE d == Head(r.free)
           k == Kalloc(r, EmptyDir)
<1>1. d \in Frame /\ k.frame[d] = EmptyDir
  BY KallocTakes
<1> HIDE DEF d, k
<1>2. \A i \in Entry : k.frame[d][i] = 0
  BY <1>1 DEF EmptyDir, Entry
<1>3. k.frame[d] \in PageDirs
  BY <1>1 DEF EmptyDir, Entry, PageDirs
<1>4. \A n \in Page : Walk(k, d, n).frame = 0
  <2> TAKE n \in Page
  <2>1. PDX(n) \in Entry
    BY PageIs DEF Entry
  <2> QED  BY <1>2, <2>1, NoPteIs DEF Walk
<1>5. TablesOf(k, d) = {} /\ PagesOf(k, d) = {}
  BY <1>2, <1>4 DEF TablesOf, PagesOf
<1>6. Space(k, d)
  <2>1. Typed(k, d)
    BY <1>1, <1>2, <1>3, <1>4, UpperIs DEF Typed
  <2>2. Treelike(k, d)
    BY <1>2, <1>4, <1>5 DEF Treelike
  <2> QED  BY <2>1, <2>2 DEF Space
<1>7. Has(k, d, 0)
  BY <1>4, PageIs DEF Has
<1> QED  BY <1>2, <1>5, <1>6, <1>7 DEF Own, d, k

\* walkpgdir's table: one more frame, and every page is where it was.
WithTable(r, d, i) == [Kalloc(r, EmptyTable) EXCEPT !.frame[d][i] = Head(r.free)]

\* walkpgdir with alloc: it takes the first free frame.
LEMMA TableMade ==
  ASSUME NEW r, Ram(r), r.free # << >>, NEW d, Space(r, d), Range(r.free) \cap Own(r, d) = {},
         NEW i \in Entry, r.frame[d][i] = 0
  PROVE  LET w == WithTable(r, d, i)
             h == Head(r.free)
         IN /\ Ram(w) /\ w.free = Tail(r.free) /\ Space(w, d)
            /\ \A n \in Page : Walk(w, d, n) = Walk(r, d, n)
            /\ h \in Range(r.free) /\ h \in Frame
            /\ Range(w.free) = Range(r.free) \ {h} /\ Own(w, d) = Own(r, d) \cup {h}
            /\ \A f \in Frame : f # d /\ f # h => w.frame[f] = r.frame[f]
            /\ w.frame[d][i] = h /\ \A j \in Entry \ {i} : w.frame[d][j] = r.frame[d][j]
            /\ PagesOf(w, d) = PagesOf(r, d)
<1> DEFINE k == Kalloc(r, EmptyTable)
           h == Head(r.free)
           w == WithTable(r, d, i)
<1>1. /\ h \in Frame /\ h \in Range(r.free) /\ Ram(k) /\ Range(k.free) = Range(r.free) \ {h}
      /\ k.free = Tail(r.free) /\ k.frame[h] = EmptyTable
      /\ \A f \in Frame \ {h} : k.frame[f] = r.frame[f]
  BY KallocTakes
<1>2. h \notin Own(r, d) /\ d \in Frame /\ h # d
  BY <1>1, OwnFrames
<1>3. w = [k EXCEPT !.frame = [k.frame EXCEPT ![d] = [k.frame[d] EXCEPT ![i] = h]]]
  BY DEF WithTable
<1> HIDE DEF k, h, w
<1>4. /\ k = [free |-> k.free, frame |-> k.frame] /\ k.frame = [f \in Frame |-> k.frame[f]]
      /\ k.free \in Seq(Frame) /\ IsInjective(k.free)
  BY <1>1 DEF Ram
<1>5. /\ w.free = k.free /\ w.frame = [k.frame EXCEPT ![d] = [k.frame[d] EXCEPT ![i] = h]]
      /\ w = [free |-> w.free, frame |-> w.frame]
  <2> DEFINE x == [k.frame EXCEPT ![d] = [k.frame[d] EXCEPT ![i] = h]]
  <2>1. w = [k EXCEPT !.frame = x]
    BY <1>3
  <2> HIDE DEF x
  <2>2. w = [free |-> k.free, frame |-> x]
    BY <1>4, <2>1
  <2> QED  BY <2>2 DEF x
<1>6. DOMAIN k.frame = Frame /\ r.frame[d] \in PageDirs /\ k.frame[d] = r.frame[d]
  BY <1>1, <1>2, <1>4 DEF Space, Typed
<1>7. w.frame = [f \in Frame |-> IF f = d THEN [r.frame[d] EXCEPT ![i] = h] ELSE k.frame[f]]
  BY <1>5, <1>6
<1>8. /\ w.frame = [f \in Frame |-> w.frame[f]]
      /\ \A f \in Frame : f # d /\ f # h => w.frame[f] = r.frame[f]
      /\ w.frame[d] = [r.frame[d] EXCEPT ![i] = h] /\ w.frame[h] = EmptyTable
  BY <1>1, <1>2, <1>7
<1>9. /\ w.frame[d] \in PageDirs /\ w.frame[d][i] = h
      /\ \A j \in Entry \ {i} : w.frame[d][j] = r.frame[d][j]
  BY <1>1, <1>6, <1>8 DEF PageDirs
<1>10. Ram(w)
  BY <1>4, <1>5, <1>8 DEF Ram
<1>11. TablesOf(w, d) = TablesOf(r, d) \cup {h}
  BY <1>9, <1>1, FrameIs DEF TablesOf
<1>12. \A j \in Entry \ {i} : r.frame[d][j] # 0 =>
         w.frame[r.frame[d][j]] = r.frame[r.frame[d][j]]
  <2> TAKE j \in Entry \ {i}
  <2>1. ASSUME r.frame[d][j] # 0 PROVE r.frame[d][j] \in Frame \ {d, h}
    <3>1. r.frame[d][j] \in TablesOf(r, d)
      BY <2>1 DEF TablesOf
    <3> QED  BY <1>2, <3>1, OwnFrames DEF Space, Treelike
  <2> QED  BY <1>8, <2>1
<1>13. ASSUME NEW n \in Page PROVE Walk(w, d, n) = Walk(r, d, n)
  <2>1. CASE PDX(n) = i
    <3>1. Walk(r, d, n) = NoPte /\ PTX(n) \in 0 .. NPTENTRIES - 1
      BY <2>1, WalkIs
    <3>2. Walk(w, d, n) = EmptyTable[PTX(n)]
      BY <1>1, <1>8, <1>9, <2>1, FrameIs DEF Walk
    <3> QED  BY <3>1, <3>2 DEF EmptyTable
  <2>2. CASE PDX(n) # i
    <3>1. PDX(n) \in Entry \ {i}
      BY <2>2, WalkIs
    <3> QED  BY <1>9, <1>12, <3>1 DEF Walk
  <2> QED  BY <2>1, <2>2
<1>14. PagesOf(w, d) = PagesOf(r, d)
  BY <1>13 DEF PagesOf
<1>15. Own(w, d) = Own(r, d) \cup {h}
  BY <1>11, <1>14 DEF Own
<1>16. Typed(w, d)
  <2>1. \A j \in Entry : w.frame[d][j] # 0 =>
          /\ w.frame[w.frame[d][j]] \in PageTables
          /\ j \in Upper => w.frame[w.frame[d][j]] = EmptyTable
    <3> TAKE j \in Entry
    <3>1. CASE j = i
      BY <1>8, <1>9, <3>1, NoPteIs
    <3>2. CASE j # i
      BY <1>9, <1>12, <3>2 DEF Space, Typed
    <3> QED  BY <3>1, <3>2
  <2>2. \A n \in Page : Walk(w, d, n).frame # 0 => w.frame[Walk(w, d, n).frame] \in Contents
    <3> TAKE n \in Page
    <3>1. ASSUME Walk(r, d, n).frame # 0 PROVE w.frame[Walk(r, d, n).frame] \in Contents
      <4>1. /\ Walk(r, d, n).frame \in PagesOf(r, d) /\ Walk(r, d, n).frame \in Frame
            /\ r.frame[Walk(r, d, n).frame] \in Contents
        BY <3>1, WalkIs DEF Space, Typed
      <4>2. Walk(r, d, n).frame # d /\ Walk(r, d, n).frame # h
        BY <1>2, <4>1, OwnFrames DEF Space, Treelike
      <4> QED  BY <1>8, <4>1, <4>2
    <3> QED  BY <1>13, <3>1
  <2> QED  BY <1>2, <1>9, <2>1, <2>2, UpperIs DEF Typed
<1>17. Treelike(w, d)
  <2>1. \A a, b \in Entry : w.frame[d][a] = w.frame[d][b] /\ w.frame[d][a] # 0 => a = b
    <3>1. \A a \in Entry \ {i} : w.frame[d][a] # h
      <4> TAKE a \in Entry \ {i}
      <4>1. r.frame[d][a] # 0 => r.frame[d][a] \in TablesOf(r, d)
        BY DEF TablesOf
      <4> QED  BY <1>1, <1>2, <1>9, <4>1, OwnFrames, FrameIs
    <3> QED  BY <1>9, <3>1 DEF Space, Treelike
  <2>2. \A m, n \in Page : Walk(w, d, m).frame = Walk(w, d, n).frame /\ Walk(w, d, m).frame # 0 => m = n
    BY <1>13 DEF Space, Treelike
  <2>3. d \notin TablesOf(w, d) /\ d \notin PagesOf(w, d) /\ TablesOf(w, d) \cap PagesOf(w, d) = {}
    BY <1>2, <1>11, <1>14, OwnFrames DEF Space, Treelike
  <2> QED  BY <2>1, <2>2, <2>3 DEF Treelike
<1>18. Space(w, d)
  BY <1>16, <1>17 DEF Space
<1> QED  BY <1>1, <1>5, <1>8, <1>9, <1>10, <1>13, <1>14, <1>15, <1>18 DEF w, h

\* mappages: the entry of a page, in a table that is there
WithEntry(w, d, n, pte) == [w EXCEPT !.frame[w.frame[d][PDX(n)]][PTX(n)] = pte]

\* An entry changes one page, and one table.
LEMMA EntrySet ==
  ASSUME NEW w, Ram(w), NEW d, Space(w, d), NEW n \in Page, w.frame[d][PDX(n)] # 0, NEW pte \in Pte
  PROVE  LET r == WithEntry(w, d, n, pte)
             t == w.frame[d][PDX(n)]
         IN /\ Ram(r) /\ r.free = w.free
            /\ t \in TablesOf(w, d)
            /\ \A f \in Frame : f # t => r.frame[f] = w.frame[f]
            /\ r.frame[t] \in PageTables
            /\ r.frame[d] = w.frame[d] /\ TablesOf(r, d) = TablesOf(w, d)
            /\ \A i \in Entry : w.frame[d][i] # 0 /\ i # PDX(n) => w.frame[d][i] # t
            /\ Walk(r, d, n) = pte
            /\ \A m \in Page : m # n => Walk(r, d, m) = Walk(w, d, m)
<1> DEFINE t == w.frame[d][PDX(n)]
           r == WithEntry(w, d, n, pte)
           x == [w.frame EXCEPT ![t] = [w.frame[t] EXCEPT ![PTX(n)] = pte]]
<1>1. /\ t \in TablesOf(w, d) /\ t \in Frame /\ w.frame[t] \in PageTables /\ d \in Frame
      /\ PTX(n) \in 0 .. NPTENTRIES - 1 /\ PDX(n) \in Entry /\ PDX(n) \notin Upper
  BY WalkIs, OwnFrames
<1>2. t # d
  BY <1>1 DEF Space, Treelike
<1>3. r = [w EXCEPT !.frame = x]
  BY DEF WithEntry
<1>4. /\ w = [free |-> w.free, frame |-> w.frame] /\ w.frame = [f \in Frame |-> w.frame[f]]
      /\ w.free \in Seq(Frame) /\ IsInjective(w.free)
  BY DEF Ram
<1> HIDE DEF r
<1>5. r.free = w.free /\ r.frame = x /\ r = [free |-> r.free, frame |-> r.frame]
  <2> HIDE DEF x
  <2>1. r = [free |-> w.free, frame |-> x]
    BY <1>3, <1>4
  <2> QED  BY <2>1
<1>6. DOMAIN w.frame = Frame
  BY <1>4
<1> HIDE DEF t
<1>7. x = [f \in Frame |-> IF f = t THEN [w.frame[t] EXCEPT ![PTX(n)] = pte] ELSE w.frame[f]]
  BY <1>6
<1> HIDE DEF x
<1>8. /\ r.frame = [f \in Frame |-> r.frame[f]]
      /\ \A f \in Frame : f # t => r.frame[f] = w.frame[f]
      /\ r.frame[t] = [w.frame[t] EXCEPT ![PTX(n)] = pte]
  BY <1>1, <1>5, <1>7
<1>9. /\ r.frame[t] \in PageTables /\ r.frame[t][PTX(n)] = pte
      /\ \A j \in 0 .. NPTENTRIES - 1 : j # PTX(n) => r.frame[t][j] = w.frame[t][j]
  BY <1>1, <1>8 DEF PageTables
<1>10. r.frame[d] = w.frame[d]
  BY <1>1, <1>2, <1>8
<1>11. TablesOf(r, d) = TablesOf(w, d)
  BY <1>10 DEF TablesOf
<1>12. \A i \in Entry : w.frame[d][i] # 0 /\ i # PDX(n) => w.frame[d][i] # t
  <2>1. t # 0
    BY <1>1, FrameIs
  <2> QED  BY <1>1, <2>1 DEF Space, Treelike, t
<1>13. Walk(r, d, n) = pte
  BY <1>1, <1>9, <1>10, FrameIs DEF Walk, t
<1>14. ASSUME NEW m \in Page, m # n PROVE Walk(r, d, m) = Walk(w, d, m)
  <2> DEFINE u == w.frame[d][PDX(m)]
  <2>1. /\ PDX(m) \in Entry /\ PTX(m) \in 0 .. NPTENTRIES - 1 /\ u \in Frame \cup {0}
    BY WalkIs
  <2>2. CASE u = 0
    BY <1>10, <2>2 DEF Walk
  <2>3. CASE u # 0 /\ u # t
    BY <1>8, <1>10, <2>1, <2>3 DEF Walk
  <2>4. CASE u # 0 /\ u = t
    <3>1. PDX(m) = PDX(n)
      BY <1>12, <2>1, <2>4
    <3>2. PTX(m) # PTX(n)
      BY <1>14, <3>1, PageIs
    <3> QED  BY <1>9, <1>10, <2>1, <2>4, <3>2 DEF Walk
  <2> QED  BY <2>2, <2>3, <2>4
<1>15. Ram(r)
  BY <1>4, <1>5, <1>8 DEF Ram
<1> QED  BY <1>1, <1>5, <1>8, <1>9, <1>10, <1>11, <1>12, <1>13, <1>14, <1>15 DEF r, t

\* A page that was not there is now, in a frame that nobody had.
LEMMA PageEntered ==
  ASSUME NEW w, Ram(w), NEW d, Space(w, d), NEW n \in Page, w.frame[d][PDX(n)] # 0, NEW pte \in Pte,
         Walk(w, d, n).frame = 0, pte.frame \in Frame \ Own(w, d), w.frame[pte.frame] \in Contents
  PROVE  LET r == WithEntry(w, d, n, pte)
         IN Space(r, d) /\ Own(r, d) = Own(w, d) \cup {pte.frame} /\ r.frame[pte.frame] = w.frame[pte.frame]
<1> DEFINE r == WithEntry(w, d, n, pte)
           t == w.frame[d][PDX(n)]
           g == pte.frame
<1>1. /\ t \in TablesOf(w, d)
      /\ \A f \in Frame : f # t => r.frame[f] = w.frame[f]
      /\ r.frame[t] \in PageTables
      /\ r.frame[d] = w.frame[d] /\ TablesOf(r, d) = TablesOf(w, d)
      /\ \A i \in Entry : w.frame[d][i] # 0 /\ i # PDX(n) => w.frame[d][i] # t
      /\ Walk(r, d, n) = pte
      /\ \A m \in Page : m # n => Walk(r, d, m) = Walk(w, d, m)
  BY EntrySet
<1> HIDE DEF r
<1>2. g \in Frame /\ g # d /\ g \notin TablesOf(w, d) /\ g \notin PagesOf(w, d) /\ g # 0
  BY FrameIs, OwnFrames DEF Own
<1>3. PDX(n) \in Entry /\ PDX(n) \notin Upper
  BY WalkIs
<1> HIDE DEF t, g
<1>4. r.frame[g] = w.frame[g]
  BY <1>1, <1>2
<1>5. PagesOf(r, d) = PagesOf(w, d) \cup {g}
  <2>1. \A m \in Page \ {n} : Walk(r, d, m).frame = Walk(w, d, m).frame
    BY <1>1
  <2>2. Walk(r, d, n).frame = g
    BY <1>1 DEF g
  <2> QED  BY <1>2, <2>1, <2>2 DEF PagesOf
<1>6. Typed(r, d)
  <2>1. ASSUME NEW i \in Entry, w.frame[d][i] # 0
        PROVE  /\ r.frame[w.frame[d][i]] \in PageTables
               /\ i \in Upper => r.frame[w.frame[d][i]] = w.frame[w.frame[d][i]]
    <3>1. CASE i = PDX(n)
      BY <1>1, <1>3, <3>1 DEF t
    <3>2. CASE i # PDX(n)
      <4>1. w.frame[d][i] # t /\ w.frame[d][i] \in Frame /\ w.frame[w.frame[d][i]] \in PageTables
        BY <1>1, <2>1, <3>2 DEF Space, Typed, PageDirs
      <4> QED  BY <1>1, <4>1
    <3> QED  BY <3>1, <3>2
  <2>2. ASSUME NEW m \in Page, Walk(r, d, m).frame # 0 PROVE r.frame[Walk(r, d, m).frame] \in Contents
    <3>1. CASE m = n
      BY <1>1, <1>4, <3>1 DEF g
    <3>2. CASE m # n
      <4>1. Walk(w, d, m).frame \in PagesOf(w, d) /\ Walk(w, d, m).frame \in Frame
        BY <1>1, <2>2, <3>2, WalkIs
      <4>2. Walk(w, d, m).frame # t
        BY <1>1, <4>1 DEF Space, Treelike
      <4> QED  BY <1>1, <2>2, <3>2, <4>1, <4>2 DEF Space, Typed
    <3> QED  BY <3>1, <3>2
  <2> QED  BY <1>1, <2>1, <2>2, UpperIs DEF Space, Typed
<1>7. Treelike(r, d)
  <2>1. ASSUME NEW a \in Page, NEW b \in Page, Walk(r, d, a).frame = Walk(r, d, b).frame,
               Walk(r, d, a).frame # 0
        PROVE  a = b
    <3>1. ASSUME NEW m \in Page, m # n PROVE Walk(r, d, m).frame # Walk(r, d, n).frame
      <4>1. Walk(r, d, n).frame = g /\ Walk(r, d, m).frame = Walk(w, d, m).frame
        BY <1>1, <3>1 DEF g
      <4> QED  BY <1>2, <4>1, WalkIs
    <3>2. CASE a = n \/ b = n
      BY <2>1, <3>1, <3>2
    <3>3. CASE a # n /\ b # n
      BY <1>1, <2>1, <3>3 DEF Space, Treelike
    <3> QED  BY <3>2, <3>3
  <2>2. d \notin TablesOf(r, d) /\ d \notin PagesOf(r, d) /\ TablesOf(r, d) \cap PagesOf(r, d) = {}
    BY <1>1, <1>2, <1>5 DEF Space, Treelike
  <2> QED  BY <1>1, <2>1, <2>2 DEF Space, Treelike
<1>8. Own(r, d) = Own(w, d) \cup {g}
  BY <1>1, <1>5 DEF Own
<1> QED  BY <1>4, <1>6, <1>7, <1>8 DEF Space, r, g

\* clearpteu: the page stays, and is no longer the program's.
LEMMA PageCleared ==
  ASSUME NEW w, Ram(w), NEW d, Space(w, d), NEW n \in Page, Walk(w, d, n).frame # 0, NEW pte \in Pte,
         pte.frame = Walk(w, d, n).frame
  PROVE  LET r == WithEntry(w, d, n, pte)
         IN /\ Space(r, d) /\ Own(r, d) = Own(w, d) /\ PagesOf(r, d) = PagesOf(w, d)
            /\ \A f \in Frame \ TablesOf(w, d) : r.frame[f] = w.frame[f]
<1> DEFINE r == WithEntry(w, d, n, pte)
           t == w.frame[d][PDX(n)]
<1>0. w.frame[d][PDX(n)] # 0
  BY WalkIs
<1>1. /\ t \in TablesOf(w, d)
      /\ \A f \in Frame : f # t => r.frame[f] = w.frame[f]
      /\ r.frame[t] \in PageTables
      /\ r.frame[d] = w.frame[d] /\ TablesOf(r, d) = TablesOf(w, d)
      /\ \A i \in Entry : w.frame[d][i] # 0 /\ i # PDX(n) => w.frame[d][i] # t
      /\ Walk(r, d, n) = pte
      /\ \A m \in Page : m # n => Walk(r, d, m) = Walk(w, d, m)
  BY <1>0, EntrySet
<1> HIDE DEF r
<1>3. PDX(n) \in Entry /\ PDX(n) \notin Upper
  BY WalkIs
<1>4. \A m \in Page : Walk(r, d, m).frame = Walk(w, d, m).frame
  BY <1>1
<1>5. PagesOf(r, d) = PagesOf(w, d)
  BY <1>4 DEF PagesOf
<1>6. ASSUME NEW i \in Entry, w.frame[d][i] # 0
      PROVE  /\ r.frame[w.frame[d][i]] \in PageTables
             /\ i \in Upper => r.frame[w.frame[d][i]] = w.frame[w.frame[d][i]]
  <2>1. CASE i = PDX(n)
    BY <1>1, <1>3, <2>1
  <2>2. CASE i # PDX(n)
    <3>1. w.frame[d][i] # t /\ w.frame[d][i] \in Frame /\ w.frame[w.frame[d][i]] \in PageTables
      BY <1>1, <1>6, <2>2 DEF Space, Typed, PageDirs
    <3> QED  BY <1>1, <3>1
  <2> QED  BY <2>1, <2>2
<1>7. ASSUME NEW m \in Page, Walk(w, d, m).frame # 0 PROVE r.frame[Walk(w, d, m).frame] \in Contents
  <2>1. Walk(w, d, m).frame \in PagesOf(w, d) /\ Walk(w, d, m).frame \in Frame
    BY <1>7, WalkIs
  <2>2. Walk(w, d, m).frame # t
    BY <1>1, <2>1 DEF Space, Treelike
  <2> QED  BY <1>1, <1>7, <2>1, <2>2 DEF Space, Typed
<1>8. Space(r, d)
  BY <1>1, <1>4, <1>6, <1>7, SpaceFrom
<1> QED  BY <1>1, <1>5, <1>8 DEF Own, r

\* mappages of one page: the page and perhaps a table are new, all else stays.
LEMMA MappedIs ==
  ASSUME NEW r, Ram(r), NEW d, Space(r, d), NEW n \in Page, NEW pte \in Pte, CanMap(r, d, n),
         Walk(r, d, n).frame = 0, pte.frame \in Frame \ Own(r, d), r.frame[pte.frame] \in Contents,
         Range(r.free) \cap (Own(r, d) \cup {pte.frame}) = {}
  PROVE  LET s == Mapped(r, d, n, pte)
         IN /\ Ram(s) /\ Space(s, d) /\ Walk(s, d, n) = pte
            /\ \A m \in Page : m # n => Walk(s, d, m) = Walk(r, d, m)
            /\ \A f \in Frame : f \notin {d} \cup TablesOf(r, d) /\ f \notin Range(r.free)
                                  => s.frame[f] = r.frame[f]
            /\ \A f \in Range(s.free) : s.frame[f] = r.frame[f]
            /\ \E new \in SUBSET Range(r.free) :
                 /\ Range(s.free) = Range(r.free) \ new
                 /\ Own(s, d) = Own(r, d) \cup {pte.frame} \cup new
<1> DEFINE s == Mapped(r, d, n, pte)
           g == pte.frame
<1>0. PDX(n) \in Entry /\ r.free \in Seq(Frame)
  BY WalkIs DEF Ram
<1>1. CASE r.frame[d][PDX(n)] # 0
  <2>1. s = WithEntry(r, d, n, pte)
    BY <1>1 DEF Mapped, WithEntry
  <2> HIDE DEF s
  <2>2. /\ Ram(s) /\ s.free = r.free /\ r.frame[d][PDX(n)] \in TablesOf(r, d)
        /\ \A f \in Frame : f # r.frame[d][PDX(n)] => s.frame[f] = r.frame[f]
        /\ Walk(s, d, n) = pte
        /\ \A m \in Page : m # n => Walk(s, d, m) = Walk(r, d, m)
    BY <1>1, <2>1, EntrySet
  <2>3. Space(s, d) /\ Own(s, d) = Own(r, d) \cup {g}
    BY <1>1, <2>1, PageEntered
  <2>4. \A f \in Range(s.free) : f \in Frame /\ f # r.frame[d][PDX(n)]
    <3> TAKE f \in Range(s.free)
    <3>1. f \in Frame /\ f \in Range(r.free)
      BY <1>0, <2>2 DEF Range
    <3> QED  BY <2>2, <3>1, OwnFrames
  <2>5. {} \in SUBSET Range(r.free) /\ Range(s.free) = Range(r.free) \ {}
        /\ Own(s, d) = Own(r, d) \cup {g} \cup {}
    BY <2>2, <2>3
  <2> QED  BY <2>2, <2>3, <2>4, <2>5 DEF s, g
<1>2. CASE r.frame[d][PDX(n)] = 0
  <2> DEFINE w == WithTable(r, d, PDX(n))
             h == Head(r.free)
  <2>0. r.free # << >> /\ Range(r.free) \cap Own(r, d) = {}
    BY <1>2 DEF CanMap
  <2>1. s = WithEntry(w, d, n, pte)
    BY <1>2 DEF Mapped, WithEntry, WithTable
  <2> HIDE DEF s
  <2>2. /\ Ram(w) /\ w.free = Tail(r.free) /\ Space(w, d)
        /\ \A m \in Page : Walk(w, d, m) = Walk(r, d, m)
        /\ h \in Range(r.free) /\ h \in Frame
        /\ Range(w.free) = Range(r.free) \ {h} /\ Own(w, d) = Own(r, d) \cup {h}
        /\ \A f \in Frame : f # d /\ f # h => w.frame[f] = r.frame[f]
        /\ w.frame[d][PDX(n)] = h
        /\ PagesOf(w, d) = PagesOf(r, d)
    <3>1. \A i \in Entry : r.frame[d][i] = 0 =>
            LET v == WithTable(r, d, i)
                j == Head(r.free)
            IN /\ Ram(v) /\ v.free = Tail(r.free) /\ Space(v, d)
               /\ \A m \in Page : Walk(v, d, m) = Walk(r, d, m)
               /\ j \in Range(r.free) /\ j \in Frame
               /\ Range(v.free) = Range(r.free) \ {j} /\ Own(v, d) = Own(r, d) \cup {j}
               /\ \A f \in Frame : f # d /\ f # j => v.frame[f] = r.frame[f]
               /\ v.frame[d][i] = j
               /\ PagesOf(v, d) = PagesOf(r, d)
      BY <2>0, TableMade
    <3> QED  BY <1>0, <1>2, <3>1
  <2> HIDE DEF w, h
  <2>3. /\ w.frame[d][PDX(n)] # 0 /\ Walk(w, d, n).frame = 0
        /\ g \in Frame \ Own(w, d) /\ w.frame[g] \in Contents /\ d \in Own(r, d)
    BY <2>2, FrameIs, OwnFrames
  <2>4. /\ Ram(s) /\ s.free = w.free
        /\ \A f \in Frame : f # h => s.frame[f] = w.frame[f]
        /\ Walk(s, d, n) = pte
        /\ \A m \in Page : m # n => Walk(s, d, m) = Walk(w, d, m)
    BY <2>1, <2>2, <2>3, EntrySet
  <2>5. Space(s, d) /\ Own(s, d) = Own(w, d) \cup {g}
    BY <2>1, <2>2, <2>3, PageEntered
  <2>6. \A f \in Range(s.free) : f \in Frame /\ f # h /\ f # d
    <3> TAKE f \in Range(s.free)
    <3>1. f \in Range(r.free) \ {h}
      BY <2>2, <2>4
    <3>2. f \in Frame
      BY <1>0, <3>1 DEF Range
    <3> QED  BY <2>0, <2>3, <3>1, <3>2
  <2>7. /\ {h} \in SUBSET Range(r.free) /\ Range(s.free) = Range(r.free) \ {h}
        /\ Own(s, d) = Own(r, d) \cup {g} \cup {h}
    BY <2>2, <2>4, <2>5
  <2>8. \A f \in Frame : f \notin {d} \cup TablesOf(r, d) /\ f \notin Range(r.free)
                           => s.frame[f] = r.frame[f]
    BY <2>2, <2>4
  <2> QED  BY <2>2, <2>4, <2>5, <2>6, <2>7, <2>8 DEF s, g
<1> QED  BY <1>1, <1>2

\* Pages whose entries deallocuvm clears are no longer there; nothing else has changed.
LEMMA ClearedIs ==
  ASSUME NEW r, Ram(r), NEW d, Space(r, d), NEW ns \in SUBSET Page,
         \A n \in ns : Walk(r, d, n).frame # 0
  PROVE  LET s == Cleared(r, d, ns)
         IN /\ Ram(s) /\ s.free = r.free /\ Space(s, d) /\ s.frame[d] = r.frame[d]
            /\ TablesOf(s, d) = TablesOf(r, d)
            /\ \A n \in ns : Walk(s, d, n) = NoPte
            /\ \A n \in Page \ ns : Walk(s, d, n) = Walk(r, d, n)
            /\ \A f \in Frame \ TablesOf(r, d) : s.frame[f] = r.frame[f]
<1> DEFINE s == Cleared(r, d, ns)
           here(f) == {n \in ns : r.frame[d][PDX(n)] = f}
           x == [f \in Frame |-> IF here(f) = {} THEN r.frame[f]
                  ELSE [i \in 0 .. NPTENTRIES - 1 |->
                          IF \E n \in here(f) : PTX(n) = i THEN NoPte ELSE r.frame[f][i]]]
<1>1. s = [r EXCEPT !.frame = x]
  BY DEF Cleared
<1>2. /\ r = [free |-> r.free, frame |-> r.frame] /\ r.frame = [f \in Frame |-> r.frame[f]]
      /\ r.free \in Seq(Frame) /\ IsInjective(r.free)
  BY DEF Ram
<1> HIDE DEF s
<1>3. s.free = r.free /\ s.frame = x /\ s = [free |-> s.free, frame |-> s.frame]
  <2> HIDE DEF x
  <2>1. s = [free |-> r.free, frame |-> x]
    BY <1>1, <1>2
  <2> QED  BY <2>1
<1>4. \A f \in Frame :
        s.frame[f] = IF here(f) = {} THEN r.frame[f]
                     ELSE [i \in 0 .. NPTENTRIES - 1 |->
                             IF \E n \in here(f) : PTX(n) = i THEN NoPte ELSE r.frame[f][i]]
  BY <1>3
<1>5. s.frame = [f \in Frame |-> s.frame[f]]
  BY <1>3
<1> HIDE DEF x
<1>6. ASSUME NEW f \in Frame, f \notin TablesOf(r, d) PROVE here(f) = {}
  BY <1>6, WalkIs
<1>7. \A f \in Frame \ TablesOf(r, d) : s.frame[f] = r.frame[f]
  BY <1>4, <1>6
<1>8. ASSUME NEW f \in Frame, r.frame[f] \in PageTables
      PROVE  /\ s.frame[f] \in PageTables
             /\ \A i \in 0 .. NPTENTRIES - 1 :
                  s.frame[f][i] = IF \E n \in here(f) : PTX(n) = i THEN NoPte ELSE r.frame[f][i]
  <2>1. CASE here(f) = {}
    BY <1>4, <1>8, <2>1
  <2>2. CASE here(f) # {}
    <3> DEFINE y == [i \in 0 .. NPTENTRIES - 1 |->
                       IF \E n \in here(f) : PTX(n) = i THEN NoPte ELSE r.frame[f][i]]
    <3>1. s.frame[f] = y
      BY <1>4, <2>2
    <3> HIDE DEF here
    <3>2. y \in PageTables
      BY <1>8, NoPteIs DEF PageTables
    <3> QED  BY <3>1, <3>2
  <2> QED  BY <2>1, <2>2
<1>9. s.frame[d] = r.frame[d]
  BY <1>7, OwnFrames DEF Space, Treelike
<1>10. ASSUME NEW n \in Page
       PROVE  /\ n \in ns => Walk(s, d, n) = NoPte
              /\ n \notin ns => Walk(s, d, n) = Walk(r, d, n)
  <2> DEFINE t == r.frame[d][PDX(n)]
  <2>1. /\ PDX(n) \in Entry /\ PTX(n) \in 0 .. NPTENTRIES - 1 /\ t \in Frame \cup {0}
        /\ t # 0 => r.frame[t] \in PageTables
    BY WalkIs
  <2>2. CASE t = 0
    <3>1. Walk(s, d, n) = NoPte /\ Walk(r, d, n) = NoPte
      BY <1>9, <2>2 DEF Walk
    <3> QED  BY <3>1
  <2>3. CASE t # 0
    <3>1. Walk(s, d, n) = s.frame[t][PTX(n)] /\ Walk(r, d, n) = r.frame[t][PTX(n)]
      BY <1>9, <2>3 DEF Walk
    <3>2. s.frame[t][PTX(n)] = IF \E m \in here(t) : PTX(m) = PTX(n) THEN NoPte ELSE r.frame[t][PTX(n)]
      BY <1>8, <2>1, <2>3
    <3>3. \A m \in here(t) : PDX(m) \in Entry /\ r.frame[d][PDX(m)] = t
      BY WalkIs
    <3>4. \A m \in here(t) : PDX(m) = PDX(n)
      BY <2>1, <2>3, <3>3 DEF Space, Treelike
    <3>5. (\E m \in here(t) : PTX(m) = PTX(n)) <=> n \in ns
      BY <3>4, PageIs
    <3> QED  BY <3>1, <3>2, <3>5
  <2> QED  BY <2>2, <2>3
<1>11. \A n \in Page : Walk(s, d, n).frame # 0 => Walk(s, d, n).frame = Walk(r, d, n).frame
  BY <1>10, NoPteIs
<1>12. ASSUME NEW i \in Entry, r.frame[d][i] # 0
       PROVE  /\ s.frame[r.frame[d][i]] \in PageTables
              /\ i \in Upper => s.frame[r.frame[d][i]] = r.frame[r.frame[d][i]]
  <2>1. r.frame[d][i] \in Frame /\ r.frame[r.frame[d][i]] \in PageTables
    BY <1>12 DEF Space, Typed, PageDirs
  <2>2. i \in Upper => here(r.frame[d][i]) = {}
    <3>1. \A n \in ns : r.frame[d][PDX(n)] = r.frame[d][i] => PDX(n) = i
      BY <1>12, WalkIs DEF Space, Treelike
    <3> QED  BY <3>1, WalkIs
  <2> QED  BY <1>4, <1>8, <2>1, <2>2
<1>13. ASSUME NEW n \in Page, Walk(r, d, n).frame # 0 PROVE s.frame[Walk(r, d, n).frame] \in Contents
  <2>1. Walk(r, d, n).frame \in PagesOf(r, d) /\ Walk(r, d, n).frame \in Frame
    BY <1>13, WalkIs
  <2>2. Walk(r, d, n).frame \notin TablesOf(r, d)
    BY <2>1 DEF Space, Treelike
  <2> QED  BY <1>7, <1>13, <2>1, <2>2 DEF Space, Typed
<1>14. Space(s, d) /\ TablesOf(s, d) = TablesOf(r, d)
  BY <1>9, <1>11, <1>12, <1>13, SpaceFrom
<1>15. Ram(s)
  BY <1>2, <1>3, <1>5 DEF Ram
<1> QED  BY <1>3, <1>7, <1>9, <1>10, <1>14, <1>15 DEF s

-----------------------------------------------------------------------------
\* The pages that deallocuvm gives back, and their frames
Gone(r, d, oldsz, newsz) ==
  {n \in Page : newsz < oldsz /\ n >= Pages(newsz) /\ n * PGSIZE < oldsz /\ Walk(r, d, n).frame # 0}
FramesAt(r, d, ns) == {Walk(r, d, n).frame : n \in ns}

\* deallocuvm: these pages are gone, their frames free, and every other page stays.
LEMMA DeallocIs ==
  ASSUME NEW r, Ram(r), NEW d, Space(r, d), Range(r.free) \cap Own(r, d) = {},
         NEW oldsz \in Int, NEW newsz \in Int
  PROVE  LET s == DeallocUvm(r, d, oldsz, newsz)
             ns == Gone(r, d, oldsz, newsz)
             fs == FramesAt(r, d, ns)
         IN /\ Ram(s) /\ Space(s, d)
            /\ \A n \in ns : Walk(s, d, n) = NoPte
            /\ \A n \in Page \ ns : /\ Walk(s, d, n) = Walk(r, d, n)
                                    /\ Walk(r, d, n).frame # 0 =>
                                         s.frame[Walk(r, d, n).frame] = r.frame[Walk(r, d, n).frame]
            /\ fs \subseteq PagesOf(r, d) /\ Own(s, d) = Own(r, d) \ fs
            /\ Range(s.free) = Range(r.free) \cup fs
            /\ \A f \in Frame \ Own(r, d) : s.frame[f] = r.frame[f]
            /\ s.frame[d] = r.frame[d]
<1> DEFINE s == DeallocUvm(r, d, oldsz, newsz)
           ns == Gone(r, d, oldsz, newsz)
           fs == FramesAt(r, d, ns)
<1>1. CASE ~(newsz < oldsz)
  <2>1. s = r
    BY <1>1 DEF DeallocUvm
  <2>2. ns = {} /\ fs = {}
    BY <1>1 DEF Gone, FramesAt
  <2> HIDE DEF s, ns, fs
  <2>3. Own(s, d) = Own(r, d) \ fs /\ Range(s.free) = Range(r.free) \cup fs /\ fs \subseteq PagesOf(r, d)
    BY <2>1, <2>2
  <2> QED  BY <2>1, <2>2, <2>3 DEF s, ns, fs
<1>2. CASE newsz < oldsz
  <2> DEFINE c == Cleared(r, d, ns)
             o == InOrder(ns)
             v == [i \in DOMAIN o |-> Walk(r, d, o[i]).frame]
  <2>1. ns = {n \in Page : n >= Pages(newsz) /\ n * PGSIZE < oldsz /\ Walk(r, d, n).frame # 0}
    BY <1>2 DEF Gone
  <2>2. s = Kfree(c, v)
    <3> HIDE DEF s, ns, c, o, v
    <3>1. ~(newsz >= oldsz)
      BY <1>2
    <3> QED  BY <2>1, <3>1 DEF s, c, o, v, DeallocUvm
  <2>3. ns \in SUBSET Page /\ \A n \in ns : Walk(r, d, n).frame # 0
    BY <2>1
  <2> HIDE DEF s, ns
  <2>4. /\ Ram(c) /\ c.free = r.free /\ Space(c, d) /\ c.frame[d] = r.frame[d]
        /\ TablesOf(c, d) = TablesOf(r, d)
        /\ \A n \in ns : Walk(c, d, n) = NoPte
        /\ \A n \in Page \ ns : Walk(c, d, n) = Walk(r, d, n)
        /\ \A f \in Frame \ TablesOf(r, d) : c.frame[f] = r.frame[f]
    BY <2>3, ClearedIs
  <2> HIDE DEF c
  <2>5. IsFiniteSet(ns) /\ ns \in SUBSET Nat
    <3>1. KERNBASE \div PGSIZE \in Int
      BY Geometry
    <3>2. IsFiniteSet(Page) /\ Page \in SUBSET Nat
      BY <3>1, FS_Interval DEF Page
    <3> QED  BY <2>3, <3>2, FS_Subset
  <2>6. /\ Cardinality(ns) \in Nat /\ DOMAIN o = 1 .. Cardinality(ns)
        /\ \A i \in 1 .. Cardinality(ns) : o[i] \in ns
        /\ \A i, j \in 1 .. Cardinality(ns) : o[i] = o[j] => i = j
        /\ \A n \in ns : \E k \in 1 .. Cardinality(ns) : o[k] = n
    BY <2>5, InOrderIs DEF IsInjective
  <2>7. \A i \in 1 .. Cardinality(ns) : Walk(r, d, o[i]).frame \in Frame
    BY <2>3, <2>6, WalkIs
  <2> HIDE DEF o
  <2>8. v \in Seq(Frame) /\ DOMAIN v = 1 .. Cardinality(ns)
    <3>1. v \in [1 .. Cardinality(ns) -> Frame]
      BY <2>6, <2>7
    <3> HIDE DEF v
    <3> QED  BY <2>6, <3>1
  <2>9. \A i \in 1 .. Cardinality(ns) : v[i] = Walk(r, d, o[i]).frame
    BY <2>6
  <2> HIDE DEF v
  <2>10. IsInjective(v)
    <3>1. \A m, n \in ns : Walk(r, d, m).frame = Walk(r, d, n).frame => m = n
      BY <2>3 DEF Space, Treelike
    <3> QED  BY <2>6, <2>8, <2>9, <3>1 DEF IsInjective
  <2>11. Range(v) = fs
    <3>1. ASSUME NEW f \in Range(v) PROVE f \in fs
      <4>1. PICK i \in 1 .. Cardinality(ns) : v[i] = f
        BY <2>8 DEF Range
      <4> QED  BY <2>6, <2>9, <4>1 DEF FramesAt
    <3>2. ASSUME NEW f \in fs PROVE f \in Range(v)
      <4>1. PICK n \in ns : Walk(r, d, n).frame = f
        BY DEF FramesAt
      <4>2. PICK k \in 1 .. Cardinality(ns) : o[k] = n
        BY <2>6
      <4> QED  BY <2>8, <2>9, <4>1, <4>2 DEF Range
    <3> QED  BY <3>1, <3>2
  <2>12. fs \subseteq PagesOf(r, d) /\ fs \cap TablesOf(r, d) = {} /\ d \notin fs /\ fs \subseteq Frame
    <3>1. fs \subseteq PagesOf(r, d)
      BY <2>3, WalkIs DEF FramesAt
    <3> HIDE DEF fs
    <3> QED  BY <3>1, OwnFrames DEF Space, Treelike
  <2> HIDE DEF fs
  <2>13. Range(v) \cap Range(c.free) = {}
    BY <2>4, <2>11, <2>12, OwnFrames
  <2>14. /\ Ram(s) /\ Range(s.free) = Range(c.free) \cup Range(v)
         /\ \A f \in Frame \ Range(v) : s.frame[f] = c.frame[f]
    BY <2>2, <2>4, <2>8, <2>10, <2>13, KfreeGives
  <2>15. PagesOf(c, d) = PagesOf(r, d) \ fs
    <3>1. ASSUME NEW f \in PagesOf(c, d) PROVE f \in PagesOf(r, d) \ fs
      <4>1. PICK n \in Page : f = Walk(c, d, n).frame /\ f # 0
        BY DEF PagesOf
      <4>2. n \notin ns /\ f = Walk(r, d, n).frame
        BY <2>4, <4>1, NoPteIs
      <4>3. \A m \in ns : Walk(r, d, m).frame # f
        BY <2>3, <4>1, <4>2 DEF Space, Treelike
      <4> QED  BY <4>1, <4>2, <4>3 DEF PagesOf, fs, FramesAt
    <3>2. ASSUME NEW f \in PagesOf(r, d) \ fs PROVE f \in PagesOf(c, d)
      <4>1. PICK n \in Page : f = Walk(r, d, n).frame /\ f # 0
        BY DEF PagesOf
      <4>2. n \notin ns
        BY <3>2, <4>1 DEF fs, FramesAt
      <4> QED  BY <2>4, <4>1, <4>2 DEF PagesOf
    <3> QED  BY <3>1, <3>2
  <2>16. Own(c, d) = Own(r, d) \ fs
    BY <2>4, <2>12, <2>15 DEF Own
  <2>17. \A f \in Own(c, d) : s.frame[f] = c.frame[f]
    BY <2>4, <2>11, <2>14, <2>16, OwnFrames
  <2>18. /\ Space(s, d) /\ Own(s, d) = Own(c, d) /\ s.frame[d] = c.frame[d]
         /\ \A n \in Page : Walk(s, d, n) = Walk(c, d, n)
         /\ \A n \in Page : Walk(c, d, n).frame # 0 =>
              s.frame[Walk(c, d, n).frame] = c.frame[Walk(c, d, n).frame]
    <3>1. Kept(c, s, d)
      BY <2>4, <2>17, SpaceKept
    <3> QED  BY <3>1 DEF Kept
  <2>19. \A n \in ns : Walk(s, d, n) = NoPte
    BY <2>3, <2>4, <2>18
  <2>20. ASSUME NEW n \in Page \ ns, Walk(r, d, n).frame # 0
         PROVE  s.frame[Walk(r, d, n).frame] = r.frame[Walk(r, d, n).frame]
    <3>1. Walk(r, d, n).frame \in Frame /\ Walk(r, d, n).frame \in PagesOf(r, d)
      BY <2>20, WalkIs
    <3>2. Walk(r, d, n).frame \notin TablesOf(r, d)
      BY <3>1 DEF Space, Treelike
    <3> QED  BY <2>4, <2>18, <2>20, <3>1, <3>2
  <2>21. \A f \in Frame \ Own(r, d) : s.frame[f] = r.frame[f]
    BY <2>4, <2>11, <2>12, <2>14, OwnFrames
  <2> QED  BY <2>4, <2>11, <2>12, <2>14, <2>16, <2>18, <2>19, <2>20, <2>21 DEF s, ns, fs
<1> QED  BY <1>1, <1>2

\* Every page of a program begins below the kernel.
LEMMA PagesBelow ==
  /\ Pages(KERNBASE) = KERNBASE \div PGSIZE /\ Pages(0) = 0
  /\ \A n \in Page : n \in Nat /\ n < Pages(KERNBASE) /\ n * PGSIZE < KERNBASE
  /\ \A n \in Nat : n < Pages(KERNBASE) => n \in Page
<1>1. Pages(KERNBASE) = KERNBASE \div PGSIZE
  <2> DEFINE k == BASE * NPTENTRIES
  <2>1. k \in Nat /\ KERNBASE = k * PGSIZE /\ KERNBASE \div PGSIZE = k
    BY Geometry
  <2> HIDE DEF k
  <2>2. Pages(k * PGSIZE) = k
    BY <2>1, PagesOfPages
  <2> QED  BY <2>1, <2>2
<1>2. Pages(0) = 0
  <2>1. 0 * PGSIZE = 0
    BY Sizes
  <2> QED  BY <2>1, PagesOfPages
<1>3. KERNBASE \div PGSIZE \in Nat
  BY Geometry
<1>4. \A n \in Page : n \in Nat /\ n < Pages(KERNBASE)
  BY <1>1, <1>3 DEF Page
<1>5. \A n \in Nat : n < Pages(KERNBASE) => n \in Page
  BY <1>1, <1>3 DEF Page
<1> QED  BY <1>1, <1>2, <1>4, <1>5, PagesAre, Sizes

\* freevm gives every frame of a space back, and touches no other.
Freed(r, s, fs) ==
  /\ Ram(s) /\ Range(s.free) = Range(r.free) \cup fs
  /\ \A f \in Frame \ fs : s.frame[f] = r.frame[f]

\* freevm gives back the frames of the space, all of them.
LEMMA FreeVmIs ==
  ASSUME NEW r, Ram(r), NEW d, Space(r, d), Range(r.free) \cap Own(r, d) = {}
  PROVE  Freed(r, FreeVm(r, d), Own(r, d))
<1> DEFINE g == DeallocUvm(r, d, KERNBASE, 0)
           ns == Gone(r, d, KERNBASE, 0)
           fs == FramesAt(r, d, ns)
           es == {i \in 0 .. NPDENTRIES - 1 : g.frame[d][i] # 0}
           o == InOrder(es)
           u == [k \in DOMAIN o |-> g.frame[d][o[k]]]
           s == FreeVm(r, d)
<1>1. s = Kfree(g, u \o <<d>>)
  BY DEF FreeVm
<1>2. /\ Ram(g) /\ Space(g, d)
      /\ \A n \in Page \ ns : Walk(g, d, n) = Walk(r, d, n)
      /\ fs \subseteq PagesOf(r, d) /\ Own(g, d) = Own(r, d) \ fs
      /\ Range(g.free) = Range(r.free) \cup fs
      /\ \A f \in Frame \ Own(r, d) : g.frame[f] = r.frame[f]
      /\ g.frame[d] = r.frame[d]
  <2>1. KERNBASE \in Int /\ 0 \in Int
    BY Sizes
  <2> QED  BY <2>1, DeallocIs
<1>3. fs = PagesOf(r, d)
  <2>1. ASSUME NEW f \in PagesOf(r, d) PROVE f \in fs
    <3>1. PICK n \in Page : f = Walk(r, d, n).frame /\ f # 0
      BY DEF PagesOf
    <3>2. n \in ns
      BY <3>1, PagesBelow, Sizes DEF Gone
    <3> QED  BY <3>1, <3>2 DEF FramesAt
  <2> QED  BY <1>2, <2>1
<1> HIDE DEF s, fs, ns, g
<1>4. TablesOf(g, d) = TablesOf(r, d)
  BY <1>2 DEF TablesOf
<1>5. IsFiniteSet(es) /\ es \in SUBSET Nat /\ es \subseteq Entry
  <2>1. IsFiniteSet(0 .. NPDENTRIES - 1) /\ 0 .. NPDENTRIES - 1 \in SUBSET Nat
    BY Sizes, FS_Interval
  <2>2. es \in SUBSET (0 .. NPDENTRIES - 1)
    OBVIOUS
  <2> HIDE DEF es
  <2> QED  BY <2>1, <2>2, FS_Subset DEF Entry
<1>6. \A i \in es : g.frame[d][i] # 0
  OBVIOUS
<1>7. \A i \in Entry : g.frame[d][i] # 0 => i \in es
  BY DEF Entry
<1> HIDE DEF es
<1>8. /\ Cardinality(es) \in Nat /\ DOMAIN o = 1 .. Cardinality(es)
      /\ \A i \in 1 .. Cardinality(es) : o[i] \in es
      /\ \A i, j \in 1 .. Cardinality(es) : o[i] = o[j] => i = j
      /\ \A n \in es : \E k \in 1 .. Cardinality(es) : o[k] = n
  BY <1>5, InOrderIs DEF IsInjective
<1>9. \A i \in 1 .. Cardinality(es) : g.frame[d][o[i]] \in TablesOf(r, d)
  BY <1>4, <1>5, <1>6, <1>8 DEF TablesOf
<1> HIDE DEF o
<1>10. u \in Seq(Frame) /\ Len(u) = Cardinality(es) /\ DOMAIN u = 1 .. Cardinality(es)
  <2>1. u \in [1 .. Cardinality(es) -> Frame]
    BY <1>8, <1>9, OwnFrames
  <2> HIDE DEF u
  <2> QED  BY <1>8, <2>1
<1>11. \A i \in 1 .. Cardinality(es) : u[i] = g.frame[d][o[i]]
  BY <1>8
<1> DEFINE c == Cardinality(es)
<1> HIDE DEF u, c
<1>12. c \in Nat /\ Len(u) = c /\ DOMAIN u = 1 .. c /\ \A i \in 1 .. c : u[i] \in TablesOf(r, d)
  BY <1>8, <1>9, <1>10, <1>11 DEF c
<1>13. \A i, j \in 1 .. c : u[i] = u[j] => i = j
  <2>1. \A i, j \in es : g.frame[d][i] = g.frame[d][j] => i = j
    BY <1>2, <1>5, <1>6 DEF Space, Treelike
  <2> QED  BY <1>8, <1>11, <2>1 DEF c
<1>14. \A f \in TablesOf(r, d) : \E i \in 1 .. c : u[i] = f
  <2> TAKE f \in TablesOf(r, d)
  <2>1. PICK i \in Entry : g.frame[d][i] = f /\ f # 0
    BY <1>4 DEF TablesOf
  <2>2. i \in es
    BY <1>7, <2>1
  <2>3. PICK k \in 1 .. c : o[k] = i
    BY <1>8, <2>2 DEF c
  <2> QED  BY <1>11, <2>1, <2>3 DEF c
<1> DEFINE v == u \o <<d>>
<1>15. /\ v \in Seq(Frame) /\ DOMAIN v = 1 .. c + 1
       /\ \A i \in 1 .. c : v[i] = u[i] /\ v[c + 1] = d
  <2>1. d \in Frame
    BY OwnFrames
  <2>2. v = Append(u, d)
    BY <1>10, <2>1
  <2> HIDE DEF v
  <2>3. /\ v \in Seq(Frame) /\ Len(v) = c + 1 /\ v[c + 1] = d
        /\ \A i \in 1 .. c : v[i] = u[i]
    BY <1>10, <1>12, <2>1, <2>2
  <2> QED  BY <2>3
<1>16. v[c + 1] = d
  <2>1. d \in Frame
    BY OwnFrames
  <2> QED  BY <1>10, <1>12, <2>1
<1> HIDE DEF v
<1>17. d \notin TablesOf(r, d) /\ d \in Own(r, d)
  BY OwnFrames DEF Space, Treelike
<1>18. IsInjective(v)
  <2>1. ASSUME NEW i \in 1 .. c + 1, NEW j \in 1 .. c + 1, v[i] = v[j] PROVE i = j
    <3>1. \A k \in 1 .. c + 1 : k # c + 1 => k \in 1 .. c
      BY <1>12
    <3>2. CASE i = c + 1 \/ j = c + 1
      BY <1>12, <1>15, <1>16, <1>17, <2>1, <3>1, <3>2
    <3>3. CASE i # c + 1 /\ j # c + 1
      BY <1>13, <1>15, <2>1, <3>1, <3>3
    <3> QED  BY <3>2, <3>3
  <2> QED  BY <1>15, <2>1 DEF IsInjective
<1>19. Range(v) = TablesOf(r, d) \cup {d}
  <2>1. ASSUME NEW f \in Range(v) PROVE f \in TablesOf(r, d) \cup {d}
    <3>1. PICK i \in 1 .. c + 1 : v[i] = f
      BY <1>15 DEF Range
    <3>2. i = c + 1 \/ i \in 1 .. c
      BY <1>12
    <3> QED  BY <1>12, <1>15, <1>16, <3>1, <3>2
  <2>2. ASSUME NEW f \in TablesOf(r, d) PROVE f \in Range(v)
    <3>1. PICK i \in 1 .. c : u[i] = f
      BY <1>14
    <3>2. i \in 1 .. c + 1 /\ v[i] = f
      BY <1>12, <1>15, <3>1
    <3> QED  BY <1>15, <3>2 DEF Range
  <2>3. d \in Range(v)
    <3>1. c + 1 \in 1 .. c + 1
      BY <1>12
    <3> QED  BY <1>15, <1>16, <3>1 DEF Range
  <2> QED  BY <2>1, <2>2, <2>3
<1>20. Range(v) \cap Range(g.free) = {}
  <2>1. Range(v) \cap PagesOf(r, d) = {}
    BY <1>19 DEF Space, Treelike
  <2>2. Range(v) \subseteq Own(r, d)
    BY <1>17, <1>19, OwnFrames
  <2> QED  BY <1>2, <1>3, <2>1, <2>2
<1>21. /\ Ram(s) /\ Range(s.free) = Range(g.free) \cup Range(v)
       /\ \A f \in Frame \ Range(v) : s.frame[f] = g.frame[f]
  <2>1. s = Kfree(g, v)
    BY <1>1 DEF v
  <2> QED  BY <1>2, <1>15, <1>18, <1>20, <2>1, KfreeGives
<1>22. Range(s.free) = Range(r.free) \cup Own(r, d)
  BY <1>2, <1>3, <1>19, <1>21 DEF Own
<1>23. \A f \in Frame \ Own(r, d) : s.frame[f] = r.frame[f]
  <2>1. Range(v) \subseteq Own(r, d)
    BY <1>17, <1>19, OwnFrames
  <2> QED  BY <1>2, <1>21, <2>1
<1> QED  BY <1>21, <1>22, <1>23 DEF Freed, s

-----------------------------------------------------------------------------
\* An address of a program: its page and its place there
LEMMA AddressIs ==
  ASSUME NEW a \in 0 .. KERNBASE - 1
  PROVE  /\ a \div PGSIZE \in Page /\ a % PGSIZE \in 0 .. PGSIZE - 1
         /\ a = (a \div PGSIZE) * PGSIZE + (a % PGSIZE)
<1>1. a \in Nat /\ a < KERNBASE
  BY Sizes
<1> DEFINE q == a \div PGSIZE
           i == a % PGSIZE
<1>2. q \in Nat /\ i \in 0 .. PGSIZE - 1 /\ a = PGSIZE * q + i
  BY <1>1, Sizes, Divided
<1>3. q < Pages(KERNBASE)
  <2>1. PGROUNDUP(KERNBASE) = KERNBASE
    BY PagesBelow, Geometry, PagesOfPages DEF PGROUNDUP
  <2>2. \A b \in Int : b \div PGSIZE < Pages(KERNBASE) <=> b < PGROUNDUP(KERNBASE)
    BY PagesAre, Sizes
  <2> QED  BY <1>1, <2>1, <2>2
<1> HIDE DEF q, i
<1>4. q \in Page /\ PGSIZE * q = q * PGSIZE
  BY <1>2, <1>3, PagesBelow, Sizes
<1> QED  BY <1>2, <1>4 DEF q, i

\* The address of a place in a page
LEMMA AddressOf ==
  ASSUME NEW n \in Page, NEW i \in 0 .. PGSIZE - 1
  PROVE  /\ n * PGSIZE + i \in 0 .. KERNBASE - 1
         /\ (n * PGSIZE + i) \div PGSIZE = n /\ (n * PGSIZE + i) % PGSIZE = i
<1>1. n \in Nat /\ n < Pages(KERNBASE) /\ PGSIZE * n = n * PGSIZE /\ n * PGSIZE \in Nat
  BY PagesBelow, Sizes
<1>2. (n * PGSIZE + i) \div PGSIZE = n /\ (n * PGSIZE + i) % PGSIZE = i
  BY <1>1, Sizes, Quotient
<1>3. n * PGSIZE + i < KERNBASE
  <2>1. PGROUNDUP(KERNBASE) = KERNBASE
    BY PagesBelow, Geometry, PagesOfPages DEF PGROUNDUP
  <2>2. n * PGSIZE + i \in Int
    BY <1>1
  <2> QED  BY <1>1, <1>2, <2>1, <2>2, PagesAre, Sizes
<1> QED  BY <1>1, <1>2, <1>3, Sizes

\* Words are written where they are mapped, and nowhere else.
WordsWritten(r, s, d, vas, word) ==
  /\ Ram(s) /\ s.free = r.free /\ Space(s, d) /\ Own(s, d) = Own(r, d) /\ s.frame[d] = r.frame[d]
  /\ \A n \in Page : Walk(s, d, n) = Walk(r, d, n)
  /\ \A n \in Page : Walk(r, d, n).frame # 0 =>
       \A i \in 0 .. PGSIZE - 1 :
         s.frame[Walk(r, d, n).frame][i] =
           IF n * PGSIZE + i \in vas THEN word ELSE r.frame[Walk(r, d, n).frame][i]
  /\ \A f \in Frame \ PagesOf(r, d) : s.frame[f] = r.frame[f]

\* A store changes those words of those pages and nothing else.
LEMMA WrittenIs ==
  ASSUME NEW r, Ram(r), NEW d, Space(r, d), NEW vas \in SUBSET (0 .. KERNBASE - 1),
         \A a \in vas : Walk(r, d, a \div PGSIZE).frame # 0,
         NEW word \in {"zero", "text", "data", "argument"}
  PROVE  WordsWritten(r, Written(r, d, vas, word), d, vas, word)
<1> DEFINE s == Written(r, d, vas, word)
           here(f) == {va \in vas : Walk(r, d, va \div PGSIZE).frame = f}
           x == [f \in Frame |-> IF here(f) = {} THEN r.frame[f]
                  ELSE [i \in 0 .. PGSIZE - 1 |->
                          IF \E va \in here(f) : va % PGSIZE = i THEN word ELSE r.frame[f][i]]]
<1>1. s = [r EXCEPT !.frame = x]
  BY DEF Written
<1>2. /\ r = [free |-> r.free, frame |-> r.frame] /\ r.frame = [f \in Frame |-> r.frame[f]]
      /\ r.free \in Seq(Frame) /\ IsInjective(r.free)
  BY DEF Ram
<1> HIDE DEF s
<1>3. s.free = r.free /\ s.frame = x /\ s = [free |-> s.free, frame |-> s.frame]
  <2> HIDE DEF x
  <2>1. s = [free |-> r.free, frame |-> x]
    BY <1>1, <1>2
  <2> QED  BY <2>1
<1>4. \A f \in Frame :
        s.frame[f] = IF here(f) = {} THEN r.frame[f]
                     ELSE [i \in 0 .. PGSIZE - 1 |->
                             IF \E va \in here(f) : va % PGSIZE = i THEN word ELSE r.frame[f][i]]
  BY <1>3
<1>5. s.frame = [f \in Frame |-> s.frame[f]]
  BY <1>3
<1> HIDE DEF x
<1>6. \A f \in Frame \ PagesOf(r, d) : s.frame[f] = r.frame[f]
  <2> TAKE f \in Frame \ PagesOf(r, d)
  <2>1. \A va \in vas : Walk(r, d, va \div PGSIZE).frame \in PagesOf(r, d)
    BY AddressIs, WalkIs
  <2>2. here(f) = {}
    BY <2>1
  <2> HIDE DEF here
  <2> QED  BY <1>4, <2>2
<1>7. ASSUME NEW n \in Page, Walk(r, d, n).frame # 0
      PROVE  /\ s.frame[Walk(r, d, n).frame] \in Contents
             /\ \A i \in 0 .. PGSIZE - 1 :
                  s.frame[Walk(r, d, n).frame][i] =
                    IF n * PGSIZE + i \in vas THEN word ELSE r.frame[Walk(r, d, n).frame][i]
  <2> DEFINE f == Walk(r, d, n).frame
  <2>1. f \in Frame /\ r.frame[f] \in Contents
    BY <1>7, WalkIs DEF Space, Typed
  <2>2. \A va \in here(f) : va \div PGSIZE = n
    BY <1>7, AddressIs DEF Space, Treelike
  <2>3. ASSUME NEW i \in 0 .. PGSIZE - 1
        PROVE  (\E va \in here(f) : va % PGSIZE = i) <=> n * PGSIZE + i \in vas
    <3>1. ASSUME NEW va \in here(f), va % PGSIZE = i PROVE n * PGSIZE + i \in vas
      <4>1. va = (va \div PGSIZE) * PGSIZE + (va % PGSIZE)
        BY AddressIs
      <4> QED  BY <2>2, <3>1, <4>1
    <3>2. ASSUME n * PGSIZE + i \in vas PROVE \E va \in here(f) : va % PGSIZE = i
      <4>1. n * PGSIZE + i \in here(f) /\ (n * PGSIZE + i) % PGSIZE = i
        BY <3>2, AddressOf
      <4> QED  BY <4>1
    <3> QED  BY <3>1, <3>2
  <2> HIDE DEF f
  <2>4. CASE here(f) = {}
    <3>1. s.frame[f] = r.frame[f]
      BY <1>4, <2>1, <2>4
    <3>2. \A i \in 0 .. PGSIZE - 1 : ~(n * PGSIZE + i \in vas)
      BY <2>3, <2>4
    <3> QED  BY <2>1, <3>1, <3>2 DEF f
  <2>5. CASE here(f) # {}
    <3> DEFINE y == [i \in 0 .. PGSIZE - 1 |->
                       IF \E va \in here(f) : va % PGSIZE = i THEN word ELSE r.frame[f][i]]
    <3>1. s.frame[f] = y
      BY <1>4, <2>1, <2>5
    <3>2. \A i \in 0 .. PGSIZE - 1 : y[i] = IF n * PGSIZE + i \in vas THEN word ELSE r.frame[f][i]
      BY <2>3
    <3> HIDE DEF here
    <3>3. y \in Contents
      BY <2>1 DEF Contents
    <3> HIDE DEF y
    <3> QED  BY <3>1, <3>2, <3>3 DEF f
  <2> QED  BY <2>4, <2>5
<1>8. s.frame[d] = r.frame[d]
  BY <1>6, OwnFrames DEF Space, Treelike
<1>9. \A i \in Entry : r.frame[d][i] # 0 =>
        /\ s.frame[r.frame[d][i]] = r.frame[r.frame[d][i]]
        /\ s.frame[r.frame[d][i]] \in PageTables
  <2> TAKE i \in Entry
  <2>1. ASSUME r.frame[d][i] # 0 PROVE r.frame[d][i] \in Frame \ PagesOf(r, d)
    <3>1. r.frame[d][i] \in TablesOf(r, d)
      BY <2>1 DEF TablesOf
    <3> QED  BY <3>1, OwnFrames DEF Space, Treelike
  <2> QED  BY <1>6, <2>1 DEF Space, Typed
<1>10. \A n \in Page : Walk(s, d, n) = Walk(r, d, n)
  <2> TAKE n \in Page
  <2>1. PDX(n) \in Entry
    BY WalkIs
  <2> QED  BY <1>8, <1>9, <2>1 DEF Walk
<1>11. Space(s, d) /\ TablesOf(s, d) = TablesOf(r, d)
  BY <1>7, <1>8, <1>9, <1>10, SpaceFrom
<1>12. PagesOf(s, d) = PagesOf(r, d)
  BY <1>10 DEF PagesOf
<1>13. Own(s, d) = Own(r, d)
  BY <1>11, <1>12 DEF Own
<1>14. Ram(s)
  BY <1>2, <1>3, <1>5 DEF Ram
<1>15. \A n \in Page : Walk(r, d, n).frame # 0 =>
         \A i \in 0 .. PGSIZE - 1 :
           s.frame[Walk(r, d, n).frame][i] =
             IF n * PGSIZE + i \in vas THEN word ELSE r.frame[Walk(r, d, n).frame][i]
  BY <1>7
<1> QED  BY <1>3, <1>6, <1>8, <1>10, <1>11, <1>13, <1>14, <1>15 DEF WordsWritten, s

-----------------------------------------------------------------------------
(* The table and the calls *)

Segments == Seq([vaddr : 0 .. UINT - 1, memsz : 0 .. UINT - 1, filesz : 0 .. UINT - 1, short : BOOLEAN])
Procs == [state : {"UNUSED", "EMBRYO", "RUNNABLE", "ZOMBIE"}, parent : Slot \cup {0},
          kstack : Frame \cup {0}, pgdir : Frame \cup {0}, sz : 0 .. KERNBASE]
Ops == {"none", "sbrk", "fork", "exec"}
Labels == {"user", "kstack", "pgdir", "kmap", "page", "map", "copied", "grown", "segment", "load", "args"}
CallRecords ==
  [at : Labels, op : Ops, then : Labels \cup {"none"}, dir : Frame \cup {0}, n : Nat,
   from : Nat, to : 0 .. KERNBASE, mem : Frame \cup {0}, sz : 0 .. KERNBASE, seg : Nat \ {0},
   image : Segments, args : [argc : Nat, words : Nat], child : Slot \cup {0}]

\* A slot that has an address space, and a call that is making one
Active(s) == s.state \in {"RUNNABLE", "ZOMBIE"}
Makes(c) == c.op \in {"fork", "exec"} /\ c.dir # 0

\* The loop of allocuvm and copyuvm, and where a call will be when it ends
Loops(c) == c.at \in {"page", "map"}
Phase(c) == IF Loops(c) THEN c.then ELSE c.at
Phases(op) == CASE op = "sbrk" -> {"grown"}
                [] op = "fork" -> {"kstack", "pgdir", "kmap", "copied"}
                [] op = "exec" -> {"pgdir", "kmap", "segment", "load", "args"}
                [] OTHER -> {"user"}

\* The page to come is the first that is not there.
InLoop(r, c) ==
  /\ Phase(c) \in Phases(c.op)
  /\ c.mem # 0 <=> c.at = "map"
  /\ c.at = "map" => r.frame[c.mem] \in Contents
  /\ Loops(c) => /\ c.op # "none" /\ c.then \in {"grown", "copied", "load", "args"}
                 /\ c.n < Pages(c.to) /\ Has(r, c.dir, c.n)

\* A directory that fork or exec makes
Making(r, c) ==
  c.op \in {"fork", "exec"} =>
    /\ c.dir = 0 <=> c.at \in {"kstack", "pgdir"}
    /\ c.dir # 0 => Space(r, c.dir)
    /\ c.at = "kmap" => Has(r, c.dir, 0) /\ \E i \in KMAP : r.frame[c.dir][i] = 0

\* sbrk: zeros from the old size on
Enlarging(r, c, s) ==
  c.op = "sbrk" =>
    /\ c.dir = s.pgdir /\ c.from = s.sz /\ c.from <= c.to
    /\ c.at = "grown" => Has(r, c.dir, Pages(c.to))
    /\ Loops(c) => Pages(c.from) <= c.n
    /\ c.at = "map" => r.frame[c.mem] = ZeroPage
    /\ \A n \in Page : n >= Pages(c.from) /\ Walk(r, c.dir, n).frame # 0 =>
         Walk(r, c.dir, n).user /\ r.frame[Walk(r, c.dir, n).frame] = ZeroPage

\* fork: the pages of the child are as the parent's are.
SamePage(r, d, e, n) ==
  /\ Walk(r, e, n).frame # 0 /\ Walk(r, d, n).user = Walk(r, e, n).user
  /\ r.frame[Walk(r, d, n).frame] = r.frame[Walk(r, e, n).frame]
Copying(r, c, s) ==
  c.op = "fork" /\ Phase(c) = "copied" =>
    /\ c.to = s.sz
    /\ c.at = "copied" => Has(r, c.dir, Pages(s.sz))
    /\ c.at = "map" => /\ Walk(r, s.pgdir, c.n).frame # 0
                       /\ r.frame[c.mem] = r.frame[Walk(r, s.pgdir, c.n).frame]
    /\ \A n \in Page : Walk(r, c.dir, n).frame # 0 => SamePage(r, c.dir, s.pgdir, n)

\* exec: the first k segments of the image are there, and zeros.
EndOf(seg) == seg.vaddr + seg.memsz
Highest(image, k, top) == /\ top = 0 \/ \E j \in 1 .. k : EndOf(image[j]) = top
                          /\ \A j \in 1 .. k : EndOf(image[j]) <= top
TextOf(image, k) == {a \in Nat : \E j \in 1 .. k : a >= image[j].vaddr /\ a < image[j].vaddr + image[j].filesz}
Sized(c, k) ==
  /\ k \in 0 .. Len(c.image)
  /\ \A j \in 1 .. k : c.image[j].filesz <= c.image[j].memsz
  /\ IF Phase(c) = "args" THEN \E top \in 0 .. KERNBASE : /\ k = Len(c.image) /\ Highest(c.image, k, top)
                                                          /\ c.sz = PGROUNDUP(top) + 2 * PGSIZE
     ELSE Highest(c.image, k, c.sz)
TextLoaded(r, d, text) ==
  \A n \in Page : Walk(r, d, n).frame # 0 =>
    /\ Walk(r, d, n).user
    /\ \A i \in 0 .. PGSIZE - 1 :
         r.frame[Walk(r, d, n).frame][i] = IF n * PGSIZE + i \in text THEN "text" ELSE "zero"
Loading(r, c) ==
  c.op = "exec" =>
    /\ c.image \in Images /\ c.args \in Arguments
    /\ Phase(c) \in {"pgdir", "kmap"} => c.seg = 1 /\ c.sz = 0
    /\ Phase(c) \in {"segment", "load", "args"} =>
         /\ Sized(c, IF Phase(c) = "load" THEN c.seg ELSE c.seg - 1)
         /\ Loops(c) => c.to = c.sz /\ \A j \in 1 .. c.seg - 1 : EndOf(c.image[j]) <= c.n * PGSIZE
         /\ ~Loops(c) => Has(r, c.dir, Pages(c.sz))
         /\ TextLoaded(r, c.dir, TextOf(c.image, c.seg - 1))
    /\ c.at = "map" => r.frame[c.mem] = ZeroPage

\* The program of a slot: its pages are there, up to its size, or sbrk has taken all.
Slotted(r, s, c) ==
  /\ s.state = "UNUSED" => s.kstack = 0
  /\ Active(s) => Space(r, s.pgdir) /\ s.kstack # 0
  /\ c.op # "none" => s.state = "RUNNABLE"
  /\ s.state = "RUNNABLE" /\ c.op = "none" => Has(r, s.pgdir, Pages(s.sz)) \/ Has(r, s.pgdir, 0)
  /\ c.op \in {"fork", "exec"} => Has(r, s.pgdir, Pages(s.sz))

\* The child of a fork waits in its slot.
Parental(P, c) ==
  c.op = "fork" => /\ c.child \in Slot /\ P[c.child].state = "EMBRYO"
                   /\ P[c.child].kstack = 0 <=> c.at = "kstack"

CallGood(r, s, c) ==
  /\ Slotted(r, s, c) /\ InLoop(r, c) /\ Making(r, c)
  /\ Enlarging(r, c, s) /\ Copying(r, c, s) /\ Loading(r, c)

Good(r, P, C, p) == CallGood(r, P[p], C[p]) /\ Parental(P, C[p])

ChildrenDiffer(C) ==
  \A p, q \in Slot : C[p].op = "fork" /\ C[q].op = "fork" /\ C[p].child = C[q].child => p = q

\* Every frame is free, or has one of these owners.
Nobody == <<"free", 0>>
Owners == ({"stack", "mem", "of", "new"} \X Slot) \cup {Nobody}
Part(r, P, C, b) ==
  LET s == P[b[2]]
      c == C[b[2]]
  IN CASE b[1] = "stack" -> {s.kstack} \ {0}
       [] b[1] = "mem" -> {c.mem} \ {0}
       [] b[1] = "of" -> IF Active(s) THEN Own(r, s.pgdir) ELSE {}
       [] b[1] = "new" -> IF Makes(c) THEN Own(r, c.dir) ELSE {}
       [] OTHER -> Range(r.free)
OwnedBy(own, r, P, C) ==
  /\ own \in [Frame -> Owners]
  /\ \A b \in Owners : \A f \in Frame : own[f] = b <=> f \in Part(r, P, C, b)

Sound(own, r, P, C) ==
  /\ Ram(r) /\ P \in [Slot -> Procs] /\ C \in [Slot -> CallRecords]
  /\ OwnedBy(own, r, P, C)
  /\ \A p \in Slot : Good(r, P, C, p)
  /\ ChildrenDiffer(C)

-----------------------------------------------------------------------------
\* What each owner has
LEMMA PartIs ==
  ASSUME NEW r, NEW P, NEW C, NEW q
  PROVE  /\ Part(r, P, C, Nobody) = Range(r.free)
         /\ Part(r, P, C, <<"stack", q>>) = {P[q].kstack} \ {0}
         /\ Part(r, P, C, <<"mem", q>>) = {C[q].mem} \ {0}
         /\ Part(r, P, C, <<"of", q>>) = IF Active(P[q]) THEN Own(r, P[q].pgdir) ELSE {}
         /\ Part(r, P, C, <<"new", q>>) = IF Makes(C[q]) THEN Own(r, C[q].dir) ELSE {}
  BY DEF Part, Nobody

\* The names of owners
LEMMA OwnersAre ==
  /\ Nobody \in Owners
  /\ \A q \in Slot, k \in {"stack", "mem", "of", "new"} : <<k, q>> \in Owners /\ <<k, q>> # Nobody
  /\ \A b \in Owners : b = Nobody \/ \E q \in Slot, k \in {"stack", "mem", "of", "new"} : b = <<k, q>>
<1>1. 0 \notin Slot
  BY DEF Slot
<1> QED  BY <1>1 DEF Owners, Nobody

\* The fields of a call
LEMMA RecordIs ==
  ASSUME NEW c \in CallRecords
  PROVE  /\ c.op \in Ops /\ c.at \in Labels /\ c.n \in Nat /\ c.from \in Nat /\ c.to \in Nat /\ c.to <= KERNBASE
         /\ c.sz \in Nat /\ c.sz <= KERNBASE /\ c.seg \in Nat /\ c.seg > 0 /\ c.image \in Segments
         /\ c.dir \in Frame \cup {0} /\ c.mem \in Frame \cup {0} /\ c.args \in [argc : Nat, words : Nat]
         /\ c.then \in Labels \cup {"none"} /\ c.child \in Slot \cup {0}
  BY Sizes DEF CallRecords

\* The page that a loop is at is one of a program.
LEMMA LoopIs ==
  ASSUME NEW r, NEW c \in CallRecords, InLoop(r, c), Loops(c)
  PROVE  c.n \in Page /\ c.op \in {"sbrk", "fork", "exec"}
  BY RecordIs, PagesAre DEF InLoop, Ops

\* What a call sees of memory is what it owns, and what its process has.
LEMMA CallKept ==
  ASSUME NEW r, NEW r2, NEW s, NEW c \in CallRecords, CallGood(r, s, c),
         Active(s) => Kept(r, r2, s.pgdir),
         Makes(c) => Kept(r, r2, c.dir),
         c.mem # 0 => r2.frame[c.mem] = r.frame[c.mem]
  PROVE  CallGood(r2, s, c)
<1> USE DEF CallGood
<1>1. c.op \in {"sbrk", "fork", "exec"} => Active(s)
  BY DEF Slotted, Active
<1>2. \A d : Kept(r, r2, d) => \A k : Has(r2, d, k) <=> Has(r, d, k)
  BY DEF Kept, Has
<1>3. Slotted(r2, s, c)
  <2>1. Active(s) => Space(r2, s.pgdir)
    BY DEF Kept
  <2> QED  BY <1>1, <1>2, <2>1 DEF Slotted, Active
<1>4. Making(r2, c)
  <2>1. Makes(c) => Space(r2, c.dir) /\ r2.frame[c.dir] = r.frame[c.dir]
    BY DEF Kept
  <2> QED  BY <1>2, <2>1 DEF Making, Makes
<1>5. Loops(c) => Kept(r, r2, c.dir)
  <2>1. Loops(c) => c.op \in {"sbrk", "fork", "exec"}
    BY LoopIs
  <2>2. c.op = "sbrk" => Kept(r, r2, c.dir)
    BY <1>1 DEF Enlarging
  <2>3. Loops(c) /\ c.op \in {"fork", "exec"} => Makes(c)
    BY DEF Making, Makes, Loops
  <2> QED  BY <2>1, <2>2, <2>3
<1>6. InLoop(r2, c)
  BY <1>2, <1>5 DEF InLoop
<1>7. Enlarging(r2, c, s)
  <2>1. c.op = "sbrk" => Kept(r, r2, c.dir)
    BY <1>1 DEF Enlarging
  <2> QED  BY <1>2, <2>1 DEF Enlarging, InLoop, Kept
<1>8. Copying(r2, c, s)
  <2>1. c.op = "fork" /\ Phase(c) = "copied" => Kept(r, r2, c.dir) /\ Kept(r, r2, s.pgdir)
    BY <1>1 DEF Making, Makes, Phase, Loops
  <2>2. ASSUME c.op = "fork", Phase(c) = "copied", NEW n \in Page, Walk(r, c.dir, n).frame # 0,
               SamePage(r, c.dir, s.pgdir, n)
        PROVE  SamePage(r2, c.dir, s.pgdir, n)
    BY <2>1, <2>2 DEF SamePage, Kept
  <2>3. ASSUME c.op = "fork", Phase(c) = "copied", c.at = "map"
        PROVE  /\ Walk(r2, s.pgdir, c.n).frame # 0
               /\ r2.frame[c.mem] = r2.frame[Walk(r2, s.pgdir, c.n).frame]
    <3>1. c.n \in Page
      BY <2>3, LoopIs DEF Loops
    <3> QED  BY <2>1, <2>3, <3>1 DEF Copying, Kept, InLoop
  <2> QED  BY <1>2, <2>1, <2>2, <2>3 DEF Copying, Kept
<1>9. Loading(r2, c)
  <2>1. c.op = "exec" /\ Phase(c) \in {"segment", "load", "args"} => Kept(r, r2, c.dir)
    BY DEF Making, Makes, Phase, Loops
  <2>2. \A text : c.op = "exec" /\ Phase(c) \in {"segment", "load", "args"} /\ TextLoaded(r, c.dir, text)
                    => TextLoaded(r2, c.dir, text)
    BY <2>1 DEF TextLoaded, Kept
  <2> QED  BY <1>2, <2>1, <2>2 DEF Loading, InLoop
<1> QED  BY <1>3, <1>4, <1>6, <1>7, <1>8, <1>9

\* A slot that has changed in its parent only
SameSlot(s, t) == t.state = s.state /\ t.kstack = s.kstack /\ t.pgdir = s.pgdir /\ t.sz = s.sz

\* Owners whom a step of p concerns, with the slot x: the free list and these two
Near(b, p, x) == b = Nobody \/ b[2] \in {p, x}

\* A call does not see more of its process than SameSlot keeps.
LEMMA SlotKept ==
  ASSUME NEW r, NEW s, NEW t, NEW c, SameSlot(s, t), CallGood(r, s, c)
  PROVE  CallGood(r, t, c)
<1>1. Slotted(r, t, c)
  BY DEF CallGood, Slotted, Active, SameSlot
<1>2. Enlarging(r, c, t)
  BY DEF CallGood, Enlarging, SameSlot
<1>3. Copying(r, c, t)
  BY DEF CallGood, Copying, SameSlot, SamePage
<1> QED  BY <1>1, <1>2, <1>3 DEF CallGood

\* The frames of whom a step does not concern
LEMMA OthersKept ==
  ASSUME NEW own, NEW r, NEW P, NEW C, Sound(own, r, P, C), NEW r2, NEW q \in Slot,
         \A f \in Frame : own[f] # Nobody /\ own[f][2] = q => r2.frame[f] = r.frame[f]
  PROVE  /\ CallGood(r2, P[q], C[q])
         /\ Active(P[q]) => Kept(r, r2, P[q].pgdir)
         /\ Makes(C[q]) => Kept(r, r2, C[q].dir)
<1>0. CallGood(r, P[q], C[q]) /\ C[q] \in CallRecords
  BY DEF Sound, Good
<1>1. ASSUME NEW k \in {"stack", "mem", "of", "new"}, NEW f \in Frame, f \in Part(r, P, C, <<k, q>>)
      PROVE  r2.frame[f] = r.frame[f]
  <2>1. own[f] = <<k, q>> /\ <<k, q>> # Nobody
    BY <1>1, OwnersAre DEF Sound, OwnedBy
  <2> QED  BY <2>1
<1>2. C[q].mem # 0 => r2.frame[C[q].mem] = r.frame[C[q].mem]
  BY <1>0, <1>1, PartIs, RecordIs
<1>3. Active(P[q]) => Kept(r, r2, P[q].pgdir)
  <2>1. ASSUME Active(P[q]) PROVE Space(r, P[q].pgdir) /\ \A f \in Own(r, P[q].pgdir) : f \in Frame /\ f \in Part(r, P, C, <<"of", q>>)
    BY <1>0, <2>1, OwnFrames DEF CallGood, Slotted, Part
  <2>2. ASSUME Active(P[q]) PROVE \A f \in Own(r, P[q].pgdir) : r2.frame[f] = r.frame[f]
    BY <1>1, <2>1, <2>2
  <2> QED  BY <2>1, <2>2, SpaceKept
<1>4. Makes(C[q]) => Kept(r, r2, C[q].dir)
  <2>1. ASSUME Makes(C[q]) PROVE Space(r, C[q].dir) /\ \A f \in Own(r, C[q].dir) : f \in Frame /\ f \in Part(r, P, C, <<"new", q>>)
    BY <1>0, <2>1, OwnFrames DEF CallGood, Making, Makes, Part
  <2>2. ASSUME Makes(C[q]) PROVE \A f \in Own(r, C[q].dir) : r2.frame[f] = r.frame[f]
    BY <1>1, <2>1, <2>2
  <2> QED  BY <2>1, <2>2, SpaceKept
<1>5. CallGood(r2, P[q], C[q])
  BY <1>0, <1>2, <1>3, <1>4, CallKept
<1> QED  BY <1>3, <1>4, <1>5

\* A step of p, that concerns the slot x too, leaves the others alone.
LEMMA StepKeeps ==
  ASSUME NEW own, NEW r, NEW P, NEW C, Sound(own, r, P, C),
         NEW own2, NEW r2, NEW P2, NEW C2, NEW p \in Slot, NEW x \in Slot,
         Ram(r2), P2 \in [Slot -> Procs], C2 \in [Slot -> CallRecords], own2 \in [Frame -> Owners],
         \A f \in Frame : own2[f] # own[f] \/ r2.frame[f] # r.frame[f] => Near(own[f], p, x),
         \A f \in Frame : own2[f] # own[f] => Near(own2[f], p, x),
         \A f \in Frame : \A b \in Owners : Near(b, p, x) => (own2[f] = b <=> f \in Part(r2, P2, C2, b)),
         \A q \in Slot \ {p, x} : SameSlot(P[q], P2[q]) /\ C2[q] = C[q],
         \A q \in Slot \ {p, x} : C[q].op = "fork" => C[q].child \notin {p, x},
         Good(r2, P2, C2, p), Good(r2, P2, C2, x), ChildrenDiffer(C2)
  PROVE  Sound(own2, r2, P2, C2)
<1>1. ASSUME NEW q \in Slot, q \notin {p, x}
      PROVE  /\ CallGood(r2, P[q], C[q])
             /\ Active(P[q]) => Kept(r, r2, P[q].pgdir)
             /\ Makes(C[q]) => Kept(r, r2, C[q].dir)
  <2>1. \A f \in Frame : own[f] # Nobody /\ own[f][2] = q => r2.frame[f] = r.frame[f]
    BY <1>1 DEF Near
  <2> QED  BY <2>1, OthersKept
<1>2. ASSUME NEW q \in Slot PROVE Good(r2, P2, C2, q)
  <2>1. CASE q \in {p, x}
    BY <2>1
  <2>2. CASE q \notin {p, x}
    <3>1. SameSlot(P[q], P2[q]) /\ C2[q] = C[q]
      BY <2>2
    <3>2. CallGood(r2, P2[q], C2[q])
      BY <1>1, <2>2, <3>1, SlotKept
    <3>3. Parental(P2, C2[q])
      <4>1. Parental(P, C[q]) /\ (C[q].op = "fork" => C[q].child \notin {p, x})
        BY <2>2 DEF Sound, Good
      <4>2. C[q].op = "fork" => SameSlot(P[C[q].child], P2[C[q].child])
        BY <4>1 DEF Parental
      <4> QED  BY <3>1, <4>1, <4>2 DEF Parental, SameSlot
    <3> QED  BY <3>2, <3>3 DEF Good
  <2> QED  BY <2>1, <2>2
<1>3. ASSUME NEW q \in Slot, q \notin {p, x}, NEW k \in {"stack", "mem", "of", "new"}
      PROVE  Part(r2, P2, C2, <<k, q>>) = Part(r, P, C, <<k, q>>)
  <2>1. SameSlot(P[q], P2[q]) /\ C2[q] = C[q]
    BY <1>3
  <2>2. /\ Active(P[q]) => Own(r2, P[q].pgdir) = Own(r, P[q].pgdir)
        /\ Makes(C[q]) => Own(r2, C[q].dir) = Own(r, C[q].dir)
    BY <1>1, <1>3 DEF Kept
  <2>3. Active(P[q]) <=> Active(P2[q])
    BY <2>1 DEF Active, SameSlot
  <2>4. Part(r2, P2, C2, <<"stack", q>>) = Part(r, P, C, <<"stack", q>>)
    BY <2>1 DEF Part, SameSlot
  <2>5. Part(r2, P2, C2, <<"mem", q>>) = Part(r, P, C, <<"mem", q>>)
    BY <2>1 DEF Part
  <2>6. Part(r2, P2, C2, <<"of", q>>) = Part(r, P, C, <<"of", q>>)
    BY <2>1, <2>2, <2>3 DEF Part, SameSlot
  <2>7. Part(r2, P2, C2, <<"new", q>>) = Part(r, P, C, <<"new", q>>)
    BY <2>1, <2>2 DEF Part
  <2> QED  BY <2>4, <2>5, <2>6, <2>7
<1>4. ASSUME NEW b \in Owners, NEW f \in Frame PROVE own2[f] = b <=> f \in Part(r2, P2, C2, b)
  <2>1. CASE Near(b, p, x)
    BY <2>1
  <2>2. CASE ~Near(b, p, x)
    <3>1. PICK q \in Slot, k \in {"stack", "mem", "of", "new"} : b = <<k, q>> /\ q \notin {p, x}
      BY <2>2, OwnersAre DEF Near
    <3>2. Part(r2, P2, C2, b) = Part(r, P, C, b)
      BY <1>3, <3>1
    <3>3. own[f] = b <=> f \in Part(r, P, C, b)
      BY DEF Sound, OwnedBy
    <3>4. own2[f] = b => own[f] = b
      BY <2>2
    <3>5. own[f] = b => own2[f] = b
      BY <2>2
    <3> QED  BY <3>2, <3>3, <3>4, <3>5
  <2> QED  BY <2>1, <2>2
<1> QED  BY <1>2, <1>4 DEF Sound, OwnedBy

\* Frames that go from owner to owner
Moved(own, fs, b) == [f \in Frame |-> IF f \in fs THEN b ELSE own[f]]

\* A step of p in which frames go to one owner
LEMMA StepMoves ==
  ASSUME NEW own, NEW r, NEW P, NEW C, Sound(own, r, P, C),
         NEW fs \in SUBSET Frame, NEW to \in Owners, NEW r2, NEW P2, NEW C2, NEW p \in Slot, NEW x \in Slot,
         Ram(r2), P2 \in [Slot -> Procs], C2 \in [Slot -> CallRecords],
         Near(to, p, x), \A f \in fs : Near(own[f], p, x),
         \A f \in Frame : r2.frame[f] # r.frame[f] => Near(own[f], p, x),
         \A b \in Owners : Near(b, p, x) =>
           Part(r2, P2, C2, b) = IF b = to THEN Part(r, P, C, b) \cup fs ELSE Part(r, P, C, b) \ fs,
         \A q \in Slot \ {p, x} : SameSlot(P[q], P2[q]) /\ C2[q] = C[q],
         \A q \in Slot \ {p, x} : C[q].op = "fork" => C[q].child \notin {p, x},
         Good(r2, P2, C2, p), Good(r2, P2, C2, x), ChildrenDiffer(C2)
  PROVE  Sound(Moved(own, fs, to), r2, P2, C2)
<1> DEFINE own2 == Moved(own, fs, to)
<1>1. \A f \in Frame : own2[f] = IF f \in fs THEN to ELSE own[f]
  BY DEF Moved
<1>2. own \in [Frame -> Owners] /\ \A b \in Owners : \A f \in Frame : own[f] = b <=> f \in Part(r, P, C, b)
  BY DEF Sound, OwnedBy
<1>3. own2 \in [Frame -> Owners]
  BY <1>2 DEF Moved
<1> HIDE DEF own2
<1>4. \A f \in Frame : own2[f] # own[f] \/ r2.frame[f] # r.frame[f] => Near(own[f], p, x)
  BY <1>1
<1>5. \A f \in Frame : own2[f] # own[f] => Near(own2[f], p, x)
  BY <1>1
<1>6. \A f \in Frame : \A b \in Owners : Near(b, p, x) => (own2[f] = b <=> f \in Part(r2, P2, C2, b))
  <2> SUFFICES ASSUME NEW f \in Frame, NEW b \in Owners, Near(b, p, x)
               PROVE  own2[f] = b <=> f \in Part(r2, P2, C2, b)
    OBVIOUS
  <2>1. Part(r2, P2, C2, b) = IF b = to THEN Part(r, P, C, b) \cup fs ELSE Part(r, P, C, b) \ fs
    OBVIOUS
  <2> QED  BY <1>1, <1>2, <2>1
<1>7. Sound(own2, r2, P2, C2)
  BY <1>3, <1>4, <1>5, <1>6, StepKeeps
<1> QED  BY <1>7 DEF own2

\* The owners near p, where no other slot is concerned
LEMMA NearOne ==
  ASSUME NEW p \in Slot, NEW b \in Owners, Near(b, p, p)
  PROVE  b \in {Nobody, <<"stack", p>>, <<"mem", p>>, <<"of", p>>, <<"new", p>>}
  BY OwnersAre DEF Near

\* The owners that a step with another slot concerns
LEMMA NearTwo ==
  ASSUME NEW p \in Slot, NEW x \in Slot, NEW b \in Owners, Near(b, p, x)
  PROVE  b \in {Nobody, <<"stack", p>>, <<"mem", p>>, <<"of", p>>, <<"new", p>>,
                <<"stack", x>>, <<"mem", x>>, <<"of", x>>, <<"new", x>>}
  BY OwnersAre DEF Near

\* The owners of both slots are among them.
LEMMA NearBy ==
  ASSUME NEW p, NEW x
  PROVE  /\ Near(Nobody, p, x)
         /\ \A k : Near(<<k, p>>, p, x) /\ Near(<<k, x>>, p, x)
  BY DEF Near

\* What a sound state says of a process
LEMMA SlotIs ==
  ASSUME NEW own, NEW r, NEW P, NEW C, Sound(own, r, P, C), NEW p \in Slot
  PROVE  /\ Ram(r) /\ P[p] \in Procs /\ C[p] \in CallRecords
         /\ CallGood(r, P[p], C[p]) /\ Parental(P, C[p])
         /\ P \in [Slot -> Procs] /\ C \in [Slot -> CallRecords] /\ ChildrenDiffer(C)
  BY DEF Sound, Good

\* The fields of a process
LEMMA ProcIs ==
  ASSUME NEW s \in Procs
  PROVE  /\ s.sz \in Nat /\ s.sz <= KERNBASE /\ s.kstack \in Frame \cup {0} /\ s.pgdir \in Frame \cup {0}
         /\ s.state \in {"UNUSED", "EMBRYO", "RUNNABLE", "ZOMBIE"} /\ s.parent \in Slot \cup {0}
  BY Sizes DEF Procs

\* Frames of different owners are different.
LEMMA PartsDiffer ==
  ASSUME NEW own, NEW r, NEW P, NEW C, Sound(own, r, P, C), NEW b \in Owners
  PROVE  /\ \A f \in Part(r, P, C, b) : f \in Frame /\ own[f] = b
         /\ \A d \in Owners : d # b => Part(r, P, C, b) \cap Part(r, P, C, d) = {}
<1>1. ASSUME NEW d \in Owners PROVE Part(r, P, C, d) \subseteq Frame
  <2>1. Range(r.free) \subseteq Frame
    BY DEF Sound, Ram, Range
  <2>2. \A q \in Slot : /\ P[q].kstack \in Frame \cup {0} /\ C[q].mem \in Frame \cup {0}
                        /\ Active(P[q]) => Own(r, P[q].pgdir) \subseteq Frame
                        /\ Makes(C[q]) => Own(r, C[q].dir) \subseteq Frame
    <3> TAKE q \in Slot
    <3>1. P[q] \in Procs /\ C[q] \in CallRecords /\ CallGood(r, P[q], C[q])
      BY SlotIs
    <3>2. Active(P[q]) => Own(r, P[q].pgdir) \subseteq Frame
      BY <3>1, OwnFrames DEF CallGood, Slotted
    <3>3. Makes(C[q]) => Own(r, C[q].dir) \subseteq Frame
      BY <3>1, OwnFrames DEF CallGood, Making, Makes
    <3> QED  BY <3>1, <3>2, <3>3, ProcIs, RecordIs
  <2>3. CASE d = Nobody
    BY <2>1, <2>3 DEF Part, Nobody
  <2>4. ASSUME NEW q \in Slot, NEW k \in {"stack", "mem", "of", "new"}, d = <<k, q>>
        PROVE  Part(r, P, C, d) \subseteq Frame
    BY <2>2, <2>4 DEF Part
  <2> QED  BY <2>3, <2>4, OwnersAre
<1>2. \A d \in Owners : \A f \in Part(r, P, C, d) : f \in Frame /\ own[f] = d
  BY <1>1 DEF Sound, OwnedBy
<1> QED  BY <1>2

-----------------------------------------------------------------------------
\* A program that runs has its pages, and no call.
LEMMA UserIs == User \in CallRecords /\ User.op = "none" /\ User.at = "user" /\ User.mem = 0 /\ ~Makes(User)
<1>1. << >> \in Segments
  BY DEF Segments
<1>2. User \in CallRecords
  BY <1>1, Sizes DEF User, CallRecords, Labels, Ops
<1> QED  BY <1>2 DEF User, Makes

\* A process in user mode has nothing of a call.
LEMMA UserGood ==
  ASSUME NEW r, NEW P, NEW C, NEW q \in Slot, C[q].op = "none", C[q].at = "user", C[q].mem = 0,
         Slotted(r, P[q], C[q])
  PROVE  Good(r, P, C, q)
  BY DEF Good, CallGood, InLoop, Making, Enlarging, Copying, Loading, Parental, Phase, Phases, Loops

\* Who is in user mode has no call.
LEMMA InUser ==
  ASSUME NEW own, NEW r, NEW P, NEW C, Sound(own, r, P, C), NEW p \in Slot, C[p].at = "user"
  PROVE  C[p].op = "none" /\ C[p].mem = 0 /\ ~Makes(C[p])
<1>1. C[p] \in CallRecords /\ InLoop(r, C[p])
  BY SlotIs DEF CallGood
<1> QED  BY <1>1, RecordIs DEF InLoop, Phase, Loops, Phases, Ops, Makes

\* Nobody's child is a slot that is in use.
LEMMA NoChild ==
  ASSUME NEW own, NEW r, NEW P, NEW C, Sound(own, r, P, C), NEW x \in Slot, P[x].state # "EMBRYO"
  PROVE  \A q \in Slot : C[q].op = "fork" => C[q].child # x
  BY SlotIs DEF Parental

\* A program cannot touch what is the kernel's.
LEMMA AccessibleIs ==
  ASSUME NEW r, NEW d, Space(r, d), NEW va \in 0 .. UINT - 1, Accessible(r, d, va)
  PROVE  /\ va \in 0 .. KERNBASE - 1 /\ va \div PGSIZE \in Page
         /\ Walk(r, d, va \div PGSIZE).frame # 0 /\ Walk(r, d, va \div PGSIZE).user
<1> DEFINE n == va \div PGSIZE
<1>0. Walk(r, d, n).frame # 0 /\ Walk(r, d, n).user
  BY DEF Accessible
<1>1. va \in Nat /\ va < NPDENTRIES * NPTENTRIES * PGSIZE
  BY Geometry DEF UINT
<1>2. n \in Nat
  BY <1>1, Sizes, Divided
<1>3. n < NPDENTRIES * NPTENTRIES
  <2>1. NPDENTRIES * NPTENTRIES \in Int
    BY Sizes
  <2> QED  BY <1>1, <2>1, Sizes, QuotientLess
<1> HIDE DEF n
<1>4. PDX(n) \in Nat /\ PTX(n) \in 0 .. NPTENTRIES - 1
  <2>1. n \div NPTENTRIES \in Nat /\ n % NPTENTRIES \in 0 .. NPTENTRIES - 1
    BY <1>2, Sizes, Divided
  <2> QED  BY <2>1 DEF PDX, PTX
<1>5. PDX(n) < NPDENTRIES
  <2>1. n \div NPTENTRIES < NPDENTRIES
    BY <1>2, <1>3, Sizes, QuotientLess
  <2> QED  BY <2>1 DEF PDX
<1>6. PDX(n) \notin Upper
  <2>1. ASSUME PDX(n) \in Upper PROVE Walk(r, d, n) = NoPte
    <3>1. r.frame[d][PDX(n)] # 0 => r.frame[r.frame[d][PDX(n)]] = EmptyTable
      BY <2>1 DEF Space, Typed
    <3>2. EmptyTable[PTX(n)] = NoPte
      BY <1>4 DEF EmptyTable
    <3> QED  BY <3>1, <3>2 DEF Walk
  <2> QED  BY <1>0, <2>1, NoPteIs
<1>7. PDX(n) < BASE
  BY <1>4, <1>5, <1>6, Geometry, Sizes DEF Upper
<1>8. n < BASE * NPTENTRIES
  <2>1. n \div NPTENTRIES < BASE
    BY <1>7 DEF PDX
  <2> QED  BY <1>2, <2>1, Geometry, Sizes, QuotientLess
<1>9. n \in Page
  BY <1>2, <1>8, Geometry DEF Page
<1>10. va < KERNBASE
  <2>1. va \div PGSIZE < BASE * NPTENTRIES /\ va \in Int /\ BASE * NPTENTRIES \in Int
    BY <1>1, <1>8, Geometry DEF n
  <2>2. va < (BASE * NPTENTRIES) * PGSIZE
    BY <2>1, Sizes, QuotientLess
  <2> QED  BY <2>2, Geometry
<1> QED  BY <1>0, <1>1, <1>9, <1>10, Sizes DEF n

\* Where it runs, a process has a space of its own.
LEMMA RunsIs ==
  ASSUME NEW own, Sound(own, ram, proc, call), NEW p \in Slot, proc[p].state = "RUNNABLE", call[p].at = "user"
  PROVE  /\ Active(proc[p]) /\ Space(ram, proc[p].pgdir)
         /\ call[p].op = "none" /\ call[p].mem = 0 /\ ~Makes(call[p])
         /\ Has(ram, proc[p].pgdir, Pages(proc[p].sz)) \/ Has(ram, proc[p].pgdir, 0)
         /\ proc[p].kstack # 0
         /\ Part(ram, proc, call, <<"of", p>>) = Own(ram, proc[p].pgdir)
         /\ \A f \in Own(ram, proc[p].pgdir) : own[f] = <<"of", p>>
         /\ Range(ram.free) \cap Own(ram, proc[p].pgdir) = {}
<1>1. CallGood(ram, proc[p], call[p]) /\ Active(proc[p])
  BY SlotIs DEF Active
<1>2. call[p].op = "none" /\ call[p].mem = 0 /\ ~Makes(call[p])
  BY InUser
<1>3. Part(ram, proc, call, <<"of", p>>) = Own(ram, proc[p].pgdir)
  BY <1>1 DEF Part
<1>4. <<"of", p>> \in Owners /\ <<"of", p>> # Nobody /\ Nobody \in Owners
  BY OwnersAre
<1>5. \A f \in Own(ram, proc[p].pgdir) : own[f] = <<"of", p>>
  BY <1>3, <1>4, PartsDiffer
<1>6. Range(ram.free) \cap Own(ram, proc[p].pgdir) = {}
  <2>1. Part(ram, proc, call, Nobody) = Range(ram.free)
    BY PartIs
  <2> QED  BY <1>3, <1>4, <2>1, PartsDiffer
<1> QED  BY <1>1, <1>2, <1>3, <1>5, <1>6 DEF CallGood, Slotted

\* A step that moves no frame between owners
LEMMA StepStays ==
  ASSUME NEW own, NEW r, NEW P, NEW C, Sound(own, r, P, C),
         NEW r2, NEW P2, NEW C2, NEW p \in Slot, NEW x \in Slot,
         Ram(r2), P2 \in [Slot -> Procs], C2 \in [Slot -> CallRecords],
         \A f \in Frame : r2.frame[f] # r.frame[f] => Near(own[f], p, x),
         \A b \in Owners : Near(b, p, x) => Part(r2, P2, C2, b) = Part(r, P, C, b),
         \A q \in Slot \ {p, x} : SameSlot(P[q], P2[q]) /\ C2[q] = C[q],
         \A q \in Slot \ {p, x} : C[q].op = "fork" => C[q].child \notin {p, x},
         Good(r2, P2, C2, p), Good(r2, P2, C2, x), ChildrenDiffer(C2)
  PROVE  Sound(own, r2, P2, C2)
<1>1. own \in [Frame -> Owners] /\ \A b \in Owners : \A f \in Frame : own[f] = b <=> f \in Part(r, P, C, b)
  BY DEF Sound, OwnedBy
<1>2. \A f \in Frame : \A b \in Owners : Near(b, p, x) => (own[f] = b <=> f \in Part(r2, P2, C2, b))
  BY <1>1
<1> QED  BY <1>1, <1>2, StepKeeps

\* A step of p, that concerns x too, leaves the slots and the children of others.
Alone(P, C, P2, C2, p) ==
  /\ \A q \in Slot \ {p} : SameSlot(P[q], P2[q]) /\ C2[q] = C[q]
  /\ C2[p].op = "fork" => C2[p].op = C[p].op /\ C2[p].child = C[p].child
Aside(P, C, P2, C2, p, x) ==
  /\ \A q \in Slot \ {p, x} : SameSlot(P[q], P2[q]) /\ C2[q] = C[q]
  /\ \A q \in Slot \ {p, x} : C[q].op = "fork" => C[q].child \notin {p, x}
  /\ ChildrenDiffer(C2)

\* A step that concerns p only is one aside of the others.
LEMMA OnlyOne ==
  ASSUME NEW own, NEW r, NEW P, NEW C, Sound(own, r, P, C), NEW p \in Slot, P[p].state # "EMBRYO",
         NEW P2, NEW C2, Alone(P, C, P2, C2, p)
  PROVE  Aside(P, C, P2, C2, p, p)
<1>1. \A q \in Slot : C[q].op = "fork" => C[q].child # p
  BY NoChild
<1>2. ChildrenDiffer(C2)
  BY SlotIs DEF ChildrenDiffer, Alone
<1> QED  BY <1>1, <1>2 DEF Alone, Aside

\* A slot is the same as itself.
LEMMA SameSlotIs == \A s : SameSlot(s, s)
  BY DEF SameSlot

\* A store changes no one's frames.
LEMMA StoreKeeps ==
  ASSUME NEW own, Sound(own, ram, proc, call), NEW p \in Slot, NEW va \in Targets, Store(p, va)
  PROVE  Sound(own, ram', proc', call')
<1> DEFINE d == proc[p].pgdir
<1>1. /\ proc[p].state = "RUNNABLE" /\ call[p].at = "user" /\ Accessible(ram, d, va)
      /\ ram' = Written(ram, d, {va}, "data") /\ proc' = proc /\ call' = call
  BY DEF Store, Calls, Runs
<1>2. /\ Active(proc[p]) /\ Space(ram, d) /\ call[p].op = "none" /\ call[p].mem = 0 /\ ~Makes(call[p])
      /\ \A f \in Own(ram, d) : own[f] = <<"of", p>>
      /\ Has(ram, d, Pages(proc[p].sz)) \/ Has(ram, d, 0)
      /\ proc[p].kstack # 0
  BY <1>1, RunsIs
<1>3. va \in 0 .. UINT - 1
  BY ProgramsAssumption
<1>4. va \in 0 .. KERNBASE - 1 /\ Walk(ram, d, va \div PGSIZE).frame # 0
  BY <1>1, <1>2, <1>3, AccessibleIs
<1>5. WordsWritten(ram, ram', d, {va}, "data")
  <2>1. Ram(ram) /\ {va} \in SUBSET (0 .. KERNBASE - 1)
    BY <1>4, SlotIs
  <2> QED  BY <1>1, <1>2, <1>4, <2>1, WrittenIs
<1>6. /\ Ram(ram') /\ ram'.free = ram.free /\ Space(ram', d) /\ Own(ram', d) = Own(ram, d)
      /\ \A n \in Page : Walk(ram', d, n) = Walk(ram, d, n)
      /\ \A f \in Frame \ Own(ram, d) : ram'.frame[f] = ram.frame[f]
  BY <1>2, <1>5, OwnFrames DEF WordsWritten
<1> HIDE DEF d
<1>7. \A f \in Frame : ram'.frame[f] # ram.frame[f] => Near(own[f], p, p)
  BY <1>2, <1>6, NearBy
<1>8. \A b \in Owners : Near(b, p, p) => Part(ram', proc', call', b) = Part(ram, proc, call, b)
  <2> SUFFICES ASSUME NEW b \in Owners, Near(b, p, p)
               PROVE  Part(ram', proc', call', b) = Part(ram, proc, call, b)
    OBVIOUS
  <2>1. b \in {Nobody, <<"stack", p>>, <<"mem", p>>, <<"of", p>>, <<"new", p>>}
    BY NearOne
  <2>2. CASE b = <<"of", p>>
    BY <1>1, <1>2, <1>6, <2>2 DEF Part, d
  <2>3. CASE b # <<"of", p>>
    BY <1>1, <1>2, <1>6, <2>1, <2>3 DEF Part, Nobody
  <2> QED  BY <2>2, <2>3
<1>9. Good(ram', proc', call', p)
  <2>1. Slotted(ram', proc'[p], call'[p])
    BY <1>1, <1>2, <1>6 DEF Slotted, Has, d
  <2> QED  BY <1>1, <1>2, <2>1, UserGood
<1>10. /\ \A q \in Slot \ {p, p} : SameSlot(proc[q], proc'[q]) /\ call'[q] = call[q]
       /\ \A q \in Slot \ {p, p} : call[q].op = "fork" => call[q].child \notin {p, p}
       /\ ChildrenDiffer(call')
  <2>1. Alone(proc, call, proc', call', p)
    BY <1>1, <1>2, SameSlotIs DEF Alone
  <2>2. proc[p].state # "EMBRYO"
    BY <1>1
  <2>3. Aside(proc, call, proc', call', p, p)
    BY <2>1, <2>2, OnlyOne
  <2> QED  BY <2>3 DEF Aside
<1>11. proc' \in [Slot -> Procs] /\ call' \in [Slot -> CallRecords]
  BY <1>1, SlotIs
<1> QED  BY <1>6, <1>7, <1>8, <1>9, <1>10, <1>11, StepStays

\* Frames fs go from some owners to one: what the owner b had, and has then
Goes(S, T, b, fs, from, to) == T = IF b = to THEN S \cup fs ELSE IF b \in from THEN S \ fs ELSE S

\* ... and what the slot q has
SlotGoes(r, P, C, r2, P2, C2, q, fs, from, to) ==
  /\ Goes({P[q].kstack} \ {0}, {P2[q].kstack} \ {0}, <<"stack", q>>, fs, from, to)
  /\ Goes({C[q].mem} \ {0}, {C2[q].mem} \ {0}, <<"mem", q>>, fs, from, to)
  /\ Goes(IF Active(P[q]) THEN Own(r, P[q].pgdir) ELSE {},
          IF Active(P2[q]) THEN Own(r2, P2[q].pgdir) ELSE {}, <<"of", q>>, fs, from, to)
  /\ Goes(IF Makes(C[q]) THEN Own(r, C[q].dir) ELSE {},
          IF Makes(C2[q]) THEN Own(r2, C2[q].dir) ELSE {}, <<"new", q>>, fs, from, to)

\* Frames that go from or to a slot, owner by owner
LEMMA SlotParts ==
  ASSUME NEW r, NEW P, NEW C, NEW r2, NEW P2, NEW C2, NEW q, NEW fs, NEW from, NEW to,
         SlotGoes(r, P, C, r2, P2, C2, q, fs, from, to), NEW k \in {"stack", "mem", "of", "new"}
  PROVE  Goes(Part(r, P, C, <<k, q>>), Part(r2, P2, C2, <<k, q>>), <<k, q>>, fs, from, to)
<1>1. /\ Part(r, P, C, <<"stack", q>>) = {P[q].kstack} \ {0}
      /\ Part(r, P, C, <<"mem", q>>) = {C[q].mem} \ {0}
      /\ Part(r, P, C, <<"of", q>>) = IF Active(P[q]) THEN Own(r, P[q].pgdir) ELSE {}
      /\ Part(r, P, C, <<"new", q>>) = IF Makes(C[q]) THEN Own(r, C[q].dir) ELSE {}
  BY DEF Part
<1>2. /\ Part(r2, P2, C2, <<"stack", q>>) = {P2[q].kstack} \ {0}
      /\ Part(r2, P2, C2, <<"mem", q>>) = {C2[q].mem} \ {0}
      /\ Part(r2, P2, C2, <<"of", q>>) = IF Active(P2[q]) THEN Own(r2, P2[q].pgdir) ELSE {}
      /\ Part(r2, P2, C2, <<"new", q>>) = IF Makes(C2[q]) THEN Own(r2, C2[q].dir) ELSE {}
  BY DEF Part
<1> QED  BY <1>1, <1>2 DEF SlotGoes

\* A step of p that concerns x: frames go, and nobody else sees it.
LEMMA StepGoes ==
  ASSUME NEW own, NEW r, NEW P, NEW C, Sound(own, r, P, C),
         NEW p \in Slot, NEW x \in Slot, NEW r2, NEW P2, NEW C2,
         Ram(r2), P2 \in [Slot -> Procs], C2 \in [Slot -> CallRecords],
         NEW fs \in SUBSET Frame, NEW from \in SUBSET Owners, NEW to \in Owners,
         Near(to, p, x), \A b \in from : Near(b, p, x), \A f \in fs : own[f] \in from,
         \A f \in Frame : r2.frame[f] # r.frame[f] => Near(own[f], p, x),
         Goes(Range(r.free), Range(r2.free), Nobody, fs, from, to),
         SlotGoes(r, P, C, r2, P2, C2, p, fs, from, to),
         SlotGoes(r, P, C, r2, P2, C2, x, fs, from, to),
         Aside(P, C, P2, C2, p, x),
         Good(r2, P2, C2, p), Good(r2, P2, C2, x)
  PROVE  Sound(Moved(own, fs, to), r2, P2, C2)
<1>1. ASSUME NEW b \in Owners, Near(b, p, x)
      PROVE  Goes(Part(r, P, C, b), Part(r2, P2, C2, b), b, fs, from, to)
  <2>1. CASE b = Nobody
    <3>1. Part(r, P, C, b) = Range(r.free)
      BY <2>1, PartIs
    <3>2. Part(r2, P2, C2, b) = Range(r2.free)
      BY <2>1, PartIs
    <3> QED  BY <2>1, <3>1, <3>2
  <2>2. ASSUME NEW q \in {p, x}, NEW k \in {"stack", "mem", "of", "new"}, b = <<k, q>>
        PROVE  Goes(Part(r, P, C, b), Part(r2, P2, C2, b), b, fs, from, to)
    <3>1. SlotGoes(r, P, C, r2, P2, C2, q, fs, from, to)
      BY <2>2
    <3>2. Goes(Part(r, P, C, <<k, q>>), Part(r2, P2, C2, <<k, q>>), <<k, q>>, fs, from, to)
      BY <3>1, SlotParts
    <3> QED  BY <2>2, <3>2
  <2>3. b = Nobody \/ \E q \in {p, x}, k \in {"stack", "mem", "of", "new"} : b = <<k, q>>
    BY <1>1, NearTwo
  <2> QED  BY <2>1, <2>2, <2>3
<1>2. ASSUME NEW b \in Owners, b \notin from PROVE Part(r, P, C, b) \ fs = Part(r, P, C, b)
  <2>1. \A f \in Part(r, P, C, b) : own[f] = b
    BY PartsDiffer
  <2> QED  BY <1>2, <2>1
<1>3. \A b \in Owners : Near(b, p, x) =>
        Part(r2, P2, C2, b) = IF b = to THEN Part(r, P, C, b) \cup fs ELSE Part(r, P, C, b) \ fs
  <2> SUFFICES ASSUME NEW b \in Owners, Near(b, p, x)
               PROVE  Part(r2, P2, C2, b) = IF b = to THEN Part(r, P, C, b) \cup fs ELSE Part(r, P, C, b) \ fs
    OBVIOUS
  <2>1. Goes(Part(r, P, C, b), Part(r2, P2, C2, b), b, fs, from, to)
    BY <1>1
  <2>2. b \notin from => Part(r, P, C, b) \ fs = Part(r, P, C, b)
    BY <1>2
  <2> QED  BY <2>1, <2>2 DEF Goes
<1>4. \A f \in fs : Near(own[f], p, x)
  OBVIOUS
<1> QED  BY <1>3, <1>4, StepMoves DEF Aside

\* Where p is all that a step concerns
LEMMA OneGoes ==
  ASSUME NEW own, NEW r, NEW P, NEW C, Sound(own, r, P, C), NEW p \in Slot, NEW r2, NEW P2, NEW C2,
         Ram(r2), P2 \in [Slot -> Procs], C2 \in [Slot -> CallRecords], P[p].state # "EMBRYO",
         NEW fs \in SUBSET Frame, NEW from \in SUBSET Owners, NEW to \in Owners,
         Near(to, p, p), \A b \in from : Near(b, p, p), \A f \in fs : own[f] \in from,
         \A f \in Frame : r2.frame[f] # r.frame[f] => Near(own[f], p, p),
         Goes(Range(r.free), Range(r2.free), Nobody, fs, from, to),
         SlotGoes(r, P, C, r2, P2, C2, p, fs, from, to),
         Alone(P, C, P2, C2, p), Good(r2, P2, C2, p)
  PROVE  Sound(Moved(own, fs, to), r2, P2, C2)
<1>1. Aside(P, C, P2, C2, p, p)
  BY OnlyOne
<1> QED  BY <1>1, StepGoes

\* The step of a call: what changes is where it is, and no slot.
LEMMA CallGoes ==
  ASSUME NEW own, Sound(own, ram, proc, call), NEW p \in Slot, proc[p].state # "EMBRYO",
         NEW c \in CallRecords, NEW r2, Ram(r2),
         NEW fs \in SUBSET Frame, NEW from \in SUBSET Owners, NEW to \in Owners,
         Near(to, p, p), \A b \in from : Near(b, p, p), \A f \in fs : own[f] \in from,
         \A f \in Frame : r2.frame[f] # ram.frame[f] => Near(own[f], p, p),
         Goes(Range(ram.free), Range(r2.free), Nobody, fs, from, to),
         <<"stack", p>> \notin from \cup {to},
         Goes({call[p].mem} \ {0}, {c.mem} \ {0}, <<"mem", p>>, fs, from, to),
         Goes(IF Active(proc[p]) THEN Own(ram, proc[p].pgdir) ELSE {},
              IF Active(proc[p]) THEN Own(r2, proc[p].pgdir) ELSE {}, <<"of", p>>, fs, from, to),
         Goes(IF Makes(call[p]) THEN Own(ram, call[p].dir) ELSE {},
              IF Makes(c) THEN Own(r2, c.dir) ELSE {}, <<"new", p>>, fs, from, to),
         c.op = "fork" => c.op = call[p].op /\ c.child = call[p].child,
         c.op = "fork" => c.at # "kstack" /\ call[p].at # "kstack",
         CallGood(r2, proc[p], c)
  PROVE  Sound(Moved(own, fs, to), r2, proc, [call EXCEPT ![p] = c])
<1> DEFINE C == [call EXCEPT ![p] = c]
<1>1. proc \in [Slot -> Procs] /\ call \in [Slot -> CallRecords] /\ Parental(proc, call[p])
  BY SlotIs
<1>2. C \in [Slot -> CallRecords] /\ C[p] = c /\ \A q \in Slot \ {p} : C[q] = call[q]
  BY <1>1
<1> HIDE DEF C
<1>3. Good(r2, proc, C, p)
  <2>1. Parental(proc, c)
    BY <1>1 DEF Parental
  <2> QED  BY <1>2, <2>1 DEF Good
<1>4. Goes({proc[p].kstack} \ {0}, {proc[p].kstack} \ {0}, <<"stack", p>>, fs, from, to)
  BY DEF Goes
<1>5. SlotGoes(ram, proc, call, r2, proc, C, p, fs, from, to)
  BY <1>2, <1>4 DEF SlotGoes
<1>6. Alone(proc, call, proc, C, p)
  BY <1>2, SameSlotIs DEF Alone
<1>8. Sound(Moved(own, fs, to), r2, proc, C)
  BY <1>1, <1>2, <1>3, <1>5, <1>6, OneGoes
<1> QED  BY <1>8 DEF C

\* A step that moves nothing
LEMMA Stays ==
  \A S, T, b, to : Goes(S, T, b, {}, {}, to) <=> S = T
  BY DEF Goes

\* Where allocuvm begins
LEMMA GrowingIs ==
  ASSUME NEW c \in CallRecords, NEW from \in Nat, NEW to \in 0 .. KERNBASE, NEW then \in Labels
  PROVE  LET g == Growing(c, from, to, then)
         IN /\ g \in CallRecords
            /\ g.from = from /\ g.to = to /\ g.n = Pages(from) /\ g.then = then
            /\ g.op = c.op /\ g.dir = c.dir /\ g.mem = c.mem /\ g.sz = c.sz /\ g.seg = c.seg
            /\ g.image = c.image /\ g.args = c.args /\ g.child = c.child
            /\ Pages(from) \in Nat /\ Pages(to) \in Nat
            /\ Pages(from) < Pages(to) => g.at = "page"
            /\ ~(Pages(from) < Pages(to)) => g.at = then
            /\ from <= to /\ ~(Pages(from) < Pages(to)) => Pages(from) = Pages(to)
<1> DEFINE g == Growing(c, from, to, then)
           at == IF PGROUNDUP(from) < to THEN "page" ELSE then
<1>1. to \in Nat /\ Pages(from) \in Nat /\ Pages(to) \in Nat
  BY PagesAre, Sizes
<1>2. PGROUNDUP(from) < to <=> Pages(from) < Pages(to)
  BY <1>1, PagesAre DEF PGROUNDUP
<1>3. at \in Labels
  BY DEF Labels
<1>4. g = [c EXCEPT !.from = from, !.to = to, !.n = Pages(from), !.then = then, !.at = at]
  BY DEF Growing
<1> HIDE DEF g, at
<1>5. /\ g \in CallRecords
      /\ g.from = from /\ g.to = to /\ g.n = Pages(from) /\ g.then = then /\ g.at = at
      /\ g.op = c.op /\ g.dir = c.dir /\ g.mem = c.mem /\ g.sz = c.sz /\ g.seg = c.seg
      /\ g.image = c.image /\ g.args = c.args /\ g.child = c.child
  BY <1>1, <1>3, <1>4 DEF CallRecords
<1>6. from <= to => Pages(from) <= Pages(to)
  BY <1>1, PagesGrow
<1> QED  BY <1>1, <1>2, <1>5, <1>6 DEF at, g

\* A program that runs has all its pages.
LEMMA RunsHas ==
  ASSUME NEW own, Sound(own, ram, proc, call), NEW p \in Slot, Runs(p)
  PROVE  /\ proc[p].state = "RUNNABLE" /\ call[p].at = "user" /\ ~panicked
         /\ Has(ram, proc[p].pgdir, Pages(proc[p].sz))
<1>1. proc[p].state = "RUNNABLE" /\ call[p].at = "user" /\ ~panicked /\ Accessible(ram, proc[p].pgdir, 0)
  BY DEF Runs
<1>2. Space(ram, proc[p].pgdir) /\ (Has(ram, proc[p].pgdir, Pages(proc[p].sz)) \/ Has(ram, proc[p].pgdir, 0))
  BY <1>1, RunsIs
<1>3. 0 \in 0 .. UINT - 1
  BY Geometry, Sizes
<1>4. 0 \div PGSIZE \in Page /\ Walk(ram, proc[p].pgdir, 0 \div PGSIZE).frame # 0
  BY <1>1, <1>2, <1>3, AccessibleIs
<1>5. ~Has(ram, proc[p].pgdir, 0)
  BY <1>4, PageIs DEF Has
<1> QED  BY <1>1, <1>2, <1>5

\* A call goes on with memory as it is.
LEMMA CallTurns ==
  ASSUME NEW own, Sound(own, ram, proc, call), NEW p \in Slot, proc[p].state # "EMBRYO",
         NEW c \in CallRecords, c.mem = call[p].mem,
         Makes(c) <=> Makes(call[p]), Makes(c) => c.dir = call[p].dir,
         c.op = "fork" => c.op = call[p].op /\ c.child = call[p].child,
         c.op = "fork" => c.at # "kstack" /\ call[p].at # "kstack",
         CallGood(ram, proc[p], c)
  PROVE  \E own2 : Sound(own2, ram, proc, [call EXCEPT ![p] = c])
<1>1. Nobody \in Owners /\ Near(Nobody, p, p) /\ <<"stack", p>> # Nobody
  BY OwnersAre, NearBy
<1>2. /\ Goes({call[p].mem} \ {0}, {c.mem} \ {0}, <<"mem", p>>, {}, {}, Nobody)
      /\ Goes(IF Makes(call[p]) THEN Own(ram, call[p].dir) ELSE {},
              IF Makes(c) THEN Own(ram, c.dir) ELSE {}, <<"new", p>>, {}, {}, Nobody)
  BY Stays
<1>3. /\ Goes(Range(ram.free), Range(ram.free), Nobody, {}, {}, Nobody)
      /\ Goes(IF Active(proc[p]) THEN Own(ram, proc[p].pgdir) ELSE {},
              IF Active(proc[p]) THEN Own(ram, proc[p].pgdir) ELSE {}, <<"of", p>>, {}, {}, Nobody)
  BY Stays
<1>4. Ram(ram)
  BY SlotIs
<1>5. Sound(Moved(own, {}, Nobody), ram, proc, [call EXCEPT ![p] = c])
  <2>1. {} \in SUBSET Frame /\ {} \in SUBSET Owners /\ <<"stack", p>> \notin {} \cup {Nobody}
    BY <1>1
  <2>2. (\A b \in {} : Near(b, p, p)) /\ (\A f \in {} : own[f] \in {})
    OBVIOUS
  <2>3. \A f \in Frame : ram.frame[f] # ram.frame[f] => Near(own[f], p, p)
    OBVIOUS
  <2> QED  BY <1>1, <1>2, <1>3, <1>4, <2>1, <2>2, <2>3, CallGoes
<1> QED  BY <1>5

\* growproc begins to enlarge: nothing has moved yet.
LEMMA SbrkGrows ==
  ASSUME NEW own, Sound(own, ram, proc, call), NEW p \in Slot, NEW by \in Growth, Sbrk(p, by), by > 0
  PROVE  \E own2 : Sound(own2, ram', proc', call')
<1> DEFINE s == proc[p]
           d == proc[p].pgdir
           newsz == (s.sz + by) % UINT
           begun == [User EXCEPT !.op = "sbrk", !.dir = d]
           c == Growing(begun, s.sz, newsz, "grown")
<1>1. /\ Runs(p) /\ newsz < KERNBASE
      /\ call' = [call EXCEPT ![p] = c] /\ ram' = ram /\ proc' = proc
  BY DEF Sbrk, Calls
<1>2. s \in Procs /\ s.sz \in Nat /\ s.sz <= KERNBASE /\ d \in Frame \cup {0}
  BY SlotIs, ProcIs
<1>3. s.state = "RUNNABLE" /\ call[p].at = "user" /\ Has(ram, d, Pages(s.sz))
  BY <1>1, RunsHas
<1>4. Space(ram, d) /\ call[p].op = "none" /\ call[p].mem = 0 /\ ~Makes(call[p]) /\ s.kstack # 0
  BY <1>3, RunsIs
<1>5. newsz \in 0 .. KERNBASE /\ newsz >= s.sz
  <2>1. by \in Int /\ by < UINT - KERNBASE
    BY ProgramsAssumption
  <2> DEFINE a == s.sz + by
  <2>2. a \in 0 .. UINT - 1 /\ a >= s.sz
    BY <1>2, <2>1, Sizes, Geometry
  <2>3. newsz = a % UINT
    OBVIOUS
  <2> HIDE DEF a, newsz
  <2>4. UINT \in Nat /\ 0 \in Int
    BY Geometry
  <2>5. (UINT * 0 + a) % UINT = a
    BY <2>2, <2>4, Quotient
  <2>6. UINT * 0 + a = a
    BY <2>2, <2>4
  <2>7. newsz = a
    BY <2>3, <2>5, <2>6
  <2> QED  BY <1>1, <2>2, <2>7, Sizes
<1>6. begun \in CallRecords /\ begun.op = "sbrk" /\ begun.dir = d /\ begun.mem = 0
  BY <1>2, UserIs DEF CallRecords, Ops
<1> HIDE DEF newsz, begun, s, d
<1>7. "grown" \in Labels
  BY DEF Labels
<1>8. /\ c \in CallRecords
      /\ c.from = s.sz /\ c.to = newsz /\ c.n = Pages(s.sz) /\ c.then = "grown"
      /\ c.op = begun.op /\ c.dir = begun.dir /\ c.mem = begun.mem
      /\ Pages(s.sz) < Pages(newsz) => c.at = "page"
      /\ ~(Pages(s.sz) < Pages(newsz)) => c.at = "grown"
      /\ s.sz <= newsz /\ ~(Pages(s.sz) < Pages(newsz)) => Pages(s.sz) = Pages(newsz)
      /\ Pages(s.sz) \in Nat
  BY <1>2, <1>5, <1>6, <1>7, GrowingIs
<1> HIDE DEF c
<1>9. CallGood(ram, s, c)
  <2>1. Slotted(ram, s, c)
    BY <1>3, <1>4, <1>6, <1>8 DEF Slotted, Active, d, s
  <2>2. InLoop(ram, c)
    BY <1>3, <1>6, <1>8 DEF InLoop, Loops, Phase, Phases
  <2>3. Enlarging(ram, c, s)
    <3>1. \A n \in Page : n >= Pages(s.sz) => Walk(ram, d, n).frame = 0
      <4> TAKE n \in Page
      <4>1. n \in Nat
        BY PageIs
      <4> QED  BY <1>3, <1>8, <4>1 DEF Has
    <3>2. c.dir = s.pgdir /\ c.dir = d
      BY <1>6, <1>8 DEF d, s
    <3>3. c.at = "grown" => Pages(c.to) = Pages(s.sz)
      BY <1>5, <1>8
    <3>4. c.at # "map" /\ c.from = s.sz /\ c.from <= c.to /\ Pages(c.from) <= c.n
      BY <1>5, <1>8
    <3> QED  BY <1>3, <3>1, <3>2, <3>3, <3>4, <1>8 DEF Enlarging
  <2> QED  BY <1>6, <1>8, <2>1, <2>2, <2>3 DEF CallGood, Making, Copying, Loading
<1>10. ~Makes(c) /\ c.mem = call[p].mem /\ c.op # "fork" /\ proc[p].state # "EMBRYO" /\ CallGood(ram, proc[p], c)
  BY <1>3, <1>4, <1>6, <1>8, <1>9 DEF Makes, s
<1>11. \E own2 : Sound(own2, ram, proc, [call EXCEPT ![p] = c])
  <2>1. (Makes(c) <=> Makes(call[p])) /\ (Makes(c) => c.dir = call[p].dir)
    BY <1>4, <1>10
  <2>2. /\ c.op = "fork" => c.op = call[p].op /\ c.child = call[p].child
        /\ c.op = "fork" => c.at # "kstack" /\ call[p].at # "kstack"
    BY <1>10
  <2> QED  BY <1>8, <1>10, <2>1, <2>2, CallTurns
<1> QED  BY <1>1, <1>11 DEF c

\* What deallocuvm does to a space, where it gives the pages ns back
Given(r, s, d, ns) ==
  /\ Ram(s) /\ Space(s, d)
  /\ \A n \in ns : Walk(s, d, n) = NoPte
  /\ \A n \in Page \ ns : /\ Walk(s, d, n) = Walk(r, d, n)
                          /\ Walk(r, d, n).frame # 0 =>
                               s.frame[Walk(r, d, n).frame] = r.frame[Walk(r, d, n).frame]
  /\ FramesAt(r, d, ns) \subseteq PagesOf(r, d) /\ Own(s, d) = Own(r, d) \ FramesAt(r, d, ns)
  /\ Range(s.free) = Range(r.free) \cup FramesAt(r, d, ns)
  /\ \A f \in Frame \ Own(r, d) : s.frame[f] = r.frame[f]
  /\ s.frame[d] = r.frame[d]

\* deallocuvm gives back the frames of the pages that it clears.
LEMMA DeallocGives ==
  ASSUME NEW r, Ram(r), NEW d, Space(r, d), Range(r.free) \cap Own(r, d) = {},
         NEW oldsz \in Int, NEW newsz \in Int
  PROVE  Given(r, DeallocUvm(r, d, oldsz, newsz), d, Gone(r, d, oldsz, newsz))
<1> DEFINE s == DeallocUvm(r, d, oldsz, newsz)
           ns == Gone(r, d, oldsz, newsz)
<1>1. /\ Ram(s) /\ Space(s, d) /\ s.frame[d] = r.frame[d] /\ \A n \in ns : Walk(s, d, n) = NoPte
      /\ \A f \in Frame \ Own(r, d) : s.frame[f] = r.frame[f]
  BY DeallocIs
<1>2. \A n \in Page \ ns : /\ Walk(s, d, n) = Walk(r, d, n)
                           /\ Walk(r, d, n).frame # 0 =>
                                s.frame[Walk(r, d, n).frame] = r.frame[Walk(r, d, n).frame]
  BY DeallocIs
<1>3. /\ FramesAt(r, d, ns) \subseteq PagesOf(r, d) /\ Own(s, d) = Own(r, d) \ FramesAt(r, d, ns)
      /\ Range(s.free) = Range(r.free) \cup FramesAt(r, d, ns)
  BY DeallocIs
<1> QED  BY <1>1, <1>2, <1>3 DEF Given

\* Pages are given back: what was there below the size is there below the new size.
LEMMA HasLess ==
  ASSUME NEW r, NEW s, NEW d, NEW oldsz \in Nat, NEW newsz \in Nat, oldsz <= KERNBASE, newsz < oldsz,
         NEW to \in Nat, oldsz <= to, to <= KERNBASE, NEW k \in Nat, k <= Pages(to), Has(r, d, k),
         Pages(newsz) <= k,
         \A n \in Gone(r, d, to, newsz) : Walk(s, d, n) = NoPte,
         \A n \in Page \ Gone(r, d, to, newsz) : Walk(s, d, n) = Walk(r, d, n)
  PROVE  Has(s, d, Pages(newsz))
<1> SUFFICES ASSUME NEW n \in Page PROVE Walk(s, d, n).frame # 0 <=> n < Pages(newsz)
  BY DEF Has
<1>1. n \in Nat /\ Pages(newsz) \in Nat /\ Pages(to) \in Nat /\ newsz < to
  BY PageIs, PagesAre
<1>2. n \in Gone(r, d, to, newsz) <=> n >= Pages(newsz) /\ n < Pages(to) /\ Walk(r, d, n).frame # 0
  BY <1>1, PagesAre DEF Gone
<1>3. Walk(r, d, n).frame # 0 <=> n < k
  BY DEF Has
<1> QED  BY <1>1, <1>2, <1>3, NoPteIs

\* growproc makes smaller: the frames of the last pages go to the free list.
LEMMA SbrkShrinks ==
  ASSUME NEW own, Sound(own, ram, proc, call), NEW p \in Slot, NEW by \in Growth, Sbrk(p, by), ~(by > 0)
  PROVE  \E own2 : Sound(own2, ram', proc', call')
<1> DEFINE s == proc[p]
           d == proc[p].pgdir
           newsz == (s.sz + by) % UINT
           ns == Gone(ram, d, s.sz, newsz)
           fs == FramesAt(ram, d, ns)
<1>1. /\ Runs(p) /\ ram' = DeallocUvm(ram, d, s.sz, newsz) /\ call' = call
      /\ proc' = IF newsz \in 1 .. s.sz THEN [proc EXCEPT ![p].sz = newsz] ELSE proc
  BY DEF Sbrk, Calls
<1>2. /\ s \in Procs /\ s.sz \in Nat /\ s.sz <= KERNBASE /\ d \in Frame \cup {0} /\ proc \in [Slot -> Procs]
      /\ call \in [Slot -> CallRecords] /\ Ram(ram)
  BY SlotIs, ProcIs
<1>3. /\ s.state = "RUNNABLE" /\ call[p].at = "user" /\ Has(ram, d, Pages(s.sz))
  BY <1>1, RunsHas
<1>4. /\ Space(ram, d) /\ call[p].op = "none" /\ call[p].mem = 0 /\ ~Makes(call[p]) /\ s.kstack # 0
      /\ Active(s) /\ \A f \in Own(ram, d) : own[f] = <<"of", p>>
      /\ Part(ram, proc, call, <<"of", p>>) = Own(ram, d)
      /\ Range(ram.free) \cap Own(ram, d) = {}
  BY <1>3, RunsIs
<1>5. newsz \in Nat
  <2>1. by \in Int
    BY ProgramsAssumption
  <2>2. s.sz + by \in Int /\ UINT > 0
    BY <1>2, <2>1, Geometry, Sizes
  <2> QED  BY <2>2, Geometry, Divided
<1> HIDE DEF newsz
<1>6. /\ Ram(ram') /\ Space(ram', d)
      /\ \A n \in ns : Walk(ram', d, n) = NoPte
      /\ \A n \in Page \ ns : Walk(ram', d, n) = Walk(ram, d, n)
      /\ fs \subseteq PagesOf(ram, d) /\ Own(ram', d) = Own(ram, d) \ fs
      /\ Range(ram'.free) = Range(ram.free) \cup fs
      /\ \A f \in Frame \ Own(ram, d) : ram'.frame[f] = ram.frame[f]
  <2>1. s.sz \in Int /\ newsz \in Int
    BY <1>2, <1>5
  <2>2. Given(ram, DeallocUvm(ram, d, s.sz, newsz), d, ns)
    BY <1>2, <1>4, <2>1, DeallocGives
  <2> QED  BY <1>1, <2>2 DEF Given
<1>7. fs \subseteq Own(ram, d) /\ fs \subseteq Frame
  BY <1>4, <1>6, OwnFrames
<1> HIDE DEF fs
<1>8. /\ proc' \in [Slot -> Procs] /\ \A q \in Slot \ {p} : proc'[q] = proc[q]
      /\ proc'[p].state = s.state /\ proc'[p].kstack = s.kstack /\ proc'[p].pgdir = s.pgdir
      /\ proc'[p].sz = IF newsz \in 1 .. s.sz THEN newsz ELSE s.sz
  <2>1. CASE newsz \in 1 .. s.sz
    <3>1. newsz \in 0 .. KERNBASE /\ proc' = [proc EXCEPT ![p].sz = newsz]
      BY <1>1, <1>2, <2>1, Sizes
    <3> QED  BY <1>2, <2>1, <3>1 DEF Procs
  <2>2. CASE newsz \notin 1 .. s.sz
    BY <1>1, <1>2, <2>2
  <2> QED  BY <2>1, <2>2
<1>9. Has(ram', d, Pages(proc'[p].sz)) \/ Has(ram', d, 0)
  <2>1. CASE newsz < s.sz
    <3>1. Pages(newsz) <= Pages(s.sz) /\ Pages(s.sz) \in Nat
      BY <1>2, <1>5, <2>1, PagesGrow, PagesAre
    <3>2. Has(ram', d, Pages(newsz))
      BY <1>2, <1>3, <1>5, <1>6, <2>1, <3>1, HasLess
    <3>3. CASE newsz = 0
      BY <3>2, <3>3, PagesBelow
    <3>4. CASE newsz # 0
      <4>1. newsz \in 1 .. s.sz
        BY <1>2, <1>5, <2>1, <3>4
      <4> QED  BY <1>8, <3>2, <4>1
    <3> QED  BY <3>3, <3>4
  <2>2. CASE ~(newsz < s.sz)
    <3>1. ns = {}
      BY <2>2 DEF Gone
    <3>2. proc'[p].sz = s.sz
      BY <1>2, <1>5, <1>8, <2>2
    <3> QED  BY <1>3, <1>6, <3>1, <3>2 DEF Has
  <2> QED  BY <2>1, <2>2
<1> HIDE DEF ns
<1>10. Good(ram', proc', call', p)
  <2>1. Slotted(ram', proc'[p], call'[p])
    BY <1>1, <1>3, <1>4, <1>6, <1>8, <1>9 DEF Slotted
  <2> QED  BY <1>1, <1>3, <1>4, <2>1, UserGood
<1> HIDE DEF s, d
<1>11. SlotGoes(ram, proc, call, ram', proc', call', p, fs, {<<"of", p>>}, Nobody)
  <2>1. \A k \in {"stack", "mem", "new"} : <<k, p>> # Nobody /\ <<k, p>> \notin {<<"of", p>>}
    BY OwnersAre
  <2>2. <<"of", p>> # Nobody
    BY OwnersAre
  <2>3. Active(proc[p]) /\ Active(proc'[p]) /\ proc[p].pgdir = d /\ proc'[p].pgdir = d /\ proc'[p].kstack = proc[p].kstack
    BY <1>4, <1>8 DEF Active, s, d
  <2> QED  BY <1>1, <1>4, <1>6, <2>1, <2>2, <2>3 DEF SlotGoes, Goes
<1>12. Alone(proc, call, proc', call', p) /\ proc[p].state # "EMBRYO"
  BY <1>1, <1>3, <1>4, <1>8, SameSlotIs DEF s, Alone
<1>13. \A f \in Frame : ram'.frame[f] # ram.frame[f] => Near(own[f], p, p)
  BY <1>4, <1>6, NearBy
<1>14. call' \in [Slot -> CallRecords] /\ fs \in SUBSET Frame /\ \A f \in fs : own[f] \in {<<"of", p>>}
  BY <1>1, <1>2, <1>4, <1>7
<1>15. /\ Nobody \in Owners /\ Near(Nobody, p, p) /\ {<<"of", p>>} \in SUBSET Owners
       /\ \A b \in {<<"of", p>>} : Near(b, p, p)
  <2>1. <<"of", p>> \in Owners /\ Near(<<"of", p>>, p, p)
    BY OwnersAre, NearBy
  <2> QED  BY <2>1, OwnersAre, NearBy
<1>16. Goes(Range(ram.free), Range(ram'.free), Nobody, fs, {<<"of", p>>}, Nobody)
  BY <1>6 DEF Goes
<1>17. Sound(Moved(own, fs, Nobody), ram', proc', call')
  <2> QED  BY <1>6, <1>8, <1>10, <1>11, <1>12, <1>13, <1>14, <1>15, <1>16, OneGoes
<1> QED  BY <1>17

\* growproc ends with the pages of the new size.
LEMMA SbrkEndsSound ==
  ASSUME NEW own, Sound(own, ram, proc, call), NEW p \in Slot, SbrkEnds(p)
  PROVE  \E own2 : Sound(own2, ram', proc', call')
<1> DEFINE s == proc[p]
           c == call[p]
<1>1. /\ c.at = "grown" /\ proc' = [proc EXCEPT ![p].sz = c.to]
      /\ call' = [call EXCEPT ![p] = User] /\ ram' = ram
  BY DEF SbrkEnds, At
<1>2. /\ Ram(ram) /\ s \in Procs /\ c \in CallRecords /\ CallGood(ram, s, c)
      /\ proc \in [Slot -> Procs] /\ call \in [Slot -> CallRecords]
  BY SlotIs
<1>3. c.op = "sbrk" /\ c.mem = 0
  BY <1>1, <1>2, RecordIs DEF CallGood, InLoop, Phase, Phases, Loops, Ops
<1>4. Has(ram, s.pgdir, Pages(c.to)) /\ s.state = "RUNNABLE" /\ Slotted(ram, s, c)
  BY <1>1, <1>2, <1>3 DEF CallGood, Enlarging, Slotted
<1>5. c.to \in 0 .. KERNBASE
  BY <1>2 DEF CallRecords
<1>6. /\ proc' \in [Slot -> Procs] /\ \A q \in Slot \ {p} : proc'[q] = proc[q]
      /\ proc'[p].state = s.state /\ proc'[p].kstack = s.kstack /\ proc'[p].pgdir = s.pgdir /\ proc'[p].sz = c.to
  BY <1>1, <1>2, <1>5 DEF Procs
<1>7. call' \in [Slot -> CallRecords] /\ call'[p] = User /\ \A q \in Slot \ {p} : call'[q] = call[q]
  BY <1>1, <1>2, UserIs
<1>8. Good(ram', proc', call', p)
  <2>1. Slotted(ram', proc'[p], call'[p])
    BY <1>1, <1>4, <1>6, <1>7, UserIs DEF Slotted, Active
  <2> QED  BY <1>7, <2>1, UserGood, UserIs
<1>9. SlotGoes(ram, proc, call, ram', proc', call', p, {}, {}, Nobody)
  <2>1. ~Makes(c) /\ ~Makes(call'[p]) /\ call'[p].mem = c.mem
    BY <1>3, <1>7, UserIs DEF Makes
  <2>2. Active(proc'[p]) <=> Active(proc[p])
    BY <1>6 DEF Active
  <2> QED  BY <1>1, <1>6, <2>1, <2>2, Stays DEF SlotGoes
<1>10. Goes(Range(ram.free), Range(ram'.free), Nobody, {}, {}, Nobody)
  BY <1>1, Stays
<1>11. Nobody \in Owners /\ Near(Nobody, p, p)
  BY OwnersAre, NearBy
<1>12. Alone(proc, call, proc', call', p) /\ proc[p].state # "EMBRYO"
  BY <1>4, <1>6, <1>7, SameSlotIs, UserIs DEF Alone
<1>13. Sound(Moved(own, {}, Nobody), ram', proc', call')
  <2>1. {} \in SUBSET Frame /\ {} \in SUBSET Owners /\ Ram(ram')
    BY <1>1, <1>2
  <2>2. (\A b \in {} : Near(b, p, p)) /\ (\A f \in {} : own[f] \in {})
    OBVIOUS
  <2>3. \A f \in Frame : ram'.frame[f] # ram.frame[f] => Near(own[f], p, p)
    BY <1>1
  <2> QED  BY <1>6, <1>7, <1>8, <1>9, <1>10, <1>11, <1>12, <2>1, <2>2, <2>3, OneGoes
<1> QED  BY <1>13

\* A set of numbers has a least one.
LEMMA LeastOf ==
  ASSUME NEW S \in SUBSET Nat, S # {}
  PROVE  \E s \in S : \A t \in S : s <= t
<1>1. PICK s \in S : \A t \in S : <<t, s>> \notin OpToRel(<, Nat)
  BY NatLessThanWellFounded, WFMin
<1>2. \A t \in S : ~(t < s)
  BY <1>1 DEF OpToRel
<1> QED  BY <1>2

\* The kernel's entries are above those of programs.
LEMMA KernelIs == KMAP \subseteq Upper /\ KMAP \subseteq Entry /\ KMAP \subseteq Nat /\ KMAP # {}
<1>1. KMAP \subseteq BASE .. NPDENTRIES - 1 /\ KMAP # {}
  BY GeometryAssumption DEF BASE
<1> QED  BY <1>1, UpperIs, Geometry, Sizes DEF Upper

\* A slot keeps what it has, where its space is kept and its call is of the same kind.
LEMMA SlottedKept ==
  ASSUME NEW r, NEW r2, NEW s, NEW c, NEW c2, Slotted(r, s, c), Active(s) => Kept(r, r2, s.pgdir), c2.op = c.op
  PROVE  Slotted(r2, s, c2)
<1>1. \A d : Kept(r, r2, d) => \A k : Has(r2, d, k) <=> Has(r, d, k)
  BY DEF Kept, Has
<1>2. Active(s) => Space(r2, s.pgdir)
  BY DEF Kept
<1>3. c.op # "none" => Active(s)
  BY DEF Slotted, Active
<1>4. c.op \in {"fork", "exec"} => Active(s)
  BY <1>3
<1>5. /\ s.state = "RUNNABLE" /\ c2.op = "none" => Has(r2, s.pgdir, Pages(s.sz)) \/ Has(r2, s.pgdir, 0)
      /\ c2.op \in {"fork", "exec"} => Has(r2, s.pgdir, Pages(s.sz))
  BY <1>1, <1>4 DEF Slotted, Active
<1> QED  BY <1>2, <1>5 DEF Slotted, Active

\* What the free frames are not
LEMMA FreeIs ==
  ASSUME NEW own, Sound(own, ram, proc, call), NEW p \in Slot
  PROVE  /\ Range(ram.free) \subseteq Frame /\ \A f \in Range(ram.free) : own[f] = Nobody
         /\ Active(proc[p]) => /\ Space(ram, proc[p].pgdir) /\ Range(ram.free) \cap Own(ram, proc[p].pgdir) = {}
                               /\ \A f \in Own(ram, proc[p].pgdir) : f \in Frame /\ own[f] = <<"of", p>>
         /\ Makes(call[p]) => /\ Space(ram, call[p].dir) /\ Range(ram.free) \cap Own(ram, call[p].dir) = {}
                              /\ \A f \in Own(ram, call[p].dir) : f \in Frame /\ own[f] = <<"new", p>>
         /\ call[p].mem # 0 => /\ call[p].mem \in Frame /\ call[p].mem \notin Range(ram.free)
                               /\ own[call[p].mem] = <<"mem", p>>
<1>1. Range(ram.free) = Part(ram, proc, call, Nobody)
  BY PartIs
<1>2. Active(proc[p]) => Own(ram, proc[p].pgdir) = Part(ram, proc, call, <<"of", p>>)
  BY DEF Part
<1>3. Makes(call[p]) => Own(ram, call[p].dir) = Part(ram, proc, call, <<"new", p>>)
  BY DEF Part
<1>4. Part(ram, proc, call, <<"mem", p>>) = {call[p].mem} \ {0}
  BY DEF Part
<1>5. \A b \in Owners : \A f \in Part(ram, proc, call, b) : f \in Frame /\ own[f] = b
  BY PartsDiffer
<1>6. /\ Nobody \in Owners /\ <<"of", p>> \in Owners /\ <<"new", p>> \in Owners /\ <<"mem", p>> \in Owners
      /\ <<"of", p>> # Nobody /\ <<"new", p>> # Nobody /\ <<"mem", p>> # Nobody
  BY OwnersAre
<1>7. \A f \in Range(ram.free) : f \in Frame /\ own[f] = Nobody
  BY <1>1, <1>5, <1>6
<1>8. Active(proc[p]) => \A f \in Own(ram, proc[p].pgdir) : f \in Frame /\ own[f] = <<"of", p>>
  BY <1>2, <1>5, <1>6
<1>9. Makes(call[p]) => \A f \in Own(ram, call[p].dir) : f \in Frame /\ own[f] = <<"new", p>>
  BY <1>3, <1>5, <1>6
<1>10. call[p].mem # 0 => call[p].mem \in Frame /\ own[call[p].mem] = <<"mem", p>>
  BY <1>4, <1>5, <1>6
<1>11. (Active(proc[p]) => Space(ram, proc[p].pgdir)) /\ (Makes(call[p]) => Space(ram, call[p].dir))
  BY SlotIs DEF CallGood, Slotted, Making, Makes
<1> QED  BY <1>6, <1>7, <1>8, <1>9, <1>10, <1>11

\* Who takes a frame that is free changes nothing of what p has.
LEMMA TakesKeeps ==
  ASSUME NEW own, Sound(own, ram, proc, call), NEW p \in Slot, NEW r2,
         \A f \in Frame \ Range(ram.free) : r2.frame[f] = ram.frame[f]
  PROVE  /\ Active(proc[p]) => Kept(ram, r2, proc[p].pgdir)
         /\ Makes(call[p]) => Kept(ram, r2, call[p].dir)
         /\ call[p].mem # 0 => r2.frame[call[p].mem] = ram.frame[call[p].mem]
<1>1. Active(proc[p]) => Space(ram, proc[p].pgdir) /\ \A f \in Own(ram, proc[p].pgdir) : r2.frame[f] = ram.frame[f]
  BY FreeIs
<1>2. Makes(call[p]) => Space(ram, call[p].dir) /\ \A f \in Own(ram, call[p].dir) : r2.frame[f] = ram.frame[f]
  BY FreeIs
<1>3. call[p].mem # 0 => r2.frame[call[p].mem] = ram.frame[call[p].mem]
  BY FreeIs
<1> QED  BY <1>1, <1>2, <1>3, SpaceKept

\* exec begins with nothing of its own.
LEMMA ExecBegins ==
  ASSUME NEW own, Sound(own, ram, proc, call), NEW p \in Slot, NEW image \in Images, NEW args \in Arguments,
         Exec(p, image, args)
  PROVE  \E own2 : Sound(own2, ram', proc', call')
<1> DEFINE c == [User EXCEPT !.op = "exec", !.at = "pgdir", !.image = image, !.args = args]
<1>1. Runs(p) /\ call' = [call EXCEPT ![p] = c] /\ ram' = ram /\ proc' = proc
  BY DEF Exec, Calls
<1>2. /\ proc[p].state = "RUNNABLE" /\ call[p].at = "user" /\ Has(ram, proc[p].pgdir, Pages(proc[p].sz))
  BY <1>1, RunsHas
<1>3. Space(ram, proc[p].pgdir) /\ call[p].mem = 0 /\ ~Makes(call[p]) /\ proc[p].kstack # 0
  BY <1>2, RunsIs
<1>4. image \in Segments /\ args \in [argc : Nat, words : Nat]
  BY ProgramsAssumption DEF Segments
<1>5. c \in CallRecords
  <2>1. "pgdir" \in Labels /\ "exec" \in Ops /\ User \in CallRecords
    BY UserIs DEF Labels, Ops
  <2> QED  BY <1>4, <2>1 DEF CallRecords
<1>6. /\ c.op = "exec" /\ c.at = "pgdir" /\ c.image = image /\ c.args = args /\ c.dir = 0 /\ c.mem = 0
      /\ c.seg = 1 /\ c.sz = 0
  BY DEF User
<1> HIDE DEF c
<1>7. CallGood(ram, proc[p], c)
  <2>1. Slotted(ram, proc[p], c)
    BY <1>2, <1>3, <1>6 DEF Slotted, Active
  <2>2. InLoop(ram, c) /\ Making(ram, c) /\ Enlarging(ram, c, proc[p]) /\ Copying(ram, c, proc[p])
    BY <1>6 DEF InLoop, Phase, Phases, Loops, Making, Enlarging, Copying
  <2>3. Loading(ram, c)
    BY <1>6 DEF Loading, Phase, Loops
  <2> QED  BY <2>1, <2>2, <2>3 DEF CallGood
<1>8. /\ c.mem = call[p].mem /\ ~Makes(c) /\ c.op # "fork" /\ proc[p].state # "EMBRYO"
  BY <1>2, <1>3, <1>6 DEF Makes
<1>9. (Makes(c) <=> Makes(call[p])) /\ (Makes(c) => c.dir = call[p].dir)
  BY <1>3, <1>8
<1>10. /\ c.op = "fork" => c.op = call[p].op /\ c.child = call[p].child
       /\ c.op = "fork" => c.at # "kstack" /\ call[p].at # "kstack"
  BY <1>8
<1>11. \E own2 : Sound(own2, ram, proc, [call EXCEPT ![p] = c])
  BY <1>5, <1>7, <1>8, <1>9, <1>10, CallTurns
<1> QED  BY <1>1, <1>11 DEF c

\* setupkvm takes a frame for the directory.
LEMMA DirGot ==
  ASSUME NEW own, Sound(own, ram, proc, call), NEW p \in Slot, GetDir(p), ram.free # << >>
  PROVE  \E own2 : Sound(own2, ram', proc', call')
<1> DEFINE h == Head(ram.free)
           c == [call[p] EXCEPT !.dir = h, !.at = "kmap"]
<1>1. /\ call[p].at = "pgdir" /\ ram' = Kalloc(ram, EmptyDir) /\ proc' = proc
      /\ call' = [call EXCEPT ![p].dir = h, ![p].at = "kmap"]
  BY DEF GetDir, At
<1>2. /\ Ram(ram) /\ call[p] \in CallRecords /\ CallGood(ram, proc[p], call[p]) /\ proc[p] \in Procs
      /\ call \in [Slot -> CallRecords]
  BY SlotIs
<1>3. call' = [call EXCEPT ![p] = c]
  BY <1>1, <1>2
<1>4. call[p].op \in {"fork", "exec"} /\ call[p].mem = 0
  BY <1>1, <1>2, RecordIs DEF CallGood, InLoop, Phase, Phases, Loops, Ops
<1>5. call[p].dir = 0 /\ ~Makes(call[p]) /\ proc[p].state = "RUNNABLE" /\ Active(proc[p])
  BY <1>1, <1>2, <1>4 DEF CallGood, Making, Makes, Slotted, Active
<1>6. /\ h \in Frame /\ h \in Range(ram.free) /\ Ram(ram') /\ Range(ram'.free) = Range(ram.free) \ {h}
      /\ \A f \in Frame \ {h} : ram'.frame[f] = ram.frame[f]
  BY <1>1, <1>2, KallocTakes
<1>7. Space(ram', h) /\ Own(ram', h) = {h} /\ Has(ram', h, 0) /\ \A i \in Entry : ram'.frame[h][i] = 0
  BY <1>1, <1>2, DirectoryMade
<1> HIDE DEF h
<1>8. /\ c \in CallRecords /\ c.op = call[p].op /\ c.at = "kmap" /\ c.dir = h /\ c.mem = 0 /\ c.child = call[p].child
      /\ c.image = call[p].image /\ c.args = call[p].args /\ c.seg = call[p].seg /\ c.sz = call[p].sz
  <2>1. "kmap" \in Labels
    BY DEF Labels
  <2>2. call[p] \in CallRecords /\ h \in Frame
    BY <1>2, <1>6
  <2>3. c \in CallRecords
    BY <2>1, <2>2 DEF CallRecords
  <2>4. /\ c.op = call[p].op /\ c.at = "kmap" /\ c.dir = h /\ c.mem = call[p].mem /\ c.child = call[p].child
        /\ c.image = call[p].image /\ c.args = call[p].args /\ c.seg = call[p].seg /\ c.sz = call[p].sz
    BY <2>2 DEF CallRecords
  <2> HIDE DEF c
  <2> QED  BY <1>4, <2>3, <2>4
<1> HIDE DEF c
<1>9. Active(proc[p]) => Kept(ram, ram', proc[p].pgdir)
  BY <1>6, TakesKeeps
<1>10. CallGood(ram', proc[p], c)
  <2>1. Slotted(ram', proc[p], c)
    BY <1>2, <1>8, <1>9, SlottedKept DEF CallGood
  <2>2. InLoop(ram', c)
    BY <1>4, <1>8 DEF InLoop, Phase, Phases, Loops
  <2>3. Making(ram', c)
    <3>1. \E i \in KMAP : i \in Entry
      BY KernelIs
    <3>2. h # 0
      BY <1>6, FrameIs
    <3> QED  BY <1>7, <1>8, <3>1, <3>2 DEF Making
  <2>4. Enlarging(ram', c, proc[p]) /\ Copying(ram', c, proc[p])
    BY <1>4, <1>8 DEF Enlarging, Copying, Phase, Loops
  <2>5. Loading(ram', c)
    BY <1>1, <1>2, <1>4, <1>8 DEF CallGood, Loading, Phase, Loops
  <2> QED  BY <2>1, <2>2, <2>3, <2>4, <2>5 DEF CallGood
<1>11. Makes(c)
  BY <1>4, <1>6, <1>8, FrameIs DEF Makes
<1>12. /\ <<"new", p>> \in Owners /\ {Nobody} \in SUBSET Owners /\ Near(<<"new", p>>, p, p)
       /\ Nobody # <<"new", p>>
  BY OwnersAre, NearBy
<1>13. /\ \A b \in {Nobody} : Near(b, p, p)
       /\ <<"stack", p>> \notin {Nobody} \cup {<<"new", p>>}
  <2>1. <<"stack", p>> # Nobody /\ <<"stack", p>> # <<"new", p>>
    BY OwnersAre
  <2> QED  BY <2>1, NearBy
<1>14. /\ \A f \in {h} : own[f] \in {Nobody}
       /\ \A f \in Frame : ram'.frame[f] # ram.frame[f] => Near(own[f], p, p)
       /\ {h} \in SUBSET Frame
  BY <1>6, FreeIs, NearBy
<1>15. Goes(Range(ram.free), Range(ram'.free), Nobody, {h}, {Nobody}, <<"new", p>>)
  BY <1>6, <1>12 DEF Goes
<1>16. Goes({call[p].mem} \ {0}, {c.mem} \ {0}, <<"mem", p>>, {h}, {Nobody}, <<"new", p>>)
  BY <1>4, <1>8, OwnersAre DEF Goes
<1>17. Goes(IF Active(proc[p]) THEN Own(ram, proc[p].pgdir) ELSE {},
            IF Active(proc[p]) THEN Own(ram', proc[p].pgdir) ELSE {}, <<"of", p>>, {h}, {Nobody}, <<"new", p>>)
  BY <1>5, <1>9, OwnersAre DEF Goes, Kept
<1>18. Goes(IF Makes(call[p]) THEN Own(ram, call[p].dir) ELSE {},
            IF Makes(c) THEN Own(ram', c.dir) ELSE {}, <<"new", p>>, {h}, {Nobody}, <<"new", p>>)
  BY <1>5, <1>7, <1>8, <1>11 DEF Goes
<1>19. /\ c.op = "fork" => c.op = call[p].op /\ c.child = call[p].child
       /\ c.op = "fork" => c.at # "kstack" /\ call[p].at # "kstack"
       /\ proc[p].state # "EMBRYO"
  BY <1>1, <1>5, <1>8
<1>20. Sound(Moved(own, {h}, <<"new", p>>), ram', proc, [call EXCEPT ![p] = c])
  BY <1>6, <1>8, <1>10, <1>12, <1>13, <1>14, <1>15, <1>16, <1>17, <1>18, <1>19, CallGoes
<1> QED  BY <1>1, <1>3, <1>20

\* The frame that a call takes is its own, as the page to come or in the space that it makes.
LEMMA CallTakes ==
  ASSUME NEW own, Sound(own, ram, proc, call), NEW p \in Slot, proc[p].state # "EMBRYO",
         NEW c \in CallRecords, NEW r2, Ram(r2),
         NEW h \in Range(ram.free), NEW k \in {"mem", "new"}, Range(r2.free) = Range(ram.free) \ {h},
         \A f \in Frame : r2.frame[f] # ram.frame[f] => Near(own[f], p, p),
         Active(proc[p]) => Own(r2, proc[p].pgdir) = Own(ram, proc[p].pgdir),
         k = "mem" => call[p].mem = 0 /\ c.mem = h
                      /\ (IF Makes(c) THEN Own(r2, c.dir) ELSE {}) =
                           (IF Makes(call[p]) THEN Own(ram, call[p].dir) ELSE {}),
         k = "new" => c.mem = call[p].mem /\ Makes(c)
                      /\ Own(r2, c.dir) = (IF Makes(call[p]) THEN Own(ram, call[p].dir) ELSE {}) \cup {h},
         c.op = "fork" => c.op = call[p].op /\ c.child = call[p].child,
         c.op = "fork" => c.at # "kstack" /\ call[p].at # "kstack",
         CallGood(r2, proc[p], c)
  PROVE  \E own2 : Sound(own2, r2, proc, [call EXCEPT ![p] = c])
<1> DEFINE to == <<k, p>>
<1>0. h \in Frame /\ h # 0 /\ own[h] = Nobody
  BY FreeIs, FrameIs
<1>1. /\ to \in Owners /\ to # Nobody /\ Near(to, p, p) /\ {Nobody} \in SUBSET Owners /\ {h} \in SUBSET Frame
      /\ <<"of", p>> # Nobody /\ <<"mem", p>> # Nobody /\ <<"new", p>> # Nobody /\ <<"stack", p>> # Nobody
  BY <1>0, OwnersAre, NearBy
<1>2. <<"stack", p>> \notin {Nobody} \cup {to} /\ <<"of", p>> # to
  BY <1>1
<1>3. (\A b \in {Nobody} : Near(b, p, p)) /\ (\A f \in {h} : own[f] \in {Nobody})
  BY <1>0, NearBy
<1>4. Goes(Range(ram.free), Range(r2.free), Nobody, {h}, {Nobody}, to)
  BY <1>1 DEF Goes
<1>5. Goes({call[p].mem} \ {0}, {c.mem} \ {0}, <<"mem", p>>, {h}, {Nobody}, to)
  <2>1. CASE k = "mem"
    BY <1>0, <2>1 DEF Goes
  <2>2. CASE k = "new"
    BY <1>1, <2>2 DEF Goes
  <2> QED  BY <2>1, <2>2
<1>6. Goes(IF Active(proc[p]) THEN Own(ram, proc[p].pgdir) ELSE {},
           IF Active(proc[p]) THEN Own(r2, proc[p].pgdir) ELSE {}, <<"of", p>>, {h}, {Nobody}, to)
  BY <1>1, <1>2 DEF Goes
<1>7. Goes(IF Makes(call[p]) THEN Own(ram, call[p].dir) ELSE {},
           IF Makes(c) THEN Own(r2, c.dir) ELSE {}, <<"new", p>>, {h}, {Nobody}, to)
  <2>1. CASE k = "mem"
    BY <1>1, <2>1 DEF Goes
  <2>2. CASE k = "new"
    BY <2>2 DEF Goes
  <2> QED  BY <2>1, <2>2
<1> HIDE DEF to
<1>8. Sound(Moved(own, {h}, to), r2, proc, [call EXCEPT ![p] = c])
  BY <1>1, <1>2, <1>3, <1>4, <1>5, <1>6, <1>7, CallGoes
<1> QED  BY <1>8

\* What a new table does to a space, and where allocuvm begins
TableGiven(r, w, d, i, h) ==
  /\ Ram(w) /\ Space(w, d) /\ \A n \in Page : Walk(w, d, n) = Walk(r, d, n)
  /\ h \in Range(r.free) /\ h \in Frame /\ Range(w.free) = Range(r.free) \ {h}
  /\ Own(w, d) = Own(r, d) \cup {h}
  /\ \A f \in Frame : f # d /\ f # h => w.frame[f] = r.frame[f]
  /\ \A j \in Entry \ {i} : w.frame[d][j] = r.frame[d][j]
Begun(g, c, from, to, then) ==
  /\ g \in CallRecords
  /\ g.from = from /\ g.to = to /\ g.n = Pages(from) /\ g.then = then
  /\ g.op = c.op /\ g.dir = c.dir /\ g.mem = c.mem /\ g.sz = c.sz /\ g.seg = c.seg
  /\ g.image = c.image /\ g.args = c.args /\ g.child = c.child
  /\ Pages(from) < Pages(to) => g.at = "page"
  /\ ~(Pages(from) < Pages(to)) => g.at = then

\* What walkpgdir with alloc does to the owner of the space
LEMMA TableGives ==
  ASSUME NEW r, Ram(r), r.free # << >>, NEW d, Space(r, d), Range(r.free) \cap Own(r, d) = {},
         NEW i \in Entry, r.frame[d][i] = 0
  PROVE  TableGiven(r, WithTable(r, d, i), d, i, Head(r.free))
<1> DEFINE w == WithTable(r, d, i)
           h == Head(r.free)
<1>1. Ram(w) /\ Space(w, d) /\ \A n \in Page : Walk(w, d, n) = Walk(r, d, n)
  BY TableMade
<1>2. h \in Range(r.free) /\ h \in Frame /\ Range(w.free) = Range(r.free) \ {h} /\ Own(w, d) = Own(r, d) \cup {h}
  BY TableMade
<1>3. /\ \A f \in Frame : f # d /\ f # h => w.frame[f] = r.frame[f]
      /\ \A j \in Entry \ {i} : w.frame[d][j] = r.frame[d][j]
  BY TableMade
<1> QED  BY <1>1, <1>2, <1>3 DEF TableGiven

\* What allocuvm begins with
LEMMA GrowingGives ==
  ASSUME NEW c \in CallRecords, NEW from \in Nat, NEW to \in 0 .. KERNBASE, NEW then \in Labels
  PROVE  Begun(Growing(c, from, to, then), c, from, to, then)
  BY GrowingIs DEF Begun

\* setupkvm's first entry that is not there
LEMMA LeftIs ==
  ASSUME NEW r, NEW d, \E i \in KMAP : r.frame[d][i] = 0
  PROVE  LET left == {i \in KMAP : r.frame[d][i] = 0}
         IN (CHOOSE k \in left : \A l \in left : k <= l) \in left
<1> DEFINE left == {i \in KMAP : r.frame[d][i] = 0}
<1>1. left \in SUBSET Nat /\ left # {}
  BY KernelIs
<1> HIDE DEF left
<1>2. \E k \in left : \A l \in left : k <= l
  BY <1>1, LeastOf
<1>3. (CHOOSE k \in left : \A l \in left : k <= l) \in left
  BY <1>2, Zenon
<1> QED  BY <1>3 DEF left

\* No segment has been loaded.
LEMMA NothingLoaded ==
  ASSUME NEW r, NEW d, Has(r, d, 0), NEW image
  PROVE  TextOf(image, 0) = {} /\ Highest(image, 0, 0) /\ TextLoaded(r, d, {})
<1>1. TextOf(image, 0) = {}
  BY DEF TextOf
<1>2. Highest(image, 0, 0)
  BY DEF Highest
<1>3. TextLoaded(r, d, {})
  BY PageIs DEF TextLoaded, Has
<1> QED  BY <1>1, <1>2, <1>3

\* A step of setupkvm takes a frame for a table.
LEMMA KernelGrown ==
  ASSUME NEW own, Sound(own, ram, proc, call), NEW p \in Slot, MapKernel(p), ram.free # << >>
  PROVE  \E own2 : Sound(own2, ram', proc', call')
<1> DEFINE b == call[p]
           s == proc[p]
           d == call[p].dir
           left == {i \in KMAP : ram.frame[d][i] = 0}
           i == CHOOSE k \in left : \A l \in left : k <= l
           h == Head(ram.free)
           c == IF left # {i} THEN b
                ELSE IF b.op = "exec" THEN [b EXCEPT !.at = "segment"] ELSE Growing(b, 0, s.sz, "copied")
<1>1. b.at = "kmap" /\ ram' = WithTable(ram, d, i) /\ proc' = proc /\ call' = [call EXCEPT ![p] = c]
  <2>1. \A x, y, z : x \in [Slot -> CallRecords] => [x EXCEPT ![p] = IF left # {i} THEN @
                  ELSE IF @.op = "exec" THEN [@ EXCEPT !.at = "segment"]
                  ELSE Growing(@, 0, proc[p].sz, "copied")] =
          [x EXCEPT ![p] = IF left # {i} THEN x[p]
                  ELSE IF x[p].op = "exec" THEN [x[p] EXCEPT !.at = "segment"]
                  ELSE Growing(x[p], 0, proc[p].sz, "copied")]
    OBVIOUS
  <2> QED  BY <2>1, SlotIs DEF MapKernel, At, WithTable
<1>2. /\ Ram(ram) /\ b \in CallRecords /\ CallGood(ram, s, b) /\ s \in Procs /\ s.sz \in Nat /\ s.sz <= KERNBASE
  BY SlotIs, ProcIs
<1>3. b.op \in {"fork", "exec"} /\ b.mem = 0
  BY <1>1, <1>2, RecordIs DEF CallGood, InLoop, Phase, Phases, Loops, Ops
<1>4. /\ Makes(b) /\ s.state = "RUNNABLE" /\ Active(s) /\ Space(ram, d) /\ Has(ram, d, 0)
      /\ Has(ram, s.pgdir, Pages(s.sz)) /\ \E k \in KMAP : ram.frame[d][k] = 0
  BY <1>1, <1>2, <1>3 DEF CallGood, Making, Makes, Slotted, Active
<1>5. i \in left
  <2>1. \E k \in KMAP : ram.frame[d][k] = 0
    BY <1>4
  <2> QED  BY <2>1, LeftIs, Zenon
<1>6. i \in KMAP /\ i \in Entry /\ ram.frame[d][i] = 0
  BY <1>5, KernelIs
<1>7. ASSUME left # {i} PROVE \E k \in KMAP \ {i} : ram.frame[d][k] = 0
  <2> HIDE DEF left, i
  <2>1. \E k \in left : k # i
    BY <1>5, <1>7
  <2> QED  BY <2>1 DEF left
<1> HIDE DEF i, left
<1>8. Range(ram.free) \cap Own(ram, d) = {}
  BY <1>4, FreeIs
<1>9. /\ Ram(ram') /\ Space(ram', d) /\ \A n \in Page : Walk(ram', d, n) = Walk(ram, d, n)
      /\ h \in Range(ram.free) /\ h \in Frame /\ Range(ram'.free) = Range(ram.free) \ {h}
      /\ Own(ram', d) = Own(ram, d) \cup {h}
      /\ \A f \in Frame : f # d /\ f # h => ram'.frame[f] = ram.frame[f]
      /\ \A j \in Entry \ {i} : ram'.frame[d][j] = ram.frame[d][j]
  <2>1. TableGiven(ram, WithTable(ram, d, i), d, i, h)
    BY <1>2, <1>4, <1>6, <1>8, TableGives
  <2> QED  BY <1>1, <2>1 DEF TableGiven
<1> HIDE DEF h
<1>10. Has(ram', d, 0)
  BY <1>4, <1>9 DEF Has
<1>11. Active(s) /\ Own(ram', s.pgdir) = Own(ram, s.pgdir) /\ Kept(ram, ram', s.pgdir)
  <2>1. d \in Frame /\ own[d] = <<"new", p>>
    BY <1>4, FreeIs, OwnFrames
  <2>2. d \notin Own(ram, s.pgdir) /\ h \notin Own(ram, s.pgdir)
    BY <1>4, <1>9, <2>1, FreeIs, OwnersAre
  <2>3. Space(ram, s.pgdir) /\ \A f \in Own(ram, s.pgdir) : ram'.frame[f] = ram.frame[f]
    BY <1>4, <1>9, <2>2, FreeIs
  <2>4. Kept(ram, ram', s.pgdir)
    BY <2>3, SpaceKept
  <2> QED  BY <1>4, <2>4 DEF Kept
<1>12. /\ c \in CallRecords /\ c.op = b.op /\ c.mem = 0 /\ c.dir = d /\ c.child = b.child /\ c.seg = b.seg
       /\ c.sz = b.sz /\ c.image = b.image /\ c.args = b.args
       /\ left # {i} => c = b
       /\ left = {i} /\ b.op = "exec" => c.at = "segment"
       /\ left = {i} /\ b.op = "fork" =>
            /\ c.n = 0 /\ c.to = s.sz /\ c.then = "copied"
            /\ (c.at = "page" /\ 0 < Pages(s.sz)) \/ (c.at = "copied" /\ Pages(s.sz) = 0)
  <2>1. CASE left # {i}
    BY <1>2, <1>3, <2>1
  <2>2. CASE left = {i} /\ b.op = "exec"
    <3>1. "segment" \in Labels
      BY DEF Labels
    <3>2. c = [b EXCEPT !.at = "segment"] /\ b \in CallRecords
      BY <1>2, <2>2
    <3> HIDE DEF c
    <3>3. c \in CallRecords
      BY <3>1, <3>2 DEF CallRecords
    <3>4. /\ c.op = b.op /\ c.mem = b.mem /\ c.dir = b.dir /\ c.child = b.child /\ c.seg = b.seg
          /\ c.sz = b.sz /\ c.image = b.image /\ c.args = b.args /\ c.at = "segment"
      BY <3>2 DEF CallRecords
    <3> QED  BY <1>3, <2>2, <3>3, <3>4
  <2>3. CASE left = {i} /\ b.op = "fork"
    <3> DEFINE g == Growing(b, 0, s.sz, "copied")
    <3>1. "copied" \in Labels /\ s.sz \in 0 .. KERNBASE /\ 0 \in Nat /\ Pages(0) = 0 /\ Pages(s.sz) \in Nat
      <4>1. Pages(s.sz) \in Nat
        BY <1>2, PagesAre
      <4>2. "copied" \in Labels
        BY DEF Labels
      <4> QED  BY <1>2, <4>1, <4>2, Sizes, PagesBelow
    <3>0. Begun(g, b, 0, s.sz, "copied")
      BY <1>2, <3>1, GrowingGives
    <3>2. /\ g \in CallRecords /\ g.op = b.op /\ g.dir = b.dir /\ g.mem = b.mem /\ g.sz = b.sz /\ g.seg = b.seg
          /\ g.image = b.image /\ g.args = b.args /\ g.child = b.child
          /\ g.to = s.sz /\ g.n = Pages(0) /\ g.then = "copied"
          /\ Pages(0) < Pages(s.sz) => g.at = "page"
          /\ ~(Pages(0) < Pages(s.sz)) => g.at = "copied"
      BY <3>0 DEF Begun
    <3>3. c = g
      BY <2>3
    <3> HIDE DEF c, g
    <3> QED  BY <1>3, <2>3, <3>1, <3>2, <3>3
  <2> QED  BY <1>3, <2>1, <2>2, <2>3
<1>13. c.at # "map" /\ c.at # "kstack" /\ c.at # "pgdir"
  BY <1>1, <1>3, <1>12
<1> HIDE DEF c
<1>14. Makes(c)
  BY <1>4, <1>12 DEF Makes
<1>15. CallGood(ram', s, c)
  <2>1. Slotted(ram', s, c)
    BY <1>2, <1>11, <1>12, SlottedKept DEF CallGood
  <2>2. CASE left # {i}
    <3>1. c = b
      BY <1>12, <2>2
    <3>2. InLoop(ram', c)
      BY <1>1, <1>2, <1>3, <3>1 DEF CallGood, InLoop, Loops
    <3>3. Making(ram', c)
      <4>1. \E k \in KMAP : ram'.frame[d][k] = 0
        BY <1>7, <1>9, <2>2, KernelIs
      <4> QED  BY <1>1, <1>2, <1>9, <1>10, <3>1, <4>1 DEF CallGood, Making
    <3>4. Enlarging(ram', c, s) /\ Copying(ram', c, s)
      BY <1>1, <1>3, <3>1 DEF Enlarging, Copying, Phase, Loops
    <3>5. Loading(ram', c)
      BY <1>1, <1>2, <1>3, <3>1 DEF CallGood, Loading, Phase, Loops
    <3> QED  BY <2>1, <3>2, <3>3, <3>4, <3>5 DEF CallGood
  <2>3. CASE left = {i} /\ b.op = "exec"
    <3>1. c.op = "exec" /\ c.at = "segment" /\ c.image \in Images /\ c.args \in Arguments /\ c.seg = 1 /\ c.sz = 0
      BY <1>1, <1>2, <1>12, <2>3 DEF CallGood, Loading, Phase, Loops
    <3>2. InLoop(ram', c) /\ Enlarging(ram', c, s) /\ Copying(ram', c, s)
      BY <1>12, <3>1 DEF InLoop, Phase, Phases, Loops, Enlarging, Copying
    <3>3. Making(ram', c)
      BY <1>9, <1>12, <1>14, <3>1 DEF Making, Makes
    <3>4. Loading(ram', c)
      <4>1. c.image \in Segments
        BY <1>12, RecordIs
      <4>2. 0 \in 0 .. Len(c.image) /\ c.seg - 1 = 0
        BY <3>1, <4>1 DEF Segments
      <4>3. TextOf(c.image, 0) = {} /\ Highest(c.image, 0, 0) /\ TextLoaded(ram', d, {})
        BY <1>10, NothingLoaded
      <4>4. Sized(c, 0)
        BY <3>1, <4>2, <4>3 DEF Sized, Phase, Loops
      <4>5. Pages(c.sz) = 0 /\ TextLoaded(ram', d, TextOf(c.image, c.seg - 1))
        BY <3>1, <4>2, <4>3, PagesBelow
      <4> QED  BY <1>10, <1>12, <3>1, <4>2, <4>4, <4>5 DEF Loading, Phase, Loops
    <3> QED  BY <2>1, <3>2, <3>3, <3>4 DEF CallGood
  <2>4. CASE left = {i} /\ b.op = "fork"
    <3>1. c.op = "fork" /\ c.at \in {"page", "copied"} /\ Phase(c) = "copied"
      BY <1>12, <2>4 DEF Phase, Loops
    <3>2. InLoop(ram', c)
      BY <1>10, <1>12, <2>4, <3>1 DEF InLoop, Phases, Loops
    <3>3. Making(ram', c)
      BY <1>9, <1>12, <1>14, <3>1 DEF Making, Makes
    <3>4. Copying(ram', c, s)
      <4>1. \A n \in Page : Walk(ram', d, n).frame = 0
        BY <1>10, PageIs DEF Has
      <4> QED  BY <1>10, <1>12, <2>4, <3>1, <4>1 DEF Copying
    <3>5. Enlarging(ram', c, s) /\ Loading(ram', c)
      BY <3>1 DEF Enlarging, Loading
    <3> QED  BY <2>1, <3>2, <3>3, <3>4, <3>5 DEF CallGood
  <2> QED  BY <1>3, <2>2, <2>3, <2>4
<1>16. \A f \in Frame : ram'.frame[f] # ram.frame[f] => Near(own[f], p, p)
  <2>1. own[d] = <<"new", p>> /\ own[h] = Nobody
    BY <1>4, <1>9, FreeIs, OwnFrames
  <2>2. \A f \in Frame : ram'.frame[f] # ram.frame[f] => f = d \/ f = h
    BY <1>9
  <2> QED  BY <2>1, <2>2, NearBy
<1>17. Own(ram', c.dir) = (IF Makes(b) THEN Own(ram, b.dir) ELSE {}) \cup {h}
  BY <1>4, <1>9, <1>12
<1>18. "new" \in {"mem", "new"} /\ c.mem = call[p].mem /\ proc[p].state # "EMBRYO"
  BY <1>3, <1>4, <1>12
<1>19. /\ c.op = "fork" => c.op = call[p].op /\ c.child = call[p].child
       /\ c.op = "fork" => c.at # "kstack" /\ call[p].at # "kstack"
  BY <1>1, <1>12, <1>13
<1>20. \E own2 : Sound(own2, ram', proc, [call EXCEPT ![p] = c])
  BY <1>9, <1>11, <1>12, <1>14, <1>15, <1>16, <1>17, <1>18, <1>19, CallTakes
<1> QED  BY <1>1, <1>20

\* A call in a loop: the space that it works on, and the page it is at
LEMMA AtPage ==
  ASSUME NEW own, Sound(own, ram, proc, call), NEW p \in Slot, Loops(call[p])
  PROVE  /\ call[p].n \in Page /\ call[p].op \in {"sbrk", "fork", "exec"}
         /\ proc[p].state = "RUNNABLE" /\ Active(proc[p]) /\ Space(ram, call[p].dir)
         /\ IF call[p].op = "sbrk" THEN ~Makes(call[p]) /\ call[p].dir = proc[p].pgdir ELSE Makes(call[p])
         /\ call[p].op = "fork" => /\ call[p].then = "copied" /\ Walk(ram, proc[p].pgdir, call[p].n).frame # 0
                                   /\ call[p].to = proc[p].sz
<1> DEFINE c == call[p]
           s == proc[p]
<1>1. c \in CallRecords /\ CallGood(ram, s, c)
  BY SlotIs
<1>2. c.n \in Page /\ c.op \in {"sbrk", "fork", "exec"} /\ c.then \in {"grown", "copied", "load", "args"}
  BY <1>1, LoopIs DEF CallGood, InLoop
<1>3. s.state = "RUNNABLE" /\ Active(s) /\ Space(ram, s.pgdir)
  BY <1>1, <1>2 DEF CallGood, Slotted, Active
<1>4. c.op = "sbrk" => ~Makes(c) /\ c.dir = s.pgdir
  BY <1>1 DEF CallGood, Enlarging, Makes
<1>5. c.op # "sbrk" => Makes(c) /\ Space(ram, c.dir)
  BY <1>1, <1>2 DEF CallGood, Making, Makes, Loops
<1>6. c.op = "fork" => c.then = "copied" /\ Phase(c) = "copied"
  BY <1>1, <1>2 DEF CallGood, InLoop, Phase, Phases
<1>7. c.op = "fork" => c.to = s.sz
  BY <1>1, <1>6 DEF CallGood, Copying
<1>8. c.op = "fork" => Walk(ram, s.pgdir, c.n).frame # 0
  BY <1>1, <1>2, <1>7 DEF CallGood, InLoop, Slotted, Has
<1> QED  BY <1>2, <1>3, <1>4, <1>5, <1>6, <1>7, <1>8

\* The loops of allocuvm and copyuvm take a frame for a page, which has no entry yet.
LEMMA PageGot ==
  ASSUME NEW own, Sound(own, ram, proc, call), NEW p \in Slot, GetPage(p), ram.free # << >>
  PROVE  panicked' = panicked /\ \E own2 : Sound(own2, ram', proc', call')
<1> DEFINE b == call[p]
           s == proc[p]
           h == Head(ram.free)
           content == IF b.op = "fork" THEN ram.frame[Walk(ram, s.pgdir, b.n).frame] ELSE ZeroPage
           c == [b EXCEPT !.mem = h, !.at = "map"]
<1>0. b.at = "page" /\ Loops(b)
  BY DEF GetPage, At, Loops
<1>1. /\ b.n \in Page /\ b.op \in {"sbrk", "fork", "exec"}
      /\ s.state = "RUNNABLE" /\ Active(s) /\ Space(ram, b.dir)
      /\ IF b.op = "sbrk" THEN ~Makes(b) /\ b.dir = s.pgdir ELSE Makes(b)
      /\ b.op = "fork" => b.then = "copied" /\ Walk(ram, s.pgdir, b.n).frame # 0 /\ b.to = s.sz
  BY <1>0, AtPage
<1>2. /\ Ram(ram) /\ b \in CallRecords /\ CallGood(ram, s, b) /\ call \in [Slot -> CallRecords]
  BY SlotIs
<1>3. /\ ram' = Kalloc(ram, content) /\ proc' = proc /\ panicked' = panicked /\ call' = [call EXCEPT ![p] = c]
  BY <1>0, <1>1, <1>2 DEF GetPage
<1>4. b.mem = 0
  BY <1>0, <1>2 DEF CallGood, InLoop
<1>5. /\ h \in Frame /\ h \in Range(ram.free) /\ Ram(ram') /\ Range(ram'.free) = Range(ram.free) \ {h}
      /\ ram'.frame[h] = content /\ \A f \in Frame \ {h} : ram'.frame[f] = ram.frame[f]
  <2> HIDE DEF content
  <2> QED  BY <1>2, <1>3, KallocTakes
<1> HIDE DEF h
<1>6. h # 0 /\ own[h] = Nobody
  BY <1>5, FreeIs, FrameIs
<1>7. /\ Active(s) => Kept(ram, ram', s.pgdir)
      /\ Makes(b) => Kept(ram, ram', b.dir)
  BY <1>5, TakesKeeps
<1>8. Kept(ram, ram', b.dir)
  BY <1>1, <1>7
<1>9. /\ c \in CallRecords /\ c.op = b.op /\ c.at = "map" /\ c.dir = b.dir /\ c.mem = h /\ c.child = b.child
      /\ c.image = b.image /\ c.args = b.args /\ c.seg = b.seg /\ c.sz = b.sz /\ c.n = b.n /\ c.to = b.to
      /\ c.from = b.from /\ c.then = b.then
  <2>1. "map" \in Labels
    BY DEF Labels
  <2> QED  BY <1>2, <1>5, <2>1 DEF CallRecords
<1> HIDE DEF c
<1>10. content \in Contents
  <2>1. ZeroPage \in Contents
    BY DEF ZeroPage, Contents
  <2>2. b.op = "fork" => ram.frame[Walk(ram, s.pgdir, b.n).frame] \in Contents
    BY <1>1, <1>2 DEF CallGood, Slotted, Space, Typed
  <2> QED  BY <2>1, <2>2
<1>11. Loops(c) /\ Phase(c) = Phase(b) /\ (Makes(c) <=> Makes(b))
  BY <1>0, <1>9 DEF Loops, Phase, Makes
<1>12. b.op # "fork" => content = ZeroPage
  OBVIOUS
<1>13. b.op = "fork" => content = ram'.frame[Walk(ram', s.pgdir, b.n).frame] /\ Walk(ram', s.pgdir, b.n).frame # 0
  BY <1>1, <1>7 DEF Kept
<1> HIDE DEF content
<1>14. CallGood(ram', s, c)
  <2>0. \A d : Kept(ram, ram', d) => \A k : Has(ram', d, k) <=> Has(ram, d, k)
    BY DEF Kept, Has
  <2>1. Slotted(ram', s, c)
    BY <1>2, <1>7, <1>9, SlottedKept DEF CallGood
  <2>2. InLoop(ram', c)
    BY <1>0, <1>2, <1>5, <1>6, <1>8, <1>9, <1>10, <1>11, <2>0 DEF CallGood, InLoop
  <2>3. Making(ram', c)
    BY <1>0, <1>1, <1>2, <1>8, <1>9 DEF CallGood, Making, Kept
  <2>4. Enlarging(ram', c, s)
    BY <1>0, <1>1, <1>2, <1>5, <1>8, <1>9, <1>11, <1>12 DEF CallGood, Enlarging, Kept
  <2>5. Copying(ram', c, s)
    <3>1. ASSUME b.op = "fork", NEW n \in Page, Walk(ram, b.dir, n).frame # 0, SamePage(ram, b.dir, s.pgdir, n)
          PROVE  SamePage(ram', b.dir, s.pgdir, n)
      BY <1>1, <1>7, <1>8, <3>1 DEF SamePage, Kept
    <3>2. b.op = "fork" /\ Phase(b) = "copied" =>
            \A n \in Page : Walk(ram', c.dir, n).frame # 0 => SamePage(ram', c.dir, s.pgdir, n)
      BY <1>2, <1>8, <1>9, <3>1 DEF CallGood, Copying, Kept
    <3> QED  BY <1>1, <1>5, <1>9, <1>11, <1>13, <3>2, Zenon DEF Copying
  <2>6. Loading(ram', c)
    <3>1. \A k : Sized(b, k) <=> Sized(c, k)
      BY <1>9, <1>11 DEF Sized
    <3>2. \A text : TextLoaded(ram, b.dir, text) => TextLoaded(ram', b.dir, text)
      BY <1>8 DEF TextLoaded, Kept
    <3> QED  BY <1>0, <1>2, <1>5, <1>9, <1>11, <1>12, <3>1, <3>2 DEF CallGood, Loading
  <2> QED  BY <2>1, <2>2, <2>3, <2>4, <2>5, <2>6 DEF CallGood
<1>15. \A f \in Frame : ram'.frame[f] # ram.frame[f] => Near(own[f], p, p)
  BY <1>5, <1>6, NearBy
<1>16. (IF Makes(c) THEN Own(ram', c.dir) ELSE {}) = (IF Makes(b) THEN Own(ram, b.dir) ELSE {})
  BY <1>8, <1>9, <1>11 DEF Kept
<1>17. "mem" \in {"mem", "new"} /\ call[p].mem = 0 /\ c.mem = h /\ proc[p].state # "EMBRYO"
  BY <1>1, <1>4, <1>9
<1>18. /\ c.op = "fork" => c.op = call[p].op /\ c.child = call[p].child
       /\ c.op = "fork" => c.at # "kstack" /\ call[p].at # "kstack"
  BY <1>0, <1>9
<1>19. Own(ram', proc[p].pgdir) = Own(ram, proc[p].pgdir)
  BY <1>1, <1>7 DEF Kept
<1>20. \E own2 : Sound(own2, ram', proc, [call EXCEPT ![p] = c])
  BY <1>5, <1>9, <1>14, <1>15, <1>16, <1>17, <1>18, <1>19, CallTakes
<1> QED  BY <1>3, <1>20 DEF c

\* What mappages of one page does to a space, with `new` for a table
Maps(r, s, d, n, pte, new) ==
  /\ Ram(s) /\ Space(s, d) /\ Walk(s, d, n) = pte
  /\ \A m \in Page : m # n => Walk(s, d, m) = Walk(r, d, m)
  /\ \A f \in Frame : f \notin {d} \cup TablesOf(r, d) /\ f \notin Range(r.free) => s.frame[f] = r.frame[f]
  /\ new \subseteq Range(r.free) /\ Range(s.free) = Range(r.free) \ new
  /\ Own(s, d) = Own(r, d) \cup {pte.frame} \cup new

\* mappages gives the page the entry, and takes a frame for a table if it needs one.
LEMMA MapsPage ==
  ASSUME NEW r, Ram(r), NEW d, Space(r, d), NEW n \in Page, NEW pte \in Pte, CanMap(r, d, n),
         Walk(r, d, n).frame = 0, pte.frame \in Frame \ Own(r, d), r.frame[pte.frame] \in Contents,
         Range(r.free) \cap (Own(r, d) \cup {pte.frame}) = {}
  PROVE  \E new : Maps(r, Mapped(r, d, n, pte), d, n, pte, new)
<1> DEFINE s == Mapped(r, d, n, pte)
<1>1. Ram(s) /\ Space(s, d) /\ Walk(s, d, n) = pte /\ \A m \in Page : m # n => Walk(s, d, m) = Walk(r, d, m)
  BY MappedIs
<1>2. \A f \in Frame : f \notin {d} \cup TablesOf(r, d) /\ f \notin Range(r.free) => s.frame[f] = r.frame[f]
  BY MappedIs
<1>3. \E new \in SUBSET Range(r.free) : /\ Range(s.free) = Range(r.free) \ new
                                        /\ Own(s, d) = Own(r, d) \cup {pte.frame} \cup new
  BY MappedIs, SMTT(60)
<1> QED  BY <1>1, <1>2, <1>3 DEF Maps

\* The numbers of segments
LEMMA SegmentsAre ==
  ASSUME NEW image \in Segments
  PROVE  /\ Len(image) \in Nat
         /\ \A j \in 1 .. Len(image) : /\ image[j].vaddr \in 0 .. UINT - 1 /\ image[j].memsz \in 0 .. UINT - 1
                                       /\ image[j].filesz \in 0 .. UINT - 1
<1> DEFINE S == [vaddr : 0 .. UINT - 1, memsz : 0 .. UINT - 1, filesz : 0 .. UINT - 1, short : BOOLEAN]
<1>1. image \in Seq(S)
  BY DEF Segments
<1>2. \A x \in S : x.vaddr \in 0 .. UINT - 1 /\ x.memsz \in 0 .. UINT - 1 /\ x.filesz \in 0 .. UINT - 1
  OBVIOUS
<1> HIDE DEF S
<1>3. Len(image) \in Nat /\ \A j \in 1 .. Len(image) : image[j] \in S
  BY <1>1
<1> QED  BY <1>2, <1>3

\* A page more: the others of the space are as they were, and the calls that see it agree.
LEMMA PageMore ==
  ASSUME NEW own, Sound(own, ram, proc, call), NEW p \in Slot, call[p].at = "map", NEW user \in BOOLEAN,
         user <=> (call[p].op = "fork" => Walk(ram, proc[p].pgdir, call[p].n).user),
         NEW r2, NEW new,
         Maps(ram, r2, call[p].dir, call[p].n, [frame |-> call[p].mem, user |-> user], new),
         NEW c \in CallRecords, c.op = call[p].op, c.dir = call[p].dir, c.mem = 0, c.n = call[p].n + 1,
         c.from = call[p].from, c.to = call[p].to, c.then = call[p].then, c.sz = call[p].sz,
         c.seg = call[p].seg, c.image = call[p].image, c.args = call[p].args,
         c.at = IF c.n < Pages(c.to) THEN "page" ELSE c.then
  PROVE  CallGood(r2, proc[p], c) /\ (Makes(c) <=> Makes(call[p]))
         /\ (call[p].op # "sbrk" => Kept(ram, r2, proc[p].pgdir))
<1> DEFINE b == call[p]
           s == proc[p]
           d == call[p].dir
           n == call[p].n
           h == call[p].mem
           pte == [frame |-> h, user |-> user]
<1>0. Loops(b)
  BY DEF Loops
<1>1. /\ n \in Page /\ b.op \in {"sbrk", "fork", "exec"}
      /\ s.state = "RUNNABLE" /\ Active(s) /\ Space(ram, d)
      /\ IF b.op = "sbrk" THEN ~Makes(b) /\ d = s.pgdir ELSE Makes(b)
      /\ b.op = "fork" => b.then = "copied" /\ Walk(ram, s.pgdir, n).frame # 0 /\ b.to = s.sz
  BY <1>0, AtPage
<1>2. b \in CallRecords /\ CallGood(ram, s, b)
  BY SlotIs
<1>3. /\ h # 0 /\ ram.frame[h] \in Contents /\ n < Pages(b.to) /\ Has(ram, d, n)
      /\ b.then \in {"grown", "copied", "load", "args"} /\ b.then \in Phases(b.op) /\ b.op # "none"
  BY <1>0, <1>2 DEF CallGood, InLoop, Phase
<1>4. n \in Nat /\ Pages(b.to) \in Nat /\ b.to \in Nat
  <2>1. b.to \in Nat
    BY <1>2, RecordIs
  <2> QED  BY <1>1, <2>1, PageIs, PagesAre
<1>5. h \in Frame /\ h \notin Range(ram.free) /\ own[h] = <<"mem", p>>
  BY <1>3, FreeIs
<1>6. \A f \in Own(ram, d) : f \in Frame /\ f \notin Range(ram.free)
                             /\ own[f] = IF b.op = "sbrk" THEN <<"of", p>> ELSE <<"new", p>>
  BY <1>1, FreeIs
<1>7. h \notin Own(ram, d)
  BY <1>5, <1>6
<1>8. /\ Ram(r2) /\ Space(r2, d) /\ Walk(r2, d, n) = pte
      /\ \A m \in Page : m # n => Walk(r2, d, m) = Walk(ram, d, m)
      /\ \A f \in Frame : f \notin {d} \cup TablesOf(ram, d) /\ f \notin Range(ram.free) => r2.frame[f] = ram.frame[f]
  BY DEF Maps
<1>9. pte.frame = h /\ pte.user = user
  OBVIOUS
<1> HIDE DEF pte
<1>10. {d} \cup TablesOf(ram, d) \subseteq Own(ram, d) /\ PagesOf(ram, d) \subseteq Own(ram, d)
  BY <1>1, OwnFrames
<1>11. r2.frame[h] = ram.frame[h]
  BY <1>5, <1>7, <1>8, <1>10
<1>12. ASSUME NEW m \in Page, Walk(ram, d, m).frame # 0
       PROVE  r2.frame[Walk(ram, d, m).frame] = ram.frame[Walk(ram, d, m).frame]
  <2>1. Walk(ram, d, m).frame \in PagesOf(ram, d)
    BY <1>1, <1>12, WalkIs
  <2>2. Walk(ram, d, m).frame \notin {d} \cup TablesOf(ram, d)
    BY <1>1, <2>1 DEF Space, Treelike
  <2> QED  BY <1>6, <1>8, <1>10, <2>1, <2>2
<1>13. ASSUME b.op # "sbrk" PROVE Kept(ram, r2, s.pgdir)
  <2>1. Space(ram, s.pgdir) /\ \A f \in Own(ram, s.pgdir) : f \in Frame /\ f \notin Range(ram.free) /\ own[f] = <<"of", p>>
    BY <1>1, FreeIs
  <2>2. \A f \in Own(ram, s.pgdir) : f \notin Own(ram, d)
    BY <1>6, <1>13, <2>1
  <2>3. \A f \in Own(ram, s.pgdir) : r2.frame[f] = ram.frame[f]
    BY <1>8, <1>10, <2>1, <2>2
  <2> QED  BY <2>1, <2>3, SpaceKept
<1>14. Has(r2, d, n + 1)
  <2> SUFFICES ASSUME NEW m \in Page PROVE Walk(r2, d, m).frame # 0 <=> m < n + 1
    BY DEF Has
  <2>1. m \in Nat
    BY PageIs
  <2>2. CASE m = n
    BY <1>3, <1>4, <1>8, <1>9, <2>2
  <2>3. CASE m # n
    BY <1>3, <1>4, <1>8, <2>1, <2>3 DEF Has
  <2> QED  BY <2>2, <2>3
<1>15. /\ ~(c.n < Pages(c.to)) => n + 1 = Pages(b.to)
       /\ c.at \in {"page", "grown", "copied", "load", "args"}
       /\ c.at # "page" => c.at = b.then /\ ~Loops(c)
       /\ c.at = "page" => c.n < Pages(c.to) /\ Loops(c)
       /\ Phase(c) = b.then /\ Phase(b) = b.then
  BY <1>0, <1>3, <1>4 DEF Loops, Phase
<1>16. (Makes(c) <=> Makes(b))
  BY DEF Makes
<1>17. Slotted(r2, s, c)
  <2>1. CASE b.op = "sbrk"
    BY <1>1, <1>2, <1>8, <2>1 DEF CallGood, Slotted
  <2>2. CASE b.op # "sbrk"
    BY <1>2, <1>13, <2>2, SlottedKept DEF CallGood
  <2> QED  BY <2>1, <2>2
<1>18. InLoop(r2, c)
  BY <1>3, <1>14, <1>15 DEF InLoop
<1>19. Making(r2, c)
  BY <1>1, <1>8, <1>15 DEF Making, Makes
<1>20. Enlarging(r2, c, s)
  <2> SUFFICES ASSUME c.op = "sbrk" PROVE Enlarging(r2, c, s)
    BY DEF Enlarging
  <2>1. /\ d = s.pgdir /\ b.from = s.sz /\ b.from <= b.to /\ Pages(b.from) <= n /\ ram.frame[h] = ZeroPage
        /\ \A m \in Page : m >= Pages(b.from) /\ Walk(ram, d, m).frame # 0 =>
             Walk(ram, d, m).user /\ ram.frame[Walk(ram, d, m).frame] = ZeroPage
    BY <1>0, <1>2 DEF CallGood, Enlarging
  <2>2. user
    OBVIOUS
  <2>3. ASSUME NEW m \in Page, m >= Pages(b.from), Walk(r2, d, m).frame # 0
        PROVE  Walk(r2, d, m).user /\ r2.frame[Walk(r2, d, m).frame] = ZeroPage
    <3>1. CASE m = n
      BY <1>8, <1>9, <1>11, <2>1, <2>2, <3>1
    <3>2. CASE m # n
      BY <1>8, <1>12, <2>1, <2>3, <3>2
    <3> QED  BY <3>1, <3>2
  <2>4. Pages(c.from) <= c.n
    <3>1. s.sz \in Nat /\ Pages(b.from) \in Nat
      BY <2>1, SlotIs, ProcIs, PagesAre
    <3> QED  BY <1>4, <2>1, <3>1
  <2> QED  BY <1>14, <1>15, <2>1, <2>3, <2>4 DEF Enlarging
<1>21. Copying(r2, c, s)
  <2> SUFFICES ASSUME c.op = "fork" PROVE Copying(r2, c, s)
    BY DEF Copying
  <2>1. /\ Walk(ram, s.pgdir, n).frame # 0 /\ b.to = s.sz /\ ram.frame[h] = ram.frame[Walk(ram, s.pgdir, n).frame]
        /\ \A m \in Page : Walk(ram, d, m).frame # 0 => SamePage(ram, d, s.pgdir, m)
    BY <1>1, <1>2, <1>15 DEF CallGood, Copying
  <2>2. Kept(ram, r2, s.pgdir)
    BY <1>13
  <2>3. ASSUME NEW m \in Page, Walk(r2, d, m).frame # 0 PROVE SamePage(r2, d, s.pgdir, m)
    <3>1. CASE m = n
      <4>1. user = Walk(ram, s.pgdir, n).user
        <5>1. Walk(ram, s.pgdir, n) \in Pte
          BY <1>1, <1>2, WalkIs DEF CallGood, Slotted
        <5>2. Walk(ram, s.pgdir, n).user \in BOOLEAN
          BY <5>1 DEF Pte
        <5> QED  BY <5>2
      <4>2. Walk(r2, s.pgdir, n) = Walk(ram, s.pgdir, n)
        BY <1>1, <2>2 DEF Kept
      <4>3. r2.frame[Walk(ram, s.pgdir, n).frame] = ram.frame[Walk(ram, s.pgdir, n).frame]
        BY <1>1, <2>2, Zenon DEF Kept
      <4> QED  BY <1>1, <1>8, <1>9, <1>11, <2>1, <3>1, <4>1, <4>2, <4>3 DEF SamePage
    <3>2. CASE m # n
      <4>1. Walk(r2, d, m) = Walk(ram, d, m) /\ Walk(ram, d, m).frame # 0
        BY <1>8, <2>3, <3>2
      <4>2. SamePage(ram, d, s.pgdir, m) /\ Walk(r2, s.pgdir, m) = Walk(ram, s.pgdir, m)
        BY <2>1, <2>2, <4>1, Zenon DEF Kept
      <4>3. r2.frame[Walk(ram, d, m).frame] = ram.frame[Walk(ram, d, m).frame]
        BY <1>12, <4>1
      <4>4. r2.frame[Walk(ram, s.pgdir, m).frame] = ram.frame[Walk(ram, s.pgdir, m).frame]
        BY <2>2, <4>2, Zenon DEF SamePage, Kept
      <4> QED  BY <4>1, <4>2, <4>3, <4>4 DEF SamePage
    <3> QED  BY <3>1, <3>2, Zenon
  <2> QED  BY <1>1, <1>14, <1>15, <2>1, <2>3 DEF Copying
<1>22. Loading(r2, c)
  <2> SUFFICES ASSUME c.op = "exec" PROVE Loading(r2, c)
    BY DEF Loading
  <2> DEFINE k == IF b.then = "load" THEN b.seg ELSE b.seg - 1
             text == TextOf(b.image, b.seg - 1)
  <2>1. b.then \in {"load", "args"}
    BY <1>3 DEF Phases
  <2>2. /\ b.image \in Images /\ b.args \in Arguments /\ Sized(b, k) /\ b.to = b.sz
        /\ \A j \in 1 .. b.seg - 1 : EndOf(b.image[j]) <= n * PGSIZE
        /\ TextLoaded(ram, d, text) /\ ram.frame[h] = ZeroPage
    BY <1>0, <1>2, <1>15, <2>1 DEF CallGood, Loading
  <2>3. Sized(c, k)
    BY <1>15, <2>2 DEF Sized
  <2>4. b.seg \in Nat /\ b.seg > 0 /\ b.image \in Segments
    BY <1>2, RecordIs
  <2>5. /\ Len(b.image) \in Nat /\ b.seg - 1 \in 0 .. Len(b.image)
        /\ \A j \in 1 .. b.seg - 1 : /\ b.image[j].filesz <= b.image[j].memsz
                                     /\ b.image[j].vaddr \in Nat /\ b.image[j].filesz \in Nat /\ b.image[j].memsz \in Nat
    <3>1. k \in 0 .. Len(b.image) /\ \A j \in 1 .. k : b.image[j].filesz <= b.image[j].memsz
      BY <2>2 DEF Sized
    <3>2. /\ Len(b.image) \in Nat /\ UINT \in Nat
          /\ \A j \in 1 .. Len(b.image) : /\ b.image[j].vaddr \in 0 .. UINT - 1 /\ b.image[j].memsz \in 0 .. UINT - 1
                                          /\ b.image[j].filesz \in 0 .. UINT - 1
      BY <2>4, SegmentsAre, Geometry
    <3>3. b.seg - 1 <= k
      BY <2>4
    <3> HIDE DEF k
    <3>4. b.seg - 1 \in 0 .. Len(b.image) /\ \A j \in 1 .. b.seg - 1 : j \in 1 .. k /\ j \in 1 .. Len(b.image)
      BY <2>4, <3>1, <3>2, <3>3
    <3> QED  BY <3>1, <3>2, <3>4
  <2>6. ASSUME NEW i \in 0 .. PGSIZE - 1 PROVE n * PGSIZE + i \notin text
    <3>1. ASSUME NEW j \in 1 .. b.seg - 1, n * PGSIZE + i < b.image[j].vaddr + b.image[j].filesz PROVE FALSE
      <4>1. n * PGSIZE \in Nat /\ i \in Nat
        BY <1>4, Sizes
      <4>2. b.image[j].vaddr + b.image[j].memsz <= n * PGSIZE
        BY <2>2 DEF EndOf
      <4>3. /\ b.image[j].vaddr \in Nat /\ b.image[j].filesz \in Nat /\ b.image[j].memsz \in Nat
            /\ b.image[j].filesz <= b.image[j].memsz
        BY <2>5
      <4>4. ASSUME NEW x \in Nat, NEW v \in Nat, NEW f \in Nat, NEW m \in Nat, f <= m, v + m <= x, x + i < v + f
            PROVE  FALSE
        BY <4>1, <4>4
      <4> QED  BY <3>1, <4>1, <4>2, <4>3, <4>4
    <3> QED  BY <3>1 DEF TextOf
  <2>7. user
    OBVIOUS
  <2> HIDE DEF text, k
  <2>8. TextLoaded(r2, d, text)
    <3> SUFFICES ASSUME NEW m \in Page, Walk(r2, d, m).frame # 0
                 PROVE  /\ Walk(r2, d, m).user
                        /\ \A i \in 0 .. PGSIZE - 1 :
                             r2.frame[Walk(r2, d, m).frame][i] = IF m * PGSIZE + i \in text THEN "text" ELSE "zero"
      BY DEF TextLoaded
    <3>1. CASE m = n
      <4>1. Walk(r2, d, m).user /\ r2.frame[Walk(r2, d, m).frame] = ZeroPage
        BY <1>8, <1>9, <1>11, <2>2, <2>7, <3>1
      <4>2. \A i \in 0 .. PGSIZE - 1 : ZeroPage[i] = "zero"
        BY DEF ZeroPage
      <4> QED  BY <2>6, <3>1, <4>1, <4>2
    <3>2. CASE m # n
      <4>1. Walk(r2, d, m) = Walk(ram, d, m) /\ r2.frame[Walk(r2, d, m).frame] = ram.frame[Walk(ram, d, m).frame]
        BY <1>8, <1>12, <3>2
      <4> QED  BY <2>2, <4>1 DEF TextLoaded
    <3> QED  BY <3>1, <3>2
  <2>9. c.at = "page" => \A j \in 1 .. c.seg - 1 : EndOf(c.image[j]) <= c.n * PGSIZE
    <3>1. n * PGSIZE \in Nat /\ (n + 1) * PGSIZE \in Nat /\ n * PGSIZE <= (n + 1) * PGSIZE
      BY <1>4, Sizes, Product
    <3>2. \A j \in 1 .. b.seg - 1 : EndOf(b.image[j]) \in Nat
      BY <2>5 DEF EndOf
    <3> QED  BY <2>2, <3>1, <3>2
  <2>10. Phase(c) = b.then /\ c.at # "map" /\ (Loops(c) => c.at = "page") /\ (~Loops(c) => c.n = Pages(c.sz))
    BY <1>15, <2>2
  <2>11. Sized(c, IF Phase(c) = "load" THEN c.seg ELSE c.seg - 1)
    BY <2>3, <2>10 DEF k
  <2> QED  BY <1>14, <2>1, <2>2, <2>8, <2>9, <2>10, <2>11 DEF Loading, text
<1> QED  BY <1>13, <1>16, <1>17, <1>18, <1>19, <1>20, <1>21, <1>22 DEF CallGood

\* The frame that the loops have taken becomes a page of the space.
LEMMA PageMapped ==
  ASSUME NEW own, Sound(own, ram, proc, call), NEW p \in Slot, MapPage(p), CanMap(ram, call[p].dir, call[p].n)
  PROVE  /\ panicked' = panicked /\ \E own2 : Sound(own2, ram', proc', call')
         /\ proc' = proc /\ \E new, pte : Maps(ram, ram', call[p].dir, call[p].n, pte, new)
<1> DEFINE b == call[p]
           s == proc[p]
           d == call[p].dir
           n == call[p].n
           h == call[p].mem
           user == b.op = "fork" => Walk(ram, s.pgdir, n).user
           pte == [frame |-> h, user |-> user]
           c == [b EXCEPT !.mem = 0, !.n = n + 1, !.at = IF (n + 1) * PGSIZE < b.to THEN "page" ELSE b.then]
           to == IF b.op = "sbrk" THEN <<"of", p>> ELSE <<"new", p>>
           from == {Nobody, <<"mem", p>>}
<1>0. b.at = "map" /\ Loops(b)
  BY DEF MapPage, At, Loops
<1>1. /\ n \in Page /\ b.op \in {"sbrk", "fork", "exec"}
      /\ s.state = "RUNNABLE" /\ Active(s) /\ Space(ram, d)
      /\ IF b.op = "sbrk" THEN ~Makes(b) /\ d = s.pgdir ELSE Makes(b)
  BY <1>0, AtPage
<1>2. Ram(ram) /\ b \in CallRecords /\ CallGood(ram, s, b) /\ call \in [Slot -> CallRecords]
  BY SlotIs
<1>3. /\ h # 0 /\ ram.frame[h] \in Contents /\ n < Pages(b.to) /\ Has(ram, d, n) /\ b.then \in Labels
  <2>1. b.then \in {"grown", "copied", "load", "args"}
    BY <1>0, <1>2 DEF CallGood, InLoop
  <2> QED  BY <1>0, <1>2, <2>1 DEF CallGood, InLoop, Labels
<1>4. n \in Nat /\ Walk(ram, d, n).frame = 0 /\ b.to \in Nat
  BY <1>1, <1>2, <1>3, PageIs, RecordIs DEF Has
<1>5. h \in Frame /\ h \notin Range(ram.free) /\ own[h] = <<"mem", p>> /\ Range(ram.free) \subseteq Frame
      /\ \A f \in Range(ram.free) : own[f] = Nobody
  BY <1>3, FreeIs
<1>6. \A f \in Own(ram, d) : f \in Frame /\ f \notin Range(ram.free) /\ own[f] = to
  BY <1>1, FreeIs
<1>7. h \notin Own(ram, d) /\ to # <<"mem", p>> /\ to # Nobody
  <2>1. <<"of", p>> # <<"mem", p>> /\ <<"new", p>> # <<"mem", p>> /\ <<"of", p>> # Nobody /\ <<"new", p>> # Nobody
    BY OwnersAre
  <2>2. to # <<"mem", p>> /\ to # Nobody
    BY <2>1
  <2> HIDE DEF to
  <2> QED  BY <1>5, <1>6, <2>2
<1>8. /\ proc' = proc /\ panicked' = panicked
      /\ ram' = Mapped(ram, d, n, pte) /\ call' = [call EXCEPT ![p] = c]
  BY <1>0, <1>2, <1>4 DEF MapPage
<1>9. /\ c \in CallRecords /\ c.op = b.op /\ c.dir = d /\ c.mem = 0 /\ c.n = n + 1
      /\ c.from = b.from /\ c.to = b.to /\ c.then = b.then /\ c.sz = b.sz
      /\ c.seg = b.seg /\ c.image = b.image /\ c.args = b.args /\ c.child = b.child
      /\ c.at = IF (n + 1) * PGSIZE < b.to THEN "page" ELSE b.then
  <2>1. (IF (n + 1) * PGSIZE < b.to THEN "page" ELSE b.then) \in Labels /\ n + 1 \in Nat
    BY <1>3, <1>4 DEF Labels
  <2> QED  BY <1>2, <2>1 DEF CallRecords
<1>10. c.at = IF c.n < Pages(c.to) THEN "page" ELSE c.then
  <2>1. n + 1 < Pages(b.to) <=> (n + 1) * PGSIZE < b.to
    BY <1>4, PagesAre
  <2> QED  BY <1>9, <2>1
<1> HIDE DEF c
<1>11. user \in BOOLEAN /\ pte \in Pte /\ pte.frame = h
  BY <1>5 DEF Pte
<1> HIDE DEF user
<1>12. PICK new : Maps(ram, ram', d, n, pte, new)
  <2>1. Range(ram.free) \cap (Own(ram, d) \cup {pte.frame}) = {} /\ pte.frame \in Frame \ Own(ram, d)
    BY <1>5, <1>6, <1>7, <1>11
  <2> HIDE DEF pte
  <2> QED  BY <1>1, <1>2, <1>3, <1>4, <1>8, <1>11, <2>1, MapsPage
<1>13. /\ CallGood(ram', s, c) /\ (Makes(c) <=> Makes(b))
       /\ (b.op # "sbrk" => Kept(ram, ram', s.pgdir))
  <2>1. user <=> (b.op = "fork" => Walk(ram, s.pgdir, n).user)
    BY DEF user
  <2> QED  BY <1>0, <1>9, <1>10, <1>11, <1>12, <2>1, PageMore
<1>14. /\ Ram(ram') /\ new \subseteq Range(ram.free) /\ Range(ram'.free) = Range(ram.free) \ new
       /\ Own(ram', d) = Own(ram, d) \cup {h} \cup new
       /\ \A f \in Frame : f \notin {d} \cup TablesOf(ram, d) /\ f \notin Range(ram.free) => ram'.frame[f] = ram.frame[f]
  BY <1>11, <1>12 DEF Maps
<1> DEFINE fs == {h} \cup new
<1>15. /\ to \in Owners /\ from \in SUBSET Owners /\ fs \in SUBSET Frame /\ Near(to, p, p)
       /\ <<"stack", p>> \notin from \cup {to}
  BY <1>5, <1>14, OwnersAre, NearBy
<1>16. /\ \A x \in from : Near(x, p, p)
       /\ \A f \in fs : own[f] \in from
       /\ \A f \in Frame : ram'.frame[f] # ram.frame[f] => Near(own[f], p, p)
  <2>1. \A f \in fs : own[f] \in from
    BY <1>5, <1>14
  <2>2. {d} \cup TablesOf(ram, d) \subseteq Own(ram, d)
    BY <1>1, OwnFrames
  <2>3. \A f \in Frame : ram'.frame[f] # ram.frame[f] => own[f] = to \/ own[f] = Nobody
    BY <1>5, <1>6, <1>14, <2>2
  <2>4. Near(to, p, p) /\ Near(Nobody, p, p) /\ Near(<<"mem", p>>, p, p)
    BY <1>15, NearBy
  <2> HIDE DEF to
  <2> QED  BY <2>1, <2>3, <2>4
<1>17. Goes(Range(ram.free), Range(ram'.free), Nobody, fs, from, to)
  BY <1>5, <1>7, <1>14 DEF Goes
<1>18. Goes({call[p].mem} \ {0}, {c.mem} \ {0}, <<"mem", p>>, fs, from, to)
  BY <1>7, <1>9 DEF Goes
<1>19. Goes(IF Active(proc[p]) THEN Own(ram, proc[p].pgdir) ELSE {},
            IF Active(proc[p]) THEN Own(ram', proc[p].pgdir) ELSE {}, <<"of", p>>, fs, from, to)
  <2>1. CASE b.op = "sbrk"
    BY <1>1, <1>14, <2>1 DEF Goes
  <2>2. CASE b.op # "sbrk"
    <3>1. <<"of", p>> # to /\ <<"of", p>> \notin from
      BY <2>2, OwnersAre
    <3> QED  BY <1>13, <2>2, <3>1 DEF Goes, Kept
  <2> QED  BY <2>1, <2>2
<1>20. Goes(IF Makes(call[p]) THEN Own(ram, call[p].dir) ELSE {},
            IF Makes(c) THEN Own(ram', c.dir) ELSE {}, <<"new", p>>, fs, from, to)
  <2>1. CASE b.op = "sbrk"
    <3>1. <<"new", p>> # to /\ <<"new", p>> \notin from /\ ~Makes(b) /\ ~Makes(c)
      BY <1>1, <1>13, <2>1, OwnersAre
    <3> QED  BY <3>1 DEF Goes
  <2>2. CASE b.op # "sbrk"
    <3>1. Makes(b) /\ Makes(c) /\ to = <<"new", p>>
      BY <1>1, <1>13, <2>2
    <3> QED  BY <1>9, <1>14, <3>1 DEF Goes
  <2> QED  BY <2>1, <2>2
<1>21. /\ c.op = "fork" => c.op = call[p].op /\ c.child = call[p].child
       /\ c.op = "fork" => c.at # "kstack" /\ call[p].at # "kstack"
       /\ proc[p].state # "EMBRYO"
  <2>1. b.then # "kstack"
    BY <1>0, <1>2 DEF CallGood, InLoop
  <2> QED  BY <1>0, <1>1, <1>9, <2>1
<1> HIDE DEF fs, from, to
<1>22. Sound(Moved(own, fs, to), ram', proc, [call EXCEPT ![p] = c])
  BY <1>9, <1>13, <1>14, <1>15, <1>16, <1>17, <1>18, <1>19, <1>20, <1>21, CallGoes
<1> QED  BY <1>8, <1>12, <1>22

\* Where exec is between two loops: its space has all the pages of its size, with the words of
\* the segments that are loaded.
LEMMA ExecIs ==
  ASSUME NEW own, Sound(own, ram, proc, call), NEW p \in Slot, call[p].at \in {"segment", "load", "args"}
  PROVE  LET c == call[p]
         IN /\ c.op = "exec" /\ c.mem = 0 /\ Makes(c) /\ Space(ram, c.dir) /\ c.dir \in Frame
            /\ proc[p].state = "RUNNABLE" /\ Has(ram, c.dir, Pages(c.sz))
            /\ c.image \in Images /\ c.args \in Arguments /\ c.image \in Segments
            /\ c.sz \in Nat /\ c.sz <= KERNBASE /\ c.seg \in Nat /\ c.seg > 0
            /\ Sized(c, IF c.at = "load" THEN c.seg ELSE c.seg - 1)
            /\ TextLoaded(ram, c.dir, TextOf(c.image, c.seg - 1))
<1> DEFINE c == call[p]
<1>1. c \in CallRecords /\ CallGood(ram, proc[p], c)
  BY SlotIs
<1>2. ~Loops(c) /\ Phase(c) = c.at
  BY DEF Loops, Phase
<1>3. c.op = "exec" /\ c.mem = 0
  BY <1>1, <1>2, RecordIs DEF CallGood, InLoop, Phases, Ops
<1>4. Makes(c) /\ Space(ram, c.dir) /\ c.dir \in Frame
  BY <1>1, <1>3 DEF CallGood, Making, Makes, Space, Typed
<1>5. /\ Has(ram, c.dir, Pages(c.sz)) /\ c.image \in Images /\ c.args \in Arguments
      /\ Sized(c, IF c.at = "load" THEN c.seg ELSE c.seg - 1)
      /\ TextLoaded(ram, c.dir, TextOf(c.image, c.seg - 1))
  BY <1>1, <1>2, <1>3 DEF CallGood, Loading
<1>6. proc[p].state = "RUNNABLE"
  BY <1>1, <1>3 DEF CallGood, Slotted
<1> QED  BY <1>1, <1>3, <1>4, <1>5, <1>6, RecordIs

\* The ends of segments are numbers.
LEMMA EndsAre ==
  ASSUME NEW image \in Segments
  PROVE  Len(image) \in Nat /\ \A k \in 0 .. Len(image) : \A j \in 1 .. k : EndOf(image[j]) \in Nat
<1>1. /\ Len(image) \in Nat /\ UINT \in Nat
      /\ \A j \in 1 .. Len(image) : image[j].vaddr \in 0 .. UINT - 1 /\ image[j].memsz \in 0 .. UINT - 1
  BY SegmentsAre, Geometry
<1>2. \A j \in 1 .. Len(image) : EndOf(image[j]) \in Nat
  BY <1>1 DEF EndOf
<1> QED  BY <1>1, <1>2

\* exec grows its space for a segment, or for the stack.
LEMMA ExecGrows ==
  ASSUME NEW own, Sound(own, ram, proc, call), NEW p \in Slot, call[p].at = "segment",
         NEW newsz \in 0 .. KERNBASE, call[p].sz <= newsz, NEW then \in {"load", "args"},
         LET c == call[p]
         IN IF then = "load" THEN /\ c.seg <= Len(c.image) /\ c.image[c.seg].filesz <= c.image[c.seg].memsz
                                  /\ Highest(c.image, c.seg, newsz)
            ELSE c.seg > Len(c.image) /\ newsz = PGROUNDUP(c.sz) + 2 * PGSIZE
  PROVE  \E own2 : Sound(own2, ram, proc,
           [call EXCEPT ![p] = [Growing(call[p], PGROUNDUP(call[p].sz), newsz, then) EXCEPT !.sz = newsz]])
<1> DEFINE b == call[p]
           from == PGROUNDUP(b.sz)
           g == Growing(b, from, newsz, then)
           c == [g EXCEPT !.sz = newsz]
           d == b.dir
<1>1. /\ b.op = "exec" /\ b.mem = 0 /\ Makes(b) /\ Space(ram, d) /\ d \in Frame
      /\ proc[p].state = "RUNNABLE" /\ Has(ram, d, Pages(b.sz))
      /\ b.image \in Images /\ b.args \in Arguments /\ b.image \in Segments
      /\ b.sz \in Nat /\ b.sz <= KERNBASE /\ b.seg \in Nat /\ b.seg > 0
      /\ Sized(b, b.seg - 1)
      /\ TextLoaded(ram, d, TextOf(b.image, b.seg - 1))
  BY ExecIs
<1>2. b \in CallRecords /\ CallGood(ram, proc[p], b)
  BY SlotIs
<1>3. from \in Nat /\ from = Pages(b.sz) * PGSIZE /\ Pages(b.sz) \in Nat /\ b.sz <= from
  BY <1>1, PagesAre DEF PGROUNDUP
<1>4. Pages(from) = Pages(b.sz)
  BY <1>3, PagesOfPages
<1>5. newsz \in Nat /\ Pages(newsz) \in Nat /\ Pages(b.sz) <= Pages(newsz)
  <2>1. newsz \in Nat
    BY Sizes
  <2>2. Pages(newsz) \in Nat
    BY <2>1, PagesAre
  <2> QED  BY <1>1, <2>1, <2>2, PagesGrow
<1>6. then \in Labels
  BY DEF Labels
<1> HIDE DEF from
<1>7. Begun(g, b, from, newsz, then)
  BY <1>2, <1>3, <1>6, GrowingGives
<1> HIDE DEF g
<1>8. /\ g \in CallRecords /\ g.to = newsz /\ g.n = Pages(b.sz) /\ g.then = then
      /\ g.op = "exec" /\ g.dir = d /\ g.mem = 0 /\ g.seg = b.seg
      /\ g.image = b.image /\ g.args = b.args /\ g.child = b.child
      /\ Pages(b.sz) < Pages(newsz) => g.at = "page"
      /\ ~(Pages(b.sz) < Pages(newsz)) => g.at = then
  BY <1>1, <1>4, <1>7 DEF Begun
<1>9. /\ c \in CallRecords /\ c.to = newsz /\ c.n = Pages(b.sz) /\ c.then = then /\ c.sz = newsz
      /\ c.op = "exec" /\ c.dir = d /\ c.mem = 0 /\ c.seg = b.seg
      /\ c.image = b.image /\ c.args = b.args /\ c.child = b.child
      /\ Pages(b.sz) < Pages(newsz) => c.at = "page"
      /\ ~(Pages(b.sz) < Pages(newsz)) => c.at = then
  <2>1. g \in CallRecords /\ newsz \in 0 .. KERNBASE
    BY <1>8
  <2>2. c \in CallRecords
    BY <2>1 DEF CallRecords
  <2>3. /\ c.to = g.to /\ c.n = g.n /\ c.then = g.then /\ c.sz = newsz /\ c.op = g.op /\ c.dir = g.dir
        /\ c.mem = g.mem /\ c.seg = g.seg /\ c.image = g.image /\ c.args = g.args
        /\ c.child = g.child /\ c.at = g.at
    BY <2>1 DEF CallRecords
  <2> HIDE DEF c
  <2> QED  BY <1>8, <2>2, <2>3
<1> HIDE DEF c
<1>10. Phase(c) = then /\ (Loops(c) <=> Pages(b.sz) < Pages(newsz))
       /\ (~Loops(c) => Pages(newsz) = Pages(b.sz)) /\ c.at # "map" /\ c.at \notin {"kstack", "pgdir", "kmap"}
  BY <1>3, <1>5, <1>9 DEF Phase, Loops
<1>11. CallGood(ram, proc[p], c)
  <2>1. Slotted(ram, proc[p], c)
    BY <1>1, <1>2, <1>9 DEF CallGood, Slotted
  <2>2. InLoop(ram, c)
    BY <1>1, <1>9, <1>10 DEF InLoop, Phases
  <2>3. Making(ram, c)
    BY <1>1, <1>9, <1>10, FrameIs DEF Making
  <2>4. Enlarging(ram, c, proc[p]) /\ Copying(ram, c, proc[p])
    BY <1>9 DEF Enlarging, Copying
  <2>5. Loading(ram, c)
    <3>1. /\ b.seg - 1 \in 0 .. Len(b.image) /\ Highest(b.image, b.seg - 1, b.sz)
          /\ \A j \in 1 .. b.seg - 1 : b.image[j].filesz <= b.image[j].memsz
      BY <1>1 DEF Sized, Phase, Loops
    <3>2. Len(b.image) \in Nat
      BY <1>1, SegmentsAre
    <3>3. Sized(c, IF then = "load" THEN b.seg ELSE b.seg - 1)
      <4>1. CASE then = "load"
        <5>1. b.seg \in 0 .. Len(b.image) /\ \A j \in 1 .. b.seg : j = b.seg \/ j \in 1 .. b.seg - 1
          BY <1>1, <3>2, <4>1
        <5> QED  BY <1>9, <1>10, <3>1, <4>1, <5>1 DEF Sized
      <4>2. CASE then = "args"
        <5>1. b.seg - 1 = Len(b.image) /\ b.sz \in 0 .. KERNBASE
          BY <1>1, <3>1, <3>2, <4>2, Sizes
        <5> QED  BY <1>9, <1>10, <3>1, <4>2, <5>1 DEF Sized
      <4> QED  BY <4>1, <4>2
    <3>4. \A j \in 1 .. b.seg - 1 : EndOf(b.image[j]) <= c.n * PGSIZE
      <4> SUFFICES ASSUME NEW j \in 1 .. b.seg - 1 PROVE EndOf(b.image[j]) <= c.n * PGSIZE
        OBVIOUS
      <4>1. EndOf(b.image[j]) <= b.sz
        BY <3>1 DEF Highest
      <4>2. EndOf(b.image[j]) \in Nat
        BY <1>1, <3>1, <3>2, EndsAre
      <4> QED  BY <1>1, <1>3, <1>9, <4>1, <4>2
    <3> QED  BY <1>1, <1>9, <1>10, <3>3, <3>4 DEF Loading
  <2> QED  BY <2>1, <2>2, <2>3, <2>4, <2>5 DEF CallGood
<1>12. /\ c.mem = call[p].mem /\ proc[p].state # "EMBRYO"
       /\ Makes(c) /\ (Makes(c) <=> Makes(call[p])) /\ (Makes(c) => c.dir = call[p].dir)
  BY <1>1, <1>9, FrameIs DEF Makes
<1>13. /\ c.op = "fork" => c.op = call[p].op /\ c.child = call[p].child
       /\ c.op = "fork" => c.at # "kstack" /\ call[p].at # "kstack"
  BY <1>9
<1>14. \E own2 : Sound(own2, ram, proc, [call EXCEPT ![p] = c])
  BY <1>9, <1>11, <1>12, <1>13, CallTurns
<1> QED  BY <1>14 DEF c, g, from

\* exec goes on with the next segment, or with the stack.
LEMMA SegmentGrows ==
  ASSUME NEW own, Sound(own, ram, proc, call), NEW p \in Slot, ExecSegment(p), ~GiveUp(p)
  PROVE  \E own2 : Sound(own2, ram', proc', call')
<1> DEFINE b == call[p]
           s == b.image[b.seg]
           top == (s.vaddr + s.memsz) % UINT
           stack == PGROUNDUP(b.sz) + 2 * PGSIZE
           Next2(newsz, then) == [call EXCEPT ![p] = [Growing(b, PGROUNDUP(b.sz), newsz, then) EXCEPT !.sz = newsz]]
<1>1. b.at = "segment"
  BY Zenon DEF ExecSegment, At
<1>2. /\ b.image \in Segments /\ b.sz \in Nat /\ b.sz <= KERNBASE /\ b.seg \in Nat /\ b.seg > 0
      /\ Sized(b, b.seg - 1)
  BY <1>1, ExecIs
<1>3. /\ Len(b.image) \in Nat
      /\ \A j \in 1 .. Len(b.image) : /\ b.image[j].vaddr \in 0 .. UINT - 1 /\ b.image[j].memsz \in 0 .. UINT - 1
                                      /\ b.image[j].filesz \in 0 .. UINT - 1
  BY <1>2, SegmentsAre
<1>4. CASE b.seg > Len(b.image)
  <2>1. ~(stack >= KERNBASE) /\ call' = Next2(stack, "args") /\ ram' = ram /\ proc' = proc
    BY <1>4, Zenon DEF ExecSegment
  <2>2. PGROUNDUP(b.sz) \in Nat /\ b.sz <= PGROUNDUP(b.sz)
    BY <1>2, PagesAre
  <2>3. stack \in 0 .. KERNBASE /\ b.sz <= stack
    BY <1>2, <2>1, <2>2, Sizes
  <2> HIDE DEF stack
  <2>4. \E own2 : Sound(own2, ram, proc, Next2(stack, "args"))
    BY <1>1, <1>4, <2>3, ExecGrows DEF stack
  <2> QED  BY <2>1, <2>4
<1>5. CASE ~(b.seg > Len(b.image))
  <2> DEFINE newsz == IF top < b.sz THEN b.sz ELSE top
  <2>1. /\ ~(s.memsz < s.filesz) /\ ~(top < s.vaddr) /\ ~(top >= KERNBASE)
        /\ call' = Next2(newsz, "load") /\ ram' = ram /\ proc' = proc
    BY <1>5, Zenon DEF ExecSegment
  <2>2. b.seg \in 1 .. Len(b.image) /\ s.vaddr \in 0 .. UINT - 1 /\ s.memsz \in 0 .. UINT - 1 /\ s.filesz \in 0 .. UINT - 1
    BY <1>2, <1>3, <1>5
  <2>3. top = s.vaddr + s.memsz
    <3> DEFINE v == s.vaddr
               m == s.memsz
    <3>1. v \in 0 .. UINT - 1 /\ m \in 0 .. UINT - 1 /\ top = (v + m) % UINT /\ ~(top < v) /\ UINT \in Nat
      BY <2>1, <2>2, Geometry, Zenon
    <3> HIDE DEF v, m, top
    <3>2. CASE v + m < UINT
      <4> DEFINE a == v + m
      <4>1. a \in 0 .. UINT - 1 /\ 0 \in Int /\ UINT * 0 + a = a
        BY <3>1, <3>2
      <4> HIDE DEF a
      <4>2. (UINT * 0 + a) % UINT = a
        BY <3>1, <4>1, Quotient
      <4> QED  BY <3>1, <4>1, <4>2 DEF a, v, m
    <3>3. CASE ~(v + m < UINT)
      <4> DEFINE a == v + m - UINT
      <4>1. a \in 0 .. UINT - 1 /\ 1 \in Int /\ UINT * 1 + a = v + m /\ a < v
        BY <3>1, <3>3
      <4> HIDE DEF a
      <4>2. (UINT * 1 + a) % UINT = a
        BY <3>1, <4>1, Quotient
      <4> QED  BY <3>1, <4>1, <4>2
    <3> QED  BY <3>2, <3>3
  <2> HIDE DEF top
  <2>4. newsz \in 0 .. KERNBASE /\ b.sz <= newsz /\ top \in Nat /\ top <= newsz
    <3>1. top \in Nat
      <4> DEFINE v == s.vaddr
                 m == s.memsz
      <4>1. v \in 0 .. UINT - 1 /\ m \in 0 .. UINT - 1 /\ top = v + m /\ UINT \in Nat
        BY <2>2, <2>3, Geometry
      <4> HIDE DEF v, m
      <4> QED  BY <4>1
    <3> QED  BY <1>2, <2>1, <3>1, Sizes
  <2>5. s.filesz <= s.memsz /\ b.seg <= Len(b.image)
    <3> DEFINE x == s.filesz
               y == s.memsz
    <3>1. x \in 0 .. UINT - 1 /\ y \in 0 .. UINT - 1 /\ ~(y < x) /\ UINT \in Nat
      BY <2>1, <2>2, Geometry
    <3> HIDE DEF x, y
    <3>2. x <= y
      BY <3>1
    <3> QED  BY <1>2, <1>3, <1>5, <3>2 DEF x, y
  <2>6. Highest(b.image, b.seg, newsz)
    <3>1. Highest(b.image, b.seg - 1, b.sz)
      BY <1>1, <1>2 DEF Sized, Phase, Loops
    <3>2. EndOf(s) = top /\ s = b.image[b.seg]
      BY <2>3 DEF EndOf
    <3>3. \A j \in 1 .. b.seg : j = b.seg \/ j \in 1 .. b.seg - 1
      BY <1>2
    <3>4. \A j \in 1 .. b.seg - 1 : EndOf(b.image[j]) \in Nat /\ j \in 1 .. b.seg
      <4>1. b.seg - 1 \in 0 .. Len(b.image)
        BY <1>2, <1>3, <2>5
      <4>2. \A j \in 1 .. b.seg - 1 : EndOf(b.image[j]) \in Nat
        BY <1>2, <4>1, EndsAre
      <4> QED  BY <1>2, <4>2
    <3> HIDE DEF s
    <3>5. \A j \in 1 .. b.seg : EndOf(b.image[j]) <= newsz
      <4> SUFFICES ASSUME NEW j \in 1 .. b.seg PROVE EndOf(b.image[j]) <= newsz
        OBVIOUS
      <4>1. CASE j = b.seg
        BY <2>4, <3>2, <4>1
      <4>2. CASE j \in 1 .. b.seg - 1
        BY <1>2, <2>4, <3>1, <3>4, <4>2 DEF Highest
      <4> QED  BY <3>3, <4>1, <4>2
    <3>6. newsz = 0 \/ \E j \in 1 .. b.seg : EndOf(b.image[j]) = newsz
      <4>1. CASE top < b.sz
        <5>1. b.sz = 0 \/ \E j \in 1 .. b.seg - 1 : EndOf(b.image[j]) = b.sz
          BY <3>1 DEF Highest
        <5> QED  BY <3>4, <4>1, <5>1
      <4>2. CASE ~(top < b.sz)
        <5>1. b.seg \in 1 .. b.seg
          BY <1>2
        <5> QED  BY <3>2, <4>2, <5>1
      <4> QED  BY <4>1, <4>2
    <3> QED  BY <3>5, <3>6 DEF Highest
  <2> HIDE DEF newsz
  <2>7. \E own2 : Sound(own2, ram, proc, Next2(newsz, "load"))
    BY <1>1, <2>4, <2>5, <2>6, ExecGrows
  <2> QED  BY <2>1, <2>7
<1> QED  BY <1>4, <1>5, Zenon

\* exec loads a segment: its words are there, and the others are what they were.
LEMMA SegmentLoaded ==
  ASSUME NEW own, Sound(own, ram, proc, call), NEW p \in Slot, ExecLoad(p), ~GiveUp(p)
  PROVE  /\ panicked' = panicked /\ \E own2 : Sound(own2, ram', proc', call')
         /\ proc' = proc /\ Makes(call[p]) /\ \E words : WordsWritten(ram, ram', call[p].dir, words, "text")
<1> DEFINE b == call[p]
           d == b.dir
           s == b.image[b.seg]
           words == s.vaddr .. s.vaddr + s.filesz - 1
           c == [b EXCEPT !.seg = b.seg + 1, !.at = "segment"]
<1>0. b.at = "load"
  BY DEF ExecLoad, At
<1>1. /\ b.op = "exec" /\ b.mem = 0 /\ Makes(b) /\ Space(ram, d) /\ d \in Frame
      /\ proc[p].state = "RUNNABLE" /\ Has(ram, d, Pages(b.sz))
      /\ b.image \in Images /\ b.args \in Arguments /\ b.image \in Segments
      /\ b.sz \in Nat /\ b.sz <= KERNBASE /\ b.seg \in Nat /\ b.seg > 0
      /\ Sized(b, b.seg) /\ TextLoaded(ram, d, TextOf(b.image, b.seg - 1))
  BY <1>0, ExecIs
<1>2. /\ b \in CallRecords /\ CallGood(ram, proc[p], b) /\ call \in [Slot -> CallRecords] /\ proc \in [Slot -> Procs]
      /\ Ram(ram)
  BY SlotIs
<1>3. /\ b.seg \in 1 .. Len(b.image) /\ s.filesz <= s.memsz /\ s.vaddr + s.memsz <= b.sz
      /\ Highest(b.image, b.seg, b.sz)
  <2>1. /\ b.seg \in 0 .. Len(b.image) /\ \A j \in 1 .. b.seg : b.image[j].filesz <= b.image[j].memsz
        /\ Highest(b.image, b.seg, b.sz)
    BY <1>0, <1>1 DEF Sized, Phase, Loops
  <2>2. b.seg \in 1 .. b.seg
    BY <1>1
  <2>3. EndOf(s) <= b.sz /\ s.filesz <= s.memsz
    BY <2>1, <2>2 DEF Highest
  <2>4. Len(b.image) \in Nat
    BY <1>1, SegmentsAre
  <2> QED  BY <1>1, <2>1, <2>3, <2>4 DEF EndOf
<1>4. s.vaddr \in Nat /\ s.memsz \in Nat /\ s.filesz \in Nat
  <2>1. s.vaddr \in 0 .. UINT - 1 /\ s.memsz \in 0 .. UINT - 1 /\ s.filesz \in 0 .. UINT - 1 /\ UINT \in Nat
    BY <1>1, <1>3, SegmentsAre, Geometry
  <2> HIDE DEF s
  <2> QED  BY <2>1
<1>5. \A a \in words : a \in 0 .. KERNBASE - 1 /\ Walk(ram, d, a \div PGSIZE).frame # 0
  <2> SUFFICES ASSUME NEW a \in words PROVE a \in 0 .. KERNBASE - 1 /\ Walk(ram, d, a \div PGSIZE).frame # 0
    OBVIOUS
  <2>1. a \in Nat /\ a < b.sz
    <3> DEFINE v == s.vaddr
               f == s.filesz
               m == s.memsz
    <3>1. v \in Nat /\ f \in Nat /\ m \in Nat /\ f <= m /\ v + m <= b.sz /\ a \in v .. v + f - 1
      BY <1>3, <1>4
    <3> HIDE DEF v, f, m
    <3> QED  BY <1>1, <3>1
  <2>2. a \in 0 .. KERNBASE - 1
    BY <1>1, <2>1, Sizes
  <2>3. a \div PGSIZE \in Page
    BY <2>2, AddressIs
  <2>4. a \div PGSIZE < Pages(b.sz)
    <3>1. b.sz <= PGROUNDUP(b.sz) /\ PGROUNDUP(b.sz) \in Nat
      BY <1>1, PagesAre
    <3>2. a < PGROUNDUP(b.sz)
      BY <1>1, <2>1, <3>1
    <3> QED  BY <1>1, <2>1, <3>2, PagesAre
  <2> QED  BY <1>1, <2>2, <2>3, <2>4 DEF Has
<1>6. /\ ram' = Written(ram, d, words, "text") /\ proc' = proc /\ panicked' = panicked
      /\ call' = [call EXCEPT ![p] = c]
  BY <1>2, <1>5 DEF ExecLoad
<1>7. WordsWritten(ram, ram', d, words, "text")
  <2>1. words \in SUBSET (0 .. KERNBASE - 1)
    BY <1>5
  <2> HIDE DEF words
  <2> QED  BY <1>1, <1>2, <1>5, <1>6, <2>1, WrittenIs
<1>8. \A a \in Nat : a \in TextOf(b.image, b.seg) <=> (a \in words \/ a \in TextOf(b.image, b.seg - 1))
  <2> SUFFICES ASSUME NEW a \in Nat
               PROVE  a \in TextOf(b.image, b.seg) <=> (a \in words \/ a \in TextOf(b.image, b.seg - 1))
    OBVIOUS
  <2>1. \A j \in 1 .. b.seg : j = b.seg \/ j \in 1 .. b.seg - 1
    BY <1>1
  <2>2. b.seg \in 1 .. b.seg /\ \A j \in 1 .. b.seg - 1 : j \in 1 .. b.seg
    BY <1>1
  <2>3. a \in words <=> a >= s.vaddr /\ a < s.vaddr + s.filesz
    <3> DEFINE v == s.vaddr
               f == s.filesz
    <3>1. v \in Nat /\ f \in Nat /\ words = v .. v + f - 1
      BY <1>4
    <3> HIDE DEF v, f, words
    <3>2. a \in words <=> a >= v /\ a < v + f
      BY <3>1
    <3> QED  BY <3>2 DEF v, f
  <2> HIDE DEF words
  <2> QED  BY <2>1, <2>2, <2>3 DEF TextOf
<1> HIDE DEF words, s
<1>9. /\ c \in CallRecords /\ c.op = "exec" /\ c.at = "segment" /\ c.dir = d /\ c.mem = 0 /\ c.seg = b.seg + 1
      /\ c.image = b.image /\ c.args = b.args /\ c.sz = b.sz
  <2>1. "segment" \in Labels /\ b.seg + 1 \in Nat \ {0}
    BY <1>1 DEF Labels
  <2>2. b \in CallRecords
    BY <1>2
  <2>3. c \in CallRecords
    BY <2>1, <2>2 DEF CallRecords
  <2>4. /\ c.op = b.op /\ c.at = "segment" /\ c.dir = b.dir /\ c.mem = b.mem /\ c.seg = b.seg + 1
        /\ c.image = b.image /\ c.args = b.args /\ c.sz = b.sz
    BY <2>2 DEF CallRecords
  <2> HIDE DEF c
  <2> QED  BY <1>1, <1>2, <2>3, <2>4
<1> HIDE DEF c
<1>10. /\ Ram(ram') /\ ram'.free = ram.free /\ Space(ram', d) /\ Own(ram', d) = Own(ram, d)
       /\ \A n \in Page : Walk(ram', d, n) = Walk(ram, d, n)
       /\ \A f \in Frame \ PagesOf(ram, d) : ram'.frame[f] = ram.frame[f]
       /\ \A n \in Page : Walk(ram, d, n).frame # 0 =>
            \A i \in 0 .. PGSIZE - 1 :
              ram'.frame[Walk(ram, d, n).frame][i] =
                IF n * PGSIZE + i \in words THEN "text" ELSE ram.frame[Walk(ram, d, n).frame][i]
  BY <1>7 DEF WordsWritten
<1>11. \A f \in Own(ram, d) : f \in Frame /\ own[f] = <<"new", p>>
  BY <1>1, FreeIs
<1>12. \A f \in Frame : ram'.frame[f] # ram.frame[f] => f \in Own(ram, d)
  BY <1>1, <1>10, OwnFrames
<1>13. Active(proc[p]) /\ Kept(ram, ram', proc[p].pgdir)
  <2>1. Active(proc[p])
    BY <1>1 DEF Active
  <2>2. Space(ram, proc[p].pgdir) /\ \A f \in Own(ram, proc[p].pgdir) : f \in Frame /\ own[f] = <<"of", p>>
    BY <2>1, FreeIs
  <2>3. \A f \in Own(ram, proc[p].pgdir) : f \notin Own(ram, d)
    BY <1>11, <2>2
  <2>4. \A f \in Own(ram, proc[p].pgdir) : ram'.frame[f] = ram.frame[f]
    BY <1>12, <2>2, <2>3
  <2> QED  BY <2>1, <2>2, <2>4, SpaceKept
<1>14. CallGood(ram', proc[p], c)
  <2>1. Slotted(ram', proc[p], c)
    BY <1>1, <1>2, <1>9, <1>13, SlottedKept DEF CallGood
  <2>2. InLoop(ram', c) /\ Enlarging(ram', c, proc[p]) /\ Copying(ram', c, proc[p])
    BY <1>9 DEF InLoop, Phase, Phases, Loops, Enlarging, Copying
  <2>3. Making(ram', c)
    BY <1>1, <1>9, <1>10, FrameIs DEF Making
  <2>4. Loading(ram', c)
    <3>1. Phase(c) = "segment" /\ ~Loops(c) /\ c.seg - 1 = b.seg
      BY <1>1, <1>9 DEF Phase, Loops
    <3>2. Sized(c, b.seg)
      <4>1. b.seg \in 0 .. Len(b.image) /\ \A j \in 1 .. b.seg : b.image[j].filesz <= b.image[j].memsz
        BY <1>1 DEF Sized
      <4> QED  BY <1>3, <1>9, <3>1, <4>1 DEF Sized
    <3>3. Has(ram', d, Pages(b.sz))
      BY <1>1, <1>10 DEF Has
    <3>4. TextLoaded(ram', d, TextOf(b.image, b.seg))
      <4> SUFFICES ASSUME NEW n \in Page, Walk(ram', d, n).frame # 0
                   PROVE  /\ Walk(ram', d, n).user
                          /\ \A i \in 0 .. PGSIZE - 1 :
                               ram'.frame[Walk(ram', d, n).frame][i] =
                                 IF n * PGSIZE + i \in TextOf(b.image, b.seg) THEN "text" ELSE "zero"
        BY DEF TextLoaded
      <4>1. Walk(ram', d, n) = Walk(ram, d, n) /\ Walk(ram, d, n).user
        BY <1>1, <1>10 DEF TextLoaded
      <4>2. \A i \in 0 .. PGSIZE - 1 : ram.frame[Walk(ram, d, n).frame][i] =
                                         IF n * PGSIZE + i \in TextOf(b.image, b.seg - 1) THEN "text" ELSE "zero"
        BY <1>1, <4>1 DEF TextLoaded
      <4>3. ASSUME NEW i \in 0 .. PGSIZE - 1
            PROVE  ram'.frame[Walk(ram', d, n).frame][i] =
                     IF n * PGSIZE + i \in TextOf(b.image, b.seg) THEN "text" ELSE "zero"
        <5> DEFINE a == n * PGSIZE + i
        <5>1. a \in Nat
          <6>1. a \in 0 .. KERNBASE - 1
            BY AddressOf
          <6> QED  BY <6>1, Sizes
        <5>2. ram'.frame[Walk(ram, d, n).frame][i] = IF a \in words THEN "text" ELSE ram.frame[Walk(ram, d, n).frame][i]
          BY <1>10, <4>1
        <5>3. ram.frame[Walk(ram, d, n).frame][i] = IF a \in TextOf(b.image, b.seg - 1) THEN "text" ELSE "zero"
          BY <4>2
        <5>4. a \in TextOf(b.image, b.seg) <=> (a \in words \/ a \in TextOf(b.image, b.seg - 1))
          BY <1>8, <5>1
        <5> HIDE DEF a
        <5>5. ram'.frame[Walk(ram', d, n).frame][i] = IF a \in TextOf(b.image, b.seg) THEN "text" ELSE "zero"
          BY <4>1, <5>2, <5>3, <5>4
        <5> QED  BY <5>5 DEF a
      <4> QED  BY <4>1, <4>3
    <3> QED  BY <1>1, <1>9, <3>1, <3>2, <3>3, <3>4 DEF Loading
  <2> QED  BY <2>1, <2>2, <2>3, <2>4 DEF CallGood
<1>15. Makes(c) /\ c.dir = d
  BY <1>1, <1>9 DEF Makes
<1>16. /\ Nobody \in Owners /\ Near(Nobody, p, p) /\ <<"stack", p>> \notin {} \cup {Nobody}
       /\ {} \in SUBSET Frame /\ {} \in SUBSET Owners
  BY OwnersAre, NearBy
<1>17. /\ \A x \in {} : Near(x, p, p)
       /\ \A f \in {} : own[f] \in {}
       /\ \A f \in Frame : ram'.frame[f] # ram.frame[f] => Near(own[f], p, p)
  BY <1>11, <1>12, NearBy
<1>18. /\ Goes(Range(ram.free), Range(ram'.free), Nobody, {}, {}, Nobody)
       /\ Goes({call[p].mem} \ {0}, {c.mem} \ {0}, <<"mem", p>>, {}, {}, Nobody)
  BY <1>1, <1>9, <1>10, Stays
<1>19. Goes(IF Active(proc[p]) THEN Own(ram, proc[p].pgdir) ELSE {},
            IF Active(proc[p]) THEN Own(ram', proc[p].pgdir) ELSE {}, <<"of", p>>, {}, {}, Nobody)
  BY <1>13, Stays DEF Kept
<1>20. Goes(IF Makes(call[p]) THEN Own(ram, call[p].dir) ELSE {},
            IF Makes(c) THEN Own(ram', c.dir) ELSE {}, <<"new", p>>, {}, {}, Nobody)
  BY <1>1, <1>10, <1>15, Stays
<1>21. /\ c.op = "fork" => c.op = call[p].op /\ c.child = call[p].child
       /\ c.op = "fork" => c.at # "kstack" /\ call[p].at # "kstack"
       /\ proc[p].state # "EMBRYO"
  BY <1>1, <1>9
<1>22. Sound(Moved(own, {}, Nobody), ram', proc, [call EXCEPT ![p] = c])
  BY <1>9, <1>10, <1>14, <1>16, <1>17, <1>18, <1>19, <1>20, <1>21, CallGoes
<1> QED  BY <1>1, <1>6, <1>7, <1>22

-----------------------------------------------------------------------------
(* fork *)

\* Who forks runs, and the child's slot has nobody in it: no call, and no space yet.
LEMMA ChildIs ==
  ASSUME NEW own, Sound(own, ram, proc, call), NEW p \in Slot, call[p].op = "fork"
  PROVE  LET x == call[p].child
         IN /\ x \in Slot /\ x # p /\ proc[x].state = "EMBRYO" /\ ~Active(proc[x])
            /\ proc[x].kstack = 0 <=> call[p].at = "kstack"
            /\ call[x].op = "none" /\ call[x].at = "user" /\ call[x].mem = 0 /\ ~Makes(call[x])
            /\ proc[p].state = "RUNNABLE" /\ Active(proc[p])
            /\ Has(ram, proc[p].pgdir, Pages(proc[p].sz))
            /\ \A q \in Slot \ {p, x} : call[q].op = "fork" => call[q].child \notin {p, x}
<1> DEFINE x == call[p].child
<1>1. CallGood(ram, proc[p], call[p]) /\ Parental(proc, call[p]) /\ ChildrenDiffer(call)
  BY SlotIs
<1>2. /\ x \in Slot /\ proc[x].state = "EMBRYO" /\ (proc[x].kstack = 0 <=> call[p].at = "kstack")
  BY <1>1 DEF Parental
<1>3. proc[p].state = "RUNNABLE" /\ Has(ram, proc[p].pgdir, Pages(proc[p].sz))
  BY <1>1 DEF CallGood, Slotted
<1>4. CallGood(ram, proc[x], call[x]) /\ call[x] \in CallRecords
  BY <1>2, SlotIs
<1>5. call[x].op = "none"
  BY <1>2, <1>4 DEF CallGood, Slotted
<1>6. call[x].at = "user" /\ call[x].mem = 0
  BY <1>4, <1>5 DEF CallGood, InLoop, Phase, Phases, Loops
<1>7. \A q \in Slot : call[q].op = "fork" => call[q].child # p
  BY <1>3, NoChild
<1>8. \A q \in Slot \ {p, x} : call[q].op = "fork" => call[q].child # x
  BY <1>1 DEF ChildrenDiffer
<1> QED  BY <1>2, <1>3, <1>5, <1>6, <1>7, <1>8 DEF Makes, Active

\* A slot that nobody runs in has no call, and no frames but its stack.
LEMMA IdleIs ==
  ASSUME NEW own, Sound(own, ram, proc, call), NEW x \in Slot, proc[x].state # "RUNNABLE"
  PROVE  call[x].op = "none" /\ call[x].at = "user" /\ call[x].mem = 0 /\ ~Makes(call[x])
<1>1. CallGood(ram, proc[x], call[x]) /\ call[x] \in CallRecords
  BY SlotIs
<1>2. call[x].op = "none"
  BY <1>1 DEF CallGood, Slotted
<1> QED  BY <1>1, <1>2 DEF CallGood, InLoop, Phase, Phases, Loops, Makes

\* Two calls with one child are one.
LEMMA ChildrenStay ==
  ASSUME NEW C, ChildrenDiffer(C), NEW p \in Slot, NEW C2, \A q \in Slot \ {p} : C2[q] = C[q],
         C2[p].op = "fork" => \/ C[p].op = "fork" /\ C2[p].child = C[p].child
                              \/ \A q \in Slot : C[q].op = "fork" => C[q].child # C2[p].child
  PROVE  ChildrenDiffer(C2)
  BY DEF ChildrenDiffer

\* allocproc takes a slot that nobody has.
LEMMA ForkBegins ==
  ASSUME NEW own, Sound(own, ram, proc, call), NEW p \in Slot, Fork(p)
  PROVE  \E own2 : Sound(own2, ram', proc', call')
<1>1. PICK x \in Slot :
        /\ proc[x].state = "UNUSED" /\ proc' = [proc EXCEPT ![x].state = "EMBRYO"]
        /\ call' = [call EXCEPT ![p] = [User EXCEPT !.op = "fork", !.at = "kstack", !.child = x]]
  BY DEF Fork
<1>2. Runs(p) /\ ram' = ram
  BY DEF Fork, Calls
<1>3. /\ proc[p].state = "RUNNABLE" /\ call[p].at = "user" /\ Has(ram, proc[p].pgdir, Pages(proc[p].sz))
  BY <1>2, RunsHas
<1>4. /\ Space(ram, proc[p].pgdir) /\ call[p].mem = 0 /\ ~Makes(call[p]) /\ proc[p].kstack # 0
      /\ call[p].op = "none" /\ Active(proc[p])
  BY <1>3, RunsIs
<1>5. /\ call[x].op = "none" /\ call[x].at = "user" /\ call[x].mem = 0 /\ ~Makes(call[x]) /\ x # p
  BY <1>1, <1>3, IdleIs
<1>6. /\ Ram(ram) /\ proc \in [Slot -> Procs] /\ call \in [Slot -> CallRecords] /\ ChildrenDiffer(call)
      /\ CallGood(ram, proc[x], call[x]) /\ proc[x] \in Procs
  BY SlotIs
<1>7. proc[x].kstack = 0 /\ ~Active(proc[x])
  BY <1>1, <1>6 DEF CallGood, Slotted, Active
<1>8. /\ proc' \in [Slot -> Procs] /\ \A q \in Slot \ {x} : proc'[q] = proc[q]
      /\ proc'[x].state = "EMBRYO" /\ proc'[x].kstack = 0 /\ ~Active(proc'[x])
  BY <1>1, <1>6, <1>7 DEF Procs, Active
<1> DEFINE c == [User EXCEPT !.op = "fork", !.at = "kstack", !.child = x]
<1>9. c \in CallRecords
  <2>1. "kstack" \in Labels /\ "fork" \in Ops /\ User \in CallRecords
    BY UserIs DEF Labels, Ops
  <2> QED  BY <2>1 DEF CallRecords
<1>10. c.op = "fork" /\ c.at = "kstack" /\ c.child = x /\ c.dir = 0 /\ c.mem = 0
  BY DEF User
<1>11. call' \in [Slot -> CallRecords] /\ call'[p] = c /\ \A q \in Slot \ {p} : call'[q] = call[q]
  BY <1>1, <1>6, <1>9
<1> HIDE DEF c
<1>12. Good(ram', proc', call', p)
  <2>1. Slotted(ram, proc[p], c)
    BY <1>3, <1>4, <1>10 DEF Slotted, Active
  <2>2. InLoop(ram, c) /\ Making(ram, c) /\ Enlarging(ram, c, proc[p]) /\ Copying(ram, c, proc[p]) /\ Loading(ram, c)
    BY <1>10 DEF InLoop, Phase, Phases, Loops, Making, Enlarging, Copying, Loading
  <2>3. Parental(proc', c)
    BY <1>8, <1>10 DEF Parental
  <2> QED  BY <1>2, <1>5, <1>8, <1>11, <2>1, <2>2, <2>3 DEF Good, CallGood
<1>13. Good(ram', proc', call', x)
  <2>1. Slotted(ram', proc'[x], call'[x])
    BY <1>5, <1>8, <1>11 DEF Slotted
  <2> QED  BY <1>5, <1>11, <2>1, UserGood
<1>14. Aside(proc, call, proc', call', p, x)
  <2>1. \A q \in Slot : call[q].op = "fork" => call[q].child # p /\ call[q].child # x
    BY <1>1, <1>3, NoChild
  <2>2. ChildrenDiffer(call')
    BY <1>6, <1>10, <1>11, <2>1, ChildrenStay
  <2> QED  BY <1>8, <1>11, <2>1, <2>2, SameSlotIs DEF Aside
<1>15. ~Makes(c)
  BY <1>10 DEF Makes
<1>16. SlotGoes(ram, proc, call, ram', proc', call', p, {}, {}, Nobody)
  BY <1>2, <1>4, <1>5, <1>8, <1>10, <1>11, <1>15, Stays DEF SlotGoes
<1>17. SlotGoes(ram, proc, call, ram', proc', call', x, {}, {}, Nobody)
  BY <1>2, <1>5, <1>7, <1>8, <1>11, Stays DEF SlotGoes
<1>18. /\ Goes(Range(ram.free), Range(ram'.free), Nobody, {}, {}, Nobody)
       /\ {} \in SUBSET Frame /\ {} \in SUBSET Owners /\ Ram(ram')
       /\ (\A b \in {} : Near(b, p, x)) /\ (\A f \in {} : own[f] \in {})
       /\ \A f \in Frame : ram'.frame[f] # ram.frame[f] => Near(own[f], p, x)
       /\ Nobody \in Owners /\ Near(Nobody, p, x)
  BY <1>2, <1>6, Stays, OwnersAre, NearBy
<1>19. Sound(Moved(own, {}, Nobody), ram', proc', call')
  BY <1>8, <1>11, <1>12, <1>13, <1>14, <1>16, <1>17, <1>18, StepGoes
<1> QED  BY <1>19

\* A call that is over: the process is in user mode, and its slot is as the end leaves it.
LEMMA EndedGood ==
  ASSUME NEW r, NEW P, NEW C, NEW q \in Slot, C[q] = User, P[q].state = "RUNNABLE", P[q].kstack # 0,
         Space(r, P[q].pgdir), Has(r, P[q].pgdir, Pages(P[q].sz))
  PROVE  Good(r, P, C, q)
<1>1. Slotted(r, P[q], C[q])
  BY UserIs DEF Slotted, Active
<1> QED  BY <1>1, UserIs, UserGood

\* fork at the kernel stack of its child
LEMMA AtStack ==
  ASSUME NEW own, Sound(own, ram, proc, call), NEW p \in Slot, call[p].at = "kstack"
  PROVE  /\ call[p].op = "fork" /\ call[p].mem = 0 /\ call[p].dir = 0 /\ ~Makes(call[p])
         /\ proc[call[p].child].kstack = 0
<1>1. call[p] \in CallRecords /\ CallGood(ram, proc[p], call[p])
  BY SlotIs
<1>2. call[p].op = "fork" /\ call[p].mem = 0
  BY <1>1, RecordIs DEF CallGood, InLoop, Phase, Phases, Loops, Ops
<1> QED  BY <1>1, <1>2, ChildIs DEF CallGood, Making, Makes

\* allocproc takes a frame for the kernel stack of the child.
LEMMA StackGot ==
  ASSUME NEW own, Sound(own, ram, proc, call), NEW p \in Slot, GetStack(p), ram.free # << >>
  PROVE  \E own2 : Sound(own2, ram', proc', call')
<1> DEFINE x == call[p].child
           h == Head(ram.free)
           c == [call[p] EXCEPT !.at = "pgdir"]
<1>1. /\ call[p].at = "kstack" /\ ram' = Kalloc(ram, "stack") /\ proc' = [proc EXCEPT ![x].kstack = h]
      /\ call' = [call EXCEPT ![p].at = "pgdir"]
  BY DEF GetStack, At
<1>2. /\ Ram(ram) /\ proc \in [Slot -> Procs] /\ call \in [Slot -> CallRecords] /\ ChildrenDiffer(call)
      /\ call[p] \in CallRecords /\ CallGood(ram, proc[p], call[p])
  BY SlotIs
<1>3. call[p].op = "fork" /\ call[p].mem = 0 /\ call[p].dir = 0 /\ ~Makes(call[p]) /\ proc[x].kstack = 0
  BY <1>1, AtStack
<1>4. /\ x \in Slot /\ x # p /\ proc[x].state = "EMBRYO" /\ ~Active(proc[x])
      /\ call[x].op = "none" /\ call[x].at = "user" /\ call[x].mem = 0 /\ ~Makes(call[x])
      /\ proc[p].state = "RUNNABLE" /\ Active(proc[p])
      /\ Has(ram, proc[p].pgdir, Pages(proc[p].sz))
      /\ \A q \in Slot \ {p, x} : call[q].op = "fork" => call[q].child \notin {p, x}
  BY <1>3, ChildIs
<1>5. /\ h \in Frame /\ h \in Range(ram.free) /\ Ram(ram') /\ Range(ram'.free) = Range(ram.free) \ {h}
      /\ \A f \in Frame \ {h} : ram'.frame[f] = ram.frame[f]
  <2>1. Ram(ram) /\ ram' = Kalloc(ram, "stack")
    BY <1>1, <1>2
  <2> HIDE DEF x, c
  <2> QED  BY <2>1, KallocTakes
<1> HIDE DEF h
<1>6. h # 0 /\ own[h] = Nobody
  BY <1>5, FrameIs, FreeIs
<1>7. /\ c \in CallRecords /\ c.op = "fork" /\ c.at = "pgdir" /\ c.dir = 0 /\ c.mem = 0 /\ c.child = x
  <2>1. "pgdir" \in Labels
    BY DEF Labels
  <2> QED  BY <1>2, <1>3, <2>1 DEF CallRecords
<1> HIDE DEF x
<1>8. call' \in [Slot -> CallRecords] /\ call'[p] = c /\ \A q \in Slot \ {p} : call'[q] = call[q]
  BY <1>1, <1>2, <1>7
<1> HIDE DEF c
<1>9. /\ proc' \in [Slot -> Procs] /\ \A q \in Slot \ {x} : proc'[q] = proc[q]
      /\ proc'[x].state = "EMBRYO" /\ proc'[x].kstack = h /\ ~Active(proc'[x])
  BY <1>1, <1>2, <1>4, <1>5 DEF Procs, Active
<1>10. Kept(ram, ram', proc[p].pgdir)
  <2>1. \A f \in Frame \ Range(ram.free) : ram'.frame[f] = ram.frame[f]
    BY <1>5
  <2> QED  BY <1>4, <2>1, TakesKeeps
<1>11. Good(ram', proc', call', p)
  <2>1. Slotted(ram', proc[p], c)
    BY <1>2, <1>3, <1>7, <1>10, SlottedKept DEF CallGood
  <2>2. /\ InLoop(ram', c) /\ Making(ram', c) /\ Enlarging(ram', c, proc[p]) /\ Copying(ram', c, proc[p])
        /\ Loading(ram', c)
    BY <1>7 DEF InLoop, Phase, Phases, Loops, Making, Enlarging, Copying, Loading
  <2>3. Parental(proc', c)
    BY <1>4, <1>6, <1>7, <1>9 DEF Parental
  <2> QED  BY <1>4, <1>8, <1>9, <2>1, <2>2, <2>3 DEF Good, CallGood
<1>12. Good(ram', proc', call', x)
  <2>1. Slotted(ram', proc'[x], call'[x])
    BY <1>4, <1>8, <1>9 DEF Slotted
  <2> QED  BY <1>4, <1>8, <2>1, UserGood
<1>13. Aside(proc, call, proc', call', p, x)
  <2>1. ChildrenDiffer(call')
    BY <1>2, <1>3, <1>7, <1>8, ChildrenStay DEF x
  <2> QED  BY <1>4, <1>8, <1>9, <2>1, SameSlotIs DEF Aside
<1>14. ~Makes(c)
  BY <1>7 DEF Makes
<1> DEFINE to == <<"stack", x>>
<1>15. /\ to \in Owners /\ to # Nobody /\ to # <<"mem", x>> /\ to # <<"of", x>> /\ to # <<"new", x>>
       /\ to # <<"mem", p>> /\ to # <<"of", p>> /\ to # <<"new", p>> /\ to # <<"stack", p>>
  BY <1>4, OwnersAre
<1>16. \A k \in {"stack", "mem", "of", "new"} : <<k, p>> # Nobody /\ <<k, x>> # Nobody
  BY <1>4, OwnersAre
<1>17. Near(to, p, x) /\ Near(Nobody, p, x)
  BY NearBy
<1> HIDE DEF to
<1>18. SlotGoes(ram, proc, call, ram', proc', call', p, {h}, {Nobody}, to)
  <2>1. Own(ram', proc[p].pgdir) = Own(ram, proc[p].pgdir) /\ proc'[p] = proc[p]
    BY <1>4, <1>9, <1>10 DEF Kept
  <2> QED  BY <1>3, <1>4, <1>7, <1>8, <1>14, <1>15, <1>16, <2>1 DEF SlotGoes, Goes
<1>19. SlotGoes(ram, proc, call, ram', proc', call', x, {h}, {Nobody}, to)
  <2>1. {proc'[x].kstack} \ {0} = ({proc[x].kstack} \ {0}) \cup {h}
    BY <1>3, <1>6, <1>9
  <2>2. Goes({proc[x].kstack} \ {0}, {proc'[x].kstack} \ {0}, <<"stack", x>>, {h}, {Nobody}, to)
    BY <2>1 DEF Goes, to
  <2> QED  BY <1>4, <1>8, <1>9, <1>15, <1>16, <2>2 DEF SlotGoes, Goes
<1>20. /\ Goes(Range(ram.free), Range(ram'.free), Nobody, {h}, {Nobody}, to)
       /\ {h} \in SUBSET Frame /\ {Nobody} \in SUBSET Owners
       /\ (\A b \in {Nobody} : Near(b, p, x)) /\ (\A f \in {h} : own[f] \in {Nobody})
       /\ \A f \in Frame : ram'.frame[f] # ram.frame[f] => Near(own[f], p, x)
  BY <1>5, <1>6, <1>15, <1>17, OwnersAre DEF Goes
<1>21. Sound(Moved(own, {h}, to), ram', proc', call')
  <2> DEFINE fs == {h}
             from == {Nobody}
  <2>1. /\ Goes(Range(ram.free), Range(ram'.free), Nobody, fs, from, to)
        /\ fs \in SUBSET Frame /\ from \in SUBSET Owners
        /\ (\A b \in from : Near(b, p, x)) /\ (\A f \in fs : own[f] \in from)
        /\ SlotGoes(ram, proc, call, ram', proc', call', p, fs, from, to)
        /\ SlotGoes(ram, proc, call, ram', proc', call', x, fs, from, to)
    BY <1>18, <1>19, <1>20
  <2>2. \A f \in Frame : ram'.frame[f] # ram.frame[f] => Near(own[f], p, x)
    BY <1>20
  <2> HIDE DEF fs, from
  <2>3. Sound(Moved(own, fs, to), ram', proc', call')
    <3>1. x \in Slot /\ Ram(ram') /\ proc' \in [Slot -> Procs] /\ call' \in [Slot -> CallRecords] /\ to \in Owners
      BY <1>4, <1>5, <1>8, <1>9, <1>15
    <3> QED  BY <1>11, <1>12, <1>13, <1>17, <2>1, <2>2, <3>1, StepGoes
  <2> QED  BY <2>3 DEF fs
<1> QED  BY <1>21

\* Without one, allocproc gives the slot back.
LEMMA StackMissing ==
  ASSUME NEW own, Sound(own, ram, proc, call), NEW p \in Slot, GetStack(p), ram.free = << >>
  PROVE  \E own2 : Sound(own2, ram', proc', call')
<1> DEFINE x == call[p].child
<1>1. /\ call[p].at = "kstack" /\ ram' = ram /\ proc' = [proc EXCEPT ![x].state = "UNUSED", ![x].kstack = 0]
      /\ call' = [call EXCEPT ![p] = User]
  BY DEF GetStack, At
<1>2. /\ Ram(ram) /\ proc \in [Slot -> Procs] /\ call \in [Slot -> CallRecords] /\ ChildrenDiffer(call)
      /\ call[p] \in CallRecords /\ CallGood(ram, proc[p], call[p])
  BY SlotIs
<1>3. call[p].op = "fork" /\ call[p].mem = 0 /\ ~Makes(call[p]) /\ proc[x].kstack = 0
  BY <1>1, AtStack
<1>4. /\ x \in Slot /\ x # p /\ proc[x].state = "EMBRYO" /\ ~Active(proc[x])
      /\ call[x].op = "none" /\ call[x].at = "user" /\ call[x].mem = 0 /\ ~Makes(call[x])
      /\ proc[p].state = "RUNNABLE" /\ Active(proc[p])
      /\ Has(ram, proc[p].pgdir, Pages(proc[p].sz))
      /\ \A q \in Slot \ {p, x} : call[q].op = "fork" => call[q].child \notin {p, x}
  BY <1>3, ChildIs
<1> HIDE DEF x
<1>5. call' \in [Slot -> CallRecords] /\ call'[p] = User /\ \A q \in Slot \ {p} : call'[q] = call[q]
  BY <1>1, <1>2, UserIs
<1>6. /\ proc' \in [Slot -> Procs] /\ \A q \in Slot \ {x} : proc'[q] = proc[q]
      /\ proc'[x].state = "UNUSED" /\ proc'[x].kstack = 0 /\ ~Active(proc'[x])
  <2>1. proc' = [proc EXCEPT ![x] = [proc[x] EXCEPT !.state = "UNUSED", !.kstack = 0]] /\ proc[x] \in Procs
    BY <1>1, <1>2, <1>4
  <2>2. [proc[x] EXCEPT !.state = "UNUSED", !.kstack = 0] \in Procs
    BY <2>1 DEF Procs
  <2>3. proc'[x].state = "UNUSED" /\ proc'[x].kstack = 0
    BY <1>2, <1>4, <2>1 DEF Procs
  <2> QED  BY <1>2, <1>4, <2>1, <2>2, <2>3 DEF Active
<1>7. Good(ram', proc', call', p)
  <2>1. Space(ram, proc[p].pgdir) /\ proc[p].kstack # 0
    BY <1>2, <1>4 DEF CallGood, Slotted
  <2> QED  BY <1>1, <1>4, <1>5, <1>6, <2>1, EndedGood
<1>8. Good(ram', proc', call', x)
  <2>1. Slotted(ram', proc'[x], call'[x])
    BY <1>4, <1>5, <1>6 DEF Slotted
  <2> QED  BY <1>4, <1>5, <2>1, UserGood
<1>9. Aside(proc, call, proc', call', p, x)
  <2>1. ChildrenDiffer(call')
    BY <1>2, <1>5, UserIs, ChildrenStay
  <2> QED  BY <1>4, <1>5, <1>6, <2>1, SameSlotIs DEF Aside
<1>10. SlotGoes(ram, proc, call, ram', proc', call', p, {}, {}, Nobody)
  <2>1. proc'[p] = proc[p] /\ call'[p].mem = call[p].mem /\ ~Makes(call'[p])
    BY <1>3, <1>4, <1>5, <1>6, UserIs
  <2> QED  BY <1>3, <2>1, <1>1, Stays, Zenon DEF SlotGoes
<1>11. SlotGoes(ram, proc, call, ram', proc', call', x, {}, {}, Nobody)
  <2>1. proc'[x].kstack = proc[x].kstack /\ ~Active(proc'[x]) /\ call'[x] = call[x]
    BY <1>3, <1>4, <1>5, <1>6
  <2> QED  BY <1>4, <2>1, <1>1, Stays, Zenon DEF SlotGoes
<1>12. /\ Goes(Range(ram.free), Range(ram'.free), Nobody, {}, {}, Nobody)
       /\ {} \in SUBSET Frame /\ {} \in SUBSET Owners /\ Ram(ram')
       /\ (\A b \in {} : Near(b, p, x)) /\ (\A f \in {} : own[f] \in {})
       /\ \A f \in Frame : ram'.frame[f] # ram.frame[f] => Near(own[f], p, x)
       /\ Nobody \in Owners /\ Near(Nobody, p, x)
  BY <1>1, <1>2, Stays, OwnersAre, NearBy
<1>13. Sound(Moved(own, {}, Nobody), ram', proc', call')
  BY <1>4, <1>5, <1>6, <1>7, <1>8, <1>9, <1>10, <1>11, <1>12, StepGoes
<1> QED  BY <1>13

\* The child runs: its space is no longer its parent's to make.
LEMMA ForkEndsSound ==
  ASSUME NEW own, Sound(own, ram, proc, call), NEW p \in Slot, ForkEnds(p)
  PROVE  \E own2 : Sound(own2, ram', proc', call')
<1> DEFINE x == call[p].child
           d == call[p].dir
           fs == Own(ram, d)
<1>1. /\ call[p].at = "copied" /\ ram' = ram /\ call' = [call EXCEPT ![p] = User]
      /\ proc' = [proc EXCEPT ![x] = [@ EXCEPT !.pgdir = d, !.sz = proc[p].sz, !.parent = p, !.state = "RUNNABLE"]]
  BY DEF ForkEnds, At
<1>2. /\ Ram(ram) /\ proc \in [Slot -> Procs] /\ call \in [Slot -> CallRecords] /\ ChildrenDiffer(call)
      /\ call[p] \in CallRecords /\ CallGood(ram, proc[p], call[p]) /\ proc[p] \in Procs
  BY SlotIs
<1>3. call[p].op = "fork" /\ call[p].mem = 0
  BY <1>1, <1>2, RecordIs DEF CallGood, InLoop, Phase, Phases, Loops, Ops
<1>4. /\ x \in Slot /\ x # p /\ proc[x].state = "EMBRYO" /\ ~Active(proc[x]) /\ proc[x].kstack # 0
      /\ call[x].op = "none" /\ call[x].at = "user" /\ call[x].mem = 0 /\ ~Makes(call[x])
      /\ proc[p].state = "RUNNABLE" /\ Active(proc[p])
      /\ Has(ram, proc[p].pgdir, Pages(proc[p].sz))
      /\ \A q \in Slot \ {p, x} : call[q].op = "fork" => call[q].child \notin {p, x}
  BY <1>1, <1>3, ChildIs
<1>5. d # 0 /\ Makes(call[p]) /\ Space(ram, d) /\ Has(ram, d, Pages(proc[p].sz)) /\ d \in Frame
  <2>1. d # 0
    BY <1>1, <1>2, <1>3 DEF CallGood, Making
  <2>2. Phase(call[p]) = "copied"
    BY <1>1 DEF Phase, Loops
  <2> QED  BY <1>1, <1>2, <1>3, <2>1, <2>2, RecordIs DEF CallGood, Making, Copying, Makes
<1>6. \A f \in fs : f \in Frame /\ own[f] = <<"new", p>>
  BY <1>5, FreeIs
<1>7. proc[p].sz \in 0 .. KERNBASE /\ proc[x] \in Procs
  BY <1>2, <1>4 DEF Procs
<1> HIDE DEF x, d
<1>8. call' \in [Slot -> CallRecords] /\ call'[p] = User /\ \A q \in Slot \ {p} : call'[q] = call[q]
  BY <1>1, <1>2, UserIs
<1>9. /\ proc' \in [Slot -> Procs] /\ \A q \in Slot \ {x} : proc'[q] = proc[q]
      /\ proc'[x].state = "RUNNABLE" /\ proc'[x].kstack = proc[x].kstack /\ proc'[x].pgdir = d
      /\ proc'[x].sz = proc[p].sz
  BY <1>1, <1>2, <1>4, <1>5, <1>7 DEF Procs
<1>10. Good(ram', proc', call', p)
  <2>1. Space(ram, proc[p].pgdir) /\ proc[p].kstack # 0
    BY <1>2, <1>4 DEF CallGood, Slotted
  <2> QED  BY <1>1, <1>4, <1>8, <1>9, <2>1, EndedGood
<1>11. Good(ram', proc', call', x)
  <2>1. Slotted(ram', proc'[x], call'[x])
    BY <1>1, <1>4, <1>5, <1>8, <1>9 DEF Slotted
  <2> QED  BY <1>4, <1>8, <2>1, UserGood
<1>12. Aside(proc, call, proc', call', p, x)
  <2>1. ChildrenDiffer(call')
    BY <1>2, <1>8, UserIs, ChildrenStay
  <2> QED  BY <1>4, <1>8, <1>9, <2>1, SameSlotIs DEF Aside
<1> DEFINE to == <<"of", x>>
           from == {<<"new", p>>}
<1>13. /\ to \in Owners /\ to # Nobody /\ <<"new", p>> \in Owners /\ <<"new", p>> # to /\ <<"new", p>> # Nobody
       /\ to # <<"mem", x>> /\ to # <<"stack", x>> /\ to # <<"new", x>>
       /\ to # <<"mem", p>> /\ to # <<"of", p>> /\ to # <<"stack", p>>
       /\ <<"new", p>> # <<"mem", x>> /\ <<"new", p>> # <<"stack", x>> /\ <<"new", p>> # <<"new", x>>
       /\ <<"new", p>> # <<"mem", p>> /\ <<"new", p>> # <<"of", p>> /\ <<"new", p>> # <<"stack", p>>
  BY <1>4, OwnersAre
<1>14. Near(to, p, x) /\ Near(<<"new", p>>, p, x)
  BY NearBy
<1> HIDE DEF to, fs
<1>15. SlotGoes(ram, proc, call, ram', proc', call', p, fs, from, to)
  <2>1. Goes(IF Makes(call[p]) THEN Own(ram, call[p].dir) ELSE {},
             IF Makes(call'[p]) THEN Own(ram', call'[p].dir) ELSE {}, <<"new", p>>, fs, from, to)
    BY <1>5, <1>8, <1>13, UserIs DEF Goes, fs, d
  <2> QED  BY <1>1, <1>3, <1>4, <1>8, <1>9, <1>13, <2>1, UserIs DEF SlotGoes, Goes
<1>16. SlotGoes(ram, proc, call, ram', proc', call', x, fs, from, to)
  <2>1. Active(proc'[x])
    BY <1>9 DEF Active
  <2>2. Goes(IF Active(proc[x]) THEN Own(ram, proc[x].pgdir) ELSE {},
             IF Active(proc'[x]) THEN Own(ram', proc'[x].pgdir) ELSE {}, <<"of", x>>, fs, from, to)
    BY <1>1, <1>4, <1>9, <2>1 DEF Goes, fs, to
  <2> QED  BY <1>4, <1>8, <1>9, <1>13, <2>2 DEF SlotGoes, Goes
<1>17. /\ Goes(Range(ram.free), Range(ram'.free), Nobody, fs, from, to)
       /\ fs \in SUBSET Frame /\ from \in SUBSET Owners /\ Ram(ram')
       /\ (\A b \in from : Near(b, p, x)) /\ (\A f \in fs : own[f] \in from)
       /\ \A f \in Frame : ram'.frame[f] # ram.frame[f] => Near(own[f], p, x)
  BY <1>1, <1>2, <1>6, <1>13, <1>14 DEF Goes
<1> HIDE DEF from
<1>18. Sound(Moved(own, fs, to), ram', proc', call')
  BY <1>4, <1>8, <1>9, <1>10, <1>11, <1>12, <1>13, <1>14, <1>15, <1>16, <1>17, StepGoes
<1> QED  BY <1>18

-----------------------------------------------------------------------------
(* Frames that are given back *)

\* One loop after the other
LEMMA FreedBoth ==
  ASSUME NEW r, NEW s, NEW t, NEW A, NEW B, Freed(r, s, A), Freed(s, t, B)
  PROVE  Freed(r, t, A \cup B)
  BY DEF Freed

\* kfree of several frames, as Freed says it
LEMMA KfreeFreed ==
  ASSUME NEW r, Ram(r), NEW fs \in Seq(Frame), IsInjective(fs), Range(fs) \cap Range(r.free) = {}
  PROVE  Freed(r, Kfree(r, fs), Range(fs))
  BY KfreeGives DEF Freed

\* kfree of a frame that a pointer leads to, or of none where it is null
LEMMA KfreeMem ==
  ASSUME NEW r, Ram(r), NEW m \in Frame \cup {0}, m \notin Range(r.free)
  PROVE  Freed(r, Kfree(r, IF m = 0 THEN << >> ELSE <<m>>), {m} \ {0})
<1> DEFINE fs == IF m = 0 THEN << >> ELSE <<m>>
<1>1. fs \in Seq(Frame) /\ IsInjective(fs) /\ Range(fs) = {m} \ {0}
  <2>1. CASE m = 0
    BY <2>1 DEF IsInjective, Range
  <2>2. CASE m # 0
    BY <2>2 DEF IsInjective, Range
  <2> QED  BY <2>1, <2>2
<1>2. Range(fs) \cap Range(r.free) = {}
  BY <1>1
<1> HIDE DEF fs
<1>3. Freed(r, Kfree(r, fs), Range(fs))
  BY <1>1, <1>2, KfreeFreed
<1> QED  BY <1>1, <1>3 DEF fs

\* kfree of one frame
LEMMA KfreeOne ==
  ASSUME NEW r, Ram(r), NEW m \in Frame, m \notin Range(r.free)
  PROVE  Freed(r, Kfree(r, <<m>>), {m})
<1>1. m # 0 /\ {m} \ {0} = {m}
  BY FrameIs
<1> QED  BY <1>1, KfreeMem

\* A space none of whose frames is given back
LEMMA FreedKept ==
  ASSUME NEW r, NEW s, NEW fs, Freed(r, s, fs), NEW d, Space(r, d), fs \cap Own(r, d) = {}
  PROVE  Kept(r, s, d) /\ Space(s, d) /\ Own(s, d) = Own(r, d)
<1>1. \A f \in Own(r, d) : s.frame[f] = r.frame[f]
  BY OwnFrames DEF Freed
<1> QED  BY <1>1, SpaceKept DEF Kept

-----------------------------------------------------------------------------
(* exit and wait *)

\* exit takes nothing back: wait does.
LEMMA ExitSound ==
  ASSUME NEW own, Sound(own, ram, proc, call), NEW p \in Slot, Exit(p)
  PROVE  \E own2 : Sound(own2, ram', proc', call')
<1>1. /\ proc[p].state = "RUNNABLE" /\ call[p].at = "user" /\ ram' = ram /\ call' = call
      /\ proc' = [s \in Slot |-> IF s = p THEN [proc[p] EXCEPT !.state = "ZOMBIE"]
                                 ELSE IF proc[s].parent = p THEN [proc[s] EXCEPT !.parent = 1]
                                 ELSE proc[s]]
  BY DEF Exit
<1>2. /\ Ram(ram) /\ proc \in [Slot -> Procs] /\ call \in [Slot -> CallRecords] /\ proc[p] \in Procs
  BY SlotIs
<1>3. /\ Space(ram, proc[p].pgdir) /\ call[p].mem = 0 /\ ~Makes(call[p]) /\ proc[p].kstack # 0
      /\ call[p].op = "none" /\ Active(proc[p])
  BY <1>1, RunsIs
<1>4. 1 \in Slot
  BY Sizes DEF Slot
<1>5. /\ proc'[p].state = "ZOMBIE" /\ proc'[p].kstack = proc[p].kstack /\ proc'[p].pgdir = proc[p].pgdir
      /\ proc'[p] \in Procs
  BY <1>1, <1>2 DEF Procs
<1>6. ASSUME NEW q \in Slot \ {p}
      PROVE  proc'[q] \in Procs /\ SameSlot(proc[q], proc'[q])
  <2>1. proc[q] \in Procs
    BY <1>2
  <2>2. CASE proc[q].parent = p
    <3>1. proc'[q] = [proc[q] EXCEPT !.parent = 1]
      BY <1>1, <2>2
    <3> QED  BY <1>4, <2>1, <3>1 DEF Procs, SameSlot
  <2>3. CASE proc[q].parent # p
    BY <1>1, <2>1, <2>3 DEF SameSlot
  <2> QED  BY <2>2, <2>3
<1>7. proc' \in [Slot -> Procs]
  BY <1>1, <1>5, <1>6
<1>8. Good(ram', proc', call', p)
  <2>1. Slotted(ram', proc'[p], call'[p])
    BY <1>1, <1>3, <1>5 DEF Slotted
  <2> QED  BY <1>1, <1>3, <2>1, UserGood
<1>9. Active(proc'[p])
  BY <1>5 DEF Active
<1>10. SlotGoes(ram, proc, call, ram', proc', call', p, {}, {}, Nobody)
  BY <1>1, <1>3, <1>5, <1>9, Stays DEF SlotGoes
<1>11. Alone(proc, call, proc', call', p) /\ proc[p].state # "EMBRYO"
  BY <1>1, <1>6 DEF Alone
<1>12. /\ Goes(Range(ram.free), Range(ram'.free), Nobody, {}, {}, Nobody)
       /\ {} \in SUBSET Frame /\ {} \in SUBSET Owners /\ Ram(ram') /\ call' \in [Slot -> CallRecords]
       /\ (\A b \in {} : Near(b, p, p)) /\ (\A f \in {} : own[f] \in {})
       /\ \A f \in Frame : ram'.frame[f] # ram.frame[f] => Near(own[f], p, p)
       /\ Nobody \in Owners /\ Near(Nobody, p, p)
  BY <1>1, <1>2, Stays, OwnersAre, NearBy
<1>13. Sound(Moved(own, {}, Nobody), ram', proc', call')
  BY <1>7, <1>8, <1>10, <1>11, <1>12, OneGoes
<1> QED  BY <1>13

\* The slot x is unused from now on, and the frames that change are of these owners.
Leaves(own, x, owners) ==
  /\ proc'[x].state = "UNUSED" /\ \A q \in Slot \ {x} : proc'[q] = proc[q]
  /\ \A f \in Frame : ram'.frame[f] # ram.frame[f] => own[f] \in owners

\* wait gives back the stack and the space of a child that has ended.
LEMMA WaitSound ==
  ASSUME NEW own, Sound(own, ram, proc, call), NEW p \in Slot, Wait(p)
  PROVE  /\ \E own2 : Sound(own2, ram', proc', call')
         /\ \E x \in Slot : proc[x].state = "ZOMBIE" /\ Leaves(own, x, {<<"stack", x>>, <<"of", x>>})
<1>1. PICK x \in Slot :
        /\ proc[x].state = "ZOMBIE"
        /\ ram' = FreeVm(Kfree(ram, <<proc[x].kstack>>), proc[x].pgdir)
        /\ proc' = [proc EXCEPT ![x] = [@ EXCEPT !.kstack = 0, !.parent = 0, !.state = "UNUSED"]]
  BY DEF Wait
<1> DEFINE k == proc[x].kstack
           d == proc[x].pgdir
           s == Kfree(ram, <<k>>)
           fs == {k} \cup Own(ram, d)
           from == {<<"stack", x>>, <<"of", x>>}
<1>2. Runs(p) /\ call' = call
  BY DEF Wait
<1>3. proc[p].state = "RUNNABLE" /\ call[p].at = "user"
  BY <1>2, RunsHas
<1>4. /\ Ram(ram) /\ proc \in [Slot -> Procs] /\ call \in [Slot -> CallRecords] /\ ChildrenDiffer(call)
      /\ CallGood(ram, proc[p], call[p]) /\ Parental(proc, call[p])
      /\ CallGood(ram, proc[x], call[x]) /\ proc[x] \in Procs
  BY SlotIs
<1>5. x # p /\ Active(proc[x]) /\ call[x].op = "none" /\ call[x].at = "user" /\ call[x].mem = 0 /\ ~Makes(call[x])
  BY <1>1, <1>3, IdleIs DEF Active
<1>6. Space(ram, d) /\ k # 0 /\ k \in Frame
  BY <1>4, <1>5, ProcIs DEF CallGood, Slotted
<1>7. /\ Part(ram, proc, call, <<"stack", x>>) = {k} /\ Part(ram, proc, call, <<"of", x>>) = Own(ram, d)
      /\ Part(ram, proc, call, Nobody) = Range(ram.free)
  <2>1. {k} \ {0} = {k}
    BY <1>6
  <2> HIDE DEF d
  <2>2. Part(ram, proc, call, <<"stack", x>>) = {k} \ {0}
    BY DEF Part
  <2>3. Part(ram, proc, call, <<"of", x>>) = Own(ram, d)
    BY <1>5 DEF Part, d
  <2> QED  BY <2>1, <2>2, <2>3, PartIs
<1>8. /\ <<"stack", x>> \in Owners /\ <<"of", x>> \in Owners /\ Nobody \in Owners
      /\ <<"stack", x>> # Nobody /\ <<"of", x>> # Nobody /\ <<"stack", x>> # <<"of", x>>
  BY OwnersAre
<1>9. /\ own[k] = <<"stack", x>> /\ \A f \in Own(ram, d) : f \in Frame /\ own[f] = <<"of", x>>
      /\ k \notin Range(ram.free) /\ k \notin Own(ram, d) /\ Range(ram.free) \cap Own(ram, d) = {}
  BY <1>7, <1>8, PartsDiffer
<1>10. Freed(ram, s, {k})
  BY <1>4, <1>6, <1>9, KfreeOne
<1>11. Space(s, d) /\ Own(s, d) = Own(ram, d)
  BY <1>6, <1>9, <1>10, FreedKept
<1>12. Ram(s) /\ Range(s.free) \cap Own(s, d) = {}
  BY <1>9, <1>10, <1>11 DEF Freed
<1>13. Freed(s, FreeVm(s, d), Own(s, d))
  BY <1>11, <1>12, FreeVmIs
<1>14. Freed(ram, ram', fs)
  BY <1>1, <1>10, <1>11, <1>13, FreedBoth
<1> HIDE DEF s
<1>15. /\ Ram(ram') /\ Range(ram'.free) = Range(ram.free) \cup fs
       /\ \A f \in Frame \ fs : ram'.frame[f] = ram.frame[f]
  BY <1>14 DEF Freed
<1>16. fs \in SUBSET Frame /\ (\A f \in fs : own[f] \in from) /\ from \in SUBSET Owners
  BY <1>6, <1>8, <1>9
<1>17. \A b \in from : Near(b, p, x)
  BY NearBy
<1>18. \A f \in Frame : ram'.frame[f] # ram.frame[f] => Near(own[f], p, x)
  BY <1>15, <1>16, <1>17
<1>19. /\ proc' \in [Slot -> Procs] /\ \A q \in Slot \ {x} : proc'[q] = proc[q]
       /\ proc'[x].state = "UNUSED" /\ proc'[x].kstack = 0 /\ ~Active(proc'[x])
  <2>1. [proc[x] EXCEPT !.kstack = 0, !.parent = 0, !.state = "UNUSED"] \in Procs
    BY <1>4 DEF Procs
  <2>2. proc'[x] = [proc[x] EXCEPT !.kstack = 0, !.parent = 0, !.state = "UNUSED"]
    BY <1>1, <1>4
  <2>3. proc'[x].state = "UNUSED" /\ proc'[x].kstack = 0
    BY <1>4, <2>2 DEF Procs
  <2> QED  BY <1>1, <1>4, <2>1, <2>2, <2>3 DEF Active
<1>20. Active(proc[p]) /\ Kept(ram, ram', proc[p].pgdir)
  <2>1. /\ Active(proc[p]) /\ Space(ram, proc[p].pgdir) /\ \A f \in Own(ram, proc[p].pgdir) : own[f] = <<"of", p>>
    BY <1>3, RunsIs
  <2>2. <<"of", p>> # <<"of", x>> /\ <<"of", p>> # <<"stack", x>>
    BY <1>5
  <2>3. fs \cap Own(ram, proc[p].pgdir) = {}
    BY <1>16, <2>1, <2>2
  <2> QED  BY <1>14, <2>1, <2>3, FreedKept
<1> HIDE DEF fs
<1>21. Good(ram', proc', call', p)
  <2>1. call[p].op = "none" /\ call[p].mem = 0
    BY <1>3, InUser
  <2>2. Slotted(ram', proc[p], call[p])
    BY <1>4, <1>20, SlottedKept DEF CallGood
  <2> QED  BY <1>2, <1>3, <1>5, <1>19, <2>1, <2>2, UserGood
<1>22. Good(ram', proc', call', x)
  <2>1. Slotted(ram', proc'[x], call'[x])
    BY <1>2, <1>5, <1>19 DEF Slotted
  <2> QED  BY <1>2, <1>5, <2>1, UserGood
<1>23. Aside(proc, call, proc', call', p, x)
  <2>1. \A q \in Slot : call[q].op = "fork" => call[q].child # p /\ call[q].child # x
    BY <1>1, <1>3, NoChild
  <2> QED  BY <1>2, <1>4, <1>19, <2>1, SameSlotIs DEF Aside
<1>24. \A j \in {"stack", "mem", "of", "new"} : <<j, p>> \notin from /\ <<j, p>> # Nobody /\ <<j, x>> # Nobody
  BY <1>5, OwnersAre
<1>25. <<"mem", x>> \notin from /\ <<"new", x>> \notin from /\ <<"stack", x>> \in from /\ <<"of", x>> \in from
  OBVIOUS
<1>26. fs = {k} \cup Own(ram, d) /\ k \notin Own(ram, d)
  BY <1>9 DEF fs
<1> HIDE DEF from
<1>27. SlotGoes(ram, proc, call, ram', proc', call', p, fs, from, Nobody)
  <2>1. proc'[p] = proc[p] /\ call'[p] = call[p] /\ Own(ram', proc[p].pgdir) = Own(ram, proc[p].pgdir)
    BY <1>2, <1>5, <1>19, <1>20 DEF Kept
  <2>2. \A S, j : j \in {"stack", "mem", "of", "new"} => Goes(S, S, <<j, p>>, fs, from, Nobody)
    BY <1>24 DEF Goes
  <2>3. ~Makes(call[p])
    BY <1>3, InUser
  <2> QED  BY <1>20, <2>1, <2>2, <2>3 DEF SlotGoes
<1>28. SlotGoes(ram, proc, call, ram', proc', call', x, fs, from, Nobody)
  <2>1. Goes({proc[x].kstack} \ {0}, {proc'[x].kstack} \ {0}, <<"stack", x>>, fs, from, Nobody)
    BY <1>19, <1>24, <1>25, <1>26 DEF Goes
  <2>2. Goes(IF Active(proc[x]) THEN Own(ram, proc[x].pgdir) ELSE {},
             IF Active(proc'[x]) THEN Own(ram', proc'[x].pgdir) ELSE {}, <<"of", x>>, fs, from, Nobody)
    BY <1>5, <1>19, <1>24, <1>25, <1>26 DEF Goes
  <2>3. Goes({call[x].mem} \ {0}, {call'[x].mem} \ {0}, <<"mem", x>>, fs, from, Nobody)
    BY <1>2, <1>24, <1>25 DEF Goes
  <2>4. ~Makes(call'[x])
    BY <1>2, <1>5
  <2> QED  BY <1>5, <1>24, <1>25, <2>1, <2>2, <2>3, <2>4 DEF SlotGoes, Goes
<1>29. Goes(Range(ram.free), Range(ram'.free), Nobody, fs, from, Nobody)
  BY <1>15 DEF Goes
<1>30. call' \in [Slot -> CallRecords] /\ Near(Nobody, p, x) /\ Ram(ram')
  BY <1>2, <1>4, <1>15, NearBy
<1>31. Sound(Moved(own, fs, Nobody), ram', proc', call')
  <2> HIDE DEF k, d
  <2> QED  BY <1>8, <1>16, <1>17, <1>18, <1>19, <1>21, <1>22, <1>23, <1>27, <1>28, <1>29, <1>30, StepGoes
<1>32. \A f \in Frame : ram'.frame[f] # ram.frame[f] => own[f] \in from
  BY <1>15, <1>16
<1>33. Leaves(own, x, {<<"stack", x>>, <<"of", x>>})
  BY <1>19, <1>32 DEF Leaves, from
<1> QED  BY <1>1, <1>31, <1>33

-----------------------------------------------------------------------------
(* The failing ends *)

\* What allocuvm, copyuvm and setupkvm leave of a space that fork or exec gives up
Emptied(c) ==
  LET shrunk == IF c.op # "fork" /\ c.at \in {"page", "map"}
                THEN DeallocUvm(ram, c.dir, c.to, c.from) ELSE ram
      held == Kfree(shrunk, IF c.mem = 0 THEN << >> ELSE <<c.mem>>)
  IN IF c.dir = 0 THEN held ELSE FreeVm(held, c.dir)
Unmade(c) == ({c.mem} \ {0}) \cup (IF Makes(c) THEN Own(ram, c.dir) ELSE {})

\* All of it is free, the page to come and the directory too, and nothing else is.
LEMMA EmptiedIs ==
  ASSUME NEW own, Sound(own, ram, proc, call), NEW p \in Slot, call[p].op \in {"fork", "exec"}
  PROVE  Freed(ram, Emptied(call[p]), Unmade(call[p]))
<1> DEFINE c == call[p]
           d == call[p].dir
           shrunk == IF c.op # "fork" /\ c.at \in {"page", "map"}
                     THEN DeallocUvm(ram, d, c.to, c.from) ELSE ram
           held == Kfree(shrunk, IF c.mem = 0 THEN << >> ELSE <<c.mem>>)
<1>1. /\ Ram(ram) /\ c \in CallRecords /\ c.mem \in Frame \cup {0} /\ c.to \in Int /\ c.from \in Int
      /\ d \in Frame \cup {0} /\ 0 \notin Frame
  BY SlotIs, RecordIs, FrameIs
<1>2. c.mem \notin Range(ram.free)
  BY <1>1, FreeIs
<1>3. CASE d = 0
  <2>1. ~Makes(c) /\ ~Loops(c)
    <3>1. ~Makes(c)
      BY <1>3 DEF Makes
    <3>2. Loops(c) => c.op = "sbrk"
      BY <3>1, AtPage
    <3> QED  BY <3>1, <3>2
  <2>2. shrunk = ram
    BY <2>1 DEF Loops
  <2>3. Freed(ram, held, {c.mem} \ {0})
    BY <1>1, <1>2, <2>2, KfreeMem
  <2>4. Emptied(c) = held
    BY <1>3 DEF Emptied
  <2>5. Unmade(c) = {c.mem} \ {0}
    BY <2>1 DEF Unmade
  <2> QED  BY <2>3, <2>4, <2>5
<1>4. CASE d # 0
  <2>1. Makes(c)
    BY <1>4 DEF Makes
  <2>2. /\ Space(ram, d) /\ Range(ram.free) \cap Own(ram, d) = {}
        /\ \A f \in Own(ram, d) : f \in Frame /\ own[f] = <<"new", p>>
        /\ c.mem # 0 => own[c.mem] = <<"mem", p>>
    BY <2>1, FreeIs
  <2>3. c.mem \notin Own(ram, d)
    BY <1>1, <2>2
  <2> HIDE DEF c, d
  <2>4. /\ Ram(shrunk) /\ Space(shrunk, d) /\ Own(shrunk, d) \subseteq Own(ram, d)
        /\ Range(shrunk.free) = Range(ram.free) \cup (Own(ram, d) \ Own(shrunk, d))
        /\ \A f \in Frame \ Own(ram, d) : shrunk.frame[f] = ram.frame[f]
    <3>1. CASE shrunk = ram
      BY <1>1, <2>2, <3>1
    <3>2. CASE shrunk = DeallocUvm(ram, d, c.to, c.from)
      <4> DEFINE ns == Gone(ram, d, c.to, c.from)
                 fs == FramesAt(ram, d, ns)
      <4>1. Given(ram, shrunk, d, ns)
        BY <1>1, <2>2, <3>2, DeallocGives
      <4> HIDE DEF ns
      <4>2. /\ Ram(shrunk) /\ Space(shrunk, d) /\ fs \subseteq PagesOf(ram, d) /\ Own(shrunk, d) = Own(ram, d) \ fs
            /\ Range(shrunk.free) = Range(ram.free) \cup fs
            /\ \A f \in Frame \ Own(ram, d) : shrunk.frame[f] = ram.frame[f]
        BY <4>1 DEF Given
      <4>3. fs \subseteq Own(ram, d)
        BY <2>2, <4>2, OwnFrames
      <4> QED  BY <4>2, <4>3
    <3> QED  BY <3>1, <3>2
  <2> HIDE DEF shrunk
  <2>5. c.mem \notin Range(shrunk.free)
    BY <1>2, <2>3, <2>4
  <2>6. Freed(shrunk, held, {c.mem} \ {0})
    BY <1>1, <2>4, <2>5, KfreeMem
  <2> HIDE DEF held
  <2>7. Space(held, d) /\ Own(held, d) = Own(shrunk, d)
    BY <2>3, <2>4, <2>6, FreedKept
  <2>8. Ram(held) /\ Range(held.free) = Range(shrunk.free) \cup ({c.mem} \ {0})
    BY <2>6 DEF Freed
  <2>9. Range(held.free) \cap Own(held, d) = {}
    BY <2>2, <2>3, <2>4, <2>7, <2>8
  <2>10. Freed(held, FreeVm(held, d), Own(held, d))
    BY <2>7, <2>8, <2>9, FreeVmIs
  <2> DEFINE e == FreeVm(held, d)
  <2>11. e = Emptied(c)
    BY <1>4 DEF Emptied, held, shrunk, c, d
  <2>12. Ram(e) /\ Range(e.free) = Range(held.free) \cup Own(held, d)
    BY <2>10 DEF Freed
  <2>13. Unmade(c) = ({c.mem} \ {0}) \cup Own(ram, d)
    BY <2>1 DEF Unmade, c, d
  <2>14. Range(e.free) = Range(ram.free) \cup Unmade(c)
    BY <2>4, <2>7, <2>8, <2>12, <2>13
  <2>15. ASSUME NEW f \in Frame \ Unmade(c)
         PROVE  e.frame[f] = ram.frame[f]
    <3>1. f \notin Own(ram, d) /\ f \notin {c.mem} \ {0} /\ f \notin Own(held, d)
      BY <2>4, <2>7, <2>13
    <3>2. shrunk.frame[f] = ram.frame[f]
      BY <2>4, <3>1
    <3>3. held.frame[f] = shrunk.frame[f]
      BY <2>6, <3>1 DEF Freed
    <3>4. e.frame[f] = held.frame[f]
      BY <2>10, <3>1 DEF Freed
    <3> QED  BY <3>2, <3>3, <3>4
  <2> HIDE DEF e
  <2>16. Freed(ram, e, Unmade(c))
    BY <2>12, <2>14, <2>15 DEF Freed
  <2> QED  BY <2>11, <2>16 DEF c
<1> QED  BY <1>1, <1>3, <1>4

\* exec gives up: the space that it was making is free, and the program goes on with its own.
LEMMA ExecGivesUp ==
  ASSUME NEW own, Sound(own, ram, proc, call), NEW p \in Slot, call[p].op = "exec", GiveUp(p)
  PROVE  /\ \E own2 : Sound(own2, ram', proc', call')
         /\ proc' = proc
         /\ \A f \in Frame : ram'.frame[f] # ram.frame[f] => own[f] \in {<<"mem", p>>, <<"new", p>>}
<1> DEFINE c == call[p]
           fs == Unmade(c)
           from == {<<"mem", p>>, <<"new", p>>}
<1>1. /\ ram' = Emptied(c) /\ proc' = proc /\ call' = [call EXCEPT ![p] = User]
  BY DEF GiveUp, Unwound, Emptied
<1>2. Freed(ram, ram', fs)
  BY <1>1, EmptiedIs
<1>3. /\ c \in CallRecords /\ CallGood(ram, proc[p], c) /\ c.mem \in Frame \cup {0}
  BY SlotIs, RecordIs
<1>4. /\ proc[p].state = "RUNNABLE" /\ Has(ram, proc[p].pgdir, Pages(proc[p].sz))
      /\ Active(proc[p]) /\ Space(ram, proc[p].pgdir) /\ proc[p].kstack # 0
  BY <1>3 DEF CallGood, Slotted, Active
<1>5. /\ Makes(c) => \A f \in Own(ram, c.dir) : f \in Frame /\ own[f] = <<"new", p>>
      /\ c.mem # 0 => c.mem \in Frame /\ own[c.mem] = <<"mem", p>>
      /\ \A f \in Own(ram, proc[p].pgdir) : f \in Frame /\ own[f] = <<"of", p>>
  BY <1>4, FreeIs
<1>6. fs \in SUBSET Frame /\ \A f \in fs : own[f] \in from
  BY <1>5 DEF Unmade
<1>7. Kept(ram, ram', proc[p].pgdir)
  <2>1. <<"of", p>> \notin from
    OBVIOUS
  <2>2. fs \cap Own(ram, proc[p].pgdir) = {}
    BY <1>5, <1>6, <2>1
  <2> QED  BY <1>2, <1>4, <2>2, FreedKept
<1>8. /\ Ram(ram') /\ Range(ram'.free) = Range(ram.free) \cup fs
      /\ \A f \in Frame \ fs : ram'.frame[f] = ram.frame[f]
  BY <1>2 DEF Freed
<1>9. CallGood(ram', proc[p], User)
  <2>1. Space(ram', proc[p].pgdir) /\ Has(ram', proc[p].pgdir, Pages(proc[p].sz))
    BY <1>4, <1>7 DEF Kept, Has
  <2>2. call'[p] = User
    BY <1>1, SlotIs
  <2>3. Good(ram', proc, call', p)
    BY <1>4, <2>1, <2>2, EndedGood
  <2> QED  BY <2>2, <2>3 DEF Good
<1>10. /\ User \in CallRecords /\ User.mem = 0 /\ User.op # "fork" /\ ~Makes(User) /\ proc[p].state # "EMBRYO"
  BY <1>4, UserIs
<1>11. /\ <<"mem", p>> \in Owners /\ <<"new", p>> \in Owners /\ Nobody \in Owners
       /\ <<"mem", p>> # Nobody /\ <<"new", p>> # Nobody /\ <<"of", p>> # Nobody /\ <<"stack", p>> # Nobody
       /\ Near(Nobody, p, p) /\ Near(<<"mem", p>>, p, p) /\ Near(<<"new", p>>, p, p)
  BY OwnersAre, NearBy
<1>12. /\ from \in SUBSET Owners /\ (\A b \in from : Near(b, p, p)) /\ <<"stack", p>> \notin from \cup {Nobody}
       /\ <<"mem", p>> \in from /\ <<"new", p>> \in from /\ <<"of", p>> \notin from
  BY <1>11
<1>13. \A f \in Frame : ram'.frame[f] # ram.frame[f] => Near(own[f], p, p)
  BY <1>6, <1>8, <1>12
<1>14. Goes({call[p].mem} \ {0}, {User.mem} \ {0}, <<"mem", p>>, fs, from, Nobody)
  BY <1>10, <1>11, <1>12 DEF Goes, Unmade
<1>15. Goes(IF Makes(call[p]) THEN Own(ram, call[p].dir) ELSE {},
            IF Makes(User) THEN Own(ram', User.dir) ELSE {}, <<"new", p>>, fs, from, Nobody)
  BY <1>10, <1>11, <1>12 DEF Goes, Unmade
<1> HIDE DEF fs, from
<1>16. Goes(Range(ram.free), Range(ram'.free), Nobody, fs, from, Nobody)
  BY <1>8 DEF Goes
<1>17. Goes(IF Active(proc[p]) THEN Own(ram, proc[p].pgdir) ELSE {},
            IF Active(proc[p]) THEN Own(ram', proc[p].pgdir) ELSE {}, <<"of", p>>, fs, from, Nobody)
  BY <1>4, <1>7, <1>11, <1>12 DEF Goes, Kept
<1>18. /\ User.op = "fork" => User.op = call[p].op /\ User.child = call[p].child
       /\ User.op = "fork" => User.at # "kstack" /\ call[p].at # "kstack"
  BY <1>10
<1> DEFINE u == User
<1>19. /\ u \in CallRecords /\ CallGood(ram', proc[p], u)
       /\ Goes({call[p].mem} \ {0}, {u.mem} \ {0}, <<"mem", p>>, fs, from, Nobody)
       /\ Goes(IF Makes(call[p]) THEN Own(ram, call[p].dir) ELSE {},
               IF Makes(u) THEN Own(ram', u.dir) ELSE {}, <<"new", p>>, fs, from, Nobody)
       /\ u.op = "fork" => u.op = call[p].op /\ u.child = call[p].child
       /\ u.op = "fork" => u.at # "kstack" /\ call[p].at # "kstack"
  BY <1>9, <1>10, <1>14, <1>15, <1>18
<1> HIDE DEF u
<1>20. Sound(Moved(own, fs, Nobody), ram', proc, [call EXCEPT ![p] = u])
  BY <1>6, <1>8, <1>10, <1>11, <1>12, <1>13, <1>16, <1>17, <1>19, CallGoes
<1>21. \A f \in Frame : ram'.frame[f] # ram.frame[f] => own[f] \in {<<"mem", p>>, <<"new", p>>}
  BY <1>6, <1>8 DEF from
<1> QED  BY <1>1, <1>20, <1>21 DEF u

\* fork gives up: what it was making for the child is free, and the child's stack, and its slot.
LEMMA ForkGivesUp ==
  ASSUME NEW own, Sound(own, ram, proc, call), NEW p \in Slot, call[p].op = "fork", call[p].at # "kstack", GiveUp(p)
  PROVE  /\ \E own2 : Sound(own2, ram', proc', call')
         /\ \E x \in Slot : /\ proc[x].state = "EMBRYO"
                           /\ Leaves(own, x, {<<"mem", p>>, <<"new", p>>, <<"stack", x>>})
<1> DEFINE c == call[p]
           x == call[p].child
           k == proc[call[p].child].kstack
           e == Emptied(c)
           fs == Unmade(c) \cup {k}
           from == {<<"mem", p>>, <<"new", p>>, <<"stack", x>>}
<1>1. /\ ram' = Kfree(e, <<k>>) /\ call' = [call EXCEPT ![p] = User]
      /\ proc' = [proc EXCEPT ![x].state = "UNUSED", ![x].kstack = 0, ![x].pgdir = 0]
  BY DEF GiveUp, Unwound, Emptied
<1>2. Freed(ram, e, Unmade(c))
  BY EmptiedIs
<1>3. /\ c \in CallRecords /\ CallGood(ram, proc[p], c) /\ c.mem \in Frame \cup {0}
      /\ proc \in [Slot -> Procs] /\ call \in [Slot -> CallRecords] /\ ChildrenDiffer(call)
  BY SlotIs, RecordIs
<1>4. /\ x \in Slot /\ x # p /\ proc[x].state = "EMBRYO" /\ ~Active(proc[x]) /\ k # 0
      /\ call[x].op = "none" /\ call[x].at = "user" /\ call[x].mem = 0 /\ ~Makes(call[x])
      /\ proc[p].state = "RUNNABLE" /\ Active(proc[p])
      /\ Has(ram, proc[p].pgdir, Pages(proc[p].sz))
      /\ \A q \in Slot \ {p, x} : call[q].op = "fork" => call[q].child \notin {p, x}
  BY ChildIs
<1>5. Space(ram, proc[p].pgdir) /\ proc[p].kstack # 0
  BY <1>3, <1>4 DEF CallGood, Slotted
<1>6. /\ Makes(c) => \A f \in Own(ram, c.dir) : f \in Frame /\ own[f] = <<"new", p>>
      /\ c.mem # 0 => c.mem \in Frame /\ own[c.mem] = <<"mem", p>>
      /\ \A f \in Own(ram, proc[p].pgdir) : f \in Frame /\ own[f] = <<"of", p>>
  BY <1>4, FreeIs
<1>7. k \in Frame /\ own[k] = <<"stack", x>>
  <2>1. proc[x] \in Procs
    BY <1>3, <1>4
  <2>2. k \in Frame
    BY <1>4, <2>1, ProcIs
  <2>3. k \in Part(ram, proc, call, <<"stack", x>>)
    BY <1>4 DEF Part
  <2>4. <<"stack", x>> \in Owners
    BY <1>4, OwnersAre
  <2> QED  BY <2>2, <2>3, <2>4, PartsDiffer
<1>8. k \notin Range(ram.free) /\ k \notin Unmade(c)
  <2>1. <<"stack", x>> # Nobody /\ <<"stack", x>> # <<"new", p>> /\ <<"stack", x>> # <<"mem", p>>
    BY <1>4, OwnersAre
  <2>2. k \notin Range(ram.free)
    BY <1>7, <2>1, FreeIs
  <2>3. k \notin Unmade(c)
    BY <1>6, <1>7, <2>1 DEF Unmade
  <2> QED  BY <2>2, <2>3
<1> HIDE DEF x, k
<1>9. Freed(ram, ram', fs)
  <2>1. Ram(e) /\ k \notin Range(e.free)
    BY <1>2, <1>8 DEF Freed
  <2> HIDE DEF e
  <2>2. Freed(e, Kfree(e, <<k>>), {k})
    BY <1>7, <2>1, KfreeOne
  <2> QED  BY <1>1, <1>2, <2>2, FreedBoth DEF e
<1>10. fs \in SUBSET Frame /\ \A f \in fs : own[f] \in from
  BY <1>6, <1>7 DEF Unmade
<1>11. Kept(ram, ram', proc[p].pgdir)
  <2>1. <<"of", p>> \notin from
    BY <1>4, OwnersAre
  <2>2. fs \cap Own(ram, proc[p].pgdir) = {}
    BY <1>6, <1>10, <2>1
  <2> QED  BY <1>5, <1>9, <2>2, FreedKept
<1>12. /\ Ram(ram') /\ Range(ram'.free) = Range(ram.free) \cup fs
       /\ \A f \in Frame \ fs : ram'.frame[f] = ram.frame[f]
  BY <1>9 DEF Freed
<1>13. /\ proc' \in [Slot -> Procs] /\ \A q \in Slot \ {x} : proc'[q] = proc[q]
       /\ proc'[x].state = "UNUSED" /\ proc'[x].kstack = 0 /\ ~Active(proc'[x])
  <2>1. /\ proc' = [proc EXCEPT ![x] = [proc[x] EXCEPT !.state = "UNUSED", !.kstack = 0, !.pgdir = 0]]
        /\ proc[x] \in Procs
    BY <1>1, <1>3, <1>4
  <2>2. [proc[x] EXCEPT !.state = "UNUSED", !.kstack = 0, !.pgdir = 0] \in Procs
    BY <2>1 DEF Procs
  <2>3. proc'[x].state = "UNUSED" /\ proc'[x].kstack = 0
    BY <1>3, <1>4, <2>1 DEF Procs
  <2> QED  BY <1>3, <1>4, <2>1, <2>2, <2>3 DEF Active
<1>14. call' \in [Slot -> CallRecords] /\ call'[p] = User /\ \A q \in Slot \ {p} : call'[q] = call[q]
  BY <1>1, <1>3, UserIs
<1>15. Good(ram', proc', call', p)
  <2>1. Space(ram', proc[p].pgdir) /\ Has(ram', proc[p].pgdir, Pages(proc[p].sz))
    BY <1>4, <1>11 DEF Kept, Has
  <2> QED  BY <1>4, <1>5, <1>13, <1>14, <2>1, EndedGood
<1>16. Good(ram', proc', call', x)
  <2>1. Slotted(ram', proc'[x], call'[x])
    BY <1>4, <1>13, <1>14 DEF Slotted
  <2> QED  BY <1>4, <1>14, <2>1, UserGood
<1>17. Aside(proc, call, proc', call', p, x)
  <2>1. ChildrenDiffer(call')
    BY <1>3, <1>14, UserIs, ChildrenStay
  <2> QED  BY <1>4, <1>13, <1>14, <2>1, SameSlotIs DEF Aside
<1>18. /\ <<"mem", p>> \in Owners /\ <<"new", p>> \in Owners /\ <<"stack", x>> \in Owners /\ Nobody \in Owners
       /\ Near(Nobody, p, x) /\ Near(<<"mem", p>>, p, x) /\ Near(<<"new", p>>, p, x) /\ Near(<<"stack", x>>, p, x)
  BY <1>4, OwnersAre, NearBy
<1>19. \A j \in {"stack", "mem", "of", "new"} : <<j, p>> # Nobody /\ <<j, x>> # Nobody
  BY <1>4, OwnersAre
<1>20. /\ <<"mem", p>> \in from /\ <<"new", p>> \in from /\ <<"stack", x>> \in from
       /\ <<"stack", p>> \notin from /\ <<"of", p>> \notin from
       /\ <<"mem", x>> \notin from /\ <<"of", x>> \notin from /\ <<"new", x>> \notin from
  BY <1>4, OwnersAre
<1>21. from \in SUBSET Owners /\ \A b \in from : Near(b, p, x)
  BY <1>18
<1>22. /\ {c.mem} \ {0} \subseteq fs /\ (IF Makes(c) THEN Own(ram, c.dir) ELSE {}) \subseteq fs /\ k \in fs
  BY DEF Unmade
<1> HIDE DEF fs, from
<1>23. SlotGoes(ram, proc, call, ram', proc', call', p, fs, from, Nobody)
  <2>1. /\ proc'[p] = proc[p] /\ Own(ram', proc[p].pgdir) = Own(ram, proc[p].pgdir)
        /\ call'[p].mem = 0 /\ ~Makes(call'[p])
    BY <1>4, <1>11, <1>13, <1>14, UserIs DEF Kept
  <2>2. \A S, j : j \in {"stack", "of"} => Goes(S, S, <<j, p>>, fs, from, Nobody)
    BY <1>19, <1>20 DEF Goes
  <2>3. Goes({call[p].mem} \ {0}, {call'[p].mem} \ {0}, <<"mem", p>>, fs, from, Nobody)
    BY <1>19, <1>20, <1>22, <2>1 DEF Goes
  <2>4. Goes(IF Makes(call[p]) THEN Own(ram, call[p].dir) ELSE {},
             IF Makes(call'[p]) THEN Own(ram', call'[p].dir) ELSE {}, <<"new", p>>, fs, from, Nobody)
    BY <1>19, <1>20, <1>22, <2>1 DEF Goes
  <2> QED  BY <1>4, <2>1, <2>2, <2>3, <2>4 DEF SlotGoes
<1>24. SlotGoes(ram, proc, call, ram', proc', call', x, fs, from, Nobody)
  <2>1. Goes({proc[x].kstack} \ {0}, {proc'[x].kstack} \ {0}, <<"stack", x>>, fs, from, Nobody)
    <3>1. proc[x].kstack = k
      BY DEF k, x
    <3> QED  BY <1>13, <1>19, <1>20, <1>22, <3>1 DEF Goes
  <2>2. \A S, j : j \in {"mem", "of", "new"} => Goes(S, S, <<j, x>>, fs, from, Nobody)
    BY <1>19, <1>20 DEF Goes
  <2>3. call'[x] = call[x]
    BY <1>4, <1>14
  <2> QED  BY <1>4, <1>13, <2>1, <2>2, <2>3 DEF SlotGoes
<1>25. Goes(Range(ram.free), Range(ram'.free), Nobody, fs, from, Nobody)
  BY <1>12 DEF Goes
<1>26. \A f \in Frame : ram'.frame[f] # ram.frame[f] => Near(own[f], p, x)
  BY <1>10, <1>12, <1>21
<1>27. Sound(Moved(own, fs, Nobody), ram', proc', call')
  <2>1. x \in Slot /\ Ram(ram') /\ proc' \in [Slot -> Procs] /\ Nobody \in Owners /\ Near(Nobody, p, x)
    BY <1>4, <1>12, <1>13, <1>18
  <2> QED  BY <1>10, <1>14, <1>15, <1>16, <1>17, <1>21, <1>23, <1>24, <1>25, <1>26, <2>1, StepGoes
<1>28. \A f \in Frame : ram'.frame[f] # ram.frame[f] => own[f] \in {<<"mem", p>>, <<"new", p>>, <<"stack", x>>}
  BY <1>10, <1>12 DEF from
<1>29. x \in Slot /\ proc[x].state = "EMBRYO" /\ Leaves(own, x, {<<"mem", p>>, <<"new", p>>, <<"stack", x>>})
  BY <1>4, <1>13, <1>28 DEF Leaves
<1> QED  BY <1>27, <1>29

\* A page that looks the same to programs in two memories
There(r, d, n) == Walk(r, d, n).frame # 0 /\ Walk(r, d, n).user
Alike(r, d, r2, d2, n) ==
  /\ There(r2, d2, n) <=> There(r, d, n)
  /\ There(r, d, n) => r2.frame[Walk(r2, d2, n).frame] = r.frame[Walk(r, d, n).frame]

\* Where pages and their contents are kept, they are alike.
LEMMA KeptAlike ==
  ASSUME NEW r, NEW r2, NEW d, NEW n, Walk(r2, d, n) = Walk(r, d, n),
         Walk(r, d, n).frame # 0 => r2.frame[Walk(r, d, n).frame] = r.frame[Walk(r, d, n).frame]
  PROVE  Alike(r, d, r2, d, n)
  BY DEF Alike, There

\* The pages of a program, up to its size, stay as they are.
Lower(r2, s) == \A n \in Page : n < Pages(s.sz) => Alike(ram, s.pgdir, r2, s.pgdir, n)

\* sbrk gives up: deallocuvm takes the pages that allocuvm has mapped, and no other.
LEMMA SbrkGivesUp ==
  ASSUME NEW own, Sound(own, ram, proc, call), NEW p \in Slot, call[p].op = "sbrk", Loops(call[p]), GiveUp(p)
  PROVE  /\ \E own2 : Sound(own2, ram', proc', call')
         /\ proc' = proc /\ Lower(ram', proc[p])
         /\ \A f \in Frame : ram'.frame[f] # ram.frame[f] => own[f] \in {<<"mem", p>>, <<"of", p>>}
<1> DEFINE c == call[p]
           d == call[p].dir
           ns == Gone(ram, d, c.to, c.from)
           gone == FramesAt(ram, d, ns)
           s == DeallocUvm(ram, d, c.to, c.from)
           fs == gone \cup ({c.mem} \ {0})
           from == {<<"mem", p>>, <<"of", p>>}
<1>1. /\ ram' = Kfree(s, IF c.mem = 0 THEN << >> ELSE <<c.mem>>)
      /\ proc' = proc /\ call' = [call EXCEPT ![p] = User]
  BY DEF GiveUp, Unwound, Loops
<1>2. /\ c \in CallRecords /\ CallGood(ram, proc[p], c) /\ c.mem \in Frame \cup {0} /\ proc[p] \in Procs /\ Ram(ram)
      /\ c.to \in Nat /\ c.from \in Nat /\ c.to <= KERNBASE /\ c.n \in Nat
  BY SlotIs, RecordIs
<1>3. /\ proc[p].state = "RUNNABLE" /\ Active(proc[p]) /\ proc[p].kstack # 0
      /\ c.dir = proc[p].pgdir /\ c.from = proc[p].sz /\ Pages(c.from) <= c.n /\ c.n < Pages(c.to)
      /\ Has(ram, d, c.n) /\ ~Makes(c) /\ Space(ram, d)
  BY <1>2 DEF CallGood, Slotted, Active, Enlarging, InLoop, Makes
<1>4. c.from < c.to
  <2>1. Pages(c.from) \in Nat /\ Pages(c.to) \in Nat /\ (c.to <= c.from => Pages(c.to) <= Pages(c.from))
    BY <1>2, PagesAre, PagesGrow
  <2> QED  BY <1>2, <1>3, <2>1
<1>5. /\ Range(ram.free) \cap Own(ram, d) = {} /\ \A f \in Own(ram, d) : f \in Frame /\ own[f] = <<"of", p>>
      /\ c.mem # 0 => c.mem \in Frame /\ c.mem \notin Range(ram.free) /\ own[c.mem] = <<"mem", p>>
  BY <1>3, FreeIs
<1>6. c.mem \notin Own(ram, d) /\ c.mem \notin Range(ram.free)
  BY <1>2, <1>5, FrameIs, FreeIs
<1>7. Given(ram, s, d, ns)
  <2>1. c.to \in Int /\ c.from \in Int
    BY <1>2
  <2> HIDE DEF c, d
  <2> QED  BY <1>2, <1>3, <1>5, <2>1, DeallocGives
<1> HIDE DEF s, ns
<1>8. /\ Ram(s) /\ Space(s, d) /\ gone \subseteq PagesOf(ram, d) /\ Own(s, d) = Own(ram, d) \ gone
      /\ Range(s.free) = Range(ram.free) \cup gone
      /\ \A f \in Frame \ Own(ram, d) : s.frame[f] = ram.frame[f]
      /\ \A n \in ns : Walk(s, d, n) = NoPte
      /\ \A n \in Page \ ns : Walk(s, d, n) = Walk(ram, d, n)
  BY <1>7 DEF Given
<1>9. gone \subseteq Own(ram, d)
  BY <1>3, <1>8, OwnFrames
<1> HIDE DEF gone
<1>10. Freed(s, ram', {c.mem} \ {0})
  <2>1. c.mem \notin Range(s.free)
    BY <1>6, <1>8, <1>9
  <2>2. Ram(s) /\ c.mem \in Frame \cup {0}
    BY <1>2, <1>8
  <2> HIDE DEF c
  <2> QED  BY <1>1, <2>1, <2>2, KfreeMem
<1>11. Kept(s, ram', d)
  <2>1. ({c.mem} \ {0}) \cap Own(s, d) = {}
    BY <1>6, <1>8
  <2> QED  BY <1>8, <1>10, <2>1, FreedKept
<1>12. /\ Ram(ram') /\ Range(ram'.free) = Range(ram.free) \cup fs
       /\ Space(ram', d) /\ Own(ram', d) = Own(ram, d) \ fs
       /\ \A f \in Frame : f \notin Own(ram, d) /\ f \notin {c.mem} \ {0} => ram'.frame[f] = ram.frame[f]
  <2>1. Ram(ram') /\ Range(ram'.free) = Range(s.free) \cup ({c.mem} \ {0})
    BY <1>10 DEF Freed
  <2>2. Space(ram', d) /\ Own(ram', d) = Own(s, d)
    BY <1>11 DEF Kept
  <2>3. \A f \in Frame : f \notin Own(ram, d) /\ f \notin {c.mem} \ {0} => ram'.frame[f] = ram.frame[f]
    BY <1>8, <1>10 DEF Freed
  <2> QED  BY <1>6, <1>8, <2>1, <2>2, <2>3
<1>13. Has(ram', d, Pages(proc[p].sz))
  <2>1. Pages(c.to) \in Nat /\ c.n <= Pages(c.to)
    BY <1>2, <1>3, PagesAre
  <2>2. Has(s, d, Pages(c.from))
    BY <1>2, <1>3, <1>4, <1>8, <2>1, HasLess DEF ns
  <2> QED  BY <1>3, <1>11, <2>2 DEF Kept, Has
<1>14. fs \in SUBSET Frame /\ \A f \in fs : own[f] \in from
  BY <1>5, <1>9
<1>15. CallGood(ram', proc[p], User)
  <2>1. call'[p] = User
    BY <1>1, SlotIs
  <2>2. Good(ram', proc, call', p)
    BY <1>3, <1>12, <1>13, <2>1, EndedGood
  <2> QED  BY <2>1, <2>2 DEF Good
<1>16. /\ User \in CallRecords /\ User.mem = 0 /\ User.op # "fork" /\ ~Makes(User) /\ proc[p].state # "EMBRYO"
  BY <1>3, UserIs
<1>17. /\ <<"mem", p>> \in Owners /\ <<"of", p>> \in Owners /\ Nobody \in Owners
       /\ <<"mem", p>> # Nobody /\ <<"new", p>> # Nobody /\ <<"of", p>> # Nobody /\ <<"stack", p>> # Nobody
       /\ Near(Nobody, p, p) /\ Near(<<"mem", p>>, p, p) /\ Near(<<"of", p>>, p, p)
  BY OwnersAre, NearBy
<1>18. /\ from \in SUBSET Owners /\ (\A b \in from : Near(b, p, p)) /\ <<"stack", p>> \notin from \cup {Nobody}
       /\ <<"mem", p>> \in from /\ <<"new", p>> \notin from /\ <<"of", p>> \in from
  BY <1>17
<1>19. \A f \in Frame : ram'.frame[f] # ram.frame[f] => Near(own[f], p, p)
  BY <1>5, <1>12, <1>17
<1> DEFINE u == User
<1>20. /\ u \in CallRecords /\ CallGood(ram', proc[p], u)
       /\ u.op = "fork" => u.op = call[p].op /\ u.child = call[p].child
       /\ u.op = "fork" => u.at # "kstack" /\ call[p].at # "kstack"
  BY <1>15, <1>16
<1>21. Goes({call[p].mem} \ {0}, {u.mem} \ {0}, <<"mem", p>>, fs, from, Nobody)
  BY <1>16, <1>17, <1>18 DEF Goes
<1>22. Goes(IF Makes(call[p]) THEN Own(ram, call[p].dir) ELSE {},
            IF Makes(u) THEN Own(ram', u.dir) ELSE {}, <<"new", p>>, fs, from, Nobody)
  BY <1>3, <1>16, <1>17, <1>18 DEF Goes
<1> HIDE DEF u
<1>23. Goes(IF Active(proc[p]) THEN Own(ram, proc[p].pgdir) ELSE {},
            IF Active(proc[p]) THEN Own(ram', proc[p].pgdir) ELSE {}, <<"of", p>>, fs, from, Nobody)
  <2>1. d = proc[p].pgdir
    BY <1>3
  <2> HIDE DEF d, fs, from
  <2> QED  BY <1>3, <1>12, <1>17, <1>18, <2>1 DEF Goes
<1> HIDE DEF fs, from
<1>24. Goes(Range(ram.free), Range(ram'.free), Nobody, fs, from, Nobody)
  BY <1>12 DEF Goes
<1>25. Ram(ram') /\ proc[p].state # "EMBRYO"
  BY <1>12, <1>16
<1>26. Sound(Moved(own, fs, Nobody), ram', proc, [call EXCEPT ![p] = u])
  BY <1>14, <1>17, <1>18, <1>19, <1>20, <1>21, <1>22, <1>23, <1>24, <1>25, CallGoes
<1>27. Lower(ram', proc[p])
  <2>1. \A n \in Page : n < Pages(proc[p].sz) => n \notin ns
    <3>1. \A n \in ns : n \in Nat /\ n >= Pages(c.from)
      BY PageIs DEF ns, Gone
    <3> QED  BY <1>2, <1>3, <3>1, PagesAre
  <2>2. \A n \in Page \ ns : Walk(ram, d, n).frame # 0 => s.frame[Walk(ram, d, n).frame] = ram.frame[Walk(ram, d, n).frame]
    BY <1>7 DEF Given
  <2>3. \A n \in Page : /\ Walk(ram', d, n) = Walk(s, d, n)
                        /\ Walk(s, d, n).frame # 0 => ram'.frame[Walk(s, d, n).frame] = s.frame[Walk(s, d, n).frame]
    BY <1>11 DEF Kept
  <2>4. d = proc[p].pgdir
    BY <1>3
  <2> HIDE DEF d
  <2>5. \A n \in Page : n < Pages(proc[p].sz) =>
          /\ Walk(ram', d, n) = Walk(ram, d, n)
          /\ Walk(ram, d, n).frame # 0 => ram'.frame[Walk(ram, d, n).frame] = ram.frame[Walk(ram, d, n).frame]
    BY <1>8, <2>1, <2>2, <2>3
  <2>6. \A n \in Page : n < Pages(proc[p].sz) => Alike(ram, d, ram', d, n)
    BY <2>5, KeptAlike
  <2> QED  BY <2>4, <2>6 DEF Lower
<1>28. \A f \in Frame : ram'.frame[f] # ram.frame[f] => own[f] \in {<<"mem", p>>, <<"of", p>>}
  BY <1>5, <1>12
<1> QED  BY <1>1, <1>26, <1>27, <1>28 DEF u

-----------------------------------------------------------------------------
(* The end of exec *)

\* The page under the stack of a program
GuardOf(c) == (c.sz - 2 * PGSIZE) \div PGSIZE
PushedOf(c) == c.sz - c.args.words .. c.sz - 1

\* exec has the guard page, where the stack of the program ends.
LEMMA GuardIs ==
  ASSUME NEW own, Sound(own, ram, proc, call), NEW p \in Slot, call[p].at = "args"
  PROVE  LET c == call[p]
         IN /\ GuardOf(c) \in Page /\ GuardOf(c) * PGSIZE = c.sz - 2 * PGSIZE
            /\ Walk(ram, c.dir, GuardOf(c)).frame # 0
            /\ \E top \in 0 .. KERNBASE : Highest(c.image, Len(c.image), top) /\ c.seg - 1 = Len(c.image)
                                          /\ c.sz = PGROUNDUP(top) + 2 * PGSIZE
<1> DEFINE c == call[p]
<1>1. /\ Has(ram, c.dir, Pages(c.sz)) /\ c.sz \in Nat /\ c.sz <= KERNBASE /\ Sized(c, c.seg - 1)
  BY ExecIs
<1>2. PICK top \in 0 .. KERNBASE : Highest(c.image, Len(c.image), top) /\ c.seg - 1 = Len(c.image)
                                   /\ c.sz = PGROUNDUP(top) + 2 * PGSIZE
  BY <1>1 DEF Sized, Phase, Loops
<1> HIDE DEF c
<1>3. top \in Nat /\ Pages(top) \in Nat /\ PGSIZE \in Nat /\ PGSIZE > 0 /\ KERNBASE \in Nat
  BY Sizes, PagesAre
<1>4. PGROUNDUP(top) = Pages(top) * PGSIZE
  BY DEF PGROUNDUP
<1> DEFINE k == Pages(top)
<1>5. GuardOf(c) = k
  <2>1. k \in Int /\ 0 \in 0 .. PGSIZE - 1
    BY <1>3
  <2>2. (PGSIZE * k + 0) \div PGSIZE = k
    BY <1>3, <2>1, Quotient
  <2>3. c.sz - 2 * PGSIZE = PGSIZE * k + 0
    <3>1. PGROUNDUP(top) \in Int /\ k * PGSIZE = PGSIZE * k /\ PGSIZE * k \in Int
      BY <1>3, <1>4, Product
    <3> QED  BY <1>2, <1>3, <1>4, <3>1
  <2> QED  BY <2>2, <2>3 DEF GuardOf
<1>6. k * PGSIZE = c.sz - 2 * PGSIZE
  <2>1. k * PGSIZE \in Int
    BY <1>3, Product
  <2> QED  BY <1>2, <1>3, <1>4, <2>1
<1> HIDE DEF k
<1>7. k \in Nat
  BY <1>3 DEF k
<1>8. k < Pages(c.sz)
  <2>1. k * PGSIZE < c.sz
    BY <1>1, <1>3, <1>6
  <2> QED  BY <1>1, <1>7, <2>1, PagesAre
<1>9. k \in Page
  BY <1>1, <1>7, <1>8, PagesAre
<1>10. Walk(ram, c.dir, k).frame # 0
  BY <1>1, <1>8, <1>9 DEF Has
<1> QED  BY <1>2, <1>5, <1>6, <1>9, <1>10 DEF c

\* What exec leaves: the old space is free, and the new one has its guard page and its arguments.
Exchanged(r2, c, old) ==
  LET d == c.dir
      guard == GuardOf(c)
  IN /\ Ram(r2) /\ Space(r2, d) /\ Own(r2, d) = Own(ram, d)
     /\ Range(r2.free) = Range(ram.free) \cup Own(ram, old)
     /\ \A f \in Frame : f \notin Own(ram, old) /\ f \notin Own(ram, d) => r2.frame[f] = ram.frame[f]
     /\ Walk(r2, d, guard).frame = Walk(ram, d, guard).frame /\ ~Walk(r2, d, guard).user
     /\ \A n \in Page \ {guard} : Walk(r2, d, n) = Walk(ram, d, n)
     /\ \A n \in Page : Walk(ram, d, n).frame # 0 => \A i \in 0 .. PGSIZE - 1 :
          r2.frame[Walk(ram, d, n).frame][i] =
            IF n * PGSIZE + i \in PushedOf(c) THEN "argument" ELSE ram.frame[Walk(ram, d, n).frame][i]

\* The successful end of exec: the old space is given back, and the new one has the
\* arguments on its stack.
LEMMA ExecExchanges ==
  ASSUME NEW own, Sound(own, ram, proc, call), NEW p \in Slot, ExecEnds(p), ~GiveUp(p)
  PROVE  /\ call[p].at = "args" /\ panicked' = panicked /\ call' = [call EXCEPT ![p] = User]
         /\ proc' = [proc EXCEPT ![p].pgdir = call[p].dir, ![p].sz = call[p].sz]
         /\ Exchanged(ram', call[p], proc[p].pgdir)
         /\ \A va \in PushedOf(call[p]) : va \in 0 .. KERNBASE - 1 /\ va \div PGSIZE # GuardOf(call[p])
         /\ ~(call[p].args.argc > MAXARG)
<1> DEFINE c == call[p]
           d == call[p].dir
           old == proc[p].pgdir
           guard == GuardOf(c)
           t == ram.frame[d][PDX(guard)]
           r == [ram EXCEPT !.frame[t][PTX(guard)].user = FALSE]
           pushed == PushedOf(c)
           w == Written(r, d, pushed, "argument")
<1>1. /\ c.at = "args" /\ panicked' = panicked /\ call' = [call EXCEPT ![p] = User]
      /\ proc' = [proc EXCEPT ![p].pgdir = c.dir, ![p].sz = c.sz]
      /\ ram' = FreeVm(w, old)
      /\ ~(c.args.argc > MAXARG \/ \E va \in pushed : va < 0 \/ ~Accessible(r, d, va))
  BY Zenon DEF ExecEnds, At, GuardOf, PushedOf
<1>2. /\ c.mem = 0 /\ Makes(c) /\ Space(ram, d) /\ d \in Frame /\ proc[p].state = "RUNNABLE"
      /\ c.args \in Arguments /\ c.sz \in Nat /\ c.sz <= KERNBASE
  BY <1>1, ExecIs, Zenon
<1>3. /\ guard \in Page /\ guard * PGSIZE = c.sz - 2 * PGSIZE /\ Walk(ram, d, guard).frame # 0
  BY <1>1, GuardIs, Zenon
<1>4. Ram(ram) /\ Active(proc[p])
  BY <1>2, SlotIs DEF Active
<1>5. /\ Space(ram, old) /\ Range(ram.free) \cap Own(ram, old) = {}
      /\ \A f \in Own(ram, old) : f \in Frame /\ own[f] = <<"of", p>>
      /\ Range(ram.free) \cap Own(ram, d) = {}
      /\ \A f \in Own(ram, d) : f \in Frame /\ own[f] = <<"new", p>>
  BY <1>2, <1>4, FreeIs
<1>6. Own(ram, old) \cap Own(ram, d) = {}
  BY <1>5, OwnersAre
<1>7. \A va \in pushed : va \in 0 .. KERNBASE - 1 /\ Accessible(r, d, va)
  <2>1. c.args.words \in Nat /\ KERNBASE \in Nat
    BY <1>2, ProgramsAssumption, Sizes
  <2> HIDE DEF c, r, d
  <2>2. ASSUME NEW va \in pushed
        PROVE  va \in 0 .. KERNBASE - 1
    <3>1. ~(va < 0)
      BY <1>1
    <3>2. va \in Int /\ va < c.sz
      BY <1>2, <2>1 DEF PushedOf
    <3> QED  BY <1>2, <2>1, <3>1, <3>2
  <2> QED  BY <1>1, <2>2
<1> HIDE DEF c, d, old, guard, pushed
<1> DEFINE pte == [Walk(ram, d, guard) EXCEPT !.user = FALSE]
<1>8. /\ t # 0 /\ t \in TablesOf(ram, d) /\ Walk(ram, d, guard) = ram.frame[t][PTX(guard)]
      /\ Walk(ram, d, guard) \in Pte
  BY <1>2, <1>3, WalkIs
<1>9. pte \in Pte /\ pte.frame = Walk(ram, d, guard).frame /\ pte.user = FALSE
  BY <1>8 DEF Pte
<1>10. r = WithEntry(ram, d, guard, pte)
  BY <1>8 DEF WithEntry
<1> HIDE DEF pte, r, t
<1>11. /\ Space(r, d) /\ Own(r, d) = Own(ram, d) /\ PagesOf(r, d) = PagesOf(ram, d)
       /\ \A f \in Frame \ TablesOf(ram, d) : r.frame[f] = ram.frame[f]
  BY <1>2, <1>3, <1>4, <1>9, <1>10, PageCleared
<1>12. /\ Ram(r) /\ r.free = ram.free /\ Walk(r, d, guard) = pte
       /\ \A n \in Page : n # guard => Walk(r, d, n) = Walk(ram, d, n)
  <2>1. ram.frame[d][PDX(guard)] # 0
    BY <1>8 DEF t
  <2> QED  BY <1>2, <1>3, <1>4, <1>9, <1>10, <2>1, EntrySet
<1>13. \A va \in pushed : va \in 0 .. KERNBASE - 1 /\ Walk(r, d, va \div PGSIZE).frame # 0
                          /\ Walk(r, d, va \div PGSIZE).user
  BY <1>7 DEF Accessible
<1>14. WordsWritten(r, w, d, pushed, "argument")
  <2>1. pushed \in SUBSET (0 .. KERNBASE - 1) /\ \A a \in pushed : Walk(r, d, a \div PGSIZE).frame # 0
    BY <1>13
  <2> QED  BY <1>11, <1>12, <2>1, WrittenIs
<1> HIDE DEF w
<1>15. /\ Ram(w) /\ w.free = ram.free /\ Space(w, d) /\ Own(w, d) = Own(ram, d)
       /\ \A n \in Page : Walk(w, d, n) = Walk(r, d, n)
       /\ \A f \in Frame \ PagesOf(ram, d) : w.frame[f] = r.frame[f]
  BY <1>11, <1>12, <1>14 DEF WordsWritten
<1>16. \A f \in Frame : f \notin Own(ram, d) => w.frame[f] = ram.frame[f]
  BY <1>2, <1>11, <1>15, OwnFrames
<1>17. Space(w, old) /\ Own(w, old) = Own(ram, old)
  <2>1. \A f \in Own(ram, old) : w.frame[f] = ram.frame[f]
    BY <1>5, <1>6, <1>16
  <2> QED  BY <1>5, <2>1, SpaceKept DEF Kept
<1>18. Freed(w, ram', Own(ram, old))
  <2>1. Range(w.free) \cap Own(w, old) = {}
    BY <1>5, <1>15, <1>17
  <2> QED  BY <1>1, <1>15, <1>17, <2>1, FreeVmIs
<1>19. Kept(w, ram', d)
  BY <1>6, <1>15, <1>18, FreedKept
<1>20. /\ Ram(ram') /\ Range(ram'.free) = Range(ram.free) \cup Own(ram, old)
       /\ \A f \in Frame \ Own(ram, old) : ram'.frame[f] = w.frame[f]
  BY <1>15, <1>18 DEF Freed
<1>21. /\ Space(ram', d) /\ Own(ram', d) = Own(ram, d) /\ \A n \in Page : Walk(ram', d, n) = Walk(r, d, n)
  BY <1>15, <1>19 DEF Kept
<1>22. \A f \in Frame : f \notin Own(ram, old) /\ f \notin Own(ram, d) => ram'.frame[f] = ram.frame[f]
  BY <1>16, <1>20
<1>23. \A n \in Page : Walk(r, d, n).frame = Walk(ram, d, n).frame
  BY <1>3, <1>9, <1>12
<1>24. ASSUME NEW n \in Page, Walk(ram, d, n).frame # 0, NEW i \in 0 .. PGSIZE - 1
       PROVE  ram'.frame[Walk(ram, d, n).frame][i] =
                IF n * PGSIZE + i \in pushed THEN "argument" ELSE ram.frame[Walk(ram, d, n).frame][i]
  <2> DEFINE f == Walk(ram, d, n).frame
  <2>1. Walk(r, d, n).frame = f /\ Walk(w, d, n).frame = f /\ f # 0
    BY <1>15, <1>23, <1>24
  <2>2. w.frame[f][i] = IF n * PGSIZE + i \in pushed THEN "argument" ELSE r.frame[f][i]
    BY <1>14, <2>1 DEF WordsWritten
  <2>3. ram'.frame[f] = w.frame[f]
    BY <1>19, <2>1 DEF Kept
  <2>4. r.frame[f] = ram.frame[f]
    <3>1. f \in Frame /\ f \in PagesOf(ram, d)
      BY <1>2, <1>24, WalkIs
    <3>2. f \notin TablesOf(ram, d)
      BY <1>2, <3>1 DEF Space, Treelike
    <3> QED  BY <1>11, <3>1, <3>2
  <2> QED  BY <2>2, <2>3, <2>4
<1>25. Exchanged(ram', c, old)
  <2>1. Walk(ram', d, guard).frame = Walk(ram, d, guard).frame /\ ~Walk(ram', d, guard).user
    BY <1>3, <1>9, <1>12, <1>21
  <2>2. \A n \in Page \ {guard} : Walk(ram', d, n) = Walk(ram, d, n)
    BY <1>12, <1>21
  <2> QED  BY <1>20, <1>21, <1>22, <1>24, <2>1, <2>2 DEF Exchanged, d, guard, pushed, c
<1>26. \A va \in pushed : va \in 0 .. KERNBASE - 1 /\ va \div PGSIZE # guard
  BY <1>9, <1>12, <1>13
<1>27. ~(c.args.argc > MAXARG)
  BY <1>1
<1> QED  BY <1>1, <1>25, <1>26, <1>27, Zenon DEF c, d, old, guard, pushed

\* With it the new space becomes the process's.
LEMMA ExecEndsSound ==
  ASSUME NEW own, Sound(own, ram, proc, call), NEW p \in Slot, ExecEnds(p), ~GiveUp(p)
  PROVE  \E own2 : Sound(own2, ram', proc', call')
<1> DEFINE c == call[p]
           d == call[p].dir
           old == proc[p].pgdir
           new == [f \in Frame |-> IF own[f] = <<"of", p>> THEN Nobody
                                   ELSE IF own[f] = <<"new", p>> THEN <<"of", p>> ELSE own[f]]
<1>1. /\ c.at = "args" /\ call' = [call EXCEPT ![p] = User]
      /\ proc' = [proc EXCEPT ![p].pgdir = d, ![p].sz = c.sz]
      /\ Exchanged(ram', c, old)
  BY ExecExchanges
<1>2. /\ c.mem = 0 /\ Makes(c) /\ Space(ram, d) /\ d \in Frame /\ proc[p].state = "RUNNABLE"
      /\ c.sz \in Nat /\ c.sz <= KERNBASE /\ Has(ram, d, Pages(c.sz))
  BY <1>1, ExecIs
<1>3. /\ proc \in [Slot -> Procs] /\ call \in [Slot -> CallRecords] /\ ChildrenDiffer(call)
      /\ CallGood(ram, proc[p], c) /\ proc[p] \in Procs /\ Active(proc[p])
  BY <1>2, SlotIs DEF Active
<1>4. proc[p].kstack # 0
  BY <1>3 DEF CallGood, Slotted
<1>5. Walk(ram, d, GuardOf(c)).frame # 0
  BY <1>1, GuardIs
<1>6. /\ Ram(ram') /\ Space(ram', d) /\ Own(ram', d) = Own(ram, d)
      /\ Range(ram'.free) = Range(ram.free) \cup Own(ram, old)
      /\ \A f \in Frame : f \notin Own(ram, old) /\ f \notin Own(ram, d) => ram'.frame[f] = ram.frame[f]
      /\ \A n \in Page : Walk(ram', d, n).frame = Walk(ram, d, n).frame
  BY <1>1 DEF Exchanged
<1>7. Has(ram', d, Pages(c.sz))
  BY <1>2, <1>6 DEF Has
<1>8. /\ proc' \in [Slot -> Procs] /\ \A q \in Slot \ {p} : proc'[q] = proc[q]
      /\ proc'[p].state = "RUNNABLE" /\ proc'[p].kstack = proc[p].kstack /\ proc'[p].pgdir = d /\ proc'[p].sz = c.sz
  <2>1. c.sz \in 0 .. KERNBASE
    BY <1>3 DEF CallRecords
  <2>2. /\ proc' = [proc EXCEPT ![p] = [proc[p] EXCEPT !.pgdir = d, !.sz = c.sz]]
    BY <1>1, <1>3
  <2> HIDE DEF c, d
  <2>3. [proc[p] EXCEPT !.pgdir = d, !.sz = c.sz] \in Procs
    BY <1>2, <1>3, <2>1 DEF Procs
  <2>4. proc'[p] = [proc[p] EXCEPT !.pgdir = d, !.sz = c.sz] /\ \A q \in Slot \ {p} : proc'[q] = proc[q]
    BY <1>3, <2>2
  <2>5. /\ proc'[p].state = "RUNNABLE" /\ proc'[p].kstack = proc[p].kstack /\ proc'[p].pgdir = d /\ proc'[p].sz = c.sz
    BY <1>2, <1>3, <2>4 DEF Procs
  <2>6. proc' \in [Slot -> Procs]
    BY <1>3, <2>2, <2>3
  <2> QED  BY <2>4, <2>5, <2>6
<1>9. call' \in [Slot -> CallRecords] /\ call'[p] = User /\ \A q \in Slot \ {p} : call'[q] = call[q]
  BY <1>1, <1>3, UserIs
<1>10. Good(ram', proc', call', p)
  BY <1>4, <1>6, <1>7, <1>8, <1>9, EndedGood
<1>11. ChildrenDiffer(call')
  BY <1>3, <1>9, UserIs, ChildrenStay
<1>12. /\ <<"of", p>> \in Owners /\ <<"new", p>> \in Owners /\ Nobody \in Owners /\ <<"stack", p>> \in Owners
       /\ <<"mem", p>> \in Owners
       /\ <<"mem", p>> # Nobody /\ <<"new", p>> # Nobody /\ <<"of", p>> # Nobody /\ <<"stack", p>> # Nobody
       /\ <<"of", p>> # <<"new", p>> /\ <<"stack", p>> # <<"of", p>> /\ <<"stack", p>> # <<"new", p>>
       /\ <<"mem", p>> # <<"of", p>> /\ <<"mem", p>> # <<"new", p>>
  BY OwnersAre
<1>13. /\ Near(Nobody, p, p) /\ Near(<<"of", p>>, p, p) /\ Near(<<"new", p>>, p, p)
  BY NearBy
<1>14. own \in [Frame -> Owners] /\ \A b \in Owners : \A f \in Frame : own[f] = b <=> f \in Part(ram, proc, call, b)
  BY DEF Sound, OwnedBy
<1>15. new \in [Frame -> Owners]
  BY <1>12, <1>14
<1>16. /\ \A f \in Frame : own[f] = Nobody <=> f \in Range(ram.free)
       /\ \A f \in Frame : own[f] = <<"of", p>> <=> f \in Own(ram, old)
       /\ \A f \in Frame : own[f] = <<"new", p>> <=> f \in Own(ram, d)
       /\ \A f \in Frame : own[f] # <<"mem", p>>
       /\ \A f \in Frame : own[f] = <<"stack", p>> <=> f \in {proc[p].kstack} \ {0}
  <2>1. /\ Part(ram, proc, call, <<"of", p>>) = Own(ram, old) /\ Part(ram, proc, call, <<"new", p>>) = Own(ram, d)
    BY <1>2, <1>3 DEF Part
  <2>2. /\ Part(ram, proc, call, <<"mem", p>>) = {} /\ Part(ram, proc, call, <<"stack", p>>) = {proc[p].kstack} \ {0}
    BY <1>2 DEF Part
  <2>3. Part(ram, proc, call, Nobody) = Range(ram.free)
    BY PartIs
  <2> QED  BY <1>12, <1>14, <2>1, <2>2, <2>3
<1> HIDE DEF d, old
<1>17. ASSUME NEW f \in Frame, NEW b \in Owners, Near(b, p, p)
       PROVE  new[f] = b <=> f \in Part(ram', proc', call', b)
  <2>1. Active(proc'[p]) /\ ~Makes(call'[p]) /\ call'[p].mem = 0
    BY <1>8, <1>9, UserIs DEF Active
  <2>2. /\ new[f] = Nobody <=> own[f] = Nobody \/ own[f] = <<"of", p>>
        /\ new[f] = <<"of", p>> <=> own[f] = <<"new", p>>
        /\ new[f] # <<"new", p>> /\ new[f] # <<"mem", p>>
        /\ new[f] = <<"stack", p>> <=> own[f] = <<"stack", p>>
    BY <1>12, <1>16
  <2> HIDE DEF new
  <2>3. CASE b = Nobody
    <3>1. Part(ram', proc', call', Nobody) = Range(ram'.free)
      BY PartIs
    <3> QED  BY <1>6, <1>16, <2>2, <2>3, <3>1
  <2>4. CASE b = <<"stack", p>>
    <3>1. Part(ram', proc', call', <<"stack", p>>) = {proc[p].kstack} \ {0}
      BY <1>8 DEF Part
    <3> QED  BY <1>16, <2>2, <2>4, <3>1
  <2>5. CASE b = <<"mem", p>>
    <3>1. Part(ram', proc', call', <<"mem", p>>) = {}
      BY <2>1 DEF Part
    <3> QED  BY <2>2, <2>5, <3>1
  <2>6. CASE b = <<"of", p>>
    <3>1. Part(ram', proc', call', <<"of", p>>) = Own(ram, d)
      BY <1>6, <1>8, <2>1 DEF Part
    <3> QED  BY <1>16, <2>2, <2>6, <3>1
  <2>7. CASE b = <<"new", p>>
    <3>1. Part(ram', proc', call', <<"new", p>>) = {}
      BY <2>1 DEF Part
    <3> QED  BY <2>2, <2>7, <3>1
  <2> QED  BY <1>17, <2>3, <2>4, <2>5, <2>6, <2>7, NearOne
<1>18. /\ \A f \in Frame : new[f] # own[f] \/ ram'.frame[f] # ram.frame[f] => Near(own[f], p, p)
       /\ \A f \in Frame : new[f] # own[f] => Near(new[f], p, p)
  BY <1>6, <1>13, <1>16
<1> HIDE DEF new
<1>19. /\ \A q \in Slot \ {p, p} : SameSlot(proc[q], proc'[q]) /\ call'[q] = call[q]
       /\ \A q \in Slot \ {p, p} : call[q].op = "fork" => call[q].child \notin {p, p}
  <2>1. \A q \in Slot : call[q].op = "fork" => call[q].child # p
    BY <1>2, NoChild
  <2> QED  BY <1>8, <1>9, <2>1, SameSlotIs
<1>20. Sound(new, ram', proc', call')
  BY <1>6, <1>8, <1>9, <1>10, <1>11, <1>15, <1>17, <1>18, <1>19, StepKeeps
<1> QED  BY <1>20

-----------------------------------------------------------------------------
(* Every step *)

\* The failing ends, wherever a call gives up
LEMMA GivesUpSound ==
  ASSUME NEW own, Sound(own, ram, proc, call), NEW p \in Slot, GiveUp(p),
         call[p].at \in {"pgdir", "kmap", "page", "map", "segment", "load", "args"}
  PROVE  panicked' = panicked /\ \E own2 : Sound(own2, ram', proc', call')
<1>1. call[p] \in CallRecords /\ CallGood(ram, proc[p], call[p])
  BY SlotIs
<1>2. call[p].op \in {"sbrk", "fork", "exec"} /\ (call[p].op = "sbrk" => Loops(call[p]))
  BY <1>1, RecordIs DEF CallGood, InLoop, Phase, Phases, Loops, Ops
<1>3. panicked' = panicked
  BY DEF GiveUp
<1>4. CASE call[p].op = "sbrk"
  BY <1>2, <1>3, <1>4, SbrkGivesUp
<1>5. CASE call[p].op = "fork"
  BY <1>3, <1>5, ForkGivesUp
<1>6. CASE call[p].op = "exec"
  BY <1>3, <1>6, ExecGivesUp
<1> QED  BY <1>2, <1>4, <1>5, <1>6

\* Taking a page, or giving up without one
LEMMA GetPageSound ==
  ASSUME NEW own, Sound(own, ram, proc, call), NEW p \in Slot, GetPage(p)
  PROVE  panicked' = panicked /\ \E own2 : Sound(own2, ram', proc', call')
<1>1. CASE ram.free # << >>
  BY <1>1, PageGot
<1>2. CASE ram.free = << >>
  <2>1. call[p].at = "page"
    BY DEF GetPage, At
  <2>2. call[p].op = "fork" => Walk(ram, proc[p].pgdir, call[p].n).frame # 0
    BY <2>1, AtPage DEF Loops
  <2>3. GiveUp(p)
    BY <1>2, <2>2 DEF GetPage
  <2> QED  BY <2>1, <2>3, GivesUpSound
<1> QED  BY <1>1, <1>2

\* Mapping a page, or giving up for want of a table
LEMMA MapPageSound ==
  ASSUME NEW own, Sound(own, ram, proc, call), NEW p \in Slot, MapPage(p)
  PROVE  panicked' = panicked /\ \E own2 : Sound(own2, ram', proc', call')
<1>1. CASE CanMap(ram, call[p].dir, call[p].n)
  BY <1>1, PageMapped
<1>2. CASE ~CanMap(ram, call[p].dir, call[p].n)
  <2>1. call[p].at = "map" /\ GiveUp(p)
    BY <1>2 DEF MapPage, At
  <2> QED  BY <2>1, GivesUpSound
<1> QED  BY <1>1, <1>2

\* The steps of fork
LEMMA ForkSound ==
  ASSUME NEW own, Sound(own, ram, proc, call), NEW p \in Slot,
         Fork(p) \/ GetStack(p) \/ GetDir(p) \/ MapKernel(p) \/ ForkEnds(p)
  PROVE  panicked' = panicked /\ \E own2 : Sound(own2, ram', proc', call')
<1>1. CASE Fork(p)
  BY <1>1, ForkBegins DEF Fork
<1>2. CASE GetStack(p)
  <2>1. panicked' = panicked
    BY <1>2 DEF GetStack
  <2> QED  BY <1>2, <2>1, StackGot, StackMissing
<1>3. CASE GetDir(p)
  <2>1. CASE ram.free = << >>
    BY <1>3, <2>1, GivesUpSound DEF GetDir, At
  <2>2. CASE ram.free # << >>
    <3>1. panicked' = panicked
      BY <1>3, <2>2 DEF GetDir
    <3> QED  BY <1>3, <2>2, <3>1, DirGot
  <2> QED  BY <2>1, <2>2
<1>4. CASE MapKernel(p)
  <2>1. CASE ram.free = << >>
    BY <1>4, <2>1, GivesUpSound DEF MapKernel, At
  <2>2. CASE ram.free # << >>
    <3>1. panicked' = panicked
      BY <1>4, <2>2, Zenon DEF MapKernel
    <3> QED  BY <1>4, <2>2, <3>1, KernelGrown, Zenon
  <2> QED  BY <2>1, <2>2
<1>5. CASE ForkEnds(p)
  <2>1. panicked' = panicked
    BY <1>5 DEF ForkEnds
  <2> QED  BY <1>5, <2>1, ForkEndsSound
<1> QED  BY <1>1, <1>2, <1>3, <1>4, <1>5

\* The steps of exec
LEMMA ExecSound ==
  ASSUME NEW own, Sound(own, ram, proc, call), NEW p \in Slot, ExecSegment(p) \/ ExecLoad(p) \/ ExecEnds(p)
  PROVE  panicked' = panicked /\ \E own2 : Sound(own2, ram', proc', call')
<1>1. call[p].at \in {"segment", "load", "args"}
  BY Zenon DEF ExecSegment, ExecLoad, ExecEnds, At
<1>2. CASE GiveUp(p)
  BY <1>1, <1>2, GivesUpSound
<1>3. CASE ExecSegment(p) /\ ~GiveUp(p)
  <2>1. panicked' = panicked
    BY <1>3, Zenon DEF ExecSegment
  <2> QED  BY <1>3, <2>1, SegmentGrows, Zenon
<1>4. CASE ExecLoad(p) /\ ~GiveUp(p)
  BY <1>4, SegmentLoaded
<1>5. CASE ExecEnds(p) /\ ~GiveUp(p)
  <2>1. panicked' = panicked
    BY <1>5, ExecExchanges
  <2> QED  BY <1>5, <2>1, ExecEndsSound
<1> QED  BY <1>2, <1>3, <1>4, <1>5, Zenon

\* Every step keeps the frames accounted for, and none panics.
LEMMA NextSound ==
  ASSUME NEW own, Sound(own, ram, proc, call), Next
  PROVE  panicked' = panicked /\ \E own2 : Sound(own2, ram', proc', call')
<1>1. PICK p \in Slot :
        \/ \E va \in Targets : Store(p, va)
        \/ \E by \in Growth : Sbrk(p, by)
        \/ \E image \in Images, args \in Arguments : Exec(p, image, args)
        \/ SbrkEnds(p)
        \/ Fork(p) \/ GetStack(p) \/ GetDir(p) \/ MapKernel(p) \/ GetPage(p) \/ MapPage(p) \/ ForkEnds(p)
        \/ ExecSegment(p) \/ ExecLoad(p) \/ ExecEnds(p)
        \/ Exit(p) \/ Wait(p)
  BY DEF Next
<1>2. CASE \E va \in Targets : Store(p, va)
  <2>1. panicked' = panicked
    BY <1>2 DEF Store
  <2> QED  BY <1>2, <2>1, StoreKeeps
<1>3. CASE \E by \in Growth : Sbrk(p, by)
  <2>1. panicked' = panicked
    BY <1>3 DEF Sbrk
  <2> QED  BY <1>3, <2>1, SbrkGrows, SbrkShrinks
<1>4. CASE \E image \in Images, args \in Arguments : Exec(p, image, args)
  <2>1. panicked' = panicked
    BY <1>4 DEF Exec
  <2> QED  BY <1>4, <2>1, ExecBegins
<1>5. CASE SbrkEnds(p)
  <2>1. panicked' = panicked
    BY <1>5 DEF SbrkEnds
  <2> QED  BY <1>5, <2>1, SbrkEndsSound
<1>6. CASE Fork(p) \/ GetStack(p) \/ GetDir(p) \/ MapKernel(p) \/ ForkEnds(p)
  BY <1>6, ForkSound
<1>7. CASE GetPage(p)
  BY <1>7, GetPageSound
<1>8. CASE MapPage(p)
  BY <1>8, MapPageSound
<1>9. CASE ExecSegment(p) \/ ExecLoad(p) \/ ExecEnds(p)
  BY <1>9, ExecSound
<1>10. CASE Exit(p)
  <2>1. panicked' = panicked
    BY <1>10 DEF Exit
  <2> QED  BY <1>10, <2>1, ExitSound
<1>11. CASE Wait(p)
  <2>1. panicked' = panicked
    BY <1>11 DEF Wait
  <2> QED  BY <1>11, <2>1, WaitSound
<1> QED  BY <1>1, <1>2, <1>3, <1>4, <1>5, <1>6, <1>7, <1>8, <1>9, <1>10, <1>11

-----------------------------------------------------------------------------
(* The first process *)

\* A frame that is taken
Took(r, s, h, content) ==
  /\ h \in Frame /\ h \in Range(r.free) /\ Ram(s) /\ Len(s.free) = Len(r.free) - 1
  /\ s.free = Tail(r.free) /\ Range(s.free) = Range(r.free) \ {h} /\ s.frame[h] = content
  /\ \A f \in Frame \ {h} : s.frame[f] = r.frame[f]

\* kalloc takes the first free frame.
LEMMA KallocTook ==
  ASSUME NEW r, Ram(r), Len(r.free) > 0, NEW content
  PROVE  Took(r, Kalloc(r, content), Head(r.free), content) /\ Len(r.free) \in Nat
<1>1. r.free \in Seq(Frame)
  BY DEF Ram
<1>2. r.free # << >> /\ Len(Tail(r.free)) = Len(r.free) - 1 /\ Len(r.free) \in Nat
  BY <1>1
<1> QED  BY <1>2, KallocTakes DEF Took

\* kinit: every frame is free.
Booted == [free |-> Reverse([f \in Frame |-> f]), frame |-> [f \in Frame |-> "junk"]]

\* After kinit the free list has every frame.
LEMMA BootedIs == Ram(Booted) /\ Len(Booted.free) = NFRAMES /\ Range(Booted.free) = Frame
<1> DEFINE all == [f \in Frame |-> f]
           s == Reverse(all)
<1>1. NFRAMES \in Nat /\ Frame = 1 .. NFRAMES
  BY Sizes DEF Frame
<1>2. all \in Seq(Frame) /\ Len(all) = NFRAMES
  BY <1>1
<1>3. s = [i \in 1 .. NFRAMES |-> (NFRAMES - i) + 1]
  <2>1. \A i \in 1 .. NFRAMES : all[(NFRAMES - i) + 1] = (NFRAMES - i) + 1
    <3> TAKE i \in 1 .. NFRAMES
    <3>1. (NFRAMES - i) + 1 \in Frame
      BY <1>1
    <3> QED  BY <3>1
  <2> HIDE DEF all
  <2>2. s = [i \in 1 .. NFRAMES |-> all[(NFRAMES - i) + 1]]
    BY <1>2 DEF Reverse
  <2> QED  BY <2>1, <2>2
<1> HIDE DEF all, s
<1>4. s \in Seq(Frame) /\ Len(s) = NFRAMES /\ DOMAIN s = 1 .. NFRAMES
  <2>1. s \in [1 .. NFRAMES -> Frame]
    BY <1>1, <1>3
  <2> QED  BY <1>1, <1>3, <2>1
<1>5. IsInjective(s)
  <2> SUFFICES ASSUME NEW a \in DOMAIN s, NEW b \in DOMAIN s, s[a] = s[b]
               PROVE  a = b
    BY DEF IsInjective
  <2>1. s[a] = (NFRAMES - a) + 1 /\ s[b] = (NFRAMES - b) + 1
    BY <1>3, <1>4
  <2>2. a \in Int /\ b \in Int /\ NFRAMES \in Int
    BY <1>1, <1>4
  <2>3. (NFRAMES - a) + 1 = (NFRAMES - b) + 1
    BY <2>1
  <2> QED  BY <2>2, <2>3
<1>6. Range(s) = Frame
  <2>1. ASSUME NEW f \in Frame PROVE \E i \in DOMAIN s : s[i] = f
    <3>1. (NFRAMES - f) + 1 \in 1 .. NFRAMES
      BY <1>1
    <3>2. s[(NFRAMES - f) + 1] = f
      BY <1>1, <1>3, <3>1
    <3> QED  BY <1>4, <3>1, <3>2
  <2>2. ASSUME NEW i \in DOMAIN s PROVE s[i] \in Frame
    BY <1>4
  <2> QED  BY <2>1, <2>2 DEF Range
<1>7. Booted = [free |-> s, frame |-> [f \in Frame |-> "junk"]]
  BY DEF Booted, s, all
<1>8. Booted.free = s /\ Booted.frame = [f \in Frame |-> "junk"]
  BY <1>7
<1>9. Booted.frame = [f \in Frame |-> Booted.frame[f]]
  BY <1>8
<1>10. Booted = [free |-> Booted.free, frame |-> Booted.frame]
  BY <1>7, <1>8
<1>11. Ram(Booted)
  BY <1>4, <1>5, <1>8, <1>9, <1>10 DEF Ram
<1> QED  BY <1>4, <1>6, <1>8, <1>11

\* The entries of the kernel are numbered from 1, the lowest first.
Rank(i) == Cardinality({k \in KMAP : k <= i})

\* Every number up to that of the entries is the rank of one of them.
LEMMA Ranks ==
  /\ Cardinality(KMAP) \in Nat /\ Cardinality(KMAP) > 0
  /\ \A i \in KMAP : Rank(i) \in 1 .. Cardinality(KMAP)
  /\ \A i, j \in KMAP : Rank(i) = Rank(j) => i = j
  /\ \A k \in 1 .. Cardinality(KMAP) : \E i \in KMAP : Rank(i) = k
<1> DEFINE n == Cardinality(KMAP)
           upto(i) == {k \in KMAP : k <= i}
           rank == [i \in KMAP |-> Rank(i)]
<1>1. KMAP \subseteq Nat /\ KMAP # {}
  BY KernelIs
<1>2. IsFiniteSet(KMAP)
  <2>1. IsFiniteSet(0 .. NPDENTRIES - 1)
    BY Sizes, FS_Interval
  <2> QED  BY <2>1, KernelIs, FS_Subset DEF Entry
<1>3. n \in Nat /\ n > 0
  BY <1>1, <1>2, FS_CardinalityType, FS_EmptySet
<1>4. ASSUME NEW i \in KMAP PROVE IsFiniteSet(upto(i)) /\ Rank(i) \in 1 .. n
  <2>1. upto(i) \in SUBSET KMAP /\ i \in upto(i)
    BY <1>1
  <2>2. IsFiniteSet(upto(i)) /\ Cardinality(upto(i)) <= n
    BY <1>2, <2>1, FS_Subset
  <2>3. Cardinality(upto(i)) \in Nat /\ Cardinality(upto(i)) # 0
    BY <2>1, <2>2, FS_CardinalityType, FS_EmptySet
  <2>4. Rank(i) = Cardinality(upto(i))
    BY DEF Rank
  <2> HIDE DEF n, upto
  <2> QED  BY <1>3, <2>2, <2>3, <2>4
<1>5. ASSUME NEW i \in KMAP, NEW j \in KMAP, i < j PROVE Rank(i) # Rank(j)
  <2>0. i \in Nat /\ j \in Nat /\ \A k \in KMAP : k \in Nat
    BY <1>1
  <2>1. upto(i) \in SUBSET upto(j) /\ upto(i) # upto(j)
    <3>1. \A k \in upto(i) : k \in upto(j)
      BY <1>5, <2>0
    <3>2. j \in upto(j) /\ j \notin upto(i)
      BY <1>5, <2>0
    <3> QED  BY <3>1, <3>2
  <2>2. IsFiniteSet(upto(j))
    BY <1>4
  <2>3. Cardinality(upto(i)) # Cardinality(upto(j))
    BY <2>1, <2>2, FS_Subset
  <2> QED  BY <2>3 DEF Rank
<1>6. ASSUME NEW i \in KMAP, NEW j \in KMAP, Rank(i) = Rank(j) PROVE i = j
  BY <1>1, <1>5, <1>6
<1>7. IsFiniteSet(1 .. n) /\ Cardinality(1 .. n) = n
  BY <1>3, FS_Interval
<1>8. rank \in Injection(KMAP, 1 .. n)
  <2>1. rank \in [KMAP -> 1 .. n]
    BY <1>4
  <2>2. \A i, j \in KMAP : rank[i] = rank[j] => i = j
    BY <1>6
  <2> HIDE DEF rank, n
  <2> QED  BY <2>1, <2>2 DEF Injection, IsInjective
<1>9. rank \in Surjection(KMAP, 1 .. n)
  <2> HIDE DEF rank
  <2> QED  BY <1>7, <1>8, FS_Injection
<1>10. ASSUME NEW k \in 1 .. n PROVE \E i \in KMAP : Rank(i) = k
  <2>1. \E i \in KMAP : rank[i] = k
    <3> HIDE DEF rank, n
    <3> QED  BY <1>9 DEF Surjection
  <2> QED  BY <2>1
<1> QED  BY <1>3, <1>4, <1>6, <1>10

\* The kernel's tables are the first free frames, a table of its own for each entry.
LEMMA KernelTook ==
  ASSUME NEW r, Ram(r), Cardinality(KMAP) <= Len(r.free), NEW d \in Frame \ Range(r.free)
  PROVE  LET s == KernelMapped(r, d)
             tables == {r.free[Rank(i)] : i \in KMAP}
         IN /\ Ram(s) /\ Len(s.free) = Len(r.free) - Cardinality(KMAP)
            /\ tables \subseteq Range(r.free) /\ Range(s.free) = Range(r.free) \ tables
            /\ \A i, j \in KMAP : r.free[Rank(i)] = r.free[Rank(j)] => i = j
            /\ s.frame[d] = [i \in Entry |-> IF i \in KMAP THEN r.free[Rank(i)] ELSE 0]
            /\ \A i \in KMAP : s.frame[r.free[Rank(i)]] = EmptyTable
            /\ \A f \in Frame \ (tables \cup {d}) : s.frame[f] = r.frame[f]
<1> DEFINE s == KernelMapped(r, d)
           n == Cardinality(KMAP)
           free == r.free
           len == Len(free)
           tables == {free[Rank(i)] : i \in KMAP}
<1>1. /\ free \in Seq(Frame) /\ len \in Nat /\ DOMAIN free = 1 .. len
      /\ \A a, b \in 1 .. len : free[a] = free[b] => a = b
  BY DEF Ram, IsInjective
<1>2. /\ n \in Nat /\ n > 0 /\ n <= len
      /\ \A i \in KMAP : Rank(i) \in 1 .. n
      /\ \A i, j \in KMAP : Rank(i) = Rank(j) => i = j
      /\ \A k \in 1 .. n : \E i \in KMAP : Rank(i) = k
  BY Ranks
<1>0. n \in Nat /\ n > 0 /\ n <= len /\ len \in Nat
  BY <1>1, <1>2
<1>3. s.free = SubSeq(free, n + 1, len)
  BY DEF KernelMapped
<1>4. \A f \in Frame : s.frame[f] = IF f = d THEN [i \in Entry |-> IF i \in KMAP THEN free[Rank(i)] ELSE 0]
                                    ELSE IF \E i \in KMAP : free[Rank(i)] = f THEN EmptyTable
                                    ELSE r.frame[f]
  BY DEF KernelMapped, Rank, Entry
<1>5. s = [free |-> s.free, frame |-> s.frame] /\ s.frame = [f \in Frame |-> s.frame[f]]
  BY DEF KernelMapped
<1> HIDE DEF s, n, free, len
<1>6. /\ s.free \in Seq(Frame) /\ Len(s.free) = len - n /\ DOMAIN s.free = 1 .. len - n
      /\ \A a \in 1 .. len - n : s.free[a] = free[n + a]
  BY <1>1, <1>2, <1>3
<1>7. IsInjective(s.free)
  <2> SUFFICES ASSUME NEW a \in DOMAIN s.free, NEW b \in DOMAIN s.free, s.free[a] = s.free[b]
               PROVE  a = b
    BY DEF IsInjective
  <2>1. n + a \in 1 .. len /\ n + b \in 1 .. len /\ free[n + a] = free[n + b]
    <3>1. a \in 1 .. len - n /\ b \in 1 .. len - n /\ s.free[a] = free[n + a] /\ s.free[b] = free[n + b]
      BY <1>6
    <3>2. \A x \in 1 .. len - n : n + x \in 1 .. len
      BY <1>0
    <3>3. n + a \in 1 .. len /\ n + b \in 1 .. len
      BY <3>1, <3>2
    <3>4. free[n + a] = free[n + b]
      BY <3>1
    <3> QED  BY <3>3, <3>4
  <2>2. n + a = n + b
    BY <1>1, <2>1
  <2> QED  BY <1>1, <1>2, <1>6, <2>2
<1>8. Ram(s)
  BY <1>5, <1>6, <1>7 DEF Ram
<1>9. \A i \in KMAP : Rank(i) \in 1 .. len /\ free[Rank(i)] \in Range(free)
  <2> TAKE i \in KMAP
  <2>1. Rank(i) \in 1 .. len
    BY <1>1, <1>2
  <2> QED  BY <1>1, <2>1 DEF Range
<1>10. tables \subseteq Range(free)
  BY <1>9
<1>11. Range(s.free) = Range(free) \ tables
  <2>1. ASSUME NEW a \in 1 .. len - n PROVE s.free[a] \in Range(free) \ tables
    <3>1. n + a \in 1 .. len /\ n + a \notin 1 .. n
      BY <1>1, <1>2
    <3>2. \A i \in KMAP : free[n + a] # free[Rank(i)]
      BY <1>1, <1>2, <1>9, <3>1
    <3>3. free[n + a] \in Range(free)
      BY <1>1, <3>1 DEF Range
    <3> QED  BY <1>6, <3>2, <3>3
  <2>2. ASSUME NEW f \in Range(free) \ tables PROVE \E a \in 1 .. len - n : s.free[a] = f
    <3>1. PICK k \in 1 .. len : free[k] = f
      BY <1>1 DEF Range
    <3>2. k \notin 1 .. n
      BY <1>2, <3>1
    <3>3. k - n \in 1 .. len - n /\ n + (k - n) = k
      BY <1>1, <1>2, <3>2
    <3> QED  BY <1>6, <3>1, <3>3
  <2> HIDE DEF tables
  <2> QED  BY <1>6, <2>1, <2>2 DEF Range
<1>12. ASSUME NEW i \in KMAP, NEW j \in KMAP, free[Rank(i)] = free[Rank(j)] PROVE i = j
  BY <1>1, <1>2, <1>9, <1>12
<1>13. d \notin Range(free) /\ Range(free) \subseteq Frame
  BY <1>1 DEF free, Range
<1>14. \A i \in KMAP : free[Rank(i)] \in Frame /\ free[Rank(i)] # d
  BY <1>9, <1>13
<1>15. \A i \in KMAP : s.frame[free[Rank(i)]] = EmptyTable
  BY <1>4, <1>14
<1>16. \A f \in Frame \ (tables \cup {d}) : s.frame[f] = r.frame[f]
  <2> TAKE f \in Frame \ (tables \cup {d})
  <2>1. ~ (\E i \in KMAP : free[Rank(i)] = f) /\ f \in Frame /\ f # d
    OBVIOUS
  <2> QED  BY <1>4, <2>1, Zenon
<1>17. s.frame[d] = [i \in Entry |-> IF i \in KMAP THEN free[Rank(i)] ELSE 0]
  <2>1. d \in Frame
    OBVIOUS
  <2> QED  BY <1>4, <2>1, Zenon
<1> HIDE DEF tables
<1>18. Len(s.free) = len - n
  BY <1>6
<1> QED  BY <1>8, <1>10, <1>11, <1>12, <1>15, <1>16, <1>17, <1>18 DEF s, n, free, len, tables

\* userinit's directory has the kernel's tables, and no page.
LEMMA FirstSpace ==
  ASSUME NEW r, NEW d \in Frame, NEW table,
         \A i \in KMAP : table[i] \in Frame \ {d} /\ r.frame[table[i]] = EmptyTable,
         \A i, j \in KMAP : table[i] = table[j] => i = j,
         r.frame[d] = [i \in Entry |-> IF i \in KMAP THEN table[i] ELSE 0]
  PROVE  /\ Space(r, d) /\ Own(r, d) = {d} \cup {table[i] : i \in KMAP}
         /\ \A n \in Page : Walk(r, d, n) = NoPte
<1>1. /\ KMAP \subseteq Upper /\ KMAP \subseteq Entry /\ KMAP # {} /\ 0 \notin Frame
  BY KernelIs, FrameIs
<1>2. \A i \in Entry : r.frame[d][i] = IF i \in KMAP THEN table[i] ELSE 0
  OBVIOUS
<1>3. r.frame[d] \in PageDirs
  BY DEF PageDirs
<1>4. \A n \in Page : Walk(r, d, n) = NoPte
  <2> TAKE n \in Page
  <2>1. PDX(n) \in Entry /\ PDX(n) \in 0 .. BASE - 1
    BY PageIs DEF Entry
  <2>2. PDX(n) \notin Upper
    BY <2>1, Geometry DEF Upper
  <2> QED  BY <1>1, <1>2, <2>1, <2>2 DEF Walk
<1>5. TablesOf(r, d) = {table[i] : i \in KMAP} /\ PagesOf(r, d) = {}
  BY <1>1, <1>2, <1>4, NoPteIs DEF TablesOf, PagesOf
<1>6. EmptyTable \in PageTables /\ NoPte.frame = 0
  BY NoPteIs
<1>7. Typed(r, d)
  <2>1. \A i \in Entry : r.frame[d][i] # 0 => r.frame[r.frame[d][i]] = EmptyTable
    BY <1>1, <1>2
  <2>2. \A n \in Page : Walk(r, d, n).frame = 0
    BY <1>4, <1>6
  <2> QED  BY <1>3, <1>6, <2>1, <2>2, UpperIs DEF Typed
<1>8. Treelike(r, d)
  BY <1>1, <1>2, <1>4, <1>5, <1>6 DEF Treelike
<1> QED  BY <1>4, <1>5, <1>7, <1>8 DEF Space, Own

\* userinit's process: its kernel stack, its page directory and its page of text
FirstProcess(stack, d, h) ==
  /\ stack \in Frame /\ d \in Frame /\ h \in Frame
  /\ proc = [s \in Slot |-> IF s = 1 THEN [state |-> "RUNNABLE", parent |-> 0, kstack |-> stack,
                                           pgdir |-> d, sz |-> PGSIZE]
                            ELSE Unused]
  /\ Ram(ram) /\ Space(ram, d) /\ stack \notin Own(ram, d)
  /\ Range(ram.free) = Frame \ (Own(ram, d) \cup {stack})
  /\ Walk(ram, d, 0) = [frame |-> h, user |-> TRUE] /\ 0 \in Page
  /\ ram.frame[h] = [i \in 0 .. PGSIZE - 1 |-> "text"]
  /\ \A n \in Page : n # 0 => Walk(ram, d, n) = NoPte

\* The first process has a page of text, and nobody else has anything.
LEMMA InitIs ==
  ASSUME Init
  PROVE  /\ ~panicked /\ call = [s \in Slot |-> User] /\ 1 \in Slot
         /\ \E stack, d, h : FirstProcess(stack, d, h)
<1> DEFINE stack == Kalloc(Booted, "stack")
           pgdir == Head(stack.free)
           dir == Kalloc(stack, EmptyDir)
           table == [i \in KMAP |-> dir.free[Rank(i)]]
           tables == {table[i] : i \in KMAP}
           kernel == KernelMapped(dir, pgdir)
           h == Head(kernel.free)
           text == [i \in 0 .. PGSIZE - 1 |-> "text"]
           page == Kalloc(kernel, text)
           pte == [frame |-> h, user |-> TRUE]
           h1 == Head(Booted.free)
           n == Cardinality(KMAP)
<1>1. /\ ram = Mapped(page, pgdir, 0, pte)
      /\ proc = [s \in Slot |-> IF s = 1 THEN [state |-> "RUNNABLE", parent |-> 0, kstack |-> h1,
                                               pgdir |-> pgdir, sz |-> PGSIZE]
                                ELSE Unused]
      /\ call = [s \in Slot |-> User] /\ ~panicked
  BY DEF Init, Booted
<1>2. NFRAMES \in Nat /\ n \in Nat /\ NFRAMES >= n + 4
  BY GeometryAssumption, Ranks
<1> HIDE DEF n
<1>3. Took(Booted, stack, h1, "stack") /\ Ram(Booted) /\ Len(Booted.free) = NFRAMES /\ Range(Booted.free) = Frame
  BY <1>2, BootedIs, KallocTook
<1> HIDE DEF stack, h1
<1>4. Took(stack, dir, pgdir, EmptyDir) /\ Len(stack.free) = NFRAMES - 1
  <2>1. Ram(stack) /\ Len(stack.free) = NFRAMES - 1
    BY <1>3 DEF Took
  <2> QED  BY <1>2, <2>1, KallocTook
<1> HIDE DEF dir, pgdir
<1>5. Ram(dir) /\ Len(dir.free) = NFRAMES - 2 /\ pgdir \in Frame \ Range(dir.free)
  BY <1>2, <1>4 DEF Took
<1>6. /\ Ram(kernel) /\ Len(kernel.free) = Len(dir.free) - n
      /\ tables \subseteq Range(dir.free) /\ Range(kernel.free) = Range(dir.free) \ tables
      /\ \A i, j \in KMAP : table[i] = table[j] => i = j
      /\ kernel.frame[pgdir] = [i \in Entry |-> IF i \in KMAP THEN table[i] ELSE 0]
      /\ \A i \in KMAP : kernel.frame[table[i]] = EmptyTable
  <2>1. n <= Len(dir.free)
    BY <1>2, <1>5
  <2>2. /\ Ram(kernel) /\ Len(kernel.free) = Len(dir.free) - n
        /\ {dir.free[Rank(i)] : i \in KMAP} \subseteq Range(dir.free)
        /\ Range(kernel.free) = Range(dir.free) \ {dir.free[Rank(i)] : i \in KMAP}
        /\ \A i, j \in KMAP : dir.free[Rank(i)] = dir.free[Rank(j)] => i = j
        /\ kernel.frame[pgdir] = [i \in Entry |-> IF i \in KMAP THEN dir.free[Rank(i)] ELSE 0]
        /\ \A i \in KMAP : kernel.frame[dir.free[Rank(i)]] = EmptyTable
    BY <1>5, <2>1, KernelTook DEF n
  <2>3. \A i \in KMAP : table[i] = dir.free[Rank(i)]
    OBVIOUS
  <2>4. tables = {dir.free[Rank(i)] : i \in KMAP}
    BY <2>3
  <2>5. [i \in Entry |-> IF i \in KMAP THEN dir.free[Rank(i)] ELSE 0]
          = [i \in Entry |-> IF i \in KMAP THEN table[i] ELSE 0]
    BY <2>3
  <2> HIDE DEF table, tables, kernel
  <2> QED  BY <2>2, <2>3, <2>4, <2>5
<1> HIDE DEF table, kernel
<1>7. Ram(kernel) /\ Len(kernel.free) = NFRAMES - 2 - n
  BY <1>5, <1>6
<1>8. Took(kernel, page, h, text)
  <2>1. Len(kernel.free) > 0
    BY <1>2, <1>7
  <2> HIDE DEF text
  <2> QED  BY <1>7, <2>1, KallocTook
<1>9. Ram(page) /\ page.free # << >>
  <2>1. Ram(page) /\ Len(page.free) = Len(kernel.free) - 1
    BY <1>8 DEF Took
  <2>2. Len(page.free) > 0
    BY <1>2, <1>7, <2>1
  <2> QED  BY <2>1, <2>2
<1> HIDE DEF page, h, pte
<1>10. /\ h1 \in Frame /\ pgdir \in Frame /\ tables \subseteq Frame /\ h \in Frame
       /\ Range(stack.free) = Frame \ {h1} /\ Range(dir.free) = Frame \ {h1, pgdir}
       /\ Range(kernel.free) = Frame \ ({h1, pgdir} \cup tables)
       /\ Range(page.free) = Frame \ ({h1, pgdir, h} \cup tables)
  <2> HIDE DEF tables
  <2>1. h1 \in Frame /\ Range(stack.free) = Frame \ {h1}
    BY <1>3 DEF Took
  <2>2. pgdir \in Frame /\ Range(dir.free) = Range(stack.free) \ {pgdir}
    BY <1>4 DEF Took
  <2>3. h \in Frame /\ Range(page.free) = Range(kernel.free) \ {h}
    BY <1>8 DEF Took
  <2> QED  BY <1>6, <2>1, <2>2, <2>3
<1>11. pgdir # h1 /\ h1 \notin tables /\ pgdir \notin tables /\ h # h1 /\ h # pgdir /\ h \notin tables
  <2> HIDE DEF tables
  <2>1. pgdir \in Range(stack.free) /\ h \in Range(kernel.free)
    BY <1>4, <1>8 DEF Took
  <2> QED  BY <1>6, <1>10, <2>1
<1>12. /\ page.frame[pgdir] = [i \in Entry |-> IF i \in KMAP THEN table[i] ELSE 0]
       /\ \A i \in KMAP : table[i] \in Frame \ {pgdir} /\ page.frame[table[i]] = EmptyTable
       /\ page.frame[h] = text
  <2> HIDE DEF text
  <2>1. \A i \in KMAP : table[i] \in tables
    OBVIOUS
  <2> HIDE DEF tables
  <2>2. \A i \in KMAP : table[i] \in Frame /\ table[i] # pgdir /\ table[i] # h
    BY <1>10, <1>11, <2>1
  <2> QED  BY <1>6, <1>8, <1>10, <1>11, <2>2 DEF Took
<1>13. Space(page, pgdir) /\ Own(page, pgdir) = {pgdir} \cup tables /\ \A m \in Page : Walk(page, pgdir, m) = NoPte
  BY <1>6, <1>10, <1>12, FirstSpace
<1> HIDE DEF tables
<1>14. 0 \in Page /\ pte \in Pte /\ pte.frame = h
  <2>1. 0 \in Page
    <3>1. Pages(0) = 0 /\ Pages(KERNBASE) = KERNBASE \div PGSIZE
      BY PagesBelow
    <3>2. 0 < Pages(KERNBASE)
      <4>1. 0 * PGSIZE < KERNBASE
        BY Sizes
      <4> QED  BY <4>1, Sizes, PagesAre
    <3> QED  BY <3>2, PagesBelow
  <2> QED  BY <1>10, <2>1 DEF Pte, pte
<1>15. text \in Contents
  BY DEF Contents
<1> HIDE DEF text
<1>16. PICK new : Maps(page, ram, pgdir, 0, pte, new)
  <2>1. CanMap(page, pgdir, 0)
    BY <1>9 DEF CanMap
  <2>2. Walk(page, pgdir, 0).frame = 0
    BY <1>13, <1>14, NoPteIs
  <2>3. /\ pte.frame \in Frame \ Own(page, pgdir) /\ page.frame[pte.frame] \in Contents
        /\ Range(page.free) \cap (Own(page, pgdir) \cup {pte.frame}) = {}
    BY <1>10, <1>11, <1>12, <1>13, <1>14, <1>15
  <2> QED  BY <1>1, <1>9, <1>13, <1>14, <2>1, <2>2, <2>3, MapsPage
<1>17. /\ Ram(ram) /\ Space(ram, pgdir) /\ Walk(ram, pgdir, 0) = pte
       /\ \A m \in Page : m # 0 => Walk(ram, pgdir, m) = NoPte
       /\ new \subseteq Range(page.free) /\ Range(ram.free) = Range(page.free) \ new
       /\ Own(ram, pgdir) = {pgdir, h} \cup tables \cup new
  BY <1>13, <1>14, <1>16 DEF Maps
<1>18. ram.frame[h] = text
  <2>1. h \notin {pgdir} \cup TablesOf(page, pgdir) /\ h \notin Range(page.free)
    BY <1>10, <1>11, <1>13, OwnFrames
  <2> QED  BY <1>10, <1>12, <1>16, <2>1 DEF Maps
<1>19. /\ h1 \notin Own(ram, pgdir) /\ Range(ram.free) = Frame \ (Own(ram, pgdir) \cup {h1})
  BY <1>10, <1>11, <1>17
<1>20. 1 \in Slot
  BY Sizes DEF Slot
<1>21. FirstProcess(h1, pgdir, h)
  BY <1>1, <1>10, <1>14, <1>17, <1>18, <1>19 DEF pte, text, FirstProcess
<1> QED  BY <1>1, <1>20, <1>21

\* When the first process starts, its frames are its own and the others are free.
LEMMA InitSound ==
  ASSUME Init
  PROVE  ~panicked /\ \E own : Sound(own, ram, proc, call)
<1>0. PICK stack, d, h : FirstProcess(stack, d, h)
  BY InitIs
<1>1. /\ stack \in Frame /\ d \in Frame /\ h \in Frame
      /\ proc = [s \in Slot |-> IF s = 1 THEN [state |-> "RUNNABLE", parent |-> 0, kstack |-> stack,
                                               pgdir |-> d, sz |-> PGSIZE]
                                ELSE Unused]
      /\ Ram(ram) /\ Space(ram, d) /\ stack \notin Own(ram, d)
      /\ Range(ram.free) = Frame \ (Own(ram, d) \cup {stack})
      /\ Walk(ram, d, 0) = [frame |-> h, user |-> TRUE] /\ 0 \in Page
      /\ \A n \in Page : n # 0 => Walk(ram, d, n) = NoPte
  BY <1>0 DEF FirstProcess
<1>2. ~panicked /\ call = [s \in Slot |-> User] /\ 1 \in Slot
  BY InitIs
<1> DEFINE first == [state |-> "RUNNABLE", parent |-> 0, kstack |-> stack, pgdir |-> d, sz |-> PGSIZE]
           own == [f \in Frame |-> IF f = stack THEN <<"stack", 1>>
                                   ELSE IF f \in Own(ram, d) THEN <<"of", 1>> ELSE Nobody]
<1>3. PGSIZE \in 0 .. KERNBASE /\ Pages(PGSIZE) = 1
  <2>1. 0 \in Nat /\ Pages(KERNBASE) = KERNBASE \div PGSIZE /\ Pages(1 * PGSIZE) = 1 /\ 1 * PGSIZE = PGSIZE
    BY Sizes, PagesBelow, PagesOfPages
  <2>2. 0 < KERNBASE \div PGSIZE /\ KERNBASE \div PGSIZE \in Nat
    BY <1>1, Sizes, Divided DEF Page
  <2>3. KERNBASE \div PGSIZE >= 1 /\ KERNBASE = PGSIZE * (KERNBASE \div PGSIZE) + (KERNBASE % PGSIZE)
        /\ KERNBASE % PGSIZE \in 0 .. PGSIZE - 1
    BY <2>2, Sizes, Divided
  <2> DEFINE q == KERNBASE \div PGSIZE
             m == KERNBASE % PGSIZE
  <2>4. 1 * PGSIZE <= q * PGSIZE /\ q * PGSIZE = PGSIZE * q /\ q * PGSIZE \in Int
    BY <2>2, <2>3, Sizes, Product
  <2>5. m \in Nat /\ KERNBASE = q * PGSIZE + m
    BY <2>3, <2>4, Sizes
  <2> HIDE DEF q, m
  <2>6. PGSIZE <= KERNBASE
    BY <2>4, <2>5, Sizes
  <2> QED  BY <2>1, <2>6, Sizes
<1>4. /\ first \in Procs /\ Unused \in Procs
  BY <1>1, <1>3, Sizes DEF Procs, Unused
<1>5. /\ proc \in [Slot -> Procs] /\ proc[1] = first /\ \A q \in Slot \ {1} : proc[q] = Unused
  BY <1>1, <1>2, <1>4
<1>6. /\ call \in [Slot -> CallRecords] /\ \A q \in Slot : call[q] = User
  BY <1>2, UserIs
<1>7. stack # 0
  BY <1>1, FrameIs
<1>8. Has(ram, d, 1)
  <2>1. h # 0
    BY <1>1, FrameIs
  <2>2. \A n \in Page : n < 1 <=> n = 0
    BY PageIs
  <2> QED  BY <1>1, <2>1, <2>2, NoPteIs DEF Has
<1>9. ASSUME NEW q \in Slot
      PROVE  Good(ram, proc, call, q)
  <2>1. CASE q = 1
    BY <1>1, <1>3, <1>5, <1>6, <1>7, <1>8, <2>1, EndedGood
  <2>2. CASE q # 1
    <3>1. proc[q].state = "UNUSED" /\ proc[q].kstack = 0 /\ call[q].op = "none"
      BY <1>5, <1>6, <2>2, UserIs DEF Unused
    <3>2. Slotted(ram, proc[q], call[q])
      BY <3>1 DEF Slotted, Active
    <3> QED  BY <1>6, <3>2, UserIs, UserGood
  <2> QED  BY <2>1, <2>2
<1>10. ChildrenDiffer(call)
  BY <1>6, UserIs DEF ChildrenDiffer
<1>11. /\ <<"stack", 1>> \in Owners /\ <<"of", 1>> \in Owners /\ Nobody \in Owners
       /\ <<"stack", 1>> # Nobody /\ <<"of", 1>> # Nobody /\ <<"stack", 1>> # <<"of", 1>>
  BY <1>2, OwnersAre
<1>12. own \in [Frame -> Owners]
  BY <1>11
<1>13. Own(ram, d) \subseteq Frame
  BY <1>1, OwnFrames
<1>14. ASSUME NEW f \in Frame, NEW b \in Owners
       PROVE  own[f] = b <=> f \in Part(ram, proc, call, b)
  <2>1. CASE b = Nobody
    <3>1. Part(ram, proc, call, Nobody) = Range(ram.free)
      BY PartIs
    <3> QED  BY <1>1, <1>11, <1>13, <2>1, <3>1
  <2>2. CASE b # Nobody
    <3>1. PICK q \in Slot, k \in {"stack", "mem", "of", "new"} : b = <<k, q>>
      BY <2>2, OwnersAre
    <3>2. CASE q = 1 /\ k = "stack"
      <4>1. Part(ram, proc, call, <<"stack", 1>>) = {stack}
        BY <1>5, <1>7 DEF Part
      <4> QED  BY <1>11, <3>1, <3>2, <4>1
    <3>3. CASE q = 1 /\ k = "of"
      <4>1. Part(ram, proc, call, <<"of", 1>>) = Own(ram, d)
        BY <1>5 DEF Part, Active
      <4> QED  BY <1>1, <1>11, <3>1, <3>3, <4>1
    <3>4. CASE ~(q = 1 /\ k \in {"stack", "of"})
      <4>1. Part(ram, proc, call, <<k, q>>) = {}
        <5>1. call[q].mem = 0 /\ ~Makes(call[q])
          BY <1>6, UserIs
        <5>2. q # 1 => proc[q].kstack = 0 /\ ~Active(proc[q])
          BY <1>5 DEF Unused, Active
        <5>3. CASE k = "stack"
          BY <3>4, <5>2, <5>3 DEF Part
        <5>4. CASE k = "of"
          BY <3>4, <5>2, <5>4 DEF Part
        <5>5. CASE k = "mem"
          BY <5>1, <5>5 DEF Part
        <5>6. CASE k = "new"
          BY <5>1, <5>6 DEF Part
        <5> QED  BY <5>3, <5>4, <5>5, <5>6
      <4>2. own[f] # <<k, q>>
        <5>1. own[f] \in {<<"stack", 1>>, <<"of", 1>>, Nobody}
          OBVIOUS
        <5>2. <<k, q>> # <<"stack", 1>> /\ <<k, q>> # <<"of", 1>>
          BY <3>4
        <5> QED  BY <2>2, <3>1, <5>1, <5>2
      <4> QED  BY <3>1, <4>1, <4>2
    <3> QED  BY <3>1, <3>2, <3>3, <3>4
  <2> QED  BY <2>1, <2>2
<1> HIDE DEF own
<1>15. Sound(own, ram, proc, call)
  BY <1>1, <1>5, <1>6, <1>9, <1>10, <1>12, <1>14 DEF Sound, OwnedBy
<1> QED  BY <1>2, <1>15

-----------------------------------------------------------------------------
(* Every frame has one use *)

\* The invariant: nobody has panicked, and every frame has the owner that its contents agree with.
Accounted == ~panicked /\ \E own : Sound(own, ram, proc, call)

\* A directory that somebody holds is of a space that is all his.
LEMMA DirectoryIs ==
  ASSUME NEW own, Sound(own, ram, proc, call), NEW d \in Directories
  PROVE  /\ d \in Owners /\ d # Nobody /\ d = <<d[1], d[2]>> /\ d[1] \in {"of", "new"} /\ d[2] \in Slot
         /\ Space(ram, Held(d))
         /\ \A f \in Own(ram, Held(d)) : f \in Frame /\ own[f] = d
<1>1. CASE \E p \in Slot : d = <<"of", p>> /\ proc[p].state \in {"RUNNABLE", "ZOMBIE"}
  <2>1. PICK p \in Slot : d = <<"of", p>> /\ proc[p].state \in {"RUNNABLE", "ZOMBIE"}
    BY <1>1
  <2>2. Active(proc[p]) /\ Held(d) = proc[p].pgdir
    BY <2>1 DEF Active, Held
  <2>3. Space(ram, proc[p].pgdir) /\ \A f \in Own(ram, proc[p].pgdir) : f \in Frame /\ own[f] = <<"of", p>>
    BY <2>2, FreeIs
  <2> QED  BY <2>1, <2>2, <2>3, OwnersAre
<1>2. CASE \E p \in Slot : d = <<"new", p>> /\ call[p].op \in {"fork", "exec"} /\ call[p].dir # 0
  <2>1. PICK p \in Slot : d = <<"new", p>> /\ call[p].op \in {"fork", "exec"} /\ call[p].dir # 0
    BY <1>2
  <2>2. Makes(call[p]) /\ Held(d) = call[p].dir
    BY <2>1 DEF Makes, Held
  <2>3. Space(ram, call[p].dir) /\ \A f \in Own(ram, call[p].dir) : f \in Frame /\ own[f] = <<"new", p>>
    BY <2>2, FreeIs
  <2> QED  BY <2>1, <2>2, <2>3, OwnersAre
<1> QED  BY <1>1, <1>2 DEF Directories

\* A use outside of page tables, and whose it is
UserOf(u) == IF u[1] = "free" THEN Nobody ELSE <<u[1], u[2]>>

\* The uses outside of page tables are uses by the owner.
LEMMA OuterIs ==
  ASSUME NEW own, Sound(own, ram, proc, call), NEW u \in OuterUses
  PROVE  /\ u = <<u[1], u[2], u[3]>> /\ u[3] \in Frame /\ own[u[3]] = UserOf(u)
         /\ u[1] = "free" => u[2] \in DOMAIN ram.free /\ u[3] = ram.free[u[2]]
         /\ u[1] # "free" => UserOf(u) # Nobody
         /\ u[1] \in {"of", "new"} => <<u[1], u[2]>> \in Directories /\ u[3] = Held(<<u[1], u[2]>>)
<1>1. CASE \E i \in DOMAIN ram.free : u = <<"free", i, ram.free[i]>>
  <2>1. PICK i \in DOMAIN ram.free : u = <<"free", i, ram.free[i]>>
    BY <1>1
  <2>2. ram.free[i] \in Range(ram.free)
    BY DEF Range
  <2>3. 1 \in Slot
    BY Sizes DEF Slot
  <2>4. ram.free[i] \in Frame /\ own[ram.free[i]] = Nobody
    BY <2>2, <2>3, FreeIs
  <2> QED  BY <2>1, <2>4 DEF UserOf
<1>2. CASE \E s \in Slot : proc[s].kstack # 0 /\ u = <<"stack", s, proc[s].kstack>>
  <2>1. PICK s \in Slot : proc[s].kstack # 0 /\ u = <<"stack", s, proc[s].kstack>>
    BY <1>2
  <2>2. proc[s].kstack \in Part(ram, proc, call, <<"stack", s>>)
    BY <2>1 DEF Part
  <2>3. <<"stack", s>> \in Owners /\ <<"stack", s>> # Nobody
    BY OwnersAre
  <2>4. proc[s].kstack \in Frame /\ own[proc[s].kstack] = <<"stack", s>>
    BY <2>2, <2>3, PartsDiffer
  <2> QED  BY <2>1, <2>3, <2>4 DEF UserOf
<1>3. CASE \E s \in Slot : call[s].mem # 0 /\ u = <<"mem", s, call[s].mem>>
  <2>1. PICK s \in Slot : call[s].mem # 0 /\ u = <<"mem", s, call[s].mem>>
    BY <1>3
  <2>2. call[s].mem \in Frame /\ own[call[s].mem] = <<"mem", s>>
    BY <2>1, FreeIs
  <2>3. <<"mem", s>> # Nobody
    BY OwnersAre
  <2> QED  BY <2>1, <2>2, <2>3 DEF UserOf
<1>4. CASE \E d \in Directories : u = <<d[1], d[2], Held(d)>>
  <2>1. PICK d \in Directories : u = <<d[1], d[2], Held(d)>>
    BY <1>4
  <2>2. /\ d # Nobody /\ d = <<d[1], d[2]>> /\ d[1] \in {"of", "new"} /\ Space(ram, Held(d))
        /\ \A f \in Own(ram, Held(d)) : f \in Frame /\ own[f] = d
    BY DirectoryIs
  <2>3. Held(d) \in Own(ram, Held(d))
    BY <2>2, OwnFrames
  <2>4. u[1] = d[1] /\ u[2] = d[2] /\ u[3] = Held(d) /\ u = <<u[1], u[2], u[3]>>
    BY <2>1
  <2>5. <<u[1], u[2]>> = d /\ u[1] # "free"
    BY <2>2, <2>4
  <2> QED  BY <2>2, <2>3, <2>4, <2>5 DEF UserOf
<1> QED  BY <1>1, <1>2, <1>3, <1>4 DEF OuterUses

\* A use as a table, or as a page: it is of a directory, and of one entry.
LEMMA TableIs ==
  ASSUME NEW own, Sound(own, ram, proc, call), NEW u \in TableUses
  PROVE  /\ u = <<u[1], u[2], u[3]>> /\ u[1] \in Directories /\ u[2] \in Entry
         /\ u[3] = ram.frame[Held(u[1])][u[2]] /\ u[3] # 0
         /\ u[3] \in Frame /\ own[u[3]] = u[1] /\ u[3] \in TablesOf(ram, Held(u[1]))
<1>1. PICK d \in Directories, i \in Entry :
        u = <<d, i, ram.frame[Held(d)][i]>> /\ ram.frame[Held(d)][i] # 0
  BY DEF TableUses, Entry
<1>2. Space(ram, Held(d)) /\ \A f \in Own(ram, Held(d)) : f \in Frame /\ own[f] = d
  BY DirectoryIs
<1>3. ram.frame[Held(d)][i] \in TablesOf(ram, Held(d))
  BY <1>1 DEF TablesOf
<1> QED  BY <1>1, <1>2, <1>3, OwnFrames

\* The uses as pages are uses by the owner of the space.
LEMMA PageUseIs ==
  ASSUME NEW own, Sound(own, ram, proc, call), NEW u \in PageUses
  PROVE  /\ u = <<u[1], u[2], u[3]>> /\ u[1] \in Directories /\ u[2] \in Page
         /\ u[3] = Walk(ram, Held(u[1]), u[2]).frame /\ u[3] # 0
         /\ u[3] \in Frame /\ own[u[3]] = u[1] /\ u[3] \in PagesOf(ram, Held(u[1]))
<1>1. PICK d \in Directories, n \in Page :
        u = <<d, n, Walk(ram, Held(d), n).frame>> /\ Walk(ram, Held(d), n).frame # 0
  BY DEF PageUses
<1>2. Space(ram, Held(d)) /\ \A f \in Own(ram, Held(d)) : f \in Frame /\ own[f] = d
  BY DirectoryIs
<1>3. Walk(ram, Held(d), n).frame \in PagesOf(ram, Held(d))
  BY <1>1 DEF PagesOf
<1> QED  BY <1>1, <1>2, <1>3, OwnFrames

\* Each frame has a use.
LEMMA UsedIs ==
  ASSUME NEW own, Sound(own, ram, proc, call), NEW f \in Frame
  PROVE  (\E u \in OuterUses : u[3] = f) \/ (\E u \in TableUses : u[3] = f) \/ (\E u \in PageUses : u[3] = f)
<1>1. own[f] \in Owners /\ f \in Part(ram, proc, call, own[f])
  BY DEF Sound, OwnedBy
<1>2. ASSUME NEW d \in Directories, f \in Own(ram, Held(d))
      PROVE  (\E u \in OuterUses : u[3] = f) \/ (\E u \in TableUses : u[3] = f) \/ (\E u \in PageUses : u[3] = f)
  <2>1. f # 0
    BY FrameIs
  <2>2. CASE f = Held(d)
    <3>1. <<d[1], d[2], Held(d)>> \in OuterUses
      BY DEF OuterUses
    <3> QED  BY <2>2, <3>1
  <2>3. CASE f \in TablesOf(ram, Held(d))
    <3>1. PICK i \in Entry : ram.frame[Held(d)][i] = f
      BY <2>3 DEF TablesOf
    <3>2. <<d, i, ram.frame[Held(d)][i]>> \in TableUses
      <4> DEFINE e == <<d, i>>
      <4>1. e \in Directories \X (0 .. NPDENTRIES - 1) /\ e[1] = d /\ e[2] = i
        BY DEF Entry
      <4> HIDE DEF e
      <4>2. <<e[1], e[2], ram.frame[Held(e[1])][e[2]]>> \in TableUses
        BY <2>1, <3>1, <4>1 DEF TableUses
      <4> QED  BY <4>1, <4>2
    <3> QED  BY <3>1, <3>2
  <2>4. CASE f \in PagesOf(ram, Held(d))
    <3>1. PICK n \in Page : Walk(ram, Held(d), n).frame = f
      BY <2>4 DEF PagesOf
    <3>2. <<d, n, Walk(ram, Held(d), n).frame>> \in PageUses
      <4> DEFINE e == <<d, n>>
      <4>1. e \in Directories \X Page /\ e[1] = d /\ e[2] = n
        OBVIOUS
      <4> HIDE DEF e
      <4>2. <<e[1], e[2], Walk(ram, Held(e[1]), e[2]).frame>> \in PageUses
        BY <2>1, <3>1, <4>1 DEF PageUses
      <4> QED  BY <4>1, <4>2
    <3> QED  BY <3>1, <3>2
  <2> QED  BY <1>2, <2>2, <2>3, <2>4 DEF Own
<1>3. CASE own[f] = Nobody
  <2>1. f \in Range(ram.free)
    BY <1>1, <1>3, PartIs
  <2>2. PICK i \in DOMAIN ram.free : ram.free[i] = f
    BY <2>1 DEF Range
  <2>3. <<"free", i, ram.free[i]>> \in OuterUses
    BY DEF OuterUses
  <2> QED  BY <2>2, <2>3
<1>4. CASE own[f] # Nobody
  <2>1. PICK q \in Slot, k \in {"stack", "mem", "of", "new"} : own[f] = <<k, q>>
    BY <1>1, <1>4, OwnersAre
  <2>2. CASE k = "stack"
    <3>1. proc[q].kstack = f /\ proc[q].kstack # 0
      BY <1>1, <2>1, <2>2 DEF Part
    <3>2. <<"stack", q, proc[q].kstack>> \in OuterUses
      BY <3>1 DEF OuterUses
    <3> QED  BY <3>1, <3>2
  <2>3. CASE k = "mem"
    <3>1. call[q].mem = f /\ call[q].mem # 0
      BY <1>1, <2>1, <2>3 DEF Part
    <3>2. <<"mem", q, call[q].mem>> \in OuterUses
      BY <3>1 DEF OuterUses
    <3> QED  BY <3>1, <3>2
  <2>4. CASE k = "of"
    <3>1. Active(proc[q]) /\ f \in Own(ram, proc[q].pgdir)
      BY <1>1, <2>1, <2>4 DEF Part
    <3>2. <<"of", q>> \in Directories /\ Held(<<"of", q>>) = proc[q].pgdir
      BY <3>1 DEF Directories, Active, Held
    <3> QED  BY <1>2, <3>1, <3>2
  <2>5. CASE k = "new"
    <3>1. Makes(call[q]) /\ f \in Own(ram, call[q].dir)
      BY <1>1, <2>1, <2>5 DEF Part
    <3>2. <<"new", q>> \in Directories /\ Held(<<"new", q>>) = call[q].dir
      BY <3>1 DEF Directories, Makes, Held
    <3> QED  BY <1>2, <3>1, <3>2
  <2> QED  BY <2>1, <2>2, <2>3, <2>4, <2>5
<1> QED  BY <1>3, <1>4

\* A frame that has an owner has one use.
LEMMA AccountedOnce == Accounted => FramesOwnedOnce
<1> SUFFICES ASSUME Accounted PROVE FramesOwnedOnce
  OBVIOUS
<1>1. PICK own : Sound(own, ram, proc, call)
  BY DEF Accounted
<1> DEFINE outer == {u[3] : u \in OuterUses}
           tables == {u[3] : u \in TableUses}
           pages == {u[3] : u \in PageUses}
<1>2. Once(OuterUses)
  <2> SUFFICES ASSUME NEW u \in OuterUses, NEW v \in OuterUses, u[3] = v[3]
               PROVE  u = v
    BY DEF Once
  <2>1. /\ u = <<u[1], u[2], u[3]>> /\ own[u[3]] = UserOf(u)
        /\ u[1] = "free" => u[2] \in DOMAIN ram.free /\ u[3] = ram.free[u[2]]
        /\ u[1] # "free" => UserOf(u) # Nobody
    BY <1>1, OuterIs
  <2>2. /\ v = <<v[1], v[2], v[3]>> /\ own[v[3]] = UserOf(v)
        /\ v[1] = "free" => v[2] \in DOMAIN ram.free /\ v[3] = ram.free[v[2]]
        /\ v[1] # "free" => UserOf(v) # Nobody
    BY <1>1, OuterIs
  <2>3. UserOf(u) = UserOf(v)
    BY <2>1, <2>2
  <2>4. CASE u[1] = "free"
    <3>1. v[1] = "free"
      BY <2>2, <2>3, <2>4 DEF UserOf
    <3>2. IsInjective(ram.free)
      BY <1>1 DEF Sound, Ram
    <3>3. u[2] = v[2]
      BY <2>1, <2>2, <2>4, <3>1, <3>2 DEF IsInjective
    <3> QED  BY <2>1, <2>2, <2>4, <3>1, <3>3
  <2>5. CASE u[1] # "free"
    <3>1. v[1] # "free"
      BY <2>1, <2>3, <2>5 DEF UserOf
    <3>2. <<u[1], u[2]>> = <<v[1], v[2]>>
      BY <2>3, <2>5, <3>1 DEF UserOf
    <3>3. u[1] = v[1] /\ u[2] = v[2]
      BY <3>2
    <3> QED  BY <2>1, <2>2, <3>3
  <2> QED  BY <2>4, <2>5
<1>3. Once(TableUses)
  <2> SUFFICES ASSUME NEW u \in TableUses, NEW v \in TableUses, u[3] = v[3]
               PROVE  u = v
    BY DEF Once
  <2>1. /\ u = <<u[1], u[2], u[3]>> /\ u[1] \in Directories /\ u[2] \in Entry
        /\ u[3] = ram.frame[Held(u[1])][u[2]] /\ u[3] # 0 /\ own[u[3]] = u[1]
    BY <1>1, TableIs
  <2>2. /\ v = <<v[1], v[2], v[3]>> /\ v[1] \in Directories /\ v[2] \in Entry
        /\ v[3] = ram.frame[Held(v[1])][v[2]] /\ v[3] # 0 /\ own[v[3]] = v[1]
    BY <1>1, TableIs
  <2>3. u[1] = v[1]
    BY <2>1, <2>2
  <2>4. Space(ram, Held(u[1]))
    BY <1>1, <2>1, DirectoryIs
  <2>5. u[2] = v[2]
    BY <2>1, <2>2, <2>3, <2>4 DEF Space, Treelike
  <2> QED  BY <2>1, <2>2, <2>3, <2>5
<1>4. Once(PageUses)
  <2> SUFFICES ASSUME NEW u \in PageUses, NEW v \in PageUses, u[3] = v[3]
               PROVE  u = v
    BY DEF Once
  <2>1. /\ u = <<u[1], u[2], u[3]>> /\ u[1] \in Directories /\ u[2] \in Page
        /\ u[3] = Walk(ram, Held(u[1]), u[2]).frame /\ u[3] # 0 /\ own[u[3]] = u[1]
    BY <1>1, PageUseIs
  <2>2. /\ v = <<v[1], v[2], v[3]>> /\ v[1] \in Directories /\ v[2] \in Page
        /\ v[3] = Walk(ram, Held(v[1]), v[2]).frame /\ v[3] # 0 /\ own[v[3]] = v[1]
    BY <1>1, PageUseIs
  <2>3. u[1] = v[1]
    BY <2>1, <2>2
  <2>4. Space(ram, Held(u[1]))
    BY <1>1, <2>1, DirectoryIs
  <2>5. u[2] = v[2]
    BY <2>1, <2>2, <2>3, <2>4 DEF Space, Treelike
  <2> QED  BY <2>1, <2>2, <2>3, <2>5
<1>5. ASSUME NEW u \in OuterUses, NEW d \in Directories, u[3] \in TablesOf(ram, Held(d)) \cup PagesOf(ram, Held(d))
      PROVE  FALSE
  <2>1. /\ Space(ram, Held(d)) /\ \A f \in Own(ram, Held(d)) : own[f] = d
        /\ d # Nobody /\ d = <<d[1], d[2]>> /\ d[1] \in {"of", "new"}
    BY <1>1, DirectoryIs
  <2>2. own[u[3]] = d
    BY <1>5, <2>1, OwnFrames
  <2>3. /\ own[u[3]] = UserOf(u)
        /\ u[1] \in {"of", "new"} => <<u[1], u[2]>> \in Directories /\ u[3] = Held(<<u[1], u[2]>>)
    BY <1>1, OuterIs
  <2>4. u[1] # "free" /\ <<u[1], u[2]>> = d
    BY <2>1, <2>2, <2>3 DEF UserOf
  <2>5. u[1] = d[1]
    BY <2>1, <2>4
  <2>6. u[3] = Held(d)
    BY <2>1, <2>3, <2>4, <2>5
  <2> QED  BY <1>5, <2>1, <2>6 DEF Space, Treelike
<1>6. outer \cap tables = {}
  <2> SUFFICES ASSUME NEW u \in OuterUses, NEW t \in TableUses, u[3] = t[3] PROVE FALSE
    OBVIOUS
  <2>1. t[1] \in Directories /\ t[3] \in TablesOf(ram, Held(t[1]))
    BY <1>1, TableIs
  <2> QED  BY <1>5, <2>1
<1>7. pages \cap (outer \cup tables) = {}
  <2>1. ASSUME NEW u \in OuterUses, NEW g \in PageUses, u[3] = g[3] PROVE FALSE
    <3>1. g[1] \in Directories /\ g[3] \in PagesOf(ram, Held(g[1]))
      BY <1>1, PageUseIs
    <3> QED  BY <1>5, <2>1, <3>1
  <2>2. ASSUME NEW t \in TableUses, NEW g \in PageUses, t[3] = g[3] PROVE FALSE
    <3>1. g[3] \in PagesOf(ram, Held(g[1])) /\ own[g[3]] = g[1] /\ g[1] \in Directories
      BY <1>1, PageUseIs
    <3>2. t[3] \in TablesOf(ram, Held(t[1])) /\ own[t[3]] = t[1]
      BY <1>1, TableIs
    <3>3. Space(ram, Held(g[1]))
      BY <1>1, <3>1, DirectoryIs
    <3> QED  BY <2>2, <3>1, <3>2, <3>3 DEF Space, Treelike
  <2> QED  BY <2>1, <2>2
<1>8. outer \cup tables \cup pages = Frame
  <2>1. outer \subseteq Frame
    BY <1>1, OuterIs
  <2>2. tables \subseteq Frame
    BY <1>1, TableIs
  <2>3. pages \subseteq Frame
    BY <1>1, PageUseIs
  <2>4. ASSUME NEW f \in Frame PROVE f \in outer \cup tables \cup pages
    BY <1>1, UsedIs
  <2> QED  BY <2>1, <2>2, <2>3, <2>4
<1> QED  BY <1>2, <1>3, <1>4, <1>6, <1>7, <1>8 DEF FramesOwnedOnce

-----------------------------------------------------------------------------
(* The theorems *)

\* Frames are accounted for at the start,
LEMMA AccountedInit == Init => Accounted
  BY InitSound DEF Accounted

\* and after every step.
LEMMA AccountedNext == Accounted /\ [Next]_vars => Accounted'
<1> SUFFICES ASSUME Accounted, [Next]_vars PROVE Accounted'
  OBVIOUS
<1>1. CASE Next
  <2>1. PICK own : Sound(own, ram, proc, call)
    BY DEF Accounted
  <2>2. panicked' = panicked /\ \E own2 : Sound(own2, ram', proc', call')
    BY <1>1, <2>1, NextSound
  <2> QED  BY <2>2 DEF Accounted
<1>2. CASE UNCHANGED vars
  BY <1>2 DEF vars, Accounted
<1> QED  BY <1>1, <1>2

\* In every state that the machine reaches, every frame is accounted for.
THEOREM MemoryAccounted == KernelSpec => []Accounted
<1>1. KernelInit => Accounted
  BY AccountedInit DEF KernelInit
<1>2. Accounted /\ [MemoryRuns \/ ThreadsRun]_<<vars, part, cpus, on, code, locks, ptable, ticks, ticks0, fault>>
        => Accounted'
  <2> SUFFICES ASSUME Accounted,
                      [MemoryRuns \/ ThreadsRun]_<<vars, part, cpus, on, code, locks, ptable, ticks, ticks0, fault>>
               PROVE  Accounted'
    OBVIOUS
  <2>1. [Next]_vars
    BY DEF MemoryRuns, ThreadsRun
  <2> QED  BY <2>1, AccountedNext
<1> QED  BY <1>1, <1>2, PTL DEF KernelSpec

\* kalloc.c, vm.c, exec.c: every frame has one use, and the kernel does not panic.
THEOREM MemoryAlwaysSound == KernelSpec => []MemorySound
<1>1. Accounted => MemorySound
  BY AccountedOnce DEF Accounted, MemorySound, NoPanic
<1> QED  BY <1>1, MemoryAccounted, PTL

\* The same of the memory by itself, without the part of the kernel that schedules
THEOREM MemoryAlone == Spec => [](FramesOwnedOnce /\ NoPanic)
<1>1. Spec => []Accounted
  BY AccountedInit, AccountedNext, PTL DEF Spec
<1>2. Accounted => FramesOwnedOnce /\ NoPanic
  BY AccountedOnce DEF Accounted, NoPanic
<1> QED  BY <1>1, <1>2, PTL

-----------------------------------------------------------------------------
(* The memory that each process sees *)

SpaceOf(r, s) ==
  IF s.state # "RUNNABLE" THEN [a \in {} |-> "zero"]
  ELSE [a \in {b \in 0 .. PGROUNDUP(s.sz) - 1 : Accessible(r, s.pgdir, b)} |-> WordAt(r, s.pgdir, a)]

\* Spaces, slot by slot
LEMMA SpacesAre ==
  /\ Spaces = [q \in Slot |-> SpaceOf(ram, proc[q])]
  /\ Spaces' = [q \in Slot |-> SpaceOf(ram', proc'[q])]
  BY DEF Spaces, SpaceOf

\* The addresses of a size, and their pages
LEMMA AddressIn ==
  ASSUME NEW sz \in Nat, sz <= KERNBASE, NEW a \in 0 .. PGROUNDUP(sz) - 1
  PROVE  /\ a \div PGSIZE \in Page /\ a \div PGSIZE < Pages(sz)
         /\ a \in Nat /\ a < KERNBASE
<1>1. a \in Nat /\ a < PGROUNDUP(sz)
  BY PagesAre
<1>2. a \div PGSIZE < Pages(sz) /\ a \div PGSIZE \in Nat
  BY <1>1, PagesAre, Divided, Sizes
<1>3. a \div PGSIZE \in Page
  BY <1>2, PagesAre
<1>4. a \div PGSIZE < KERNBASE \div PGSIZE
  BY <1>2, PagesAre, PagesBelow, Sizes
<1>5. a < KERNBASE
  <2>1. Pages(KERNBASE) * PGSIZE = KERNBASE
    <3>1. KERNBASE \div PGSIZE = BASE * NPTENTRIES /\ KERNBASE = BASE * NPTENTRIES * PGSIZE
      BY Geometry
    <3> QED  BY <3>1, PagesBelow
  <2>2. Pages(KERNBASE) \in Nat /\ a \div PGSIZE < Pages(KERNBASE)
    BY <1>4, PagesBelow, PagesAre, Sizes
  <2>3. a < Pages(KERNBASE) * PGSIZE
    BY <1>1, <2>2, QuotientLess, Sizes
  <2> QED  BY <2>1, <2>3
<1> QED  BY <1>1, <1>2, <1>3, <1>5

\* What programs see of a space is in its pages.
LEMMA SpaceSame ==
  ASSUME NEW r, NEW r2, NEW s, NEW s2, s2.state = s.state,
         s.sz \in Nat, s.sz <= KERNBASE, Pages(s2.sz) = Pages(s.sz),
         s.state = "RUNNABLE" =>
           \A n \in Page : n < Pages(s.sz) => Alike(r, s.pgdir, r2, s2.pgdir, n)
  PROVE  SpaceOf(r2, s2) = SpaceOf(r, s)
<1>1. CASE s.state # "RUNNABLE"
  BY <1>1 DEF SpaceOf
<1>2. CASE s.state = "RUNNABLE"
  <2> DEFINE there(x, t) == {b \in 0 .. PGROUNDUP(t.sz) - 1 : Accessible(x, t.pgdir, b)}
  <2>1. \A b \in 0 .. PGROUNDUP(s.sz) - 1 : Alike(r, s.pgdir, r2, s2.pgdir, b \div PGSIZE)
    BY <1>2, AddressIn
  <2>2. \A b \in 0 .. PGROUNDUP(s.sz) - 1 : Accessible(r2, s2.pgdir, b) <=> Accessible(r, s.pgdir, b)
    BY <2>1 DEF Alike, There, Accessible
  <2>3. PGROUNDUP(s2.sz) = PGROUNDUP(s.sz)
    BY DEF PGROUNDUP
  <2>4. there(r2, s2) = there(r, s)
    BY <2>2, <2>3
  <2>5. \A b \in there(r, s) : WordAt(r2, s2.pgdir, b) = WordAt(r, s.pgdir, b)
    BY <2>1 DEF Alike, There, Accessible, WordAt
  <2>6. /\ SpaceOf(r, s) = [a \in there(r, s) |-> WordAt(r, s.pgdir, a)]
        /\ SpaceOf(r2, s2) = [a \in there(r2, s2) |-> WordAt(r2, s2.pgdir, a)]
    BY <1>2 DEF SpaceOf
  <2> HIDE DEF there
  <2> QED  BY <2>4, <2>5, <2>6
<1> QED  BY <1>1, <1>2

\* The processes that have a memory, and a step that they do not see
Running == {q \in Slot : proc[q].state = "RUNNABLE"}
Unseen(own, r2, qs) ==
  \A f \in Frame : r2.frame[f] # ram.frame[f] => \A q \in qs : own[f] # <<"of", q>>
SameRun(s, t) == IF s.state = "RUNNABLE" THEN SameSlot(s, t) ELSE t.state # "RUNNABLE"

\* A program that runs in a slot as before, in frames as before, sees what it saw.
LEMMA SpaceStays ==
  ASSUME NEW own, Sound(own, ram, proc, call), NEW q \in Slot, NEW r2, NEW t, SameRun(proc[q], t),
         proc[q].state = "RUNNABLE" => Unseen(own, r2, {q})
  PROVE  SpaceOf(r2, t) = SpaceOf(ram, proc[q])
<1>1. proc[q] \in Procs /\ proc[q].sz \in Nat /\ proc[q].sz <= KERNBASE
  BY SlotIs, ProcIs
<1>2. CASE proc[q].state # "RUNNABLE"
  BY <1>2 DEF SameRun, SpaceOf
<1>3. CASE proc[q].state = "RUNNABLE"
  <2>1. /\ Active(proc[q]) /\ Space(ram, proc[q].pgdir)
        /\ \A f \in Own(ram, proc[q].pgdir) : f \in Frame /\ own[f] = <<"of", q>>
    BY <1>3, FreeIs DEF Active
  <2>2. \A f \in Own(ram, proc[q].pgdir) : r2.frame[f] = ram.frame[f]
    BY <1>3, <2>1 DEF Unseen
  <2>3. Kept(ram, r2, proc[q].pgdir)
    BY <2>1, <2>2, SpaceKept
  <2>4. \A n \in Page : Alike(ram, proc[q].pgdir, r2, proc[q].pgdir, n)
    BY <2>3, KeptAlike DEF Kept
  <2>5. t.state = proc[q].state /\ t.pgdir = proc[q].pgdir /\ t.sz = proc[q].sz
    BY <1>3 DEF SameRun, SameSlot
  <2> QED  BY <1>1, <2>4, <2>5, SpaceSame
<1> QED  BY <1>2, <1>3

\* A step that no program sees
LEMMA Stutters ==
  ASSUME NEW own, Sound(own, ram, proc, call), Unseen(own, ram', Running),
         \A q \in Slot : SameRun(proc[q], proc'[q])
  PROVE  Spaces' = Spaces
<1>1. \A q \in Slot : proc[q].state = "RUNNABLE" => Unseen(own, ram', {q})
  BY DEF Unseen, Running
<1>2. ASSUME NEW q \in Slot PROVE SpaceOf(ram', proc'[q]) = SpaceOf(ram, proc[q])
  <2>1. SameRun(proc[q], proc'[q]) /\ (proc[q].state = "RUNNABLE" => Unseen(own, ram', {q}))
    BY <1>1
  <2> QED  BY <2>1, SpaceStays
<1> QED  BY <1>2, SpacesAre

\* A step that one program sees
LEMMA SpacesBut ==
  ASSUME NEW own, Sound(own, ram, proc, call), NEW p \in Slot, Unseen(own, ram', Running \ {p}),
         \A q \in Slot \ {p} : SameRun(proc[q], proc'[q])
  PROVE  Spaces' = [Spaces EXCEPT ![p] = SpaceOf(ram', proc'[p])]
<1>1. \A q \in Slot \ {p} : proc[q].state = "RUNNABLE" => Unseen(own, ram', {q})
  BY DEF Unseen, Running
<1>2. ASSUME NEW q \in Slot \ {p} PROVE SpaceOf(ram', proc'[q]) = SpaceOf(ram, proc[q])
  <2>1. SameRun(proc[q], proc'[q]) /\ (proc[q].state = "RUNNABLE" => Unseen(own, ram', {q}))
    BY <1>1
  <2> QED  BY <2>1, SpaceStays
<1>3. [Spaces EXCEPT ![p] = SpaceOf(ram', proc'[p])]
        = [q \in Slot |-> IF q = p THEN SpaceOf(ram', proc'[p]) ELSE SpaceOf(ram, proc[q])]
  BY SpacesAre
<1> QED  BY <1>2, <1>3, SpacesAre

\* What is not a frame of a program's memory is not seen.
LEMMA UnseenIs ==
  ASSUME NEW own, NEW r2, NEW qs,
         \A f \in Frame : r2.frame[f] # ram.frame[f] =>
           own[f] = Nobody \/ \E q : own[f] = <<"mem", q>> \/ own[f] = <<"new", q>> \/ own[f] = <<"stack", q>>
             \/ (q \notin qs /\ own[f] = <<"of", q>>)
  PROVE  Unseen(own, r2, qs)
  BY DEF Unseen, Nobody

\* A process as it was
LEMMA SameRunIs == \A s : SameRun(s, s)
  BY DEF SameRun, SameSlot

\* Who takes a frame from the free list is not seen,
LEMMA TakesUnseen ==
  ASSUME NEW own, Sound(own, ram, proc, call), ram.free # << >>, NEW content, NEW qs
  PROVE  Unseen(own, Kalloc(ram, content), qs)
<1>1. Ram(ram)
  BY DEF Sound
<1>2. Head(ram.free) \in Range(ram.free)
      /\ \A f \in Frame \ {Head(ram.free)} : Kalloc(ram, content).frame[f] = ram.frame[f]
  BY <1>1, KallocTakes
<1>3. Part(ram, proc, call, Nobody) = Range(ram.free) /\ Nobody \in Owners
  BY PartIs, OwnersAre
<1>4. own[Head(ram.free)] = Nobody
  BY <1>2, <1>3, PartsDiffer
<1> QED  BY <1>2, <1>4, UnseenIs

\* nor who changes the space that a call makes, and takes frames for it.
LEMMA MakesUnseen ==
  ASSUME NEW own, Sound(own, ram, proc, call), NEW p \in Slot, Makes(call[p]), NEW r2, NEW qs,
         \A f \in Frame : r2.frame[f] # ram.frame[f] => f \in Range(ram.free) \/ f \in Own(ram, call[p].dir)
  PROVE  Unseen(own, r2, qs)
<1>1. /\ \A f \in Range(ram.free) : own[f] = Nobody
      /\ \A f \in Own(ram, call[p].dir) : own[f] = <<"new", p>>
  BY FreeIs
<1> QED  BY <1>1, UnseenIs

\* The table as it was, and a slot in which nobody ran and nobody runs
LEMMA TableSame ==
  ASSUME proc' = proc
  PROVE  \A q \in Slot : SameRun(proc[q], proc'[q])
  BY SameRunIs
\* A slot that runs no program changes for no one.
LEMMA SlotIdle ==
  ASSUME NEW x, \A q \in Slot \ {x} : proc'[q] = proc[q],
         proc[x].state # "RUNNABLE", proc'[x].state # "RUNNABLE"
  PROVE  \A q \in Slot : SameRun(proc[q], proc'[q])
  BY SameRunIs DEF SameRun

\* Where memory is as it was, no program sees a step that leaves the table, or an idle slot.
LEMMA NothingUnseen == \A own, qs : Unseen(own, ram, qs)
  BY DEF Unseen

\* The beginnings of the calls, and exec's at a segment
LEMMA BeginsUnseen ==
  ASSUME NEW own, Sound(own, ram, proc, call), NEW p \in Slot,
         \/ \E by \in Growth : Sbrk(p, by) /\ by > 0
         \/ \E image \in Images, args \in Arguments : Exec(p, image, args)
         \/ Fork(p)
         \/ ExecSegment(p) /\ ~GiveUp(p)
  PROVE  Spaces' = Spaces
<1>1. CASE ram' = ram /\ proc' = proc
  BY <1>1, SpacesAre
<1>2. CASE Fork(p)
  <2>1. PICK x \in Slot : proc[x].state = "UNUSED" /\ proc' = [proc EXCEPT ![x].state = "EMBRYO"] /\ ram' = ram
    BY <1>2 DEF Fork
  <2>2. proc \in [Slot -> Procs] /\ proc[x] \in Procs
    BY <2>1, SlotIs
  <2>3. proc'[x].state = "EMBRYO" /\ \A q \in Slot \ {x} : proc'[q] = proc[q]
    BY <2>1, <2>2 DEF Procs
  <2>4. \A q \in Slot : SameRun(proc[q], proc'[q])
    BY <2>1, <2>3, SlotIdle
  <2>5. Unseen(own, ram', Running)
    BY <2>1, NothingUnseen, Zenon
  <2> QED  BY <2>4, <2>5, Stutters
<1>3. CASE \/ \E by \in Growth : Sbrk(p, by) /\ by > 0
           \/ \E image \in Images, args \in Arguments : Exec(p, image, args)
           \/ ExecSegment(p) /\ ~GiveUp(p)
  BY <1>1, <1>3, Zenon DEF Sbrk, Exec, ExecSegment
<1> QED  BY <1>2, <1>3

\* allocproc's stack, or the slot back
LEMMA StackUnseen ==
  ASSUME NEW own, Sound(own, ram, proc, call), NEW p \in Slot, GetStack(p)
  PROVE  Spaces' = Spaces
<1> DEFINE x == call[p].child
<1>1. call[p].at = "kstack"
  BY DEF GetStack, At
<1>2. x \in Slot /\ proc[x].state = "EMBRYO"
  BY <1>1, AtStack, ChildIs
<1>3. proc \in [Slot -> Procs] /\ proc[x] \in Procs
  BY <1>2, SlotIs
<1>4. /\ \A q \in Slot \ {x} : proc'[q] = proc[q]
      /\ proc'[x].state \in {"UNUSED", "EMBRYO"}
  <2>1. CASE ram.free = << >>
    <3>1. proc' = [proc EXCEPT ![x].state = "UNUSED", ![x].kstack = 0]
      BY <2>1 DEF GetStack
    <3>2. proc'[x] = [proc[x] EXCEPT !.state = "UNUSED", !.kstack = 0]
      BY <1>2, <1>3, <3>1
    <3> QED  BY <1>3, <3>1, <3>2 DEF Procs
  <2>2. CASE ram.free # << >>
    <3>1. proc' = [proc EXCEPT ![x].kstack = Head(ram.free)]
      BY <2>2 DEF GetStack
    <3>2. proc'[x] = [proc[x] EXCEPT !.kstack = Head(ram.free)]
      BY <1>2, <1>3, <3>1
    <3> QED  BY <1>2, <1>3, <3>1, <3>2 DEF Procs
  <2> QED  BY <2>1, <2>2
<1>5. \A q \in Slot : SameRun(proc[q], proc'[q])
  BY <1>2, <1>4, SlotIdle
<1>6. Unseen(own, ram', Running)
  <2>1. CASE ram.free = << >>
    BY <2>1, NothingUnseen DEF GetStack
  <2>2. CASE ram.free # << >>
    <3>1. ram' = Kalloc(ram, "stack")
      BY <2>2 DEF GetStack
    <3> QED  BY <2>2, <3>1, TakesUnseen
  <2> QED  BY <2>1, <2>2
<1> QED  BY <1>5, <1>6, Stutters

\* setupkvm, and the page to come
LEMMA TakesStutter ==
  ASSUME NEW own, Sound(own, ram, proc, call), NEW p \in Slot, ram.free # << >>,
         GetDir(p) \/ (GetPage(p) /\ ~panicked')
  PROVE  Spaces' = Spaces
<1>1. proc' = proc /\ \E content : ram' = Kalloc(ram, content)
  BY DEF GetDir, GetPage, Panic
<1>2. Unseen(own, ram', Running)
  BY <1>1, TakesUnseen
<1> QED  BY <1>1, <1>2, TableSame, Stutters
\* mappages for the kernel's part, a table at a time
LEMMA KernelUnseen ==
  ASSUME NEW own, Sound(own, ram, proc, call), NEW p \in Slot, ram.free # << >>, MapKernel(p)
  PROVE  Spaces' = Spaces
<1> DEFINE d == call[p].dir
           left == {i \in KMAP : ram.frame[d][i] = 0}
           i == CHOOSE k \in left : \A l \in left : k <= l
           h == Head(ram.free)
<1>1. call[p].at = "kmap" /\ ram' = WithTable(ram, d, i) /\ proc' = proc
  BY DEF MapKernel, At, WithTable
<1>2. /\ Ram(ram) /\ call[p] \in CallRecords /\ CallGood(ram, proc[p], call[p])
  BY SlotIs
<1>3. call[p].op \in {"fork", "exec"}
  BY <1>1, <1>2, RecordIs DEF CallGood, InLoop, Phase, Phases, Loops, Ops
<1>4. Makes(call[p]) /\ Space(ram, d) /\ \E k \in KMAP : ram.frame[d][k] = 0
  BY <1>1, <1>2, <1>3 DEF CallGood, Making, Makes
<1>5. i \in left
  BY <1>4, LeftIs
<1>6. i \in Entry /\ ram.frame[d][i] = 0
  BY <1>5, KernelIs
<1> HIDE DEF i, left
<1>7. Range(ram.free) \cap Own(ram, d) = {} /\ d \in Own(ram, d)
  BY <1>4, FreeIs, OwnFrames
<1>8. h \in Range(ram.free) /\ \A f \in Frame : f # d /\ f # h => ram'.frame[f] = ram.frame[f]
  <2>1. TableGiven(ram, WithTable(ram, d, i), d, i, h)
    BY <1>2, <1>4, <1>6, <1>7, TableGives
  <2> QED  BY <1>1, <2>1 DEF TableGiven
<1> HIDE DEF h
<1>9. \A f \in Frame : ram'.frame[f] # ram.frame[f] => f \in Range(ram.free) \/ f \in Own(ram, d)
  BY <1>7, <1>8
<1>10. Unseen(own, ram', Running)
  <2> HIDE DEF d
  <2>1. \A f \in Frame : ram'.frame[f] # ram.frame[f] => f \in Range(ram.free) \/ f \in Own(ram, call[p].dir)
    BY <1>9 DEF d
  <2> QED  BY <1>4, <2>1, MakesUnseen
<1> QED  BY <1>1, <1>10, TableSame, Stutters

\* What p's program has may change above its size: no program sees it.
LEMMA StuttersLower ==
  ASSUME NEW own, Sound(own, ram, proc, call), NEW p \in Slot, proc' = proc,
         Unseen(own, ram', Running \ {p}), Lower(ram', proc[p])
  PROVE  Spaces' = Spaces
<1>1. Spaces' = [Spaces EXCEPT ![p] = SpaceOf(ram', proc'[p])]
  <2>1. \A q \in Slot \ {p} : SameRun(proc[q], proc'[q])
    BY TableSame
  <2> QED  BY <2>1, SpacesBut
<1>2. proc[p].sz \in Nat /\ proc[p].sz <= KERNBASE
  BY SlotIs, ProcIs
<1>3. SpaceOf(ram', proc[p]) = SpaceOf(ram, proc[p])
  <2>1. proc[p].state = "RUNNABLE" =>
          \A n \in Page : n < Pages(proc[p].sz) => Alike(ram, proc[p].pgdir, ram', proc[p].pgdir, n)
    BY DEF Lower
  <2> QED  BY <1>2, <2>1, SpaceSame
<1>4. Spaces = [q \in Slot |-> SpaceOf(ram, proc[q])]
  BY SpacesAre
<1> HIDE DEF SpaceOf
<1>5. Spaces[p] = SpaceOf(ram', proc'[p])
  BY <1>3, <1>4
<1> QED  BY <1>1, <1>4, <1>5

\* The failing ends of the calls
LEMMA GivesUpUnseen ==
  ASSUME NEW own, Sound(own, ram, proc, call), NEW p \in Slot, GiveUp(p),
         call[p].at \in {"pgdir", "kmap", "page", "map", "segment", "load", "args"}
  PROVE  Spaces' = Spaces
<1>1. call[p] \in CallRecords /\ CallGood(ram, proc[p], call[p])
  BY SlotIs
<1>2. call[p].op \in {"sbrk", "fork", "exec"} /\ (call[p].op = "sbrk" => Loops(call[p]))
  BY <1>1, RecordIs DEF CallGood, InLoop, Phase, Phases, Loops, Ops
<1>3. call[p].at # "kstack"
  OBVIOUS
<1>4. CASE call[p].op = "sbrk"
  <2>1. /\ proc' = proc /\ Lower(ram', proc[p])
        /\ \A f \in Frame : ram'.frame[f] # ram.frame[f] => own[f] \in {<<"mem", p>>, <<"of", p>>}
    BY <1>2, <1>4, SbrkGivesUp
  <2>2. Unseen(own, ram', Running \ {p})
    BY <2>1, UnseenIs
  <2> QED  BY <2>1, <2>2, StuttersLower
<1>5. CASE call[p].op = "fork"
  <2>1. PICK x \in Slot : /\ proc[x].state = "EMBRYO"
                          /\ Leaves(own, x, {<<"mem", p>>, <<"new", p>>, <<"stack", x>>})
    BY <1>5, <1>3, ForkGivesUp
  <2>2. Unseen(own, ram', Running)
    BY <2>1, UnseenIs DEF Leaves
  <2>3. \A q \in Slot : SameRun(proc[q], proc'[q])
    BY <2>1, SlotIdle DEF Leaves
  <2> QED  BY <2>2, <2>3, Stutters
<1>6. CASE call[p].op = "exec"
  <2>1. /\ proc' = proc
        /\ \A f \in Frame : ram'.frame[f] # ram.frame[f] => own[f] \in {<<"mem", p>>, <<"new", p>>}
    BY <1>6, ExecGivesUp
  <2>2. Unseen(own, ram', Running)
    BY <2>1, UnseenIs
  <2> QED  BY <2>1, <2>2, TableSame, Stutters
<1> QED  BY <1>2, <1>4, <1>5, <1>6

\* A page more, above the size of the program or in a space that is not there yet
LEMMA PageUnseen ==
  ASSUME NEW own, Sound(own, ram, proc, call), NEW p \in Slot, MapPage(p), CanMap(ram, call[p].dir, call[p].n)
  PROVE  Spaces' = Spaces
<1> DEFINE c == call[p]
           d == call[p].dir
<1>1. c.at = "map" /\ Loops(c)
  BY DEF MapPage, At, Loops
<1>2. /\ c.n \in Page /\ Space(ram, d) /\ c.op \in {"sbrk", "fork", "exec"}
      /\ IF c.op = "sbrk" THEN ~Makes(c) /\ d = proc[p].pgdir ELSE Makes(c)
      /\ Active(proc[p])
  BY <1>1, AtPage
<1>3. PICK new, pte : Maps(ram, ram', d, c.n, pte, new)
  BY PageMapped
<1>4. proc' = proc
  BY PageMapped
<1>5. /\ \A m \in Page : m # c.n => Walk(ram', d, m) = Walk(ram, d, m)
      /\ \A f \in Frame : f \notin {d} \cup TablesOf(ram, d) /\ f \notin Range(ram.free) => ram'.frame[f] = ram.frame[f]
  BY <1>3 DEF Maps
<1>6. /\ {d} \cup TablesOf(ram, d) \subseteq Own(ram, d) /\ PagesOf(ram, d) \subseteq Own(ram, d)
      /\ Own(ram, d) \subseteq Frame
  BY <1>2, OwnFrames
<1>7. \A f \in Frame : ram'.frame[f] # ram.frame[f] => f \in Range(ram.free) \/ f \in Own(ram, d)
  BY <1>5, <1>6
<1>8. CASE c.op = "sbrk"
  <2>1. Range(ram.free) \cap Own(ram, d) = {} /\ \A f \in Own(ram, d) : own[f] = <<"of", p>>
    BY <1>2, <1>8, FreeIs
  <2>2. \A f \in Range(ram.free) : own[f] = Nobody
    BY FreeIs
  <2>3. Unseen(own, ram', Running \ {p})
    BY <1>7, <2>1, <2>2, UnseenIs
  <2>4. Pages(proc[p].sz) <= c.n
    <3>1. CallGood(ram, proc[p], c)
      BY SlotIs
    <3> QED  BY <1>1, <1>8, <3>1 DEF CallGood, Enlarging
  <2>5. ASSUME NEW m \in Page, m < Pages(proc[p].sz)
        PROVE  Alike(ram, d, ram', d, m)
    <3>1. m # c.n
      <4>1. m \in Nat /\ c.n \in Nat /\ proc[p].sz \in Nat
        BY <1>2, PageIs, SlotIs, ProcIs
      <4>2. Pages(proc[p].sz) \in Nat
        BY <4>1, PagesAre
      <4> QED  BY <2>4, <2>5, <4>1, <4>2
    <3>2. ASSUME Walk(ram, d, m).frame # 0
          PROVE  ram'.frame[Walk(ram, d, m).frame] = ram.frame[Walk(ram, d, m).frame]
      <4> DEFINE f == Walk(ram, d, m).frame
      <4>1. f \in PagesOf(ram, d) /\ f \in Frame
        BY <1>2, <3>2, WalkIs
      <4>2. f \notin {d} \cup TablesOf(ram, d)
        BY <1>2, <4>1 DEF Space, Treelike
      <4>3. f \notin Range(ram.free)
        BY <1>6, <2>1, <4>1
      <4> HIDE DEF f
      <4>4. ram'.frame[f] = ram.frame[f]
        BY <1>5, <4>1, <4>2, <4>3
      <4> QED  BY <4>4 DEF f
    <3>3. Walk(ram', d, m) = Walk(ram, d, m)
      BY <1>5, <3>1
    <3> QED  BY <3>2, <3>3, KeptAlike
  <2>6. Lower(ram', proc[p])
    <3> HIDE DEF c
    <3>1. d = proc[p].pgdir
      BY <1>2, <1>8
    <3> HIDE DEF d
    <3> QED  BY <2>5, <3>1 DEF Lower
  <2> QED  BY <1>4, <2>3, <2>6, StuttersLower
<1>9. CASE c.op # "sbrk"
  <2>1. Unseen(own, ram', Running)
    BY <1>2, <1>7, <1>9, MakesUnseen
  <2> QED  BY <1>4, <2>1, TableSame, Stutters
<1> QED  BY <1>8, <1>9

\* exec's segment, in the space that it makes
LEMMA LoadUnseen ==
  ASSUME NEW own, Sound(own, ram, proc, call), NEW p \in Slot, ExecLoad(p), ~GiveUp(p)
  PROVE  Spaces' = Spaces
<1> DEFINE d == call[p].dir
<1>1. proc' = proc /\ Makes(call[p])
  BY SegmentLoaded
<1>2. PICK words : WordsWritten(ram, ram', d, words, "text")
  BY SegmentLoaded
<1>3. Space(ram, d)
  BY <1>1, FreeIs
<1>4. PagesOf(ram, d) \subseteq Own(ram, d)
  BY <1>3, OwnFrames
<1>5. \A f \in Frame : ram'.frame[f] # ram.frame[f] => f \in Range(ram.free) \/ f \in Own(ram, d)
  BY <1>2, <1>4 DEF WordsWritten
<1>6. Unseen(own, ram', Running)
  BY <1>1, <1>5, MakesUnseen
<1> QED  BY <1>1, <1>6, TableSame, Stutters

\* wait's child had no program any more.
LEMMA WaitUnseen ==
  ASSUME NEW own, Sound(own, ram, proc, call), NEW p \in Slot, Wait(p)
  PROVE  Spaces' = Spaces
<1>1. PICK x \in Slot : proc[x].state = "ZOMBIE" /\ Leaves(own, x, {<<"stack", x>>, <<"of", x>>})
  BY WaitSound
<1>2. x \notin Running
  BY <1>1 DEF Running
<1>3. Unseen(own, ram', Running)
  BY <1>1, <1>2, UnseenIs DEF Leaves
<1>4. \A q \in Slot : SameRun(proc[q], proc'[q])
  BY <1>1, SlotIdle DEF Leaves
<1> QED  BY <1>3, <1>4, Stutters

\* What a program sees, address by address
LEMMA SpaceIs ==
  ASSUME NEW r, NEW s, s.state = "RUNNABLE"
  PROVE  /\ SpaceOf(r, s) = [a \in DOMAIN SpaceOf(r, s) |-> SpaceOf(r, s)[a]]
         /\ \A a : a \in DOMAIN SpaceOf(r, s) <=>
                     a \in 0 .. PGROUNDUP(s.sz) - 1 /\ There(r, s.pgdir, a \div PGSIZE)
         /\ \A a \in DOMAIN SpaceOf(r, s) :
              SpaceOf(r, s)[a] = r.frame[Walk(r, s.pgdir, a \div PGSIZE).frame][a % PGSIZE]
<1>1. SpaceOf(r, s) = [a \in {b \in 0 .. PGROUNDUP(s.sz) - 1 : Accessible(r, s.pgdir, b)} |-> WordAt(r, s.pgdir, a)]
  BY DEF SpaceOf
<1>2. \A b : Accessible(r, s.pgdir, b) <=> There(r, s.pgdir, b \div PGSIZE)
  BY DEF Accessible, There
<1>3. \A a : WordAt(r, s.pgdir, a) = r.frame[Walk(r, s.pgdir, a \div PGSIZE).frame][a % PGSIZE]
  BY DEF WordAt
<1> QED  BY <1>1, <1>2, <1>3

\* What a program is to see, found in the frames its page table names
LEMMA SpaceBecomes ==
  ASSUME NEW r, NEW s, s.state = "RUNNABLE", NEW f, f = [a \in DOMAIN f |-> f[a]],
         \A a : a \in DOMAIN f <=> a \in 0 .. PGROUNDUP(s.sz) - 1 /\ There(r, s.pgdir, a \div PGSIZE),
         \A a \in DOMAIN f : f[a] = r.frame[Walk(r, s.pgdir, a \div PGSIZE).frame][a % PGSIZE]
  PROVE  SpaceOf(r, s) = f
<1> DEFINE g == SpaceOf(r, s)
<1>1. g = [a \in DOMAIN g |-> g[a]]
  BY SpaceIs
<1>2. \A a : a \in DOMAIN g <=> a \in DOMAIN f
  BY SpaceIs
<1>3. \A a \in DOMAIN f : g[a] = f[a]
  BY <1>2, SpaceIs
<1> HIDE DEF g
<1>4. DOMAIN g = DOMAIN f
  BY <1>2
<1>5. g = f
  BY <1>1, <1>3, <1>4
<1> QED  BY <1>5 DEF g

\* The spaces of who runs
LEMMA SpaceHere ==
  ASSUME NEW p \in Slot
  PROVE  Spaces[p] = SpaceOf(ram, proc[p]) /\ DOMAIN Spaces = Slot
         /\ (proc[p].state # "RUNNABLE" => Spaces[p] = [a \in {} |-> "zero"])
<1>1. Spaces[p] = SpaceOf(ram, proc[p]) /\ DOMAIN Spaces = Slot
  BY SpacesAre
<1> QED  BY <1>1 DEF SpaceOf

\* A program stores a word: AddressSpaces' Store.
LEMMA StoreStores ==
  ASSUME NEW own, Sound(own, ram, proc, call), NEW p \in Slot, NEW va \in Targets, Store(p, va)
  PROVE  Memory!Store(p)
<1> DEFINE d == proc[p].pgdir
           s == proc[p]
           old == SpaceOf(ram, s)
           n == va \div PGSIZE
<1>1. /\ Runs(p) /\ Accessible(ram, d, va) /\ ram' = Written(ram, d, {va}, "data") /\ proc' = proc
  BY DEF Store, Calls
<1>2. s.state = "RUNNABLE" /\ call[p].at = "user" /\ Has(ram, d, Pages(s.sz))
  BY <1>1, RunsHas
<1>3. Space(ram, d) /\ \A f \in Own(ram, d) : own[f] = <<"of", p>>
  BY <1>2, RunsIs
<1>4. s.sz \in Nat /\ s.sz <= KERNBASE /\ Ram(ram)
  BY SlotIs, ProcIs
<1>5. va \in 0 .. KERNBASE - 1 /\ n \in Page /\ Walk(ram, d, n).frame # 0 /\ Walk(ram, d, n).user
  <2>1. va \in 0 .. UINT - 1
    BY ProgramsAssumption
  <2> QED  BY <1>1, <1>3, <2>1, AccessibleIs
<1>6. va \in DOMAIN old
  <2>1. n < Pages(s.sz) /\ va \in Nat
    BY <1>2, <1>5 DEF Has
  <2>2. va < PGROUNDUP(s.sz) /\ PGROUNDUP(s.sz) \in Nat
    BY <1>4, <2>1, PagesAre
  <2>3. va \in 0 .. PGROUNDUP(s.sz) - 1 /\ There(ram, d, n)
    BY <1>5, <2>1, <2>2 DEF There
  <2> QED  BY <1>2, <2>3, SpaceIs
<1>7. WordsWritten(ram, ram', d, {va}, "data")
  <2>1. {va} \in SUBSET (0 .. KERNBASE - 1) /\ \A a \in {va} : Walk(ram, d, a \div PGSIZE).frame # 0
    BY <1>5
  <2> QED  BY <1>1, <1>3, <1>4, <2>1, WrittenIs
<1>8. /\ \A m \in Page : Walk(ram', d, m) = Walk(ram, d, m)
      /\ \A m \in Page : Walk(ram, d, m).frame # 0 =>
           \A i \in 0 .. PGSIZE - 1 :
             ram'.frame[Walk(ram, d, m).frame][i] =
               IF m * PGSIZE + i \in {va} THEN "data" ELSE ram.frame[Walk(ram, d, m).frame][i]
      /\ \A f \in Frame \ PagesOf(ram, d) : ram'.frame[f] = ram.frame[f]
  BY <1>7 DEF WordsWritten
<1>9. Spaces' = [Spaces EXCEPT ![p] = SpaceOf(ram', s)]
  <2>1. PagesOf(ram, d) \subseteq Own(ram, d)
    BY <1>3, OwnFrames
  <2>2. Unseen(own, ram', Running \ {p})
    BY <1>3, <1>8, <2>1, UnseenIs
  <2>3. \A q \in Slot \ {p} : SameRun(proc[q], proc'[q])
    BY <1>1, TableSame
  <2> QED  BY <1>1, <2>2, <2>3, SpacesBut
<1> DEFINE f == [old EXCEPT ![va] = "data"]
<1>10. SpaceOf(ram', s) = f
  <2>1. old = [a \in DOMAIN old |-> old[a]]
    BY <1>2, SpaceIs
  <2>2. /\ \A a : a \in DOMAIN old <=> a \in 0 .. PGROUNDUP(s.sz) - 1 /\ There(ram, d, a \div PGSIZE)
        /\ \A a \in DOMAIN old : old[a] = ram.frame[Walk(ram, d, a \div PGSIZE).frame][a % PGSIZE]
    BY <1>2, SpaceIs
  <2> HIDE DEF old
  <2>3. /\ f = [a \in DOMAIN f |-> f[a]] /\ DOMAIN f = DOMAIN old
        /\ \A a \in DOMAIN f : f[a] = IF a = va THEN "data" ELSE old[a]
    BY <2>1
  <2> HIDE DEF f
  <2>4. ASSUME NEW a \in 0 .. PGROUNDUP(s.sz) - 1
        PROVE  /\ There(ram', d, a \div PGSIZE) <=> There(ram, d, a \div PGSIZE)
               /\ There(ram, d, a \div PGSIZE) =>
                    ram'.frame[Walk(ram', d, a \div PGSIZE).frame][a % PGSIZE] =
                      IF a = va THEN "data" ELSE ram.frame[Walk(ram, d, a \div PGSIZE).frame][a % PGSIZE]
    <3> DEFINE m == a \div PGSIZE
               i == a % PGSIZE
    <3>1. m \in Page /\ a \in Nat /\ a < KERNBASE
      BY <1>4, AddressIn
    <3>2. i \in 0 .. PGSIZE - 1 /\ a = m * PGSIZE + i
      <4>1. a \in 0 .. KERNBASE - 1
        BY <3>1, Sizes
      <4> QED  BY <4>1, AddressIs
    <3> HIDE DEF m, i
    <3>3. Walk(ram', d, m) = Walk(ram, d, m)
      BY <1>8, <3>1
    <3>4. Walk(ram, d, m).frame # 0 =>
            ram'.frame[Walk(ram', d, m).frame][i] = IF a = va THEN "data" ELSE ram.frame[Walk(ram, d, m).frame][i]
      BY <1>8, <3>1, <3>2, <3>3
    <3> QED  BY <3>3, <3>4 DEF m, i, There
  <2>5. /\ \A a : a \in DOMAIN f <=> a \in 0 .. PGROUNDUP(s.sz) - 1 /\ There(ram', d, a \div PGSIZE)
        /\ \A a \in DOMAIN f : f[a] = ram'.frame[Walk(ram', d, a \div PGSIZE).frame][a % PGSIZE]
    BY <2>2, <2>3, <2>4
  <2> QED  BY <1>2, <2>3, <2>5, SpaceBecomes
<1>11. Spaces[p] = old
  BY SpaceHere
<1> HIDE DEF old
<1>12. Spaces' = [Spaces EXCEPT ![p][va] = "data"]
  BY <1>9, <1>10, <1>11
<1> QED  BY <1>6, <1>11, <1>12 DEF Memory!Store

\* Where a page ends is an edge.
LEMMA EdgeIs ==
  ASSUME NEW sz \in Nat, sz <= KERNBASE
  PROVE  PGROUNDUP(sz) \in {n * PGSIZE : n \in 0 .. KERNBASE \div PGSIZE}
<1>1. Pages(sz) \in Nat /\ Pages(sz) <= KERNBASE \div PGSIZE
  BY PagesAre
<1>2. KERNBASE \div PGSIZE \in Nat
  BY Geometry
<1> QED  BY <1>1, <1>2 DEF PGROUNDUP

\* sbrk with a negative number: AddressSpaces' Shrink, or nothing that the program sees
LEMMA SbrkSeen ==
  ASSUME NEW own, Sound(own, ram, proc, call), NEW p \in Slot, NEW by \in Growth, Sbrk(p, by), ~(by > 0)
  PROVE  Memory!Shrink(p) \/ Spaces' = Spaces
<1> DEFINE s == proc[p]
           d == proc[p].pgdir
           newsz == (s.sz + by) % UINT
           ns == Gone(ram, d, s.sz, newsz)
<1>1. /\ Runs(p) /\ ram' = DeallocUvm(ram, d, s.sz, newsz)
      /\ proc' = IF newsz \in 1 .. s.sz THEN [proc EXCEPT ![p].sz = newsz] ELSE proc
  BY DEF Sbrk, Calls
<1>2. /\ s \in Procs /\ s.sz \in Nat /\ s.sz <= KERNBASE /\ proc \in [Slot -> Procs] /\ Ram(ram)
  BY SlotIs, ProcIs
<1>3. /\ s.state = "RUNNABLE" /\ call[p].at = "user" /\ Has(ram, d, Pages(s.sz))
  BY <1>1, RunsHas
<1>4. /\ Space(ram, d) /\ \A f \in Own(ram, d) : own[f] = <<"of", p>>
      /\ Range(ram.free) \cap Own(ram, d) = {}
  BY <1>3, RunsIs
<1>5. newsz \in Nat
  <2>1. by \in Int
    BY ProgramsAssumption
  <2>2. s.sz + by \in Int /\ UINT > 0
    BY <1>2, <2>1, Geometry, Sizes
  <2> QED  BY <2>2, Geometry, Divided
<1> HIDE DEF newsz
<1>6. CASE ~(newsz < s.sz)
  <2>1. ram' = ram
    BY <1>1, <1>2, <1>5, <1>6 DEF DeallocUvm
  <2>2. proc' = proc
    <3>1. CASE newsz \in 1 .. s.sz
      <4>1. newsz = s.sz
        BY <1>2, <1>6, <3>1
      <4>2. proc' = [proc EXCEPT ![p] = [s EXCEPT !.sz = s.sz]]
        BY <1>1, <3>1, <4>1
      <4>3. [s EXCEPT !.sz = s.sz] = s
        BY <1>2 DEF Procs
      <4> QED  BY <1>2, <4>2, <4>3
    <3> QED  BY <1>1, <3>1
  <2> QED  BY <2>1, <2>2, SpacesAre
<1>7. CASE newsz < s.sz
  <2> DEFINE t == proc'[p]
             to == PGROUNDUP(newsz)
             old == SpaceOf(ram, s)
  <2>1. /\ \A n \in ns : Walk(ram', d, n) = NoPte
        /\ \A n \in Page \ ns : /\ Walk(ram', d, n) = Walk(ram, d, n)
                                /\ Walk(ram, d, n).frame # 0 =>
                                     ram'.frame[Walk(ram, d, n).frame] = ram.frame[Walk(ram, d, n).frame]
        /\ \A f \in Frame \ Own(ram, d) : ram'.frame[f] = ram.frame[f]
    <3>1. s.sz \in Int /\ newsz \in Int
      BY <1>2, <1>5
    <3>2. Given(ram, DeallocUvm(ram, d, s.sz, newsz), d, ns)
      BY <1>2, <1>4, <3>1, DeallocGives
    <3> QED  BY <1>1, <3>2 DEF Given
  <2>2. /\ \A q \in Slot \ {p} : proc'[q] = proc[q]
        /\ t.state = "RUNNABLE" /\ t.pgdir = d
        /\ t.sz = IF newsz \in 1 .. s.sz THEN newsz ELSE s.sz
    <3>1. CASE newsz \in 1 .. s.sz
      BY <1>1, <1>2, <1>3, <3>1 DEF Procs
    <3>2. CASE newsz \notin 1 .. s.sz
      BY <1>1, <1>2, <1>3, <3>2
    <3> QED  BY <3>1, <3>2
  <2> HIDE DEF t
  <2>3. /\ newsz <= KERNBASE /\ to \in Nat /\ Pages(newsz) \in Nat
        /\ to <= PGROUNDUP(t.sz) /\ PGROUNDUP(t.sz) <= PGROUNDUP(s.sz)
        /\ PGROUNDUP(t.sz) \in Nat /\ PGROUNDUP(s.sz) \in Nat
        /\ \A a \in Int : a \div PGSIZE < Pages(newsz) <=> a < to
    <3>1. newsz <= KERNBASE /\ t.sz \in Nat /\ newsz <= t.sz /\ t.sz <= s.sz
      BY <1>2, <1>5, <1>7, <2>2, Sizes
    <3>2. Pages(newsz) \in Nat /\ Pages(t.sz) \in Nat /\ Pages(s.sz) \in Nat
          /\ Pages(newsz) <= Pages(t.sz) /\ Pages(t.sz) <= Pages(s.sz)
      BY <1>2, <1>5, <3>1, PagesAre, PagesGrow
    <3>3. Pages(newsz) * PGSIZE <= Pages(t.sz) * PGSIZE /\ Pages(t.sz) * PGSIZE <= Pages(s.sz) * PGSIZE
      BY <3>2, Product, Sizes
    <3>4. PGROUNDUP(newsz) \in Nat /\ PGROUNDUP(t.sz) \in Nat /\ PGROUNDUP(s.sz) \in Nat
          /\ \A a \in Int : a \div PGSIZE < Pages(newsz) <=> a < to
      BY <1>2, <1>5, <3>1, PagesAre
    <3> QED  BY <3>1, <3>2, <3>3, <3>4 DEF PGROUNDUP
  <2>4. ASSUME NEW a \in 0 .. PGROUNDUP(s.sz) - 1
        PROVE  /\ a \in 0 .. PGROUNDUP(t.sz) - 1 /\ There(ram', d, a \div PGSIZE) <=>
                    a < to /\ There(ram, d, a \div PGSIZE)
               /\ a < to /\ There(ram, d, a \div PGSIZE) =>
                    ram'.frame[Walk(ram', d, a \div PGSIZE).frame][a % PGSIZE] =
                      ram.frame[Walk(ram, d, a \div PGSIZE).frame][a % PGSIZE]
    <3> DEFINE n == a \div PGSIZE
               i == a % PGSIZE
    <3>1. n \in Page /\ n < Pages(s.sz) /\ n \in Nat /\ a \in Nat /\ a \in Int
      BY <1>2, AddressIn, PageIs
    <3>2. n < Pages(newsz) <=> a < to
      BY <2>3, <3>1
    <3> HIDE DEF n, i
    <3>3. CASE a < to
      <4>1. n \notin ns
        BY <2>3, <3>1, <3>2, <3>3 DEF Gone
      <4>2. Walk(ram', d, n) = Walk(ram, d, n) /\
            (Walk(ram, d, n).frame # 0 => ram'.frame[Walk(ram, d, n).frame] = ram.frame[Walk(ram, d, n).frame])
        BY <2>1, <3>1, <4>1
      <4>3. a \in 0 .. PGROUNDUP(t.sz) - 1
        BY <2>3, <3>1, <3>3
      <4> QED  BY <3>3, <4>2, <4>3 DEF n, i, There
    <3>4. CASE ~(a < to)
      <4>1. n * PGSIZE < s.sz
        BY <1>2, <3>1, PagesAre
      <4>2. n >= Pages(newsz)
        BY <2>3, <3>1, <3>2, <3>4
      <4>3. Walk(ram', d, n).frame = 0
        <5>1. CASE n \in ns
          BY <2>1, <5>1, NoPteIs
        <5>2. CASE n \notin ns
          <6>1. Walk(ram, d, n).frame = 0
            BY <1>7, <3>1, <4>1, <4>2, <5>2 DEF Gone
          <6> QED  BY <2>1, <3>1, <5>2, <6>1
        <5> QED  BY <5>1, <5>2
      <4>4. ~There(ram', d, n)
        BY <4>3 DEF There
      <4> QED  BY <3>4, <4>4 DEF n
    <3> QED  BY <3>3, <3>4
  <2> DEFINE f == [a \in {b \in DOMAIN old : b < to} |-> old[a]]
  <2>5. SpaceOf(ram', t) = f
    <3>1. /\ \A a : a \in DOMAIN old <=> a \in 0 .. PGROUNDUP(s.sz) - 1 /\ There(ram, d, a \div PGSIZE)
          /\ \A a \in DOMAIN old : old[a] = ram.frame[Walk(ram, d, a \div PGSIZE).frame][a % PGSIZE]
      BY <1>3, SpaceIs
    <3> HIDE DEF old, to
    <3>2. /\ f = [a \in DOMAIN f |-> f[a]]
          /\ \A a : a \in DOMAIN f <=> a \in DOMAIN old /\ a < to
          /\ \A a \in DOMAIN f : f[a] = old[a]
      OBVIOUS
    <3> HIDE DEF f
    <3>3. \A a : a \in 0 .. PGROUNDUP(t.sz) - 1 => a \in 0 .. PGROUNDUP(s.sz) - 1
      BY <2>3
    <3>4. /\ \A a : a \in DOMAIN f <=> a \in 0 .. PGROUNDUP(t.sz) - 1 /\ There(ram', t.pgdir, a \div PGSIZE)
          /\ \A a \in DOMAIN f : f[a] = ram'.frame[Walk(ram', t.pgdir, a \div PGSIZE).frame][a % PGSIZE]
      BY <2>2, <2>4, <3>1, <3>2, <3>3
    <3> QED  BY <2>2, <3>2, <3>4, SpaceBecomes
  <2>6. Spaces' = [Spaces EXCEPT ![p] = SpaceOf(ram', proc'[p])]
    <3>1. Unseen(own, ram', Running \ {p})
      <4>1. \A g \in Frame : ram'.frame[g] # ram.frame[g] => own[g] = <<"of", p>>
        BY <1>4, <2>1
      <4> QED  BY <4>1, UnseenIs
    <3>2. \A q \in Slot \ {p} : SameRun(proc[q], proc'[q])
      BY <2>2, SameRunIs
    <3> QED  BY <3>1, <3>2, SpacesBut
  <2>7. Spaces[p] = old
    BY SpaceHere
  <2>8. to \in {n * PGSIZE : n \in 0 .. KERNBASE \div PGSIZE}
    BY <1>5, <2>3, EdgeIs
  <2> HIDE DEF old, to
  <2>9. Spaces' = [Spaces EXCEPT ![p] = [a \in {b \in DOMAIN @ : b < to} |-> @[a]]]
    BY <2>5, <2>6, <2>7 DEF t
  <2> QED  BY <2>8, <2>9 DEF Memory!Shrink
<1> QED  BY <1>6, <1>7

\* The end of sbrk: AddressSpaces' Grow, or no page more than there was
LEMMA SbrkEndSeen ==
  ASSUME NEW own, Sound(own, ram, proc, call), NEW p \in Slot, SbrkEnds(p)
  PROVE  Memory!Grow(p) \/ Spaces' = Spaces
<1> DEFINE s == proc[p]
           c == call[p]
           d == proc[p].pgdir
           t == proc'[p]
           from == PGROUNDUP(c.from)
           to == PGROUNDUP(c.to)
           old == SpaceOf(ram, s)
<1>1. c.at = "grown" /\ proc' = [proc EXCEPT ![p].sz = c.to] /\ ram' = ram
  BY DEF SbrkEnds, At
<1>2. /\ s \in Procs /\ c \in CallRecords /\ CallGood(ram, s, c) /\ proc \in [Slot -> Procs]
      /\ s.sz \in Nat /\ s.sz <= KERNBASE /\ c.to \in Nat /\ c.to <= KERNBASE
  BY SlotIs, ProcIs, RecordIs
<1>3. c.op = "sbrk"
  BY <1>1, <1>2, RecordIs DEF CallGood, InLoop, Phase, Phases, Loops, Ops
<1>4. /\ c.from = s.sz /\ c.from <= c.to /\ Has(ram, d, Pages(c.to)) /\ s.state = "RUNNABLE"
      /\ \A n \in Page : n >= Pages(c.from) /\ Walk(ram, d, n).frame # 0 =>
           Walk(ram, d, n).user /\ ram.frame[Walk(ram, d, n).frame] = ZeroPage
  BY <1>1, <1>2, <1>3 DEF CallGood, Enlarging, Slotted
<1>5. /\ \A q \in Slot \ {p} : proc'[q] = proc[q]
      /\ t.state = "RUNNABLE" /\ t.pgdir = d /\ t.sz = c.to
  BY <1>1, <1>2, <1>4 DEF Procs
<1> HIDE DEF t
<1>6. Spaces' = [Spaces EXCEPT ![p] = SpaceOf(ram, t)]
  <2>1. Unseen(own, ram', Running \ {p})
    BY <1>1, NothingUnseen
  <2>2. \A q \in Slot \ {p} : SameRun(proc[q], proc'[q])
    BY <1>5, SameRunIs
  <2> QED  BY <1>1, <2>1, <2>2, SpacesBut DEF t
<1>7. Spaces[p] = old /\ Spaces = [Spaces EXCEPT ![p] = old]
  <2>1. Spaces[p] = old
    BY SpaceHere
  <2>2. Spaces = [q \in Slot |-> SpaceOf(ram, proc[q])]
    BY SpacesAre
  <2> HIDE DEF old
  <2> QED  BY <2>1, <2>2
<1>8. /\ Pages(c.from) \in Nat /\ Pages(c.to) \in Nat /\ Pages(c.from) <= Pages(c.to)
      /\ from \in Nat /\ to \in Nat
      /\ \A a \in Int : a \div PGSIZE < Pages(c.from) <=> a < from
      /\ \A a \in Int : a \div PGSIZE < Pages(c.to) <=> a < to
  BY <1>2, <1>4, PagesAre, PagesGrow
<1>9. CASE Pages(c.from) = Pages(c.to)
  <2>1. \A n \in Page : n < Pages(s.sz) => Alike(ram, s.pgdir, ram, t.pgdir, n)
    BY <1>5, KeptAlike
  <2>2. SpaceOf(ram, t) = SpaceOf(ram, s)
    BY <1>2, <1>4, <1>5, <1>9, <2>1, SpaceSame
  <2> QED  BY <1>6, <1>7, <2>2
<1>10. CASE Pages(c.from) < Pages(c.to)
  <2>1. from < to /\ from <= to
    <3>1. Pages(c.from) * PGSIZE < Pages(c.to) * PGSIZE
      BY <1>8, <1>10, Product, Sizes
    <3> QED  BY <1>8, <3>1 DEF PGROUNDUP
  <2> HIDE DEF from, to
  <2> DEFINE new == from .. to - 1
             f == [a \in DOMAIN old \cup new |-> IF a \in new THEN "zero" ELSE old[a]]
  <2>2. /\ \A a : a \in DOMAIN old <=> a \in 0 .. from - 1 /\ There(ram, d, a \div PGSIZE)
        /\ \A a \in DOMAIN old : old[a] = ram.frame[Walk(ram, d, a \div PGSIZE).frame][a % PGSIZE]
    BY <1>4, SpaceIs DEF from
  <2>3. new # {} /\ \A a \in DOMAIN old : a < from
    <3>1. from \in new
      BY <1>8, <2>1
    <3>2. \A a \in DOMAIN old : a \in 0 .. from - 1
      BY <2>2
    <3> QED  BY <1>8, <3>1, <3>2
  <2>4. ASSUME NEW a \in new
        PROVE  /\ a \in 0 .. to - 1 /\ There(ram, d, a \div PGSIZE)
               /\ ram.frame[Walk(ram, d, a \div PGSIZE).frame][a % PGSIZE] = "zero"
    <3> DEFINE n == a \div PGSIZE
               i == a % PGSIZE
    <3>1. a \in Nat /\ a \in Int /\ a \in 0 .. to - 1 /\ ~(a < from) /\ a < to
      BY <1>8
    <3>2. n \in Page
      BY <1>2, <3>1, AddressIn DEF to
    <3>3. n < Pages(c.to) /\ n >= Pages(c.from)
      <4>1. n \in Nat
        BY <3>2, PageIs
      <4>2. ~(n < Pages(c.from)) /\ n < Pages(c.to)
        BY <1>8, <3>1
      <4> HIDE DEF n
      <4> QED  BY <1>8, <4>1, <4>2
    <3>4. i \in 0 .. PGSIZE - 1
      BY <3>1, Sizes, Divided
    <3> HIDE DEF n, i
    <3>5. Walk(ram, d, n).frame # 0
      BY <1>4, <3>2, <3>3 DEF Has
    <3>6. There(ram, d, n) /\ ram.frame[Walk(ram, d, n).frame] = ZeroPage
      BY <1>4, <3>2, <3>3, <3>5 DEF There
    <3>7. ram.frame[Walk(ram, d, n).frame][i] = "zero"
      BY <3>4, <3>6 DEF ZeroPage
    <3> QED  BY <3>1, <3>6, <3>7 DEF n, i
  <2>5. \A a : a \in 0 .. to - 1 <=> a \in 0 .. from - 1 \/ a \in new
    BY <1>8, <2>1
  <2>6. \A a \in DOMAIN old : a \notin new
    BY <1>8, <2>2
  <2> HIDE DEF old, new
  <2>7. /\ f = [a \in DOMAIN f |-> f[a]] /\ DOMAIN f = DOMAIN old \cup new
        /\ \A a \in DOMAIN f : f[a] = IF a \in new THEN "zero" ELSE old[a]
    OBVIOUS
  <2> HIDE DEF f
  <2>8. SpaceOf(ram, t) = f
    <3>1. \A a : a \in DOMAIN f <=> a \in 0 .. to - 1 /\ There(ram, d, a \div PGSIZE)
      BY <2>2, <2>4, <2>5, <2>7
    <3>2. \A a \in DOMAIN f : f[a] = ram.frame[Walk(ram, d, a \div PGSIZE).frame][a % PGSIZE]
      BY <2>2, <2>4, <2>7
    <3>3. \A a : a \in DOMAIN f <=> a \in 0 .. PGROUNDUP(t.sz) - 1 /\ There(ram, t.pgdir, a \div PGSIZE)
      BY <1>5, <3>1 DEF to
    <3>4. \A a \in DOMAIN f : f[a] = ram.frame[Walk(ram, t.pgdir, a \div PGSIZE).frame][a % PGSIZE]
      BY <1>5, <3>2
    <3> QED  BY <1>5, <2>7, <3>3, <3>4, SpaceBecomes
  <2>9. /\ from \in {n * PGSIZE : n \in 0 .. KERNBASE \div PGSIZE}
        /\ to \in {n * PGSIZE : n \in 0 .. KERNBASE \div PGSIZE}
    BY <1>2, <1>4, EdgeIs DEF from, to
  <2>10. Spaces' = [Spaces EXCEPT ![p] = f]
    BY <1>6, <2>8
  <2>11. /\ new # {} /\ \A a \in DOMAIN Spaces[p] : a < from
         /\ Spaces' = [Spaces EXCEPT ![p] =
              [a \in DOMAIN Spaces[p] \cup new |-> IF a \in new THEN "zero" ELSE Spaces[p][a]]]
    BY <1>7, <2>3, <2>10 DEF f
  <2> QED  BY <2>9, <2>11 DEF Memory!Grow, new
<1> QED  BY <1>8, <1>9, <1>10

\* The end of fork: AddressSpaces' Fork.  The child sees what its parent sees.
LEMMA ForkEndSeen ==
  ASSUME NEW own, Sound(own, ram, proc, call), NEW p \in Slot, ForkEnds(p)
  PROVE  \E child \in Slot \ {p} : Memory!Fork(p, child)
<1> DEFINE x == call[p].child
           d == call[p].dir
           s == proc[p]
           t == proc'[x]
<1>1. /\ call[p].at = "copied" /\ ram' = ram
      /\ proc' = [proc EXCEPT ![x] = [@ EXCEPT !.pgdir = d, !.sz = s.sz, !.parent = p, !.state = "RUNNABLE"]]
  BY DEF ForkEnds, At
<1>2. /\ proc \in [Slot -> Procs] /\ s.sz \in Nat /\ s.sz <= KERNBASE /\ s.sz \in 0 .. KERNBASE
      /\ call[p] \in CallRecords /\ CallGood(ram, s, call[p])
  <2>1. proc \in [Slot -> Procs] /\ s \in Procs
    BY SlotIs
  <2>2. s.sz \in 0 .. KERNBASE
    BY <2>1 DEF Procs
  <2> QED  BY <2>1, <2>2, SlotIs, ProcIs
<1>3. call[p].op = "fork"
  BY <1>1, <1>2, RecordIs DEF CallGood, InLoop, Phase, Phases, Loops, Ops
<1>4. /\ x \in Slot /\ x # p /\ proc[x].state = "EMBRYO" /\ s.state = "RUNNABLE"
      /\ Has(ram, s.pgdir, Pages(s.sz))
  BY <1>1, <1>3, ChildIs
<1>5. /\ Has(ram, d, Pages(s.sz)) /\ d \in Frame
      /\ \A n \in Page : Walk(ram, d, n).frame # 0 => SamePage(ram, d, s.pgdir, n)
  <2>1. d # 0 /\ Phase(call[p]) = "copied"
    BY <1>1, <1>2, <1>3 DEF CallGood, Making, Phase, Loops
  <2> QED  BY <1>1, <1>2, <1>3, <2>1, RecordIs DEF CallGood, Copying
<1>6. proc[x] \in Procs
  BY <1>2, <1>4
<1> HIDE DEF x, d
<1>7. /\ \A q \in Slot \ {x} : proc'[q] = proc[q]
      /\ t.state = "RUNNABLE" /\ t.pgdir = d /\ t.sz = s.sz
  BY <1>1, <1>2, <1>4, <1>5, <1>6 DEF Procs
<1> HIDE DEF t
<1>8. Spaces' = [Spaces EXCEPT ![x] = SpaceOf(ram, t)]
  <2>1. Unseen(own, ram', Running \ {x})
    BY <1>1, NothingUnseen
  <2>2. \A q \in Slot \ {x} : SameRun(proc[q], proc'[q])
    BY <1>7, SameRunIs
  <2> QED  BY <1>1, <1>4, <2>1, <2>2, SpacesBut DEF t
<1>9. SpaceOf(ram, t) = SpaceOf(ram, s)
  <2>1. ASSUME NEW n \in Page, n < Pages(s.sz) PROVE Alike(ram, s.pgdir, ram, t.pgdir, n)
    <3>1. Walk(ram, d, n).frame # 0
      BY <1>5, <2>1 DEF Has
    <3>2. SamePage(ram, d, s.pgdir, n)
      BY <1>5, <3>1
    <3> QED  BY <1>7, <3>1, <3>2 DEF SamePage, Alike, There
  <2> QED  BY <1>2, <1>4, <1>7, <2>1, SpaceSame
<1>10. Spaces[x] = [a \in {} |-> "zero"] /\ Spaces[p] = SpaceOf(ram, s)
  BY <1>4, SpaceHere
<1>11. Spaces' = [Spaces EXCEPT ![x] = Spaces[p]]
  BY <1>8, <1>9, <1>10
<1>12. Memory!Fork(p, x)
  BY <1>10, <1>11 DEF Memory!Fork, Memory!Nothing
<1> QED  BY <1>4, <1>12

\* exit: AddressSpaces' Exit
LEMMA ExitSeen ==
  ASSUME NEW own, Sound(own, ram, proc, call), NEW p \in Slot, Exit(p)
  PROVE  Memory!Exit(p)
<1>1. /\ ram' = ram
      /\ proc' = [s \in Slot |-> IF s = p THEN [proc[p] EXCEPT !.state = "ZOMBIE"]
                                 ELSE IF proc[s].parent = p THEN [proc[s] EXCEPT !.parent = 1]
                                 ELSE proc[s]]
  BY DEF Exit
<1>2. proc \in [Slot -> Procs]
  BY SlotIs
<1>3. \A q \in Slot \ {p} : SameRun(proc[q], proc'[q])
  <2> SUFFICES ASSUME NEW q \in Slot \ {p} PROVE SameRun(proc[q], proc'[q])
    OBVIOUS
  <2>1. proc[q] \in Procs /\ proc'[q] = IF proc[q].parent = p THEN [proc[q] EXCEPT !.parent = 1] ELSE proc[q]
    BY <1>1, <1>2
  <2>2. SameSlot(proc[q], proc'[q])
    BY <2>1 DEF SameSlot, Procs
  <2> QED  BY <2>2 DEF SameRun, SameSlot
<1>4. Unseen(own, ram', Running \ {p})
  BY <1>1, NothingUnseen
<1>5. Spaces' = [Spaces EXCEPT ![p] = SpaceOf(ram', proc'[p])]
  BY <1>3, <1>4, SpacesBut
<1>6. proc'[p].state = "ZOMBIE"
  <2>1. proc[p] \in Procs /\ proc'[p] = [proc[p] EXCEPT !.state = "ZOMBIE"]
    BY <1>1, <1>2
  <2> QED  BY <2>1 DEF Procs
<1>7. SpaceOf(ram', proc'[p]) = [a \in {} |-> "zero"]
  BY <1>6 DEF SpaceOf
<1> QED  BY <1>5, <1>7 DEF Memory!Exit, Memory!Nothing

\* What programs start with, where `top` is the highest end of a segment
StartOf(image, args, top) ==
  LET end == PGROUNDUP(top) + 2 * PGSIZE
  IN [a \in 0 .. PGROUNDUP(top) - 1 \cup PGROUNDUP(top) + PGSIZE .. end - 1 |->
        IF a \in TextOf(image, Len(image)) THEN "text"
        ELSE IF a >= end - args.words THEN "argument" ELSE "zero"]

\* The memory of a fresh program, in the order that loaduvm fills it
LEMMA StartIs ==
  ASSUME NEW image \in Segments, NEW args, NEW top \in Nat, Highest(image, Len(image), top)
  PROVE  Start(image, args) = StartOf(image, args, top)
<1> DEFINE ends == {s.vaddr + s.memsz : s \in Range(image)} \cup {0}
           text == UNION {s.vaddr .. s.vaddr + s.filesz - 1 : s \in Range(image)}
           max == CHOOSE t \in ends : \A u \in ends : u <= t
           k == Len(image)
<1>1. /\ k \in Nat /\ Range(image) = {image[j] : j \in 1 .. k}
      /\ \A j \in 1 .. k : /\ EndOf(image[j]) \in Nat
                           /\ image[j].vaddr \in 0 .. UINT - 1 /\ image[j].filesz \in 0 .. UINT - 1
  <2>1. k \in Nat /\ DOMAIN image = 1 .. k
    BY SegmentsAre DEF Segments
  <2>2. \A j \in 1 .. k : EndOf(image[j]) \in Nat
    <3>1. k \in 0 .. k
      BY <2>1
    <3> QED  BY <3>1, EndsAre
  <2> QED  BY <2>1, <2>2, SegmentsAre DEF Range
<1>2. ends = {EndOf(image[j]) : j \in 1 .. k} \cup {0}
  BY <1>1 DEF EndOf
<1> HIDE DEF ends
<1>3. top \in ends /\ \A u \in ends : u <= top /\ u \in Nat
  <2>1. (top = 0 \/ \E j \in 1 .. k : EndOf(image[j]) = top) /\ \A j \in 1 .. k : EndOf(image[j]) <= top
    BY DEF Highest
  <2>2. top \in ends
    BY <1>2, <2>1
  <2>3. ASSUME NEW u \in ends PROVE u <= top /\ u \in Nat
    <3>1. u = 0 \/ \E j \in 1 .. k : u = EndOf(image[j])
      BY <1>2
    <3> HIDE DEF k
    <3> QED  BY <1>1, <2>1, <3>1
  <2> QED  BY <2>2, <2>3
<1>4. max = top
  <2>1. max \in ends /\ \A u \in ends : u <= max
    BY <1>3
  <2> HIDE DEF max
  <2> QED  BY <1>3, <2>1
<1>5. \A a \in Nat : a \in text <=> a \in TextOf(image, k)
  <2> SUFFICES ASSUME NEW a \in Nat PROVE a \in text <=> a \in TextOf(image, k)
    OBVIOUS
  <2>1. a \in text <=> \E j \in 1 .. k : a \in image[j].vaddr .. image[j].vaddr + image[j].filesz - 1
    BY <1>1
  <2>2. ASSUME NEW j \in 1 .. k
        PROVE  a \in image[j].vaddr .. image[j].vaddr + image[j].filesz - 1 <=>
                 a >= image[j].vaddr /\ a < image[j].vaddr + image[j].filesz
    <3> DEFINE v == image[j].vaddr
               f == image[j].filesz
    <3>1. v \in Nat /\ f \in Nat
      <4>1. v \in 0 .. UINT - 1 /\ f \in 0 .. UINT - 1
        BY <1>1
      <4> HIDE DEF v, f
      <4> QED  BY <4>1, Geometry
    <3> HIDE DEF v, f
    <3>2. a \in v .. v + f - 1 <=> a >= v /\ a < v + f
      BY <3>1
    <3> QED  BY <3>2 DEF v, f
  <2> HIDE DEF text
  <2> QED  BY <2>1, <2>2 DEF TextOf
<1> DEFINE T == PGROUNDUP(top)
           end == T + 2 * PGSIZE
           D == 0 .. T - 1 \cup T + PGSIZE .. end - 1
<1>6. Start(image, args) =
        [a \in D |-> IF a \in text THEN "text" ELSE IF a >= end - args.words THEN "argument" ELSE "zero"]
  <2>1. Start(image, args) =
          [a \in 0 .. PGROUNDUP(max) - 1 \cup PGROUNDUP(max) + PGSIZE .. (PGROUNDUP(max) + 2 * PGSIZE) - 1 |->
             IF a \in text THEN "text"
             ELSE IF a >= (PGROUNDUP(max) + 2 * PGSIZE) - args.words THEN "argument" ELSE "zero"]
    BY DEF Start, ends
  <2> HIDE DEF max, text
  <2> QED  BY <1>4, <2>1
<1>7. \A a \in D : a \in Nat
  <2>1. T \in Nat /\ PGSIZE \in Nat
    BY PagesAre, Sizes
  <2> HIDE DEF T
  <2> QED  BY <2>1
<1>8. StartOf(image, args, top) =
        [a \in D |-> IF a \in TextOf(image, k) THEN "text" ELSE IF a >= end - args.words THEN "argument" ELSE "zero"]
  BY DEF StartOf
<1> HIDE DEF text, D, end, k
<1>9. \A a \in D : a \in text <=> a \in TextOf(image, k)
  BY <1>5, <1>7
<1> QED  BY <1>6, <1>8, <1>9

\* Where the guard page is, and the pages of a space that exec has made
LEMMA StackIs ==
  ASSUME NEW top \in Nat, NEW sz \in Nat, sz = PGROUNDUP(top) + 2 * PGSIZE, NEW g \in Int,
         g * PGSIZE = sz - 2 * PGSIZE
  PROVE  /\ PGROUNDUP(sz) = sz /\ PGROUNDUP(top) \in Nat /\ top <= PGROUNDUP(top) /\ PGSIZE > 0
         /\ \A a \in Nat : a \div PGSIZE = g <=> PGROUNDUP(top) <= a /\ a < PGROUNDUP(top) + PGSIZE
<1> DEFINE T == PGROUNDUP(top)
<1>1. PGSIZE \in Nat /\ PGSIZE > 0
  BY Sizes
<1>2. T \in Nat /\ top <= T /\ Pages(top) \in Nat /\ T = Pages(top) * PGSIZE
  BY PagesAre DEF PGROUNDUP
<1>3. PGROUNDUP(sz) = sz
  <2>1. sz = (Pages(top) + 2) * PGSIZE
    BY <1>1, <1>2
  <2>2. Pages(top) + 2 \in Nat
    BY <1>2
  <2> QED  BY <2>1, <2>2, PagesOfPages
<1>4. g * PGSIZE = T
  BY <1>1, <1>2
<1>5. ASSUME NEW a \in Nat
      PROVE  a \div PGSIZE = g <=> T <= a /\ a < T + PGSIZE
  <2>1. a \div PGSIZE \in Int
    BY <1>1, Divided
  <2>2. a \div PGSIZE < g <=> a < g * PGSIZE
    BY <1>1, QuotientLess
  <2>3. a \div PGSIZE < g + 1 <=> a < (g + 1) * PGSIZE
    <3>1. g + 1 \in Int
      OBVIOUS
    <3> QED  BY <1>1, <3>1, QuotientLess
  <2>4. (g + 1) * PGSIZE = T + PGSIZE
    BY <1>1, <1>4
  <2> DEFINE q == a \div PGSIZE
  <2>5. q \in Int /\ (q < g <=> a < T) /\ (q < g + 1 <=> a < T + PGSIZE)
    BY <1>4, <2>1, <2>2, <2>3, <2>4
  <2> HIDE DEF q
  <2>6. q = g <=> T <= a /\ a < T + PGSIZE
    BY <1>1, <1>2, <2>5
  <2> QED  BY <2>6 DEF q
<1> QED  BY <1>1, <1>2, <1>3, <1>5

\* The space that exec has made, as the program sees it
LEMMA ExecSpace ==
  ASSUME NEW own, Sound(own, ram, proc, call), NEW p \in Slot, ExecEnds(p), ~GiveUp(p),
         NEW t, t.state = "RUNNABLE", t.pgdir = call[p].dir, t.sz = call[p].sz
  PROVE  SpaceOf(ram', t) = Start(call[p].image, call[p].args)
<1> DEFINE c == call[p]
           d == call[p].dir
           g == GuardOf(c)
<1>1. /\ c.at = "args" /\ Exchanged(ram', c, proc[p].pgdir)
      /\ \A va \in PushedOf(c) : va \in 0 .. KERNBASE - 1 /\ va \div PGSIZE # GuardOf(c)
  BY ExecExchanges
<1>2. /\ Has(ram, d, Pages(c.sz)) /\ c.image \in Segments /\ c.sz \in Nat /\ c.sz <= KERNBASE
      /\ c.args \in Arguments /\ TextLoaded(ram, d, TextOf(c.image, c.seg - 1))
  BY <1>1, ExecIs
<1>3. PICK top \in 0 .. KERNBASE : /\ Highest(c.image, Len(c.image), top) /\ c.seg - 1 = Len(c.image)
                                   /\ c.sz = PGROUNDUP(top) + 2 * PGSIZE
  BY <1>1, GuardIs
<1>4. g \in Page /\ g \in Int /\ g * PGSIZE = c.sz - 2 * PGSIZE
  BY <1>1, GuardIs, PageIs
<1>5. top \in Nat /\ c.args.words \in Nat
  <2>1. c.args \in [argc : Nat, words : Nat]
    BY <1>2, ProgramsAssumption
  <2> QED  BY <1>3, <2>1, Sizes
<1> DEFINE T == PGROUNDUP(top)
           text == TextOf(c.image, Len(c.image))
           w == c.args.words
<1>6. /\ PGROUNDUP(c.sz) = c.sz /\ T \in Nat /\ top <= T /\ PGSIZE > 0 /\ PGSIZE \in Nat
      /\ \A a \in Nat : a \div PGSIZE = g <=> T <= a /\ a < T + PGSIZE
      /\ c.sz = T + 2 * PGSIZE
  <2> HIDE DEF c, g
  <2>1. c.sz = PGROUNDUP(top) + 2 * PGSIZE
    BY <1>3
  <2>2. /\ PGROUNDUP(c.sz) = c.sz /\ PGROUNDUP(top) \in Nat /\ top <= PGROUNDUP(top) /\ PGSIZE > 0
        /\ \A a \in Nat : a \div PGSIZE = g <=> PGROUNDUP(top) <= a /\ a < PGROUNDUP(top) + PGSIZE
    BY <1>2, <1>4, <1>5, <2>1, StackIs
  <2> QED  BY <2>1, <2>2, Sizes
<1>7. Start(c.image, c.args) = StartOf(c.image, c.args, top)
  BY <1>2, <1>3, <1>5, StartIs
<1>8. \A a \in text : a < T
  <2> SUFFICES ASSUME NEW a \in text PROVE a < T
    OBVIOUS
  <2>1. PICK j \in 1 .. Len(c.image) : a >= c.image[j].vaddr /\ a < c.image[j].vaddr + c.image[j].filesz
    BY DEF TextOf
  <2>2. EndOf(c.image[j]) <= top
    BY <1>3 DEF Highest
  <2>3. c.image[j].filesz <= c.image[j].memsz
    <3>1. Sized(c, c.seg - 1)
      BY <1>1, ExecIs
    <3> QED  BY <1>3, <3>1 DEF Sized
  <2>4. a \in Nat
    BY DEF TextOf
  <2> DEFINE v == c.image[j].vaddr
             f == c.image[j].filesz
             m == c.image[j].memsz
  <2>5. v \in Nat /\ f \in Nat /\ m \in Nat
    <3>1. v \in 0 .. UINT - 1 /\ f \in 0 .. UINT - 1 /\ m \in 0 .. UINT - 1
      BY <1>2, SegmentsAre
    <3> HIDE DEF v, f, m
    <3> QED  BY <3>1, Geometry
  <2>6. v + m <= top /\ a < v + f /\ f <= m
    BY <2>1, <2>2, <2>3 DEF EndOf
  <2> HIDE DEF v, f, m, T, text
  <2> QED  BY <1>5, <1>6, <2>4, <2>5, <2>6
<1>9. \A a \in Nat : a < c.sz => (a \in PushedOf(c) <=> a >= c.sz - w)
  <2>1. PushedOf(c) = c.sz - w .. c.sz - 1
    BY DEF PushedOf
  <2> DEFINE z == c.sz
  <2>2. z \in Nat /\ w \in Nat /\ PushedOf(c) = z - w .. z - 1
    BY <1>2, <1>5, <2>1
  <2> HIDE DEF w, z
  <2>3. \A a \in Nat : a < z => (a \in PushedOf(c) <=> a >= z - w)
    BY <2>2
  <2> QED  BY <2>3 DEF w, z
<1>10. \A a \in Nat : a \in PushedOf(c) => a >= T + PGSIZE
  <2> SUFFICES ASSUME NEW a \in Nat, a \in PushedOf(c), ~(a >= T + PGSIZE) PROVE FALSE
    OBVIOUS
  <2>1. a \div PGSIZE # g
    BY <1>1
  <2>2. ~(T <= a /\ a < T + PGSIZE)
    BY <1>6, <2>1
  <2>3. a < T /\ T < c.sz /\ a < c.sz
    <3> HIDE DEF T
    <3> QED  BY <1>6, <2>2
  <2>4. a >= c.sz - w
    BY <1>9, <2>3
  <2>5. T \in PushedOf(c)
    <3>1. T >= c.sz - w
      <4> HIDE DEF T, w
      <4> QED  BY <1>2, <1>5, <1>6, <2>3, <2>4 DEF w
    <3> HIDE DEF T
    <3> QED  BY <1>6, <1>9, <2>3, <3>1
  <2>6. T \div PGSIZE # g
    BY <1>1, <2>5
  <2>7. T <= T /\ T < T + PGSIZE
    <3> HIDE DEF T
    <3> QED  BY <1>6
  <2> QED  BY <1>6, <2>6, <2>7
<1> DEFINE f == StartOf(c.image, c.args, top)
           end == T + 2 * PGSIZE
           D == 0 .. T - 1 \cup T + PGSIZE .. end - 1
<1>11. f = [a \in D |-> IF a \in text THEN "text" ELSE IF a >= end - w THEN "argument" ELSE "zero"]
  <2> HIDE DEF c
  <2> QED  BY DEF StartOf
<1> HIDE DEF f, D
<1>12. f = [a \in DOMAIN f |-> f[a]] /\ DOMAIN f = D
       /\ \A a \in D : f[a] = IF a \in text THEN "text" ELSE IF a >= c.sz - w THEN "argument" ELSE "zero"
  <2>1. end = c.sz
    BY <1>6
  <2> HIDE DEF T, text, w, end, c
  <2> QED  BY <1>11, <2>1
<1>13. /\ Walk(ram', d, g).frame = Walk(ram, d, g).frame /\ ~Walk(ram', d, g).user
       /\ \A n \in Page \ {g} : Walk(ram', d, n) = Walk(ram, d, n)
       /\ \A n \in Page : Walk(ram, d, n).frame # 0 => \A i \in 0 .. PGSIZE - 1 :
            ram'.frame[Walk(ram, d, n).frame][i] =
              IF n * PGSIZE + i \in PushedOf(c) THEN "argument" ELSE ram.frame[Walk(ram, d, n).frame][i]
  BY <1>1 DEF Exchanged
<1>14. TextLoaded(ram, d, text)
  BY <1>2, <1>3
<1>15. \A a : a \in D <=> a \in 0 .. c.sz - 1 /\ ~(T <= a /\ a < T + PGSIZE)
  <2> HIDE DEF T
  <2> QED  BY <1>6 DEF D
<1>16. ASSUME NEW a \in 0 .. c.sz - 1
       PROVE  /\ There(ram', d, a \div PGSIZE) <=> a \in D
              /\ a \in D => ram'.frame[Walk(ram', d, a \div PGSIZE).frame][a % PGSIZE] = f[a]
  <2> DEFINE n == a \div PGSIZE
             i == a % PGSIZE
  <2>1. n \in Page /\ n < Pages(c.sz) /\ a \in Nat /\ a < KERNBASE /\ a < c.sz
    <3>1. a \in 0 .. PGROUNDUP(c.sz) - 1
      BY <1>6
    <3>2. a < c.sz
      BY <1>2
    <3> QED  BY <1>2, <3>1, <3>2, AddressIn
  <2>2. i \in 0 .. PGSIZE - 1 /\ a = n * PGSIZE + i
    <3>1. a \in 0 .. KERNBASE - 1
      BY <2>1, Sizes
    <3> QED  BY <3>1, AddressIs
  <2>3. n = g <=> a \notin D
    BY <1>6, <1>15, <2>1
  <2> HIDE DEF n, i
  <2>4. Walk(ram, d, n).frame # 0
    BY <1>2, <2>1 DEF Has
  <2>5. Walk(ram, d, n).user /\ ram.frame[Walk(ram, d, n).frame][i] = IF a \in text THEN "text" ELSE "zero"
    BY <1>14, <2>1, <2>2, <2>4 DEF TextLoaded
  <2>6. CASE n = g
    <3>1. ~There(ram', d, n)
      BY <1>13, <2>6 DEF There
    <3> QED  BY <2>3, <2>6, <3>1 DEF n
  <2>7. CASE n # g
    <3>1. Walk(ram', d, n) = Walk(ram, d, n) /\ There(ram', d, n)
      BY <1>13, <2>1, <2>4, <2>5, <2>7 DEF There
    <3>2. ram'.frame[Walk(ram, d, n).frame][i] = IF a \in PushedOf(c) THEN "argument" ELSE IF a \in text THEN "text" ELSE "zero"
      BY <1>13, <2>1, <2>2, <2>4, <2>5
    <3>3. f[a] = IF a \in text THEN "text" ELSE IF a \in PushedOf(c) THEN "argument" ELSE "zero"
      BY <1>9, <1>12, <2>1, <2>3, <2>7
    <3>4. ~(a \in text /\ a \in PushedOf(c))
      <4> SUFFICES ASSUME a < T, a >= T + PGSIZE PROVE FALSE
        BY <1>8, <1>10, <2>1
      <4> HIDE DEF T
      <4> QED  BY <1>6, <2>1
    <3>5. ram'.frame[Walk(ram, d, n).frame][i] = f[a]
      BY <3>2, <3>3, <3>4
    <3> QED  BY <2>3, <2>7, <3>1, <3>5 DEF n, i
  <2> QED  BY <2>6, <2>7
<1>17. SpaceOf(ram', t) = f
  <2>1. \A a : a \in DOMAIN f <=> a \in 0 .. PGROUNDUP(t.sz) - 1 /\ There(ram', t.pgdir, a \div PGSIZE)
    <3>1. \A a : a \in DOMAIN f <=> a \in 0 .. c.sz - 1 /\ There(ram', d, a \div PGSIZE)
      BY <1>12, <1>15, <1>16
    <3> QED  BY <1>6, <3>1
  <2>2. \A a \in DOMAIN f : f[a] = ram'.frame[Walk(ram', t.pgdir, a \div PGSIZE).frame][a % PGSIZE]
    BY <1>12, <1>15, <1>16
  <2> QED  BY <1>12, <2>1, <2>2, SpaceBecomes
<1> QED  BY <1>7, <1>17 DEF f

\* The end of exec: AddressSpaces' Exec
LEMMA ExecSeen ==
  ASSUME NEW own, Sound(own, ram, proc, call), NEW p \in Slot, ExecEnds(p), ~GiveUp(p)
  PROVE  Memory!Exec(p)
<1> DEFINE c == call[p]
           t == proc'[p]
<1>1. /\ c.at = "args" /\ Exchanged(ram', c, proc[p].pgdir)
      /\ proc' = [proc EXCEPT ![p].pgdir = c.dir, ![p].sz = c.sz]
  BY ExecExchanges
<1>2. /\ proc[p].state = "RUNNABLE" /\ Makes(c) /\ c.image \in Images /\ c.args \in Arguments
  BY <1>1, ExecIs
<1>3. proc \in [Slot -> Procs] /\ proc[p] \in Procs
  BY SlotIs
<1>4. /\ t.state = "RUNNABLE" /\ t.pgdir = c.dir /\ t.sz = c.sz
      /\ \A q \in Slot \ {p} : proc'[q] = proc[q]
  <2>1. proc' = [proc EXCEPT ![p] = [proc[p] EXCEPT !.pgdir = c.dir, !.sz = c.sz]]
    BY <1>1
  <2> HIDE DEF c
  <2> QED  BY <1>2, <1>3, <2>1 DEF Procs
<1>5. SpaceOf(ram', t) = Start(c.image, c.args)
  <2> HIDE DEF t
  <2> QED  BY <1>4, ExecSpace
<1>6. Unseen(own, ram', Running \ {p})
  <2>1. \A f \in Frame : f \notin Own(ram, proc[p].pgdir) /\ f \notin Own(ram, c.dir) => ram'.frame[f] = ram.frame[f]
    BY <1>1 DEF Exchanged
  <2>2. \A f \in Own(ram, proc[p].pgdir) : own[f] = <<"of", p>>
    BY <1>2, FreeIs DEF Active
  <2>3. \A f \in Own(ram, c.dir) : own[f] = <<"new", p>>
    BY <1>2, FreeIs
  <2> QED  BY <2>1, <2>2, <2>3, UnseenIs
<1>7. \A q \in Slot \ {p} : SameRun(proc[q], proc'[q])
  BY <1>4, SameRunIs
<1>8. Spaces' = [Spaces EXCEPT ![p] = Start(c.image, c.args)]
  BY <1>5, <1>6, <1>7, SpacesBut
<1>9. Start(c.image, c.args) \in Starts
  BY <1>2 DEF Starts
<1> QED  BY <1>8, <1>9 DEF Memory!Exec

\* The first process: AddressSpaces' Init
LEMMA InitSeen ==
  ASSUME Init
  PROVE  Memory!Init
<1>0. PICK stack, d, h : FirstProcess(stack, d, h)
  BY InitIs
<1>1. /\ proc = [s \in Slot |-> IF s = 1 THEN [state |-> "RUNNABLE", parent |-> 0, kstack |-> stack,
                                               pgdir |-> d, sz |-> PGSIZE]
                                ELSE Unused]
      /\ h \in Frame /\ Walk(ram, d, 0) = [frame |-> h, user |-> TRUE] /\ 0 \in Page
      /\ ram.frame[h] = [i \in 0 .. PGSIZE - 1 |-> "text"]
  BY <1>0 DEF FirstProcess
<1>2. 1 \in Slot
  BY InitIs
<1> DEFINE s == [state |-> "RUNNABLE", parent |-> 0, kstack |-> stack, pgdir |-> d, sz |-> PGSIZE]
           text == [a \in 0 .. PGSIZE - 1 |-> "text"]
<1>3. PGSIZE \in Nat /\ PGSIZE > 0 /\ PGROUNDUP(PGSIZE) = PGSIZE
  <2>1. PGSIZE \in Nat /\ PGSIZE > 0 /\ 1 * PGSIZE = PGSIZE
    BY Sizes
  <2>2. PGROUNDUP(1 * PGSIZE) = 1 * PGSIZE
    BY PagesOfPages
  <2> QED  BY <2>1, <2>2
<1>4. SpaceOf(ram, s) = text
  <2>1. ASSUME NEW a \in 0 .. PGSIZE - 1
        PROVE  There(ram, d, a \div PGSIZE) /\ ram.frame[Walk(ram, d, a \div PGSIZE).frame][a % PGSIZE] = "text"
    <3>1. a \div PGSIZE = 0 /\ a % PGSIZE = a
      <4>1. (PGSIZE * 0 + a) \div PGSIZE = 0 /\ (PGSIZE * 0 + a) % PGSIZE = a
        BY <1>3, Quotient
      <4>2. PGSIZE * 0 + a = a
        BY <1>3
      <4> QED  BY <4>1, <4>2
    <3>2. h # 0
      BY <1>1, FrameIs
    <3>3. There(ram, d, 0) /\ ram.frame[Walk(ram, d, 0).frame][a] = "text"
      <4>1. Walk(ram, d, 0).frame = h /\ Walk(ram, d, 0).user
        BY <1>1
      <4>2. ram.frame[h][a] = "text"
        BY <1>1
      <4> QED  BY <3>2, <4>1, <4>2 DEF There
    <3> HIDE DEF s, text
    <3> QED  BY <3>1, <3>3
  <2>2. s.state = "RUNNABLE" /\ s.pgdir = d /\ s.sz = PGSIZE
    OBVIOUS
  <2>3. text = [a \in DOMAIN text |-> text[a]] /\ DOMAIN text = 0 .. PGSIZE - 1 /\ \A a \in DOMAIN text : text[a] = "text"
    OBVIOUS
  <2> HIDE DEF s, text
  <2>4. /\ \A a : a \in DOMAIN text <=> a \in 0 .. PGROUNDUP(s.sz) - 1 /\ There(ram, s.pgdir, a \div PGSIZE)
        /\ \A a \in DOMAIN text : text[a] = ram.frame[Walk(ram, s.pgdir, a \div PGSIZE).frame][a % PGSIZE]
    BY <1>3, <2>1, <2>2, <2>3
  <2>5. text = [a \in DOMAIN text |-> text[a]]
    BY <2>3
  <2> QED  BY <2>2, <2>4, <2>5, SpaceBecomes
<1>5. \A q \in Slot : proc[q] = IF q = 1 THEN s ELSE Unused
  BY <1>1
<1>6. SpaceOf(ram, Unused) = [a \in {} |-> "zero"]
  BY DEF SpaceOf, Unused
<1>7. Spaces = [q \in Slot |-> SpaceOf(ram, proc[q])]
  BY SpacesAre
<1> HIDE DEF s, text
<1>8. Spaces = [q \in Slot |-> IF q = 1 THEN text ELSE [a \in {} |-> "zero"]]
  BY <1>4, <1>5, <1>6, <1>7
<1>9. PGSIZE \in {n * PGSIZE : n \in 0 .. KERNBASE \div PGSIZE} \ {0}
  <2>1. 1 \in 0 .. KERNBASE \div PGSIZE
    <3>1. 0 \in 0 .. KERNBASE \div PGSIZE - 1 /\ KERNBASE \div PGSIZE \in Nat
      BY <1>1, Geometry DEF Page
    <3> QED  BY <3>1
  <2>2. 1 * PGSIZE = PGSIZE
    BY <1>3
  <2> QED  BY <1>3, <2>1, <2>2
<1>10. \E q \in Slot : Spaces = [r \in Slot |-> IF r = q THEN [a \in 0 .. PGSIZE - 1 |-> "text"] ELSE [a \in {} |-> "zero"]]
  BY <1>2, <1>8 DEF text
<1> QED  BY <1>9, <1>10 DEF Memory!Init, Memory!Nothing

\* The steps of exec
LEMMA ExecStep ==
  ASSUME NEW own, Sound(own, ram, proc, call), NEW p \in Slot, ExecSegment(p) \/ ExecLoad(p) \/ ExecEnds(p)
  PROVE  Memory!Exec(p) \/ Spaces' = Spaces
<1>1. call[p].at \in {"segment", "load", "args"}
  BY DEF ExecSegment, ExecLoad, ExecEnds, At
<1>2. CASE GiveUp(p)
  BY <1>1, <1>2, GivesUpUnseen
<1>3. CASE ExecSegment(p) /\ ~GiveUp(p)
  BY <1>3, BeginsUnseen
<1>4. CASE ExecLoad(p) /\ ~GiveUp(p)
  BY <1>4, LoadUnseen
<1>5. CASE ExecEnds(p) /\ ~GiveUp(p)
  BY <1>5, ExecSeen
<1> QED  BY <1>2, <1>3, <1>4, <1>5

\* The steps of fork, and the loops of sbrk and exec, up to their ends
LEMMA AllocationStep ==
  ASSUME NEW own, Sound(own, ram, proc, call), ~panicked, NEW p \in Slot,
         GetStack(p) \/ GetDir(p) \/ MapKernel(p) \/ GetPage(p) \/ MapPage(p)
  PROVE  Spaces' = Spaces
<1>1. CASE GetStack(p)
  BY <1>1, StackUnseen
<1>2. CASE GetDir(p)
  <2>1. CASE ram.free = << >>
    BY <1>2, <2>1, GivesUpUnseen DEF GetDir, At
  <2>2. CASE ram.free # << >>
    BY <1>2, <2>2, TakesStutter
  <2> QED  BY <2>1, <2>2
<1>3. CASE MapKernel(p)
  <2>1. CASE ram.free = << >>
    BY <1>3, <2>1, GivesUpUnseen DEF MapKernel, At
  <2>2. CASE ram.free # << >>
    BY <1>3, <2>2, KernelUnseen
  <2> QED  BY <2>1, <2>2
<1>4. CASE GetPage(p)
  <2>1. CASE ram.free = << >>
    <3>1. call[p].at = "page"
      BY <1>4 DEF GetPage, At
    <3>2. call[p].op = "fork" => Walk(ram, proc[p].pgdir, call[p].n).frame # 0
      BY <3>1, AtPage DEF Loops
    <3>3. GiveUp(p)
      BY <1>4, <2>1, <3>2 DEF GetPage
    <3> QED  BY <3>1, <3>3, GivesUpUnseen
  <2>2. CASE ram.free # << >>
    <3>1. ~panicked'
      BY <1>4, <2>2, PageGot
    <3> QED  BY <1>4, <2>2, <3>1, TakesStutter
  <2> QED  BY <2>1, <2>2
<1>5. CASE MapPage(p)
  <2>1. CASE CanMap(ram, call[p].dir, call[p].n)
    BY <1>5, <2>1, PageUnseen
  <2>2. CASE ~CanMap(ram, call[p].dir, call[p].n)
    <3>1. call[p].at = "map" /\ GiveUp(p)
      BY <1>5, <2>2 DEF MapPage, At
    <3> QED  BY <3>1, GivesUpUnseen
  <2> QED  BY <2>1, <2>2
<1> QED  BY <1>1, <1>2, <1>3, <1>4, <1>5

\* Every step of the kernel is one of AddressSpaces', or none.
LEMMA NextSeen == Accounted /\ [Next]_vars => [Memory!Next]_Spaces
<1> SUFFICES ASSUME Accounted, [Next]_vars PROVE Memory!Next \/ Spaces' = Spaces
  OBVIOUS
<1>1. CASE UNCHANGED vars
  BY <1>1, SpacesAre DEF vars
<1>2. CASE Next
  <2>1. PICK own : Sound(own, ram, proc, call)
    BY DEF Accounted
  <2>2. PICK p \in Slot :
          \/ \E va \in Targets : Store(p, va)
          \/ \E by \in Growth : Sbrk(p, by)
          \/ \E image \in Images, args \in Arguments : Exec(p, image, args)
          \/ SbrkEnds(p)
          \/ Fork(p) \/ GetStack(p) \/ GetDir(p) \/ MapKernel(p) \/ GetPage(p) \/ MapPage(p) \/ ForkEnds(p)
          \/ ExecSegment(p) \/ ExecLoad(p) \/ ExecEnds(p)
          \/ Exit(p) \/ Wait(p)
    BY <1>2 DEF Next
  <2>3. \/ Memory!Store(p) \/ Memory!Grow(p) \/ Memory!Shrink(p) \/ Memory!Exec(p) \/ Memory!Exit(p)
        \/ (\E child \in Slot \ {p} : Memory!Fork(p, child)) \/ Spaces' = Spaces
    <3>1. CASE \E va \in Targets : Store(p, va)
      BY <2>1, <3>1, StoreStores
    <3>2. CASE \E by \in Growth : Sbrk(p, by)
      <4>1. PICK by \in Growth : Sbrk(p, by)
        BY <3>2
      <4>2. CASE by > 0
        BY <2>1, <4>1, <4>2, BeginsUnseen
      <4>3. CASE ~(by > 0)
        BY <2>1, <4>1, <4>3, SbrkSeen
      <4> QED  BY <4>2, <4>3
    <3>3. CASE (\E image \in Images, args \in Arguments : Exec(p, image, args)) \/ Fork(p)
      BY <2>1, <3>3, BeginsUnseen
    <3>4. CASE SbrkEnds(p)
      BY <2>1, <3>4, SbrkEndSeen
    <3>5. CASE GetStack(p) \/ GetDir(p) \/ MapKernel(p) \/ GetPage(p) \/ MapPage(p)
      <4>1. ~panicked
        BY DEF Accounted
      <4> QED  BY <2>1, <3>5, <4>1, AllocationStep
    <3>6. CASE ForkEnds(p)
      BY <2>1, <3>6, ForkEndSeen
    <3>7. CASE ExecSegment(p) \/ ExecLoad(p) \/ ExecEnds(p)
      BY <2>1, <3>7, ExecStep
    <3>8. CASE Exit(p)
      BY <2>1, <3>8, ExitSeen
    <3>9. CASE Wait(p)
      BY <2>1, <3>9, WaitUnseen
    <3> QED  BY <2>2, <3>1, <3>2, <3>3, <3>4, <3>5, <3>6, <3>7, <3>8, <3>9
  <2> QED  BY <2>3 DEF Memory!Next
<1> QED  BY <1>1, <1>2

\* The page tables implement memories of the processes' own: what vm.c, exec.c and the calls of
\* proc.c do to frames is, to programs, one of the steps of AddressSpaces, and whatever fails is none.
THEOREM MemoryImplemented == KernelSpec => ImplementsAddressSpaces
<1>1. KernelInit => Memory!Init
  BY InitSeen DEF KernelInit
<1>2. Accounted /\ [MemoryRuns \/ ThreadsRun]_<<vars, part, cpus, on, code, locks, ptable, ticks, ticks0, fault>>
        => [part = "memory" => Memory!Next]_Spaces
  <2> SUFFICES ASSUME Accounted,
                      [MemoryRuns \/ ThreadsRun]_<<vars, part, cpus, on, code, locks, ptable, ticks, ticks0, fault>>
               PROVE  [part = "memory" => Memory!Next]_Spaces
    OBVIOUS
  <2>1. [Next]_vars
    BY DEF MemoryRuns, ThreadsRun
  <2>2. [Memory!Next]_Spaces
    BY <2>1, NextSeen
  <2> QED  BY <2>2
<1> QED  BY <1>1, <1>2, MemoryAccounted, PTL DEF KernelSpec, ImplementsAddressSpaces

\* The same of the memory by itself
THEOREM MemoryAloneImplements == Spec => Memory!Spec
<1>1. Spec => []Accounted
  BY AccountedInit, AccountedNext, PTL DEF Spec
<1> QED  BY <1>1, InitSeen, NextSeen, PTL DEF Spec, Memory!Spec

-----------------------------------------------------------------------------
(* The conditions of the Y86, in which its state has no part *)

Sim == INSTANCE Y86 WITH pc <- 0, r <- 0, m <- 0, cc <- 0, e <- 0, step <- 0, savem <- 0

\* compute_cc and cond_holds (isa.c) agree with the order of the numbers, for every two
\* words: after subq each condition holds just when it does for the numbers themselves,
\* and after addq and iaddq less and greater do for the sum, whatever overflows.  Of the
\* width only HalfAssumption is used, which holds of 256 ^ WORD for any number of bytes.
THEOREM ComparisonsRight ==
  ASSUME Sim!HalfAssumption, NEW a \in Sim!Word, NEW b \in Sim!Word
  PROVE  Sim!ConditionsRight(a, b)
<1> USE DEF Sim!HalfAssumption, Sim!Word, Sim!Wrap
<1>1. /\ Sim!compute_alu(Sim!A_SUB, a, b) = Sim!Wrap(b - a)
      /\ Sim!compute_alu(Sim!A_ADD, a, b) = Sim!Wrap(a + b)
  BY DEF Sim!compute_alu, Sim!A_ADD, Sim!A_SUB, Sim!A_AND, Sim!A_XOR
<1>d. Sim!A_ADD # Sim!A_SUB
  BY DEF Sim!A_ADD, Sim!A_SUB
<1>c. ASSUME NEW op
      PROVE  LET val == Sim!compute_alu(op, a, b)
             IN /\ Sim!compute_cc(op, a, b).zf = (val = 0)
                /\ Sim!compute_cc(op, a, b).sf = (val < 0)
                /\ Sim!compute_cc(op, a, b).of =
                     (\/ op = Sim!A_ADD /\ ((a < 0) = (b < 0)) /\ ((val < 0) # (a < 0))
                      \/ op = Sim!A_SUB /\ ((a > 0) = (b < 0)) /\ ((val < 0) # (b < 0)))
  BY Zenon DEF Sim!compute_cc
<1>2. /\ Sim!compute_cc(Sim!A_SUB, a, b).zf = (Sim!Wrap(b - a) = 0)
      /\ Sim!compute_cc(Sim!A_SUB, a, b).sf = (Sim!Wrap(b - a) < 0)
      /\ Sim!compute_cc(Sim!A_SUB, a, b).of = (((a > 0) = (b < 0)) /\ ((Sim!Wrap(b - a) < 0) # (b < 0)))
  <2> HIDE DEF Sim!Wrap, Sim!Word, Sim!HalfAssumption
  <2> QED  BY <1>1, <1>c, <1>d, Zenon
<1>3. /\ Sim!compute_cc(Sim!A_ADD, a, b).sf = (Sim!Wrap(a + b) < 0)
      /\ Sim!compute_cc(Sim!A_ADD, a, b).of = (((a < 0) = (b < 0)) /\ ((Sim!Wrap(a + b) < 0) # (a < 0)))
      /\ Sim!compute_cc(Sim!A_ADD, a, b).zf = (Sim!Wrap(a + b) = 0)
  <2> HIDE DEF Sim!Wrap, Sim!Word, Sim!HalfAssumption
  <2> QED  BY <1>1, <1>c, <1>d, Zenon
<1>4. a \in Int /\ b \in Int
  OBVIOUS
<1>5. /\ (Sim!Wrap(b - a) = 0) <=> b = a
      /\ ((Sim!Wrap(b - a) < 0) # (((a > 0) = (b < 0)) /\ ((Sim!Wrap(b - a) < 0) # (b < 0)))) <=> b < a
  BY <1>4
<1>6. ((Sim!Wrap(a + b) < 0) # (((a < 0) = (b < 0)) /\ ((Sim!Wrap(a + b) < 0) # (a < 0)))) <=> a + b < 0
  BY <1>4
<1>7. b <= a <=> b < a \/ b = a
  BY <1>4
<1>8. /\ b > a <=> ~(b < a) /\ b # a
      /\ b >= a <=> ~(b < a)
      /\ a + b >= 0 <=> ~(a + b < 0)
  BY <1>4
<1> HIDE DEF Sim!Wrap, Sim!Word, Sim!HalfAssumption
<1>9. ASSUME NEW c
      PROVE  /\ Sim!cond_holds(c, Sim!C_L) <=> c.sf # c.of
             /\ Sim!cond_holds(c, Sim!C_LE) <=> (c.sf # c.of) \/ c.zf
             /\ Sim!cond_holds(c, Sim!C_G) <=> c.sf = c.of /\ ~c.zf
             /\ Sim!cond_holds(c, Sim!C_GE) <=> c.sf = c.of
             /\ Sim!cond_holds(c, Sim!C_E) <=> c.zf
             /\ Sim!cond_holds(c, Sim!C_NE) <=> ~c.zf
  <2>1. /\ Sim!C_L \notin {Sim!C_YES, Sim!C_LE, Sim!C_E, Sim!C_NE, Sim!C_GE, Sim!C_G}
        /\ Sim!C_LE \notin {Sim!C_YES, Sim!C_E, Sim!C_NE, Sim!C_GE, Sim!C_G}
        /\ Sim!C_E \notin {Sim!C_YES, Sim!C_NE, Sim!C_GE, Sim!C_G}
        /\ Sim!C_NE \notin {Sim!C_YES, Sim!C_GE, Sim!C_G}
        /\ Sim!C_GE \notin {Sim!C_YES, Sim!C_G}
        /\ Sim!C_G # Sim!C_YES
    BY DEF Sim!C_YES, Sim!C_LE, Sim!C_L, Sim!C_E, Sim!C_NE, Sim!C_GE, Sim!C_G
  <2> QED  BY <2>1, Zenon DEF Sim!cond_holds
<1>10. LET c == Sim!compute_cc(Sim!A_SUB, a, b)
       IN /\ c.zf <=> b = a
          /\ c.sf # c.of <=> b < a
          /\ c.sf \in BOOLEAN /\ c.of \in BOOLEAN
  <2> DEFINE c == Sim!compute_cc(Sim!A_SUB, a, b)
  <2>1. c.zf <=> b = a
    BY <1>2, <1>5, Zenon
  <2>2. c.sf # c.of <=> b < a
    BY <1>2, <1>5, Zenon
  <2>3. c.sf \in BOOLEAN /\ c.of \in BOOLEAN
    BY <1>2
  <2> QED  BY <2>1, <2>2, <2>3
<1>11. LET c == Sim!compute_cc(Sim!A_ADD, a, b)
       IN /\ c.sf # c.of <=> a + b < 0
          /\ c.sf \in BOOLEAN /\ c.of \in BOOLEAN
  <2> DEFINE c == Sim!compute_cc(Sim!A_ADD, a, b)
  <2>2. c.sf # c.of <=> a + b < 0
    BY <1>3, <1>6, Zenon
  <2>3. c.sf \in BOOLEAN /\ c.of \in BOOLEAN
    BY <1>3
  <2> QED  BY <2>2, <2>3
<1> QED
  BY <1>7, <1>8, <1>9, <1>10, <1>11, Zenon DEF Sim!ConditionsRight
=============================================================================
