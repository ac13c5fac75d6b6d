---------------------------- MODULE PageMemProofs ----------------------------
(***************************************************************************)
(* Proofs about demand paging and copy-on-write, for every number of page    *)
(* frames, tables and regions.  The routines keep a set of memories, Goods,  *)
(* and so does each round of their loops.                                   *)
(***************************************************************************)
EXTENDS PageMem, FiniteSetTheorems, WellFoundedInduction, TLAPS

----------------------------------------------------------------------------
\* Numbers

LEMMA LeastLemma ==
  ASSUME NEW S \in SUBSET Nat, S # {}
  PROVE  Min(S) \in S /\ \A y \in S : Min(S) <= y
<1> DEFINE R == OpToRel(<, Nat)
<1>1. R = {r \in Nat \X Nat : r[1] < r[2]}
  BY DEF OpToRel
<1>2. IsWellFoundedOn(R, Nat)
  BY NatLessThanWellFounded
<1> HIDE DEF R
<1>3. PICK x \in S : \A y \in S : ~ (<<y, x>> \in R)
  BY <1>2, WFMin
<1>4. ASSUME NEW y \in S PROVE x <= y
  <2>1. ~ (y < x)
    BY <1>1, <1>3
  <2>2. QED
    BY <2>1
<1>5. QED
  BY <1>4 DEF Min

LEMMA DivLemma ==
  ASSUME NEW N \in Nat \ {0}
  PROVE  /\ \A l \in Nat : l \div N \in Nat /\ l % N \in 0..N - 1 /\ l = (l \div N) * N + (l % N)
         /\ \A a \in Nat, k \in 0..N - 1 : (a * N + k) \div N = a /\ (a * N + k) % N = k
<1>1. \A a \in Nat, k \in 0..N - 1 : (a * N + k) \div N = a /\ (a * N + k) % N = k
  BY SMTT(60)
<1>2. ASSUME NEW l \in Nat
      PROVE  l \div N \in Nat /\ l % N \in 0..N - 1 /\ l = (l \div N) * N + (l % N)
  <2> DEFINE S == {k \in Nat : \E a \in Nat : l = a * N + k}
  <2>1. l = 0 * N + l
    OBVIOUS
  <2>2. PICK k \in S : \A y \in S : k <= y
    <3>1. S \in SUBSET Nat /\ l \in S
      BY <2>1
    <3> HIDE DEF S
    <3>2. QED
      BY <3>1, LeastLemma
  <2>3. PICK a \in Nat : l = a * N + k
    BY <2>2
  <2>4. k < N
    <3>1. SUFFICES ASSUME k >= N PROVE FALSE
      BY <2>2
    <3>2. l = (a + 1) * N + (k - N) /\ a + 1 \in Nat /\ k - N \in Nat
      BY <2>2, <2>3, <3>1
    <3>3. k - N \in S
      BY <3>2
    <3>4. k \in Nat
      BY <2>2
    <3> HIDE DEF S
    <3>5. k <= k - N
      BY <2>2, <3>3
    <3>6. QED
      BY <3>4, <3>5
  <2>5. l \div N = a /\ l % N = k
    BY <1>1, <2>2, <2>3, <2>4
  <2>6. QED
    BY <2>2, <2>3, <2>4, <2>5
<1>3. QED
  BY <1>1, <1>2

\* Products are in the order of their factors.
LEMMA ProductLemma ==
  ASSUME NEW N \in Nat, NEW x \in Nat, NEW y \in Nat, x < y
  PROVE  x * N \in Nat /\ y * N \in Nat /\ x * N + N <= y * N
<1>1. PICK z \in Nat : y = x + 1 + z
  <2>1. y - x - 1 \in Nat
    OBVIOUS
  <2>2. QED
    BY <2>1
<1>2. y * N = x * N + N + z * N
  BY <1>1
<1>3. x * N \in Nat /\ y * N \in Nat /\ z * N \in Nat
  BY <1>1
<1>4. QED
  BY <1>2, <1>3

----------------------------------------------------------------------------
(* Loops.  M[i] is the set of memories that may be there after i rounds.     *)

LEMMA LoopInduction ==
  ASSUME NEW n \in Nat, NEW M, NEW f, f[0] \in M[0],
         \A i \in 1..n : f[i - 1] \in M[i - 1] => f[i] \in M[i]
  PROVE  \A i \in 0..n : f[i] \in M[i]
<1> DEFINE bad == {i \in 0..n : f[i] \notin M[i]}
<1>1. SUFFICES ASSUME bad # {} PROVE FALSE
  OBVIOUS
<1>2. PICK i \in bad : \A y \in bad : i <= y
  <2>1. bad \in SUBSET Nat
    OBVIOUS
  <2> HIDE DEF bad
  <2>2. QED
    BY <1>1, <2>1, LeastLemma
<1>3. i \in 1..n /\ i - 1 \in 0..n /\ i - 1 \notin bad
  BY <1>2
<1>4. QED
  BY <1>2, <1>3

\* There is a function of the rounds, when the step g leads from M[i - 1] to M[i].
LoopStep(n, M, g) == \A i \in 1..n : \A x \in M[i - 1] : g[<<i, x>>] \in M[i]
LoopRuns(f, n, M, x0, g) ==
  /\ f = [i \in 0..n |-> f[i]] /\ f[0] = x0
  /\ \A i \in 1..n : f[i - 1] \in M[i - 1] /\ f[i] = g[<<i, f[i - 1]>>]

LEMMA LoopExists ==
  ASSUME NEW n \in Nat, NEW M, NEW x0 \in M[0], NEW g, LoopStep(n, M, g)
  PROVE  \E f : LoopRuns(f, n, M, x0, g)
<1>0. /\ \A i \in 1..n : \A x \in M[i - 1] : g[<<i, x>>] \in M[i]
      /\ \A f : LoopRuns(f, n, M, x0, g) <=>
                /\ f = [i \in 0..n |-> f[i]] /\ f[0] = x0
                /\ \A i \in 1..n : f[i - 1] \in M[i - 1] /\ f[i] = g[<<i, f[i - 1]>>]
  BY DEF LoopStep, LoopRuns
<1> DEFINE Is(f, k) == /\ f = [i \in 0..k |-> IF i = 0 THEN x0 ELSE g[<<i, f[i - 1]>>]]
                       /\ \A i \in 0..k : f[i] \in M[i]
           bad == {k \in 0..n : ~ \E f : Is(f, k)}
<1>1. SUFFICES ASSUME bad # {} PROVE FALSE
  <2>1. ASSUME NEW f, Is(f, n)
        PROVE  /\ f = [i \in 0..n |-> f[i]] /\ f[0] = x0
               /\ \A i \in 1..n : f[i - 1] \in M[i - 1] /\ f[i] = g[<<i, f[i - 1]>>]
    <3>1. f = [i \in 0..n |-> f[i]]
      BY <2>1
    <3>2. \A i \in 0..n : f[i] = IF i = 0 THEN x0 ELSE g[<<i, f[i - 1]>>]
      BY <2>1
    <3>3. \A i \in 0..n : f[i] \in M[i]
      BY <2>1
    <3>4. f[0] = x0
      <4>1. 0 \in 0..n
        OBVIOUS
      <4>2. QED
        BY <3>2, <4>1
    <3>5. \A i \in 1..n : i \in 0..n /\ i - 1 \in 0..n /\ i # 0
      OBVIOUS
    <3>6. \A i \in 1..n : f[i - 1] \in M[i - 1] /\ f[i] = g[<<i, f[i - 1]>>]
      BY <3>2, <3>3, <3>5
    <3>7. QED
      BY <3>1, <3>4, <3>6
  <2>2. bad = {} => \E f : Is(f, n)
    <3> HIDE DEF Is
    <3>1. QED
      OBVIOUS
  <2>3. QED
    BY <1>0, <1>1, <2>1, <2>2, Zenon
<1>2. PICK k \in bad : \A y \in bad : k <= y
  <2>1. bad \in SUBSET Nat
    OBVIOUS
  <2> HIDE DEF bad
  <2>2. QED
    BY <1>1, <2>1, LeastLemma
<1>3. k # 0
  <2>1. SUFFICES ASSUME k = 0 PROVE \E f : Is(f, 0)
    BY <1>2
  <2> DEFINE f0 == [i \in 0..0 |-> x0]
  <2>2. \A i \in 0..0 : i = 0 /\ f0[i] = x0
    OBVIOUS
  <2>3. f0 = [i \in 0..0 |-> IF i = 0 THEN x0 ELSE g[<<i, f0[i - 1]>>]]
    OBVIOUS
  <2> HIDE DEF f0
  <2>4. Is(f0, 0)
    BY <2>2, <2>3
  <2>5. QED
    BY <2>4
<1>4. k \in 1..n /\ k - 1 \in 0..n /\ k - 1 \notin bad
  BY <1>2, <1>3
<1>5. PICK f : Is(f, k - 1)
  BY <1>4
<1> DEFINE h == [i \in 0..k |-> IF i = k THEN g[<<k, f[k - 1]>>] ELSE f[i]]
<1>6. \A i \in 0..k : h[i] = IF i = k THEN g[<<k, f[k - 1]>>] ELSE f[i]
  OBVIOUS
<1>7. DOMAIN h = 0..k /\ h = [i \in 0..k |-> h[i]]
  OBVIOUS
<1> HIDE DEF h
<1>8. f[k - 1] \in M[k - 1]
  BY <1>4, <1>5
<1>9. \A i \in 0..k : h[i] \in M[i]
  <2>1. TAKE i \in 0..k
  <2>2. CASE i = k
    BY <1>0, <1>4, <1>6, <1>8, <2>2
  <2>3. CASE i # k
    <3>1. i \in 0..k - 1 /\ h[i] = f[i]
      BY <1>4, <1>6, <2>3
    <3>2. \A j \in 0..k - 1 : f[j] \in M[j]
      BY <1>5
    <3>3. QED
      BY <3>1, <3>2
  <2>4. QED
    BY <2>2, <2>3
<1>10. \A i \in 0..k : h[i] = IF i = 0 THEN x0 ELSE g[<<i, h[i - 1]>>]
  <2>1. TAKE i \in 0..k
  <2>2. CASE i = k
    <3>1. h[i] = g[<<k, f[k - 1]>>] /\ h[i - 1] = f[k - 1]
      <4>1. k \in Nat /\ k \in 0..k /\ k - 1 \in 0..k /\ k - 1 # k
        BY <1>4
      <4>2. QED
        BY <1>6, <2>2, <4>1
    <3>2. QED
      BY <1>4, <2>2, <3>1
  <2>3. CASE i # k
    <3>1. i \in 0..k - 1
      BY <1>4, <2>3
    <3>2. f[i] = IF i = 0 THEN x0 ELSE g[<<i, f[i - 1]>>]
      BY <1>5, <3>1
    <3>3. h[i] = f[i] /\ (i # 0 => h[i - 1] = f[i - 1])
      BY <1>4, <1>6, <2>3
    <3>4. QED
      BY <3>2, <3>3
  <2>4. QED
    BY <2>2, <2>3
<1>11. h = [i \in 0..k |-> IF i = 0 THEN x0 ELSE g[<<i, h[i - 1]>>]]
  BY <1>7, <1>10
<1>12. Is(h, k)
  BY <1>9, <1>11
<1>13. QED
  BY <1>2, <1>12

----------------------------------------------------------------------------
\* Addresses

LEMMA NumbersLemma ==
  /\ NR_ENTRY_PER_PAGE \in Nat /\ NR_ENTRY_PER_PAGE >= 2
  /\ NrTables \in Nat /\ NrTables >= 1 /\ NrRegions \in Nat /\ NrRegions >= 1
  /\ VM_SIZE \in Nat /\ VM_SIZE >= NR_ENTRY_PER_PAGE
  /\ NR_ENTRY_PER_PAGE * (NrTables - 1) = VM_SIZE - NR_ENTRY_PER_PAGE
  /\ nr_page \in Nat /\ nr_page >= 1 /\ PAGE_SIZE \in Nat \ {0}
<1>1. /\ NR_ENTRY_PER_PAGE \in Nat /\ NR_ENTRY_PER_PAGE >= 2
      /\ NrTables \in Nat /\ NrTables >= 1 /\ NrRegions \in Nat /\ NrRegions >= 1
      /\ nr_page \in Nat /\ nr_page >= 1 /\ PAGE_SIZE \in Nat \ {0}
  BY PageMemAssumption
<1>2. VM_SIZE \in Nat /\ VM_SIZE >= NR_ENTRY_PER_PAGE
  <2>1. 0 * NR_ENTRY_PER_PAGE + NR_ENTRY_PER_PAGE <= NrTables * NR_ENTRY_PER_PAGE /\ NrTables * NR_ENTRY_PER_PAGE \in Nat
    BY <1>1, ProductLemma
  <2>2. QED
    BY <1>1, <2>1 DEF VM_SIZE
<1>3. NR_ENTRY_PER_PAGE * (NrTables - 1) = VM_SIZE - NR_ENTRY_PER_PAGE
  BY <1>1 DEF VM_SIZE
<1>4. QED
  BY <1>1, <1>2, <1>3

\* DivLemma, of the entries of a table.
LEMMA EntryDiv ==
  /\ \A l \in Nat : /\ l \div NR_ENTRY_PER_PAGE \in Nat
                    /\ l % NR_ENTRY_PER_PAGE \in 0..NR_ENTRY_PER_PAGE - 1
                    /\ l = (l \div NR_ENTRY_PER_PAGE) * NR_ENTRY_PER_PAGE + (l % NR_ENTRY_PER_PAGE)
  /\ \A a \in Nat, k \in 0..NR_ENTRY_PER_PAGE - 1 :
       (a * NR_ENTRY_PER_PAGE + k) \div NR_ENTRY_PER_PAGE = a
<1>1. NR_ENTRY_PER_PAGE \in Nat \ {0}
  BY NumbersLemma
<1>2. QED
  BY <1>1, DivLemma, Zenon

\* Region r starts at a table of its own, and its pages are linear pages.
LEMMA RegionLemma ==
  ASSUME NEW r \in Regions
  PROVE  /\ r \in Nat /\ Base(r) = r * VM_SIZE /\ Base(r) \in Nat /\ Base(r) >= VM_SIZE
         /\ Base(r) = (r * NrTables) * NR_ENTRY_PER_PAGE /\ r * NrTables \in Nat
         /\ \A o \in Offsets : va2la(r, o) = Base(r) + o /\ va2la(r, o) \in Linear
<1>1. r \in Nat /\ 1 <= r /\ r <= NrRegions /\ NrRegions + 1 \in Nat
  BY NumbersLemma DEF Regions
<1>2. Base(r) = r * VM_SIZE
  BY DEF Base
<1>3. r * VM_SIZE \in Nat /\ r * VM_SIZE + VM_SIZE <= (NrRegions + 1) * VM_SIZE
  BY <1>1, NumbersLemma, ProductLemma
<1>4. r * VM_SIZE >= VM_SIZE
  <2>1. 0 * VM_SIZE + VM_SIZE <= r * VM_SIZE
    BY <1>1, NumbersLemma, ProductLemma
  <2>2. QED
    BY <1>3, <2>1, NumbersLemma
<1>5. r * VM_SIZE = (r * NrTables) * NR_ENTRY_PER_PAGE /\ r * NrTables \in Nat
  BY <1>1, NumbersLemma DEF VM_SIZE
<1>6. (NrRegions + 1) * VM_SIZE \in Nat
  BY NumbersLemma
<1>7. \A o \in Offsets : va2la(r, o) = Base(r) + o /\ va2la(r, o) \in Linear
  <2> DEFINE b == r * VM_SIZE
             e == (NrRegions + 1) * VM_SIZE
  <2>1. Linear = VM_SIZE..e - 1 /\ Base(r) = b
    BY DEF Linear, Base
  <2>2. b \in Nat /\ e \in Nat /\ b + VM_SIZE <= e /\ b >= VM_SIZE
    BY <1>3, <1>4, <1>6
  <2> HIDE DEF b, e
  <2>3. QED
    BY <2>1, <2>2, NumbersLemma DEF Offsets, va2la
<1>8. QED
  BY <1>1, <1>2, <1>3, <1>4, <1>5, <1>7

\* No page is of two regions, nor at two places of one.
LEMMA RegionsApart ==
  ASSUME NEW r \in Regions, NEW s \in Regions, NEW o \in Offsets, NEW q \in Offsets,
         va2la(r, o) = va2la(s, q)
  PROVE  r = s /\ o = q
<1>1. /\ r \in Nat /\ s \in Nat /\ o \in 0..VM_SIZE - 1 /\ q \in 0..VM_SIZE - 1
      /\ VM_SIZE \in Nat \ {0}
  BY RegionLemma, NumbersLemma DEF Offsets
<1>2. r * VM_SIZE + o = s * VM_SIZE + q
  BY DEF va2la, Base
<1>3. (r * VM_SIZE + o) \div VM_SIZE = r /\ (r * VM_SIZE + o) % VM_SIZE = o
  BY <1>1, DivLemma
<1>4. (s * VM_SIZE + q) \div VM_SIZE = s /\ (s * VM_SIZE + q) % VM_SIZE = q
  BY <1>1, DivLemma
<1>5. QED
  BY <1>2, <1>3, <1>4

LEMMA TableLemma ==
  ASSUME NEW l \in Linear
  PROVE  /\ l \in Nat /\ Table(l) \in Tables /\ Table(l) \in Nat
         /\ \E i \in 1..NR_ENTRY_PER_PAGE : l = Table(l) * NR_ENTRY_PER_PAGE + i - 1
<1>1. l \in Nat
  <2>1. VM_SIZE \in Nat
    BY NumbersLemma
  <2> HIDE DEF VM_SIZE
  <2>2. QED
    BY <2>1 DEF Linear
<1>2. Table(l) \in Tables
  BY DEF Tables
<1>3. l \div NR_ENTRY_PER_PAGE \in Nat /\ l % NR_ENTRY_PER_PAGE \in 0..NR_ENTRY_PER_PAGE - 1
        /\ l = (l \div NR_ENTRY_PER_PAGE) * NR_ENTRY_PER_PAGE + (l % NR_ENTRY_PER_PAGE)
  BY <1>1, EntryDiv
<1>4. PICK q \in Nat, k \in 0..NR_ENTRY_PER_PAGE - 1 : Table(l) = q /\ l = q * NR_ENTRY_PER_PAGE + k
  BY <1>3 DEF Table
<1>5. k + 1 \in 1..NR_ENTRY_PER_PAGE /\ k = (k + 1) - 1
  BY <1>4, NumbersLemma
<1>6. l = q * NR_ENTRY_PER_PAGE + (k + 1) - 1
  <2>1. q * NR_ENTRY_PER_PAGE \in Nat
    BY <1>4, NumbersLemma
  <2>2. QED
    BY <1>4, <2>1
<1>7. QED
  BY <1>1, <1>2, <1>4, <1>5, <1>6

\* The tables of region r, and the pages of one.
LEMMA RegionTables ==
  ASSUME NEW r \in Regions, NEW j \in 0..NrTables - 1
  PROVE  LET t == r * NrTables + j
         IN /\ t \in Tables /\ t \in Nat
            /\ \A i \in 1..NR_ENTRY_PER_PAGE :
                 LET l == t * NR_ENTRY_PER_PAGE + i - 1 IN l \in Linear /\ Table(l) = t
<1> DEFINE t == r * NrTables + j
<1>1. t \in Nat /\ j \in Nat /\ r \in Nat /\ j < NrTables
  BY RegionLemma, NumbersLemma
<1>2. j * NR_ENTRY_PER_PAGE \in Nat /\ j * NR_ENTRY_PER_PAGE + NR_ENTRY_PER_PAGE <= VM_SIZE
  BY <1>1, NumbersLemma, ProductLemma DEF VM_SIZE
<1>3. t * NR_ENTRY_PER_PAGE = Base(r) + j * NR_ENTRY_PER_PAGE
  <2>1. t * NR_ENTRY_PER_PAGE = (r * NrTables) * NR_ENTRY_PER_PAGE + j * NR_ENTRY_PER_PAGE
    BY <1>1, NumbersLemma
  <2>2. QED
    BY <2>1, RegionLemma
<1>4. ASSUME NEW i \in 1..NR_ENTRY_PER_PAGE
      PROVE  t * NR_ENTRY_PER_PAGE + i - 1 \in Linear /\ Table(t * NR_ENTRY_PER_PAGE + i - 1) = t
  <2> DEFINE o == j * NR_ENTRY_PER_PAGE + (i - 1)
  <2>1. o \in Offsets
    <3>1. \A x \in Nat : x + NR_ENTRY_PER_PAGE <= VM_SIZE => x + (i - 1) \in 0..VM_SIZE - 1
      BY NumbersLemma
    <3>2. QED
      BY <1>2, <3>1 DEF Offsets
  <2>2. t * NR_ENTRY_PER_PAGE + i - 1 = Base(r) + o
    <3>1. \A x, y \in Nat : x + y + i - 1 = x + (y + (i - 1))
      BY NumbersLemma
    <3>2. Base(r) \in Nat
      BY RegionLemma
    <3> HIDE DEF t
    <3>3. QED
      BY <1>2, <1>3, <3>1, <3>2
  <2>3. t * NR_ENTRY_PER_PAGE + i - 1 = t * NR_ENTRY_PER_PAGE + (i - 1) /\ i - 1 \in 0..NR_ENTRY_PER_PAGE - 1
    <3>1. t * NR_ENTRY_PER_PAGE \in Nat
      BY <1>1, NumbersLemma
    <3> HIDE DEF t
    <3>2. QED
      BY <3>1, NumbersLemma
  <2> HIDE DEF t, o
  <2>4. Base(r) + o \in Linear
    BY <2>1, RegionLemma
  <2>5. (t * NR_ENTRY_PER_PAGE + (i - 1)) \div NR_ENTRY_PER_PAGE = t
    BY <1>1, <2>3, EntryDiv, Zenon
  <2>6. QED
    BY <2>2, <2>3, <2>4, <2>5 DEF Table
<1>5. t \in Tables
  <2>1. 1 \in 1..NR_ENTRY_PER_PAGE
    BY NumbersLemma
  <2> HIDE DEF t
  <2>2. QED
    BY <1>4, <2>1 DEF Tables
<1>6. QED
  BY <1>1, <1>4, <1>5

LEMMA RegionStart ==
  ASSUME NEW r \in Regions
  PROVE  Table(Base(r)) = r * NrTables
<1>1. r * NrTables \in Nat /\ Base(r) = (r * NrTables) * NR_ENTRY_PER_PAGE /\ Base(r) \in Nat
  BY RegionLemma
<1>2. 0 \in 0..NR_ENTRY_PER_PAGE - 1 /\ NR_ENTRY_PER_PAGE \in Nat \ {0}
  BY NumbersLemma
<1>3. ((r * NrTables) * NR_ENTRY_PER_PAGE + 0) \div NR_ENTRY_PER_PAGE = r * NrTables
  BY <1>1, <1>2, DivLemma
<1>4. (r * NrTables) * NR_ENTRY_PER_PAGE + 0 = Base(r)
  BY <1>1
<1>5. QED
  BY <1>3, <1>4 DEF Table

LEMMA FiniteLemma ==
  /\ IsFiniteSet(Linear) /\ IsFiniteSet(Tables)
  /\ IsFiniteSet(Frames) /\ Cardinality(Frames) = nr_page
<1>1. VM_SIZE \in Int /\ Base(NrRegions + 1) - 1 \in Int
  BY NumbersLemma DEF Base
<1>2. IsFiniteSet(Linear)
  BY <1>1, FS_Interval DEF Linear
<1>3. IsFiniteSet(Tables)
  <2>1. \A l \in Linear : Table(l) \in Nat /\ Table(l) <= l
    <3>1. TAKE l \in Linear
    <3>2. PICK i \in 1..NR_ENTRY_PER_PAGE : l = Table(l) * NR_ENTRY_PER_PAGE + i - 1
      BY TableLemma
    <3>3. Table(l) \in Nat
      BY TableLemma
    <3>4. 0 * Table(l) + Table(l) <= NR_ENTRY_PER_PAGE * Table(l)
      BY <3>3, NumbersLemma, ProductLemma
    <3>5. Table(l) <= Table(l) * NR_ENTRY_PER_PAGE
      BY <3>3, <3>4, NumbersLemma
    <3>6. Table(l) * NR_ENTRY_PER_PAGE \in Nat
      BY <3>3, NumbersLemma
    <3>7. QED
      BY <3>2, <3>3, <3>5, <3>6
  <2> DEFINE e == Base(NrRegions + 1) - 1
  <2>2. \A l \in Linear : l <= e /\ l \in Nat /\ e \in Int
    <3>1. Linear = VM_SIZE..e /\ VM_SIZE \in Int /\ e \in Int
      BY <1>1 DEF Linear
    <3> HIDE DEF e
    <3>2. QED
      BY <3>1, TableLemma
  <2>3. \A t \in Tables : t \in Nat /\ t <= e + 1
    <3> HIDE DEF e
    <3>1. QED
      BY <2>1, <2>2 DEF Tables
  <2>4. e + 1 \in Nat
    BY NumbersLemma DEF Base
  <2>5. Tables \in SUBSET Nat
    BY <2>3
  <2>6. QED
    BY <2>3, <2>4, <2>5, FS_BoundedSetOfNaturals
<1>4. IsFiniteSet(1..nr_page) /\ Cardinality(1..nr_page) = IF 1 > nr_page THEN 0 ELSE nr_page - 1 + 1
  BY NumbersLemma, FS_Interval
<1>5. QED
  BY <1>2, <1>3, <1>4, NumbersLemma DEF Frames

----------------------------------------------------------------------------
(* The memories the routines keep                                           *)

Entry == [frame : Frames \cup {0}, rw : BOOLEAN]
Mem == [pd : [Tables -> Frames \cup {0}], pt : [Linear -> Entry],
        page_table : [Frames -> Nat], mm_free_mem : Int, ok : BOOLEAN]

\* The page no program uses, where the copy of an image ends.
Hole == CHOOSE o \in 0..NR_ENTRY_PER_PAGE * (NrTables - 1) :
          /\ o \notin Touched /\ o >= InitImage
          /\ o % NR_ENTRY_PER_PAGE # NR_ENTRY_PER_PAGE - 1

Counted(m)     == \A f \in Frames : m.page_table[f] = UsesIn(m, f)
FreeCounted(m) == m.mm_free_mem = Cardinality(FreeFrames(m))
Tabled(m)      == \A l \in Linear : m.pd[Table(l)] = 0 => m.pt[l] = Absent
Private(m)     == \A l \in Linear : m.pt[l].rw => /\ m.pt[l].frame \in Frames
                                                  /\ m.page_table[m.pt[l].frame] = 1
HolesFree(m)   == \A r \in Regions : m.pt[va2la(r, Hole)] = Absent
Goods == {m \in Mem : Counted(m) /\ FreeCounted(m) /\ Tabled(m) /\ Private(m) /\ HolesFree(m)}

\* The good memories in which no page may be written that m does not let be
\* written, in the same frame.
Tighter(m) == {n \in Goods : \A l \in Linear : n.pt[l].rw => n.pt[l] = m.pt[l]}

\* Translations that may be in use beside the tables are of no page to write.
Hidden(m, stale) == /\ stale \subseteq [page : Linear, frame : Frames, rw : BOOLEAN]
                    /\ \A e \in stale : ~m.pt[e.page].rw

LEMMA TighterLemma ==
  ASSUME NEW m \in Goods
  PROVE  /\ \A n \in Goods : n.pt = m.pt => n \in Tighter(m)
         /\ \A n \in Tighter(m) : n \in Goods /\ \A k \in Tighter(n) : k \in Tighter(m)
BY DEF Tighter

LEMMA HoleLemma ==
  /\ Hole \in Nat /\ Hole \in Offsets /\ Hole <= VM_SIZE - NR_ENTRY_PER_PAGE
  /\ Hole \notin Touched /\ Hole >= InitImage /\ Hole % NR_ENTRY_PER_PAGE # NR_ENTRY_PER_PAGE - 1
<1>1. \E o \in 0..NR_ENTRY_PER_PAGE * (NrTables - 1) :
        /\ o \notin Touched /\ o >= InitImage
        /\ o % NR_ENTRY_PER_PAGE # NR_ENTRY_PER_PAGE - 1
  BY PageMemAssumption
<1>2. /\ Hole \in 0..NR_ENTRY_PER_PAGE * (NrTables - 1)
      /\ Hole \notin Touched /\ Hole >= InitImage /\ Hole % NR_ENTRY_PER_PAGE # NR_ENTRY_PER_PAGE - 1
  <2> DEFINE P(o) == /\ o \notin Touched /\ o >= InitImage
                     /\ o % NR_ENTRY_PER_PAGE # NR_ENTRY_PER_PAGE - 1
             S == 0..NR_ENTRY_PER_PAGE * (NrTables - 1)
  <2>1. Hole = CHOOSE o \in S : P(o)
    BY DEF Hole
  <2>2. \E o \in S : P(o)
    BY <1>1
  <2>3. Hole \in S /\ P(Hole)
    <3> HIDE DEF P, S
    <3>1. QED
      BY <2>1, <2>2
  <2>4. QED
    BY <2>3
<1>3. Hole \in 0..VM_SIZE - NR_ENTRY_PER_PAGE
  BY <1>2, NumbersLemma
<1>4. QED
  <2> HIDE DEF VM_SIZE, Hole
  <2>1. QED
    BY <1>2, <1>3, NumbersLemma DEF Offsets

\* What a cardinality becomes when one element may come or go.
LEMMA OneChanged ==
  ASSUME NEW A, NEW B, IsFiniteSet(A), IsFiniteSet(B), NEW x, A \ {x} = B \ {x}
  PROVE  /\ Cardinality(A) \in Nat /\ Cardinality(B) \in Nat
         /\ Cardinality(B) = Cardinality(A) + (IF x \in B THEN 1 ELSE 0) - (IF x \in A THEN 1 ELSE 0)
<1>1. Cardinality(A) \in Nat /\ Cardinality(B) \in Nat
  BY FS_CardinalityType
<1>2. CASE x \in A <=> x \in B
  <2>1. A = B
    BY <1>2
  <2>2. QED
    BY <1>1, <2>1
<1>3. CASE x \notin A /\ x \in B
  <2>1. B = A \cup {x}
    BY <1>3
  <2>2. Cardinality(B) = Cardinality(A) + 1
    BY <1>3, <2>1, FS_AddElement
  <2>3. QED
    BY <1>1, <1>3, <2>2
<1>4. CASE x \in A /\ x \notin B
  <2>1. B = A \ {x}
    BY <1>4
  <2>2. Cardinality(B) = Cardinality(A) - 1
    BY <1>4, <2>1, FS_RemoveElement
  <2>3. QED
    BY <1>1, <1>4, <2>2
<1>5. QED
  BY <1>2, <1>3, <1>4

LEMMA UsesInNat ==
  ASSUME NEW m, NEW f
  PROVE  UsesIn(m, f) \in Nat
<1>1. {l \in Linear : m.pt[l].frame = f} \in SUBSET Linear /\ {t \in Tables : m.pd[t] = f} \in SUBSET Tables
  OBVIOUS
<1>2. /\ IsFiniteSet({l \in Linear : m.pt[l].frame = f})
      /\ IsFiniteSet({t \in Tables : m.pd[t] = f})
  BY <1>1, FiniteLemma, FS_Subset
<1>3. QED
  BY <1>2, FS_CardinalityType DEF UsesIn

\* One entry of a page table is written.
LEMMA EntryUses ==
  ASSUME NEW m, NEW n, NEW x \in Linear, NEW f, n.pd = m.pd,
         \A l \in Linear \ {x} : n.pt[l].frame = m.pt[l].frame
  PROVE  UsesIn(n, f) = UsesIn(m, f) + (IF n.pt[x].frame = f THEN 1 ELSE 0)
                                     - (IF m.pt[x].frame = f THEN 1 ELSE 0)
<1> DEFINE A == {l \in Linear : m.pt[l].frame = f}
           B == {l \in Linear : n.pt[l].frame = f}
           C == {t \in Tables : m.pd[t] = f}
<1>1. IsFiniteSet(A) /\ IsFiniteSet(B) /\ IsFiniteSet(C)
  BY FiniteLemma, FS_Subset
<1>2. A \ {x} = B \ {x}
  OBVIOUS
<1>3. C = {t \in Tables : n.pd[t] = f}
  OBVIOUS
<1>4. (x \in A <=> m.pt[x].frame = f) /\ (x \in B <=> n.pt[x].frame = f)
  OBVIOUS
<1>5. UsesIn(n, f) = Cardinality(B) + Cardinality(C) /\ UsesIn(m, f) = Cardinality(A) + Cardinality(C)
  BY <1>3 DEF UsesIn
<1> HIDE DEF A, B, C
<1>6. /\ Cardinality(A) \in Nat /\ Cardinality(B) \in Nat
      /\ Cardinality(B) = Cardinality(A) + (IF x \in B THEN 1 ELSE 0) - (IF x \in A THEN 1 ELSE 0)
  BY <1>1, <1>2, OneChanged
<1>7. Cardinality(C) \in Nat
  BY <1>1, FS_CardinalityType
<1>8. QED
  BY <1>4, <1>5, <1>6, <1>7

\* One entry of the page directory is written.
LEMMA TableUses ==
  ASSUME NEW m, NEW n, NEW x \in Tables, NEW f, n.pt = m.pt,
         \A t \in Tables \ {x} : n.pd[t] = m.pd[t]
  PROVE  UsesIn(n, f) = UsesIn(m, f) + (IF n.pd[x] = f THEN 1 ELSE 0)
                                     - (IF m.pd[x] = f THEN 1 ELSE 0)
<1> DEFINE A == {t \in Tables : m.pd[t] = f}
           B == {t \in Tables : n.pd[t] = f}
           C == {l \in Linear : m.pt[l].frame = f}
<1>1. IsFiniteSet(A) /\ IsFiniteSet(B) /\ IsFiniteSet(C)
  BY FiniteLemma, FS_Subset
<1>2. A \ {x} = B \ {x}
  OBVIOUS
<1>3. C = {l \in Linear : n.pt[l].frame = f}
  OBVIOUS
<1>4. (x \in A <=> m.pd[x] = f) /\ (x \in B <=> n.pd[x] = f)
  OBVIOUS
<1>5. UsesIn(n, f) = Cardinality(C) + Cardinality(B) /\ UsesIn(m, f) = Cardinality(C) + Cardinality(A)
  BY <1>3 DEF UsesIn
<1> HIDE DEF A, B, C
<1>6. /\ Cardinality(A) \in Nat /\ Cardinality(B) \in Nat
      /\ Cardinality(B) = Cardinality(A) + (IF x \in B THEN 1 ELSE 0) - (IF x \in A THEN 1 ELSE 0)
  BY <1>1, <1>2, OneChanged
<1>7. Cardinality(C) \in Nat
  BY <1>1, FS_CardinalityType
<1>8. QED
  BY <1>4, <1>5, <1>6, <1>7

\* An entry that names a frame is a use of it, and two are two.
LEMMA UsedLemma ==
  ASSUME NEW m, NEW f
  PROVE  /\ \A x \in Linear : m.pt[x].frame = f => UsesIn(m, f) >= 1
         /\ \A t \in Tables : m.pd[t] = f => UsesIn(m, f) >= 1
         /\ \A x, y \in Linear : x # y /\ m.pt[x].frame = f /\ m.pt[y].frame = f => UsesIn(m, f) >= 2
         /\ \A x \in Linear, t \in Tables : m.pt[x].frame = f /\ m.pd[t] = f => UsesIn(m, f) >= 2
<1> DEFINE A == {l \in Linear : m.pt[l].frame = f}
           B == {t \in Tables : m.pd[t] = f}
<1>1. IsFiniteSet(A) /\ IsFiniteSet(B)
  BY FiniteLemma, FS_Subset
<1>2. Cardinality(A) \in Nat /\ Cardinality(B) \in Nat
  BY <1>1, FS_CardinalityType
<1>3. UsesIn(m, f) = Cardinality(A) + Cardinality(B)
  BY DEF UsesIn
<1>4. (A # {} => Cardinality(A) >= 1) /\ (B # {} => Cardinality(B) >= 1)
  BY <1>1, <1>2, FS_EmptySet
<1>5. ASSUME NEW x \in A, NEW y \in A, x # y PROVE Cardinality(A) >= 2
  <2>1. Cardinality(A) # 0
    BY <1>1, FS_EmptySet
  <2>2. Cardinality(A) # 1
    <3>1. SUFFICES ASSUME Cardinality(A) = 1 PROVE FALSE
      OBVIOUS
    <3> HIDE DEF A
    <3>2. PICK z : A = {z}
      BY <1>1, <3>1, FS_Singleton
    <3>3. QED
      BY <1>5, <3>2
  <2>3. QED
    BY <1>2, <2>1, <2>2
<1>6. QED
  <2>1. \A x \in Linear : m.pt[x].frame = f => x \in A
    OBVIOUS
  <2>2. \A t \in Tables : m.pd[t] = f => t \in B
    OBVIOUS
  <2> HIDE DEF A, B
  <2>3. \A x \in Linear : m.pt[x].frame = f => UsesIn(m, f) >= 1
    BY <1>2, <1>3, <1>4, <2>1
  <2>4. \A t \in Tables : m.pd[t] = f => UsesIn(m, f) >= 1
    BY <1>2, <1>3, <1>4, <2>2
  <2>5. \A x, y \in Linear : x # y /\ m.pt[x].frame = f /\ m.pt[y].frame = f => UsesIn(m, f) >= 2
    BY <1>2, <1>3, <1>5, <2>1
  <2>6. \A x \in Linear, t \in Tables : m.pt[x].frame = f /\ m.pd[t] = f => UsesIn(m, f) >= 2
    BY <1>2, <1>3, <1>4, <2>1, <2>2
  <2>7. QED
    BY <2>3, <2>4, <2>5, <2>6

----------------------------------------------------------------------------
(* Frames                                                                   *)

LEMMA MemLemma ==
  ASSUME NEW m \in Mem
  PROVE  /\ m.pd \in [Tables -> Frames \cup {0}] /\ m.pt \in [Linear -> Entry]
         /\ m.page_table \in [Frames -> Nat] /\ m.mm_free_mem \in Int /\ m.ok \in BOOLEAN
         /\ \A t \in Tables : m.pd[t] \in Frames \cup {0}
         /\ \A l \in Linear : m.pt[l].frame \in Frames \cup {0} /\ m.pt[l].rw \in BOOLEAN
         /\ \A f \in Frames : m.page_table[f] \in Nat
BY DEF Mem, Entry

LEMMA FrameLemma == \A f \in Frames : f \in Nat /\ f # 0
BY NumbersLemma DEF Frames

LEMMA PanicGood ==
  ASSUME NEW m \in Goods
  PROVE  Panic(m) \in Goods /\ ~Panic(m).ok /\ Panic(m).pt = m.pt /\ Panic(m).pd = m.pd
<1> DEFINE n == Panic(m)
<1>1. /\ n \in Mem /\ ~n.ok /\ n.pd = m.pd /\ n.pt = m.pt
      /\ n.page_table = m.page_table /\ n.mm_free_mem = m.mm_free_mem
  BY DEF Goods, Mem, Panic
<1> HIDE DEF n
<1>2. \A f : UsesIn(n, f) = UsesIn(m, f)
  BY <1>1 DEF UsesIn
<1>3. FreeFrames(n) = FreeFrames(m)
  BY <1>1 DEF FreeFrames
<1>4. Counted(n)
  BY <1>1, <1>2 DEF Counted, Goods
<1>5. FreeCounted(n)
  BY <1>1, <1>3 DEF FreeCounted, Goods
<1>6. Tabled(n) /\ Private(n) /\ HolesFree(n)
  BY <1>1 DEF Tabled, Private, HolesFree, Goods
<1>7. n \in Goods
  BY <1>1, <1>4, <1>5, <1>6 DEF Goods
<1>8. QED
  BY <1>1, <1>7 DEF n

\* The free frames are counted when the count of one frame changes.
LEMMA FreeChanged ==
  ASSUME NEW m \in Mem, NEW n \in Mem, NEW f \in Frames, FreeCounted(m),
         \A g \in Frames \ {f} : n.page_table[g] = m.page_table[g],
         n.mm_free_mem = m.mm_free_mem + (IF n.page_table[f] = 0 THEN 1 ELSE 0)
                                       - (IF m.page_table[f] = 0 THEN 1 ELSE 0)
  PROVE  FreeCounted(n)
<1>1. IsFiniteSet(FreeFrames(m)) /\ IsFiniteSet(FreeFrames(n))
  BY FiniteLemma, FS_Subset DEF FreeFrames
<1>2. FreeFrames(m) \ {f} = FreeFrames(n) \ {f}
  BY DEF FreeFrames
<1>3. (f \in FreeFrames(m) <=> m.page_table[f] = 0) /\ (f \in FreeFrames(n) <=> n.page_table[f] = 0)
  BY DEF FreeFrames
<1>4. /\ Cardinality(FreeFrames(m)) \in Nat /\ Cardinality(FreeFrames(n)) \in Nat
      /\ Cardinality(FreeFrames(n)) = Cardinality(FreeFrames(m))
           + (IF f \in FreeFrames(n) THEN 1 ELSE 0) - (IF f \in FreeFrames(m) THEN 1 ELSE 0)
  BY <1>1, <1>2, OneChanged
<1>5. QED
  BY <1>3, <1>4 DEF FreeCounted

\* get_free_page takes a frame no entry names.
LEMMA GetFreePageLemma ==
  ASSUME NEW m \in Goods, FreeFrames(m) # {}
  PROVE  LET b == NextFrame(m)
             p == GetFreePage(m)
         IN /\ b \in Frames /\ m.page_table[b] = 0 /\ UsesIn(m, b) = 0
            /\ \A l \in Linear : m.pt[l].frame # b
            /\ \A t \in Tables : m.pd[t] # b
            /\ p \in Mem /\ p.pd = m.pd /\ p.pt = m.pt /\ p.ok = m.ok
            /\ p.page_table[b] = 1 /\ FreeCounted(p)
            /\ \A f \in Frames \ {b} : p.page_table[f] = m.page_table[f]
<1> DEFINE b == NextFrame(m)
           p == GetFreePage(m)
<1>1. b \in FreeFrames(m)
  <2>1. FreeFrames(m) \in SUBSET Nat
    BY FrameLemma DEF FreeFrames
  <2>2. QED
    BY <2>1, LeastLemma DEF NextFrame
<1>2. b \in Frames /\ m.page_table[b] = 0 /\ UsesIn(m, b) = 0
  BY <1>1 DEF FreeFrames, Goods, Counted
<1>3. /\ \A l \in Linear : m.pt[l].frame # b
      /\ \A t \in Tables : m.pd[t] # b
  BY <1>2, UsedLemma
<1>4. /\ p = [m EXCEPT !.page_table[b] = @ + 1, !.mm_free_mem = @ - 1]
  BY DEF GetFreePage
<1> HIDE DEF b, p
<1>5. /\ p \in Mem /\ p.pd = m.pd /\ p.pt = m.pt /\ p.ok = m.ok
      /\ p.page_table = [m.page_table EXCEPT ![b] = @ + 1]
      /\ p.mm_free_mem = m.mm_free_mem - 1
  <2>1. m.page_table \in [Frames -> Nat] /\ m.mm_free_mem \in Int /\ m.page_table[b] + 1 \in Nat
    BY <1>2, MemLemma DEF Goods
  <2>2. [m.page_table EXCEPT ![b] = @ + 1] \in [Frames -> Nat] /\ m.mm_free_mem - 1 \in Int
    <3>1. m.mm_free_mem - 1 \in Int
      BY <2>1
    <3>2. [m.page_table EXCEPT ![b] = @ + 1] \in [Frames -> Nat]
      BY <2>1
    <3>3. QED
      BY <3>1, <3>2
  <2>3. m = [pd |-> m.pd, pt |-> m.pt, page_table |-> m.page_table,
             mm_free_mem |-> m.mm_free_mem, ok |-> m.ok]
    BY DEF Mem, Goods
  <2>4. p = [pd |-> m.pd, pt |-> m.pt, page_table |-> [m.page_table EXCEPT ![b] = @ + 1],
             mm_free_mem |-> m.mm_free_mem - 1, ok |-> m.ok]
    BY <1>4, <2>3
  <2>5. QED
    BY <2>2, <2>4, MemLemma DEF Mem, Goods
<1>6. /\ p.page_table[b] = 1
      /\ \A f \in Frames \ {b} : p.page_table[f] = m.page_table[f]
  BY <1>2, <1>5, MemLemma DEF Goods
<1>7. FreeCounted(p)
  <2>1. m \in Mem /\ FreeCounted(m) /\ m.mm_free_mem \in Int
    BY MemLemma DEF Goods
  <2>2. p.mm_free_mem = m.mm_free_mem + 0 - 1
    BY <1>5, <2>1
  <2>3. QED
    BY <1>2, <1>5, <1>6, <2>1, <2>2, FreeChanged
<1>8. QED
  BY <1>2, <1>3, <1>5, <1>6, <1>7 DEF b, p

\* free_page takes one use off a frame that has one.
LEMMA FreePageLemma ==
  ASSUME NEW m \in Mem, NEW a \in Frames, m.page_table[a] >= 1, FreeCounted(m)
  PROVE  LET p == FreePage(m, a)
         IN /\ p \in Mem /\ p.pd = m.pd /\ p.pt = m.pt /\ p.ok = m.ok
            /\ p.page_table[a] = m.page_table[a] - 1 /\ FreeCounted(p)
            /\ \A f \in Frames \ {a} : p.page_table[f] = m.page_table[f]
<1> DEFINE p == FreePage(m, a)
<1>1. m.page_table[a] \in Nat /\ m.page_table[a] # 0
  BY MemLemma
<1>2. p = [m EXCEPT !.page_table[a] = @ - 1,
                    !.mm_free_mem = IF m.page_table[a] = 1 THEN @ + 1 ELSE @]
  BY <1>1 DEF FreePage
<1> HIDE DEF p
<1>3. /\ p \in Mem /\ p.pd = m.pd /\ p.pt = m.pt /\ p.ok = m.ok
      /\ p.page_table = [m.page_table EXCEPT ![a] = @ - 1]
      /\ p.mm_free_mem = IF m.page_table[a] = 1 THEN m.mm_free_mem + 1 ELSE m.mm_free_mem
  <2> DEFINE k == IF m.page_table[a] = 1 THEN m.mm_free_mem + 1 ELSE m.mm_free_mem
  <2>1. m.page_table \in [Frames -> Nat] /\ m.mm_free_mem \in Int /\ m.page_table[a] - 1 \in Nat
    BY <1>1, MemLemma
  <2>2. [m.page_table EXCEPT ![a] = @ - 1] \in [Frames -> Nat] /\ k \in Int
    BY <2>1
  <2>3. m = [pd |-> m.pd, pt |-> m.pt, page_table |-> m.page_table,
             mm_free_mem |-> m.mm_free_mem, ok |-> m.ok]
    BY DEF Mem
  <2>4. p = [pd |-> m.pd, pt |-> m.pt, page_table |-> [m.page_table EXCEPT ![a] = @ - 1],
             mm_free_mem |-> k, ok |-> m.ok]
    BY <1>2, <2>3
  <2> HIDE DEF k
  <2>5. /\ p \in Mem /\ p.pd = m.pd /\ p.pt = m.pt /\ p.ok = m.ok
        /\ p.page_table = [m.page_table EXCEPT ![a] = @ - 1] /\ p.mm_free_mem = k
    BY <2>2, <2>4, MemLemma DEF Mem
  <2>6. QED
    BY <2>5 DEF k
<1>4. /\ p.page_table[a] = m.page_table[a] - 1
      /\ \A f \in Frames \ {a} : p.page_table[f] = m.page_table[f]
  BY <1>3, MemLemma
<1>5. p.mm_free_mem = m.mm_free_mem + (IF p.page_table[a] = 0 THEN 1 ELSE 0)
                                    - (IF m.page_table[a] = 0 THEN 1 ELSE 0)
  BY <1>1, <1>3, <1>4, MemLemma
<1>6. FreeCounted(p)
  BY <1>3, <1>4, <1>5, FreeChanged
<1>7. QED
  BY <1>3, <1>4, <1>6 DEF p

\* The page table of a fault: nothing else changes, and it is there unless MM
\* panicked.
LEMMA EnsureTableLemma ==
  ASSUME NEW m \in Goods, NEW t \in Tables
  PROVE  LET n == EnsureTable(m, t)
         IN /\ n \in Goods /\ n.pt = m.pt /\ (n.ok => m.ok /\ n.pd[t] # 0)
            /\ \A u \in Tables : m.pd[u] # 0 => n.pd[u] = m.pd[u]
<1> DEFINE n == EnsureTable(m, t)
<1>1. CASE ~m.ok \/ m.pd[t] # 0
  BY <1>1 DEF EnsureTable
<1>2. CASE m.ok /\ m.pd[t] = 0 /\ FreeFrames(m) = {}
  BY <1>2, PanicGood DEF EnsureTable
<1>3. CASE m.ok /\ m.pd[t] = 0 /\ FreeFrames(m) # {}
  <2> DEFINE b == NextFrame(m)
             p == GetFreePage(m)
  <2>1. /\ b \in Frames /\ m.page_table[b] = 0 /\ UsesIn(m, b) = 0
        /\ p \in Mem /\ p.pd = m.pd /\ p.pt = m.pt /\ p.ok = m.ok
        /\ p.page_table[b] = 1 /\ FreeCounted(p)
        /\ \A f \in Frames \ {b} : p.page_table[f] = m.page_table[f]
    BY <1>3, GetFreePageLemma
  <2>2. n = [p EXCEPT !.pd[t] = b]
    BY <1>3 DEF EnsureTable
  <2> HIDE DEF n, p, b
  <2>3. /\ n \in Mem /\ n.pt = p.pt /\ n.ok = p.ok /\ n.page_table = p.page_table
        /\ n.mm_free_mem = p.mm_free_mem /\ n.pd = [p.pd EXCEPT ![t] = b]
    BY <2>1, <2>2 DEF Mem
  <2>4. n.pd[t] = b /\ b # 0 /\ \A u \in Tables \ {t} : n.pd[u] = m.pd[u]
    BY <2>1, <2>3, MemLemma, FrameLemma
  <2>5. Counted(n)
    <3>1. SUFFICES ASSUME NEW f \in Frames PROVE n.page_table[f] = UsesIn(n, f)
      BY DEF Counted
    <3>2. UsesIn(n, f) = UsesIn(m, f) + (IF b = f THEN 1 ELSE 0) - (IF 0 = f THEN 1 ELSE 0)
      <4>1. n.pt = m.pt /\ \A u \in Tables \ {t} : n.pd[u] = m.pd[u]
        BY <2>1, <2>3, <2>4
      <4>2. UsesIn(n, f) = UsesIn(m, f) + (IF n.pd[t] = f THEN 1 ELSE 0) - (IF m.pd[t] = f THEN 1 ELSE 0)
        BY <4>1, TableUses
      <4>3. QED
        BY <1>3, <2>4, <4>2
    <3>3. UsesIn(m, f) \in Nat /\ f # 0 /\ m.page_table[f] = UsesIn(m, f)
      BY UsesInNat, FrameLemma DEF Goods, Counted
    <3>4. n.page_table[f] = IF f = b THEN 1 ELSE m.page_table[f]
      BY <2>1, <2>3
    <3>5. QED
      BY <2>1, <3>2, <3>3, <3>4
  <2>6. FreeCounted(n)
    BY <2>1, <2>3 DEF FreeCounted, FreeFrames
  <2>7. Tabled(n)
    BY <2>1, <2>3, <2>4, TableLemma DEF Goods, Tabled
  <2>8. Private(n)
    <3>1. SUFFICES ASSUME NEW l \in Linear, m.pt[l].rw
                   PROVE  m.pt[l].frame \in Frames /\ n.page_table[m.pt[l].frame] = 1
      BY <2>1, <2>3 DEF Private
    <3>2. m.pt[l].frame \in Frames /\ m.page_table[m.pt[l].frame] = 1
      BY <3>1 DEF Goods, Private
    <3>3. QED
      BY <2>1, <2>3, <3>2
  <2>9. HolesFree(n)
    BY <2>1, <2>3 DEF Goods, HolesFree
  <2>10. n \in Goods
    BY <2>3, <2>5, <2>6, <2>7, <2>8, <2>9 DEF Goods
  <2>11. QED
    BY <1>3, <2>1, <2>3, <2>4, <2>10 DEF n
<1>4. QED
  <2>1. m.ok \in BOOLEAN
    BY MemLemma DEF Goods
  <2>2. QED
    BY <1>1, <1>2, <1>3, <2>1

----------------------------------------------------------------------------
(* Entries                                                                  *)

Holes == {va2la(r, Hole) : r \in Regions}

LEMMA HolesLemma ==
  /\ \A m : HolesFree(m) <=> \A l \in Holes : m.pt[l] = Absent
  /\ Holes \subseteq Linear
<1>1. \A m : HolesFree(m) <=> \A l \in Holes : m.pt[l] = Absent
  BY DEF HolesFree, Holes
<1>2. Holes \subseteq Linear
  BY HoleLemma, RegionLemma DEF Holes
<1>3. QED
  BY <1>1, <1>2

\* An entry that names no frame is as at boot.
LEMMA EmptyLemma ==
  ASSUME NEW m \in Goods, NEW l \in Linear, ~Present(m, l)
  PROVE  m.pt[l] = Absent /\ m.pt[l].frame = 0 /\ ~m.pt[l].rw
<1>1. m.pt[l] \in [frame : Frames \cup {0}, rw : BOOLEAN]
  BY MemLemma DEF Goods, Entry
<1>2. CASE m.pd[Table(l)] = 0
  BY <1>2 DEF Goods, Tabled, Absent
<1>3. CASE m.pt[l].frame = 0
  <2>1. ~m.pt[l].rw
    BY <1>3, FrameLemma DEF Goods, Private
  <2>2. m.pt[l] = [frame |-> m.pt[l].frame, rw |-> m.pt[l].rw] /\ m.pt[l].rw \in BOOLEAN
    BY <1>1
  <2>3. m.pt[l].rw = FALSE
    BY <2>1, <2>2
  <2>4. QED
    BY <1>3, <2>1, <2>2, <2>3 DEF Absent
<1>4. QED
  BY <1>2, <1>3 DEF Present

LEMMA CountedLemma ==
  ASSUME NEW m \in Goods, NEW n \in Mem, NEW x \in Linear, n.pd = m.pd,
         \A l \in Linear \ {x} : n.pt[l].frame = m.pt[l].frame,
         \A f \in Frames : n.page_table[f] = m.page_table[f]
           + (IF n.pt[x].frame = f THEN 1 ELSE 0) - (IF m.pt[x].frame = f THEN 1 ELSE 0)
  PROVE  Counted(n)
<1>1. SUFFICES ASSUME NEW f \in Frames PROVE n.page_table[f] = UsesIn(n, f)
  BY DEF Counted
<1>2. m.page_table[f] = UsesIn(m, f)
  BY DEF Goods, Counted
<1>3. UsesIn(n, f) = UsesIn(m, f) + (IF n.pt[x].frame = f THEN 1 ELSE 0)
                                  - (IF m.pt[x].frame = f THEN 1 ELSE 0)
  BY EntryUses
<1>4. QED
  BY <1>2, <1>3

\* A fresh page is put in the place of a page that has other users, or of none.
LEMMA FreshLemma ==
  ASSUME NEW m \in Goods, NEW x \in Linear \ Holes, m.pd[Table(x)] # 0, NEW b \in Frames,
         m.page_table[b] = 0, \A l \in Linear : m.pt[l].frame # b,
         m.pt[x].frame = 0 \/ m.page_table[m.pt[x].frame] >= 2,
         NEW n \in Mem, n.pd = m.pd, n.pt = [m.pt EXCEPT ![x] = [frame |-> b, rw |-> TRUE]],
         n.page_table[b] = 1, FreeCounted(n),
         \A f \in Frames \ {b} :
           n.page_table[f] = m.page_table[f] - (IF m.pt[x].frame = f THEN 1 ELSE 0)
  PROVE  n \in Goods
<1>1. /\ n.pt[x].frame = b /\ n.pt[x].rw
      /\ \A l \in Linear \ {x} : n.pt[l] = m.pt[l]
  BY MemLemma DEF Goods
<1>2. Counted(n)
  <2>1. \A f \in Frames : n.page_table[f] = m.page_table[f]
           + (IF n.pt[x].frame = f THEN 1 ELSE 0) - (IF m.pt[x].frame = f THEN 1 ELSE 0)
    <3>1. TAKE f \in Frames
    <3>2. m.page_table[f] \in Nat
      BY MemLemma DEF Goods
    <3>3. CASE f = b
      BY <1>1, <3>2, <3>3
    <3>4. CASE f # b
      BY <1>1, <3>2, <3>4
    <3>5. QED
      BY <3>3, <3>4
  <2>2. \A l \in Linear \ {x} : n.pt[l].frame = m.pt[l].frame
    BY <1>1
  <2>3. QED
    BY <2>1, <2>2, CountedLemma
<1>3. Tabled(n)
  BY <1>1 DEF Goods, Tabled
<1>4. Private(n)
  <2>1. SUFFICES ASSUME NEW l \in Linear, n.pt[l].rw
                 PROVE  n.pt[l].frame \in Frames /\ n.page_table[n.pt[l].frame] = 1
    BY DEF Private
  <2>2. CASE l = x
    BY <1>1, <2>2
  <2>3. CASE l # x
    <3>1. n.pt[l] = m.pt[l] /\ m.pt[l].frame \in Frames /\ m.page_table[m.pt[l].frame] = 1
      BY <1>1, <2>1, <2>3 DEF Goods, Private
    <3>2. m.pt[l].frame # b /\ m.pt[l].frame # m.pt[x].frame
      BY <3>1, FrameLemma
    <3>3. QED
      BY <3>1, <3>2
  <2>4. QED
    BY <2>2, <2>3
<1>5. HolesFree(n)
  <2>1. \A l \in Holes : n.pt[l] = m.pt[l]
    BY <1>1, HolesLemma
  <2>2. \A l \in Holes : m.pt[l] = Absent
    BY HolesLemma DEF Goods
  <2>3. QED
    BY <2>1, <2>2, HolesLemma
<1>6. QED
  BY <1>2, <1>3, <1>4, <1>5 DEF Goods

LEMMA DoNoPageLemma ==
  ASSUME NEW m \in Goods, NEW x \in Linear \ Holes, ~Present(m, x)
  PROVE  LET n == DoNoPage(m, x)
         IN n \in Goods /\ (n.ok => m.ok /\ Present(n, x) /\ n.pt[x].rw)
<1> DEFINE e == EnsureTable(m, Table(x))
           n == DoNoPage(m, x)
<1>1. /\ e \in Goods /\ e.pt = m.pt /\ (e.ok => m.ok /\ e.pd[Table(x)] # 0) /\ e.ok \in BOOLEAN
  BY TableLemma, EnsureTableLemma, MemLemma DEF Goods
<1>2. CASE ~e.ok \/ FreeFrames(e) = {}
  BY <1>1, <1>2, PanicGood DEF DoNoPage
<1>3. CASE e.ok /\ FreeFrames(e) # {}
  <2> DEFINE b == NextFrame(e)
             p == GetFreePage(e)
  <2>1. /\ b \in Frames /\ e.page_table[b] = 0 /\ \A l \in Linear : e.pt[l].frame # b
        /\ p \in Mem /\ p.pd = e.pd /\ p.pt = e.pt /\ p.ok = e.ok
        /\ p.page_table[b] = 1 /\ FreeCounted(p)
        /\ \A f \in Frames \ {b} : p.page_table[f] = e.page_table[f]
    BY <1>1, <1>3, GetFreePageLemma
  <2>2. n = [p EXCEPT !.pt[x] = [frame |-> b, rw |-> TRUE]]
    BY <1>3 DEF DoNoPage
  <2>3. e.pt[x].frame = 0 /\ e.pd[Table(x)] # 0
    BY <1>1, <1>3, EmptyLemma
  <2> HIDE DEF n, p, b, e
  <2>4. /\ n \in Mem /\ n.pd = p.pd /\ n.ok = p.ok /\ n.page_table = p.page_table
        /\ n.mm_free_mem = p.mm_free_mem
        /\ n.pt = [e.pt EXCEPT ![x] = [frame |-> b, rw |-> TRUE]]
    <3>1. [frame |-> b, rw |-> TRUE] \in Entry
      BY <2>1 DEF Entry
    <3>2. QED
      BY <2>1, <2>2, <3>1 DEF Mem
  <2>5. FreeCounted(n)
    BY <2>1, <2>4 DEF FreeCounted, FreeFrames
  <2>6. \A f \in Frames \ {b} :
          n.page_table[f] = e.page_table[f] - (IF e.pt[x].frame = f THEN 1 ELSE 0)
    BY <1>1, <2>1, <2>3, <2>4, FrameLemma, MemLemma DEF Goods
  <2>7. n \in Goods
    <3>1. n.pd = e.pd /\ n.page_table[b] = 1
      BY <2>1, <2>4
    <3>2. QED
      BY <1>1, <2>1, <2>3, <2>4, <2>5, <2>6, <3>1, FreshLemma
  <2>8. n.pt[x].frame = b /\ n.pt[x].rw /\ n.pd[Table(x)] # 0
    BY <1>1, <2>1, <2>3, <2>4, MemLemma DEF Goods
  <2>9. QED
    BY <1>1, <1>3, <2>7, <2>8, <2>1, FrameLemma DEF n, e, Present
<1>4. QED
  BY <1>1, <1>2, <1>3

LEMMA UnWpPageLemma ==
  ASSUME NEW m \in Goods, NEW x \in Linear, m.ok, Present(m, x)
  PROVE  LET n == UnWpPage(m, x)
         IN n \in Goods /\ (n.ok => Present(n, x) /\ n.pt[x].rw)
<1> DEFINE a == m.pt[x].frame
           n == UnWpPage(m, x)
<1>1. /\ a \in Frames /\ m.page_table[a] \in Nat /\ m.page_table[a] >= 1
      /\ m.page_table[a] = UsesIn(m, a) /\ m.pd[Table(x)] # 0
  <2>1. a \in Frames /\ m.pd[Table(x)] # 0
    BY MemLemma DEF Present, Goods
  <2>2. m.page_table[a] = UsesIn(m, a) /\ m.page_table[a] \in Nat
    BY <2>1, MemLemma DEF Goods, Counted
  <2>3. UsesIn(m, a) >= 1
    BY UsedLemma
  <2>4. QED
    BY <2>1, <2>2, <2>3
<1>2. CASE m.page_table[a] = 1
  <2>1. n = [m EXCEPT !.pt[x].rw = TRUE]
    BY <1>2 DEF UnWpPage
  <2> HIDE DEF n
  <2>2. [m.pt[x] EXCEPT !.rw = TRUE] = [frame |-> a, rw |-> TRUE] /\ [frame |-> a, rw |-> TRUE] \in Entry
    <3>1. m.pt[x] \in [frame : Frames \cup {0}, rw : BOOLEAN]
      BY MemLemma DEF Goods, Entry
    <3>2. [m.pt[x] EXCEPT !.rw = TRUE] = [frame |-> m.pt[x].frame, rw |-> TRUE]
      <4>1. PICK e : e = m.pt[x] /\ e \in [frame : Frames \cup {0}, rw : BOOLEAN]
        BY <3>1
      <4>2. e = [frame |-> e.frame, rw |-> e.rw]
        BY <4>1
      <4>3. \A g, w : [[frame |-> g, rw |-> w] EXCEPT !.rw = TRUE] = [frame |-> g, rw |-> TRUE]
        <5>1. \A g, w, t : [[frame |-> g, rw |-> w] EXCEPT !.rw = t] = [frame |-> g, rw |-> t]
          OBVIOUS
        <5>2. QED
          BY <5>1
      <4>4. QED
        BY <4>1, <4>2, <4>3
    <3>3. [frame |-> a, rw |-> TRUE] \in Entry
      BY <1>1 DEF Entry
    <3>4. QED
      BY <3>2, <3>3
  <2>3. /\ n \in Mem /\ n.pd = m.pd /\ n.ok = m.ok /\ n.page_table = m.page_table
        /\ n.mm_free_mem = m.mm_free_mem
        /\ n.pt = [m.pt EXCEPT ![x] = [frame |-> a, rw |-> TRUE]]
    BY <2>1, <2>2 DEF Mem, Goods
  <2>4. /\ n.pt[x].frame = a /\ n.pt[x].rw
        /\ \A l \in Linear \ {x} : n.pt[l] = m.pt[l]
        /\ \A l \in Linear : n.pt[l].frame = m.pt[l].frame
    BY <2>3, MemLemma DEF Goods
  <2>5. Counted(n)
    <3>1. \A f \in Frames : n.page_table[f] = m.page_table[f]
            + (IF n.pt[x].frame = f THEN 1 ELSE 0) - (IF m.pt[x].frame = f THEN 1 ELSE 0)
      BY <2>3, <2>4, MemLemma DEF Goods
    <3>2. QED
      BY <2>3, <2>4, <3>1, CountedLemma
  <2>6. FreeCounted(n)
    BY <2>3 DEF Goods, FreeCounted, FreeFrames
  <2>7. Tabled(n)
    BY <1>1, <2>3, <2>4 DEF Goods, Tabled
  <2>8. Private(n)
    BY <1>1, <1>2, <2>3, <2>4 DEF Goods, Private
  <2>9. HolesFree(n)
    <3>1. x \notin Holes
      BY <1>1, FrameLemma, HolesLemma DEF Goods, Absent
    <3>2. QED
      BY <2>4, <3>1, HolesLemma DEF Goods
  <2>10. QED
    BY <1>1, <2>3, <2>4, <2>5, <2>6, <2>7, <2>8, <2>9, FrameLemma DEF n, Goods, Present
<1>3. CASE m.page_table[a] # 1 /\ FreeFrames(m) = {}
  BY <1>3, PanicGood DEF UnWpPage
<1>4. CASE m.page_table[a] # 1 /\ FreeFrames(m) # {}
  <2> DEFINE b == NextFrame(m)
             p == GetFreePage(m)
  <2>1. /\ b \in Frames /\ m.page_table[b] = 0 /\ \A l \in Linear : m.pt[l].frame # b
        /\ p \in Mem /\ p.pd = m.pd /\ p.pt = m.pt /\ p.ok = m.ok
        /\ p.page_table[b] = 1 /\ FreeCounted(p)
        /\ \A f \in Frames \ {b} : p.page_table[f] = m.page_table[f]
    BY <1>4, GetFreePageLemma
  <2>2. n = [p EXCEPT !.pt[x] = [frame |-> b, rw |-> TRUE], !.page_table[a] = @ - 1]
    BY <1>4 DEF UnWpPage
  <2>3. a # b /\ m.page_table[a] >= 2 /\ x \notin Holes
    BY <1>1, <1>4, <2>1, FrameLemma, HolesLemma DEF Goods, Absent
  <2> HIDE DEF n, p, b, a
  <2>4. p.page_table[a] = m.page_table[a] /\ p.page_table[a] - 1 \in Nat
    BY <1>1, <2>1, <2>3
  <2>5. /\ n \in Mem /\ n.pd = p.pd /\ n.ok = p.ok /\ n.mm_free_mem = p.mm_free_mem
        /\ n.page_table = [p.page_table EXCEPT ![a] = p.page_table[a] - 1]
        /\ n.pt = [m.pt EXCEPT ![x] = [frame |-> b, rw |-> TRUE]]
    <3>1. [frame |-> b, rw |-> TRUE] \in Entry /\ p.pt \in [Linear -> Entry]
      BY <2>1, MemLemma DEF Entry
    <3>2. p.page_table \in [Frames -> Nat]
      BY <2>1, MemLemma
    <3>3. [p.page_table EXCEPT ![a] = p.page_table[a] - 1] \in [Frames -> Nat]
      BY <2>4, <3>2
    <3>4. [p.pt EXCEPT ![x] = [frame |-> b, rw |-> TRUE]] \in [Linear -> Entry]
      BY <3>1
    <3>5. p = [pd |-> p.pd, pt |-> p.pt, page_table |-> p.page_table,
               mm_free_mem |-> p.mm_free_mem, ok |-> p.ok]
      BY <2>1 DEF Mem
    <3>6. n = [pd |-> p.pd, pt |-> [p.pt EXCEPT ![x] = [frame |-> b, rw |-> TRUE]],
               page_table |-> [p.page_table EXCEPT ![a] = p.page_table[a] - 1],
               mm_free_mem |-> p.mm_free_mem, ok |-> p.ok]
      BY <2>2, <3>5
    <3>7. QED
      BY <2>1, <3>3, <3>4, <3>6, MemLemma DEF Mem
  <2>6. /\ n.page_table[a] = m.page_table[a] - 1 /\ n.page_table[b] = 1
        /\ \A f \in Frames \ {a, b} : n.page_table[f] = m.page_table[f]
    BY <1>1, <2>1, <2>3, <2>4, <2>5, MemLemma
  <2>7. FreeCounted(n)
    <3>1. /\ \A f \in Frames \ {a} : n.page_table[f] = p.page_table[f]
          /\ n.page_table[a] # 0 /\ p.page_table[a] # 0
      BY <1>1, <2>1, <2>3, <2>4, <2>5, <2>6
    <3>2. n.mm_free_mem = p.mm_free_mem + 0 - 0
      BY <2>1, <2>5, MemLemma
    <3>3. QED
      BY <1>1, <2>1, <2>5, <3>1, <3>2, FreeChanged
  <2>8. \A f \in Frames \ {b} :
          n.page_table[f] = m.page_table[f] - (IF m.pt[x].frame = f THEN 1 ELSE 0)
    <3>1. \A f \in Frames : m.page_table[f] \in Nat
      BY MemLemma DEF Goods
    <3>2. m.pt[x].frame = a
      BY DEF a
    <3>3. QED
      BY <2>6, <3>1, <3>2
  <2>9. n \in Goods
    <3>1. n.pd = m.pd /\ n.page_table[b] = 1 /\ x \in Linear \ Holes
      BY <2>1, <2>3, <2>5, <2>6
    <3>2. m.pt[x].frame = 0 \/ m.page_table[m.pt[x].frame] >= 2
      BY <2>3 DEF a
    <3>3. m.pd[Table(x)] # 0 /\ m.page_table[b] = 0 /\ b \in Frames /\ \A l \in Linear : m.pt[l].frame # b
      BY <1>1, <2>1
    <3>4. n \in Mem /\ n.pt = [m.pt EXCEPT ![x] = [frame |-> b, rw |-> TRUE]]
      BY <2>5
    <3>5. QED
      BY <2>7, <2>8, <3>1, <3>2, <3>3, <3>4, FreshLemma
  <2>10. n.pt[x].frame = b /\ n.pt[x].rw /\ n.pd[Table(x)] # 0
    BY <1>1, <2>1, <2>5, MemLemma DEF Goods
  <2>11. QED
    BY <2>1, <2>9, <2>10, FrameLemma DEF n, Present
<1>5. QED
  BY <1>2, <1>3, <1>4

\* The accesses of programs and tasks.
LEMMA TaskWriteLemma ==
  ASSUME NEW m \in Goods, NEW x \in Linear \ Holes
  PROVE  LET n == TaskWrite(m, x)
         IN /\ n \in Goods /\ (n.ok => m.ok /\ Present(n, x))
            /\ n.ok /\ (Present(m, x) => m.pt[x].rw) => n.pt[x].rw
<1>1. CASE ~m.ok \/ Present(m, x)
  BY <1>1 DEF TaskWrite
<1>2. CASE m.ok /\ ~Present(m, x)
  BY <1>2, DoNoPageLemma DEF TaskWrite
<1>3. QED
  BY <1>1, <1>2

LEMMA WriteVerifyLemma ==
  ASSUME NEW m \in Goods, NEW x \in Linear
  PROVE  LET n == WriteVerify(m, x)
         IN n \in Goods /\ (n.ok => (Present(n, x) => n.pt[x].rw))
<1>1. CASE ~m.ok \/ ~Present(m, x) \/ m.pt[x].rw
  BY <1>1 DEF WriteVerify
<1>2. CASE m.ok /\ Present(m, x) /\ ~m.pt[x].rw
  BY <1>2, UnWpPageLemma DEF WriteVerify
<1>3. QED
  BY <1>1, <1>2

LEMMA UserLemma ==
  ASSUME NEW m \in Goods, m.ok, NEW x \in Linear \ Holes
  PROVE  UserRead(m, x) \in Goods /\ UserWrite(m, x) \in Goods
<1>1. UserRead(m, x) \in Goods
  BY DoNoPageLemma DEF UserRead
<1>2. UserWrite(m, x) \in Goods
  BY DoNoPageLemma, UnWpPageLemma DEF UserWrite
<1>3. QED
  BY <1>1, <1>2

\* A page gets one more user, and none of them may write it.
LEMMA ShareLemma ==
  ASSUME NEW m \in Goods, NEW x \in Linear, NEW y \in Linear \ Holes, Present(m, x),
         m.pd[Table(y)] # 0, ~Present(m, y)
  PROVE  Share(m, x, y) \in Tighter(m)
<1> DEFINE a == m.pt[x].frame
           w == [frame |-> a, rw |-> FALSE]
           n == Share(m, x, y)
<1>1. /\ a \in Frames /\ m.page_table[a] \in Nat /\ m.page_table[a] = UsesIn(m, a)
      /\ m.pd[Table(x)] # 0 /\ m.page_table[a] >= 1 /\ x \notin Holes
  <2>1. a \in Frames /\ m.pd[Table(x)] # 0
    BY MemLemma DEF Present, Goods
  <2>2. m.page_table[a] = UsesIn(m, a) /\ m.page_table[a] \in Nat
    BY <2>1, MemLemma DEF Goods, Counted
  <2>3. UsesIn(m, a) >= 1
    BY UsedLemma
  <2>4. x \notin Holes
    BY <2>1, FrameLemma, HolesLemma DEF Goods, Absent
  <2>5. QED
    BY <2>1, <2>2, <2>3, <2>4
<1>2. x # y /\ m.pt[y].frame = 0
  BY EmptyLemma
<1>3. [m.pt[x] EXCEPT !.rw = FALSE] = w /\ w \in Entry
  <2>1. PICK e : e = m.pt[x] /\ e \in [frame : Frames \cup {0}, rw : BOOLEAN]
    BY MemLemma DEF Goods, Entry
  <2>2. e = [frame |-> e.frame, rw |-> e.rw] /\ e.frame = a
    BY <2>1
  <2>3. \A g, v : [[frame |-> g, rw |-> v] EXCEPT !.rw = FALSE] = [frame |-> g, rw |-> FALSE]
    <3>1. \A g, v, t : [[frame |-> g, rw |-> v] EXCEPT !.rw = t] = [frame |-> g, rw |-> t]
      OBVIOUS
    <3>2. QED
      BY <3>1
  <2>4. w \in Entry
    BY <1>1 DEF Entry
  <2> HIDE DEF a
  <2>5. QED
    BY <2>1, <2>2, <2>3, <2>4
<1>4. n = [m EXCEPT !.pt[x].rw = FALSE, !.pt[y] = w, !.page_table[a] = @ + 1]
  BY DEF Share
<1> HIDE DEF a, w, n
<1>5. /\ n \in Mem /\ n.pd = m.pd /\ n.ok = m.ok /\ n.mm_free_mem = m.mm_free_mem
      /\ n.page_table = [m.page_table EXCEPT ![a] = m.page_table[a] + 1]
      /\ n.pt = [[m.pt EXCEPT ![x] = w] EXCEPT ![y] = w]
  <2>1. m = [pd |-> m.pd, pt |-> m.pt, page_table |-> m.page_table,
             mm_free_mem |-> m.mm_free_mem, ok |-> m.ok]
    BY DEF Mem, Goods
  <2>2. n = [pd |-> m.pd, pt |-> [[m.pt EXCEPT ![x] = w] EXCEPT ![y] = w],
             page_table |-> [m.page_table EXCEPT ![a] = m.page_table[a] + 1],
             mm_free_mem |-> m.mm_free_mem, ok |-> m.ok]
    BY <1>3, <1>4, <2>1
  <2>3. [[m.pt EXCEPT ![x] = w] EXCEPT ![y] = w] \in [Linear -> Entry]
    BY <1>3, MemLemma DEF Goods
  <2>4. m.page_table \in [Frames -> Nat] /\ m.page_table[a] + 1 \in Nat
    BY <1>1, MemLemma DEF Goods
  <2>5. [m.page_table EXCEPT ![a] = m.page_table[a] + 1] \in [Frames -> Nat]
    BY <2>4
  <2>6. QED
    BY <2>2, <2>3, <2>5, MemLemma DEF Mem, Goods
<1>6. /\ n.pt[x] = w /\ n.pt[y] = w /\ w.frame = a /\ w.rw = FALSE
      /\ \A l \in Linear \ {x, y} : n.pt[l] = m.pt[l]
      /\ \A l \in Linear \ {y} : n.pt[l].frame = m.pt[l].frame
  <2>1. /\ n.pt[x] = w /\ n.pt[y] = w
        /\ \A l \in Linear \ {x, y} : n.pt[l] = m.pt[l]
    BY <1>2, <1>5, MemLemma DEF Goods
  <2>2. w.frame = a /\ w.rw = FALSE /\ m.pt[x].frame = a
    BY DEF w, a
  <2>3. QED
    BY <2>1, <2>2
<1>7. /\ n.page_table[a] = m.page_table[a] + 1
      /\ \A f \in Frames \ {a} : n.page_table[f] = m.page_table[f]
  BY <1>1, <1>5, MemLemma DEF Goods
<1>8. Counted(n)
  <2>1. \A f \in Frames : n.page_table[f] = m.page_table[f]
          + (IF n.pt[y].frame = f THEN 1 ELSE 0) - (IF m.pt[y].frame = f THEN 1 ELSE 0)
    <3>1. TAKE f \in Frames
    <3>2. m.page_table[f] \in Nat /\ m.pt[y].frame # f /\ n.pt[y].frame = a
      BY <1>2, <1>6, MemLemma, FrameLemma DEF Goods
    <3>3. QED
      BY <1>7, <3>2
  <2>2. QED
    BY <1>5, <1>6, <2>1, CountedLemma
<1>9. FreeCounted(n)
  <2>1. n.page_table[a] # 0 /\ m.page_table[a] # 0
    BY <1>1, <1>7
  <2>2. n.mm_free_mem = m.mm_free_mem + 0 - 0
    BY <1>5, MemLemma DEF Goods
  <2>3. m \in Mem /\ FreeCounted(m)
    BY DEF Goods
  <2>4. QED
    BY <1>1, <1>5, <1>7, <2>1, <2>2, <2>3, FreeChanged
<1>10. Tabled(n)
  BY <1>1, <1>5, <1>6 DEF Goods, Tabled
<1>11. Private(n)
  <2>1. SUFFICES ASSUME NEW l \in Linear, n.pt[l].rw
                 PROVE  n.pt[l].frame \in Frames /\ n.page_table[n.pt[l].frame] = 1
    BY DEF Private
  <2>2. l # x /\ l # y
    BY <1>6, <2>1
  <2>3. n.pt[l] = m.pt[l] /\ m.pt[l].frame \in Frames /\ m.page_table[m.pt[l].frame] = 1
    BY <1>6, <2>1, <2>2 DEF Goods, Private
  <2>4. m.pt[l].frame # a
    <3>1. SUFFICES ASSUME m.pt[l].frame = a PROVE FALSE
      OBVIOUS
    <3>2. m.pt[x].frame = a
      BY DEF a
    <3>3. UsesIn(m, a) >= 2
      BY <2>2, <3>1, <3>2, UsedLemma
    <3>4. QED
      BY <1>1, <2>3, <3>1, <3>3
  <2>5. QED
    BY <1>7, <2>3, <2>4
<1>12. HolesFree(n)
  <2>1. \A l \in Holes : n.pt[l] = m.pt[l]
    BY <1>1, <1>6, HolesLemma
  <2>2. \A l \in Holes : m.pt[l] = Absent
    BY HolesLemma DEF Goods
  <2>3. QED
    BY <2>1, <2>2, HolesLemma
<1>13. n \in Goods
  BY <1>5, <1>8, <1>9, <1>10, <1>11, <1>12 DEF Goods
<1>14. \A l \in Linear : n.pt[l].rw => n.pt[l] = m.pt[l]
  BY <1>6
<1>15. QED
  BY <1>13, <1>14 DEF n, Tighter

\* free_page_tables takes a page out of its table.
LEMMA FreeEntryLemma ==
  ASSUME NEW m \in Goods, NEW x \in Linear
  PROVE  LET n == FreeEntry(m, x)
         IN /\ n \in Goods /\ n.pd = m.pd /\ n.ok = m.ok /\ n.pt[x] = Absent
            /\ \A l \in Linear \ {x} : n.pt[l] = m.pt[l]
<1> DEFINE a == m.pt[x].frame
           n == FreeEntry(m, x)
           p == FreePage(m, a)
<1>1. CASE a = 0
  <2>1. n = m
    BY <1>1 DEF FreeEntry
  <2>2. m.pt[x] = Absent
    BY <1>1, EmptyLemma DEF Present
  <2>3. QED
    BY <2>1, <2>2
<1>2. CASE a # 0
  <2>1. /\ a \in Frames /\ m.page_table[a] \in Nat /\ m.page_table[a] = UsesIn(m, a)
        /\ m.page_table[a] >= 1 /\ m \in Mem /\ FreeCounted(m)
    <3>1. a \in Frames
      BY <1>2, MemLemma DEF Goods
    <3>2. m.page_table[a] = UsesIn(m, a) /\ m.page_table[a] \in Nat
      BY <3>1, MemLemma DEF Goods, Counted
    <3>3. UsesIn(m, a) >= 1
      BY UsedLemma
    <3>4. QED
      BY <3>1, <3>2, <3>3 DEF Goods
  <2>2. n = [p EXCEPT !.pt[x] = Absent]
    BY <1>2 DEF FreeEntry
  <2>3. /\ p \in Mem /\ p.pd = m.pd /\ p.pt = m.pt /\ p.ok = m.ok
        /\ p.page_table[a] = m.page_table[a] - 1 /\ FreeCounted(p)
        /\ \A f \in Frames \ {a} : p.page_table[f] = m.page_table[f]
    BY <2>1, FreePageLemma
  <2>4. m.pt[x].frame = a /\ a # 0
    BY <1>2
  <2> HIDE DEF a, n, p
  <2>5. Absent \in Entry /\ Absent.frame = 0 /\ Absent.rw = FALSE
    BY DEF Absent, Entry
  <2>6. /\ n \in Mem /\ n.pd = m.pd /\ n.ok = m.ok /\ n.page_table = p.page_table
        /\ n.mm_free_mem = p.mm_free_mem /\ n.pt = [m.pt EXCEPT ![x] = Absent]
    BY <2>2, <2>3, <2>5 DEF Mem
  <2>7. n.pt[x] = Absent /\ \A l \in Linear \ {x} : n.pt[l] = m.pt[l]
    BY <2>1, <2>6, MemLemma
  <2>8. Counted(n)
    <3>1. \A f \in Frames : n.page_table[f] = m.page_table[f]
            + (IF n.pt[x].frame = f THEN 1 ELSE 0) - (IF m.pt[x].frame = f THEN 1 ELSE 0)
      <4>1. TAKE f \in Frames
      <4>2. m.page_table[f] \in Nat /\ n.pt[x].frame # f
        BY <2>1, <2>5, <2>7, MemLemma, FrameLemma
      <4>3. CASE f = a
        BY <2>3, <2>4, <2>6, <4>2, <4>3
      <4>4. CASE f # a
        BY <2>3, <2>4, <2>6, <4>2, <4>4
      <4>5. QED
        BY <4>3, <4>4
    <3>2. \A l \in Linear \ {x} : n.pt[l].frame = m.pt[l].frame
      BY <2>7
    <3>3. QED
      BY <2>6, <3>1, <3>2, CountedLemma
  <2>9. FreeCounted(n)
    BY <2>3, <2>6 DEF FreeCounted, FreeFrames
  <2>10. Tabled(n)
    BY <2>6, <2>7 DEF Goods, Tabled
  <2>11. Private(n)
    <3>1. SUFFICES ASSUME NEW l \in Linear, n.pt[l].rw
                   PROVE  n.pt[l].frame \in Frames /\ n.page_table[n.pt[l].frame] = 1
      BY DEF Private
    <3>2. l # x
      BY <2>5, <2>7, <3>1
    <3>3. n.pt[l] = m.pt[l] /\ m.pt[l].frame \in Frames /\ m.page_table[m.pt[l].frame] = 1
      BY <2>7, <3>1, <3>2 DEF Goods, Private
    <3>4. m.pt[l].frame # a
      <4>1. SUFFICES ASSUME m.pt[l].frame = a PROVE FALSE
        OBVIOUS
      <4>2. UsesIn(m, a) >= 2
        BY <2>4, <3>2, <4>1, UsedLemma
      <4>3. QED
        BY <2>1, <3>3, <4>1, <4>2
    <3>5. QED
      BY <2>3, <2>6, <3>3, <3>4
  <2>12. HolesFree(n)
    <3>1. \A l \in Holes : n.pt[l] = Absent
      <4>1. \A l \in Holes : m.pt[l] = Absent /\ l \in Linear
        BY HolesLemma DEF Goods
      <4>2. QED
        BY <2>7, <4>1
    <3>2. QED
      BY <3>1, HolesLemma
  <2>13. n \in Goods
    BY <2>6, <2>8, <2>9, <2>10, <2>11, <2>12 DEF Goods
  <2>14. QED
    BY <2>6, <2>7, <2>13 DEF n
<1>3. QED
  BY <1>1, <1>2

\* An empty page table is given back.
LEMMA ReleaseLemma ==
  ASSUME NEW m \in Goods, NEW t \in Tables, m.pd[t] # 0,
         \A l \in Linear : Table(l) = t => m.pt[l] = Absent
  PROVE  LET n == [FreePage(m, m.pd[t]) EXCEPT !.pd[t] = 0]
         IN n \in Goods /\ n.ok = m.ok /\ n.pt = m.pt
<1> DEFINE a == m.pd[t]
           p == FreePage(m, a)
           n == [p EXCEPT !.pd[t] = 0]
<1>1. /\ a \in Frames /\ m.page_table[a] \in Nat /\ m.page_table[a] = UsesIn(m, a)
      /\ m.page_table[a] >= 1 /\ m \in Mem /\ FreeCounted(m)
  <2>1. a \in Frames
    BY MemLemma DEF Goods
  <2>2. m.page_table[a] = UsesIn(m, a) /\ m.page_table[a] \in Nat
    BY <2>1, MemLemma DEF Goods, Counted
  <2>3. UsesIn(m, a) >= 1
    BY UsedLemma
  <2>4. QED
    BY <2>1, <2>2, <2>3 DEF Goods
<1>2. /\ p \in Mem /\ p.pd = m.pd /\ p.pt = m.pt /\ p.ok = m.ok
      /\ p.page_table[a] = m.page_table[a] - 1 /\ FreeCounted(p)
      /\ \A f \in Frames \ {a} : p.page_table[f] = m.page_table[f]
  BY <1>1, FreePageLemma
<1>3. n = [p EXCEPT !.pd[t] = 0] /\ m.pd[t] = a
  OBVIOUS
<1> HIDE DEF a, n, p
<1>4. /\ n \in Mem /\ n.pt = m.pt /\ n.ok = m.ok /\ n.page_table = p.page_table
      /\ n.mm_free_mem = p.mm_free_mem /\ n.pd = [m.pd EXCEPT ![t] = 0]
  BY <1>2, <1>3 DEF Mem
<1>5. n.pd[t] = 0 /\ \A u \in Tables \ {t} : n.pd[u] = m.pd[u]
  BY <1>1, <1>4, MemLemma
<1>6. Counted(n)
  <2>1. SUFFICES ASSUME NEW f \in Frames PROVE n.page_table[f] = UsesIn(n, f)
    BY DEF Counted
  <2>2. UsesIn(n, f) = UsesIn(m, f) + (IF n.pd[t] = f THEN 1 ELSE 0) - (IF m.pd[t] = f THEN 1 ELSE 0)
    <3>1. n.pt = m.pt /\ \A u \in Tables \ {t} : n.pd[u] = m.pd[u]
      BY <1>4, <1>5
    <3>2. QED
      BY <3>1, TableUses
  <2>3. m.page_table[f] \in Nat /\ f # 0 /\ m.page_table[f] = UsesIn(m, f)
    BY MemLemma, FrameLemma DEF Goods, Counted
  <2>4. CASE f = a
    BY <1>2, <1>3, <1>4, <1>5, <2>2, <2>3, <2>4
  <2>5. CASE f # a
    BY <1>2, <1>3, <1>4, <1>5, <2>2, <2>3, <2>5
  <2>6. QED
    BY <2>4, <2>5
<1>7. FreeCounted(n)
  BY <1>2, <1>4 DEF FreeCounted, FreeFrames
<1>8. Tabled(n)
  <2>1. SUFFICES ASSUME NEW l \in Linear, n.pd[Table(l)] = 0 PROVE m.pt[l] = Absent
    BY <1>4 DEF Tabled
  <2>2. CASE Table(l) = t
    BY <2>2
  <2>3. CASE Table(l) # t
    BY <1>5, <2>1, <2>3, TableLemma DEF Goods, Tabled
  <2>4. QED
    BY <2>2, <2>3
<1>9. Private(n)
  <2>1. SUFFICES ASSUME NEW l \in Linear, m.pt[l].rw
                 PROVE  m.pt[l].frame \in Frames /\ n.page_table[m.pt[l].frame] = 1
    BY <1>4 DEF Private
  <2>2. m.pt[l].frame \in Frames /\ m.page_table[m.pt[l].frame] = 1
    BY <2>1 DEF Goods, Private
  <2>3. m.pt[l].frame # a
    <3>1. SUFFICES ASSUME m.pt[l].frame = a PROVE FALSE
      OBVIOUS
    <3>2. UsesIn(m, a) >= 2
      BY <1>3, <3>1, UsedLemma
    <3>3. QED
      BY <1>1, <2>2, <3>1, <3>2
  <2>4. QED
    BY <1>2, <1>4, <2>2, <2>3
<1>10. HolesFree(n)
  BY <1>4 DEF Goods, HolesFree
<1>11. n \in Goods
  BY <1>4, <1>6, <1>7, <1>8, <1>9, <1>10 DEF Goods
<1>12. QED
  BY <1>4, <1>11 DEF n, p, a

----------------------------------------------------------------------------
(* The routines with loops                                                  *)

\* A task may write any pages but the hole, and what it writes of a page that
\* is writable or absent is writable then.
LEMMA TaskWritesLemma ==
  ASSUME NEW m \in Goods, NEW r \in Regions, NEW pages, va2la(r, Hole) \notin pages
  PROVE  LET n == TaskWrites(m, r, pages)
         IN /\ n \in Goods
            /\ \A o \in Offsets :
                 LET x == va2la(r, o)
                 IN pages = {x} /\ (m.ok /\ Present(m, x) => m.pt[x].rw) => (n.ok => n.pt[x].rw)
<1>1. SUFFICES ASSUME NEW o \in Offsets
               PROVE  LET n == TaskWrites(m, r, pages)
                          x == va2la(r, o)
                      IN /\ n \in Goods
                         /\ pages = {x} /\ (m.ok /\ Present(m, x) => m.pt[x].rw) => (n.ok => n.pt[x].rw)
  <2>1. Offsets # {}
    BY HoleLemma
  <2>2. QED
    BY <2>1
<1> DEFINE x == va2la(r, o)
           H == pages = {x} /\ (m.ok /\ Present(m, x) => m.pt[x].rw)
           Step(n, i) == IF va2la(r, i - 1) \in pages THEN TaskWrite(n, va2la(r, i - 1)) ELSE n
           K(n, i) == H /\ n.ok => (Present(n, x) => n.pt[x].rw) /\ (o < i => n.pt[x].rw)
           M == [i \in 0..VM_SIZE |-> {n \in Goods : K(n, i)}]
           g == [y \in (1..VM_SIZE) \X Goods |-> Step(y[2], y[1])]
           F(h) == [i \in 0..VM_SIZE |-> IF i = 0 THEN m
                     ELSE IF va2la(r, i - 1) \in pages THEN TaskWrite(h[i - 1], va2la(r, i - 1))
                     ELSE h[i - 1]]
           at == CHOOSE h : h = F(h)
<1>2. VM_SIZE \in Nat /\ VM_SIZE >= 1 /\ o \in 0..VM_SIZE - 1 /\ Offsets = 0..VM_SIZE - 1
  BY NumbersLemma DEF Offsets
<1>3. TaskWrites(m, r, pages) = at[VM_SIZE]
  BY DEF TaskWrites
<1>4. \A i \in 0..VM_SIZE : \A n : n \in M[i] <=> n \in Goods /\ K(n, i)
  OBVIOUS
<1>5. \A i \in 1..VM_SIZE : \A n \in Goods : g[<<i, n>>] = Step(n, i)
  OBVIOUS
<1>6. \A h, i : i \in 0..VM_SIZE => F(h)[i] = IF i = 0 THEN m ELSE Step(h[i - 1], i)
  OBVIOUS
<1>7. \A h : F(h) = [i \in 0..VM_SIZE |-> IF i = 0 THEN m ELSE Step(h[i - 1], i)]
  OBVIOUS
<1>8. m \in M[0]
  <2>1. K(m, 0)
    BY <1>2
  <2> HIDE DEF M, K
  <2>2. QED
    BY <1>2, <1>4, <2>1
<1>9. ASSUME NEW i \in 1..VM_SIZE, NEW n \in M[i - 1] PROVE Step(n, i) \in M[i]
  <2>1. i - 1 \in 0..VM_SIZE /\ i \in 0..VM_SIZE /\ i - 1 \in Offsets
    BY <1>2
  <2>2. n \in Goods /\ K(n, i - 1)
    <3> HIDE DEF M, K, Step
    <3>1. QED
      BY <1>4, <1>9, <2>1
  <2>3. CASE va2la(r, i - 1) \in pages
    <3> DEFINE y == va2la(r, i - 1)
               e == TaskWrite(n, y)
    <3>1. y \in Linear \ Holes
      <4>1. y \in Linear
        BY <2>1, RegionLemma
      <4>2. SUFFICES ASSUME NEW s \in Regions, y = va2la(s, Hole) PROVE FALSE
        BY <4>1 DEF Holes
      <4>3. r = s /\ i - 1 = Hole
        <5> HIDE DEF M, K, Step
        <5>1. QED
          BY <2>1, <4>2, HoleLemma, RegionsApart
      <4>4. QED
        BY <2>3, <4>3
    <3>2. /\ e \in Goods /\ (e.ok => n.ok /\ Present(e, y))
          /\ e.ok /\ (Present(n, y) => n.pt[y].rw) => e.pt[y].rw
      BY <2>2, <3>1, TaskWriteLemma
    <3>3. H => y = x
      BY <2>3
    <3>4. Step(n, i) = e
      BY <2>3
    <3> HIDE DEF e, y, H, x
    <3>5. K(e, i)
      BY <2>2, <3>2, <3>3
    <3> HIDE DEF M, K, Step
    <3>6. QED
      BY <1>4, <2>1, <3>2, <3>4, <3>5
  <2>4. CASE va2la(r, i - 1) \notin pages
    <3>1. Step(n, i) = n
      BY <2>4
    <3>2. H => i - 1 # o
      BY <2>4
    <3> HIDE DEF H, x
    <3>3. K(n, i)
      BY <1>2, <2>2, <3>2
    <3> HIDE DEF M, K, Step
    <3>4. QED
      BY <1>4, <2>1, <2>2, <3>1, <3>3
  <2>5. QED
    BY <2>3, <2>4
<1> HIDE DEF M, Step, F, g
<1>10. \E h : h = F(h)
  <2>1. LoopStep(VM_SIZE, M, g)
    <3>1. SUFFICES ASSUME NEW i \in 1..VM_SIZE, NEW n \in M[i - 1] PROVE g[<<i, n>>] \in M[i]
      BY DEF LoopStep
    <3>2. i - 1 \in 0..VM_SIZE
      BY <1>2
    <3>3. n \in Goods
      BY <1>4, <3>2
    <3>4. QED
      BY <1>5, <1>9, <3>3
  <2>2. PICK f : LoopRuns(f, VM_SIZE, M, m, g)
    BY <1>2, <1>8, <2>1, LoopExists
  <2>3. /\ f = [i \in 0..VM_SIZE |-> f[i]] /\ f[0] = m
        /\ \A i \in 1..VM_SIZE : f[i - 1] \in M[i - 1] /\ f[i] = g[<<i, f[i - 1]>>]
    BY <2>2 DEF LoopRuns
  <2>4. ASSUME NEW i \in 0..VM_SIZE PROVE f[i] = IF i = 0 THEN m ELSE Step(f[i - 1], i)
    <3>1. CASE i = 0
      BY <2>3, <3>1
    <3>2. CASE i # 0
      <4>1. i \in 1..VM_SIZE /\ i - 1 \in 0..VM_SIZE
        BY <1>2, <3>2
      <4>2. f[i - 1] \in M[i - 1] /\ f[i] = g[<<i, f[i - 1]>>]
        BY <2>3, <4>1
      <4>3. f[i - 1] \in Goods
        BY <1>4, <4>1, <4>2
      <4>4. QED
        BY <1>5, <3>2, <4>1, <4>2, <4>3
    <3>3. QED
      BY <3>1, <3>2
  <2>5. f = [i \in 0..VM_SIZE |-> IF i = 0 THEN m ELSE Step(f[i - 1], i)]
    BY <2>3, <2>4
  <2>6. QED
    BY <1>7, <2>5
<1>11. at = F(at)
  BY <1>10
<1> HIDE DEF at
<1>12. at[0] \in M[0] /\ \A i \in 1..VM_SIZE : at[i] = Step(at[i - 1], i)
  <2>1. \A i \in 0..VM_SIZE : at[i] = IF i = 0 THEN m ELSE Step(at[i - 1], i)
    BY <1>6, <1>11
  <2>2. QED
    BY <1>2, <1>8, <2>1
<1>13. \A i \in 1..VM_SIZE : at[i - 1] \in M[i - 1] => at[i] \in M[i]
  BY <1>9, <1>12
<1>14. \A i \in 0..VM_SIZE : at[i] \in M[i]
  BY <1>2, <1>12, <1>13, LoopInduction
<1>15. at[VM_SIZE] \in Goods /\ K(at[VM_SIZE], VM_SIZE)
  <2> HIDE DEF K
  <2>1. QED
    BY <1>2, <1>4, <1>14
<1>16. QED
  BY <1>2, <1>3, <1>15

\* The first page of a written area is the only one verify_area makes private.
LEMMA VerifyAreaLemma ==
  ASSUME NEW m \in Goods, NEW a \in Nat, a \div PAGE_SIZE \in Linear
  PROVE  VerifyArea(m, a, PAGE_SIZE) = WriteVerify(m, a \div PAGE_SIZE)
<1> DEFINE page == a \div PAGE_SIZE
           rest == PAGE_SIZE + ((page * PAGE_SIZE) % PAGE_SIZE)
           rounds == (rest + PAGE_SIZE - 1) \div PAGE_SIZE
           F(h) == [i \in 0..rounds |-> IF i = 0 THEN m ELSE WriteVerify(h[i - 1], page + i - 1)]
           at == CHOOSE h : h = F(h)
<1>1. VerifyArea(m, a, PAGE_SIZE) = at[rounds]
  BY DEF VerifyArea
<1>2. page \in Nat /\ PAGE_SIZE \in Nat \ {0}
  BY TableLemma, NumbersLemma
<1>3. rest = PAGE_SIZE
  <2>1. 0 \in 0..PAGE_SIZE - 1
    BY <1>2
  <2>2. page * PAGE_SIZE + 0 = page * PAGE_SIZE
    <3>1. page * PAGE_SIZE \in Nat
      BY <1>2
    <3>2. QED
      BY <3>1
  <2>3. (page * PAGE_SIZE + 0) % PAGE_SIZE = 0
    BY <1>2, <2>1, DivLemma
  <2> HIDE DEF page
  <2>4. QED
    BY <1>2, <2>2, <2>3
<1>4. rounds = 1
  <2>1. PAGE_SIZE - 1 \in 0..PAGE_SIZE - 1 /\ 1 \in Nat
    BY <1>2
  <2>2. (1 * PAGE_SIZE + (PAGE_SIZE - 1)) \div PAGE_SIZE = 1
    BY <1>2, <2>1, DivLemma
  <2>3. 1 * PAGE_SIZE + (PAGE_SIZE - 1) = rest + PAGE_SIZE - 1
    <3> HIDE DEF rest
    <3>1. QED
      BY <1>2, <1>3
  <2> HIDE DEF rest
  <2>4. QED
    BY <2>2, <2>3
<1> HIDE DEF page, rounds
<1>5. \E h : h = F(h)
  <2> DEFINE f == [i \in 0..rounds |-> IF i = 0 THEN m ELSE WriteVerify(m, page + i - 1)]
  <2>1. f[0] = m
    BY <1>4
  <2>2. \A i \in 0..rounds : i # 0 => i - 1 = 0
    BY <1>4
  <2>3. \A i \in 0..rounds : (IF i = 0 THEN m ELSE WriteVerify(f[i - 1], page + i - 1))
                               = IF i = 0 THEN m ELSE WriteVerify(m, page + i - 1)
    <3> HIDE DEF f
    <3>1. QED
      BY <2>1, <2>2
  <2>4. F(f) = f
    BY <2>3
  <2>5. QED
    BY <2>4
<1>6. at = F(at)
  <2> HIDE DEF F
  <2>1. QED
    BY <1>5
<1>7. 0 \in 0..rounds /\ 1 \in 0..rounds
  BY <1>4
<1> HIDE DEF at
<1>8. at[0] = m /\ at[1] = WriteVerify(at[0], page + 1 - 1)
  BY <1>6, <1>7
<1>9. page + 1 - 1 = page
  BY <1>2
<1>10. QED
  BY <1>1, <1>4, <1>8, <1>9 DEF page

\* copy_on_write ends at the hole, before the region's end.
LEMMA CopyRoundLemma ==
  ASSUME NEW p \in Regions, NEW r \in Regions, NEW m0 \in Goods,
         NEW a \in [m : Tighter(m0), pos : 0..Hole]
  PROVE  CopyRound(a, Base(p), Base(r)) \in [m : Tighter(m0), pos : 0..Hole]
<1> DEFINE x == Base(p) + a.pos
           y == Base(r) + a.pos
           e == EnsureTable(a.m, Table(x))
           m == EnsureTable(e, Table(y))
<1>1. /\ a.m \in Tighter(m0) /\ a.m \in Goods
      /\ a.pos \in 0..Hole /\ a = [m |-> a.m, pos |-> a.pos]
  BY TighterLemma
<1>2. a.pos \in Offsets /\ a.pos \in Nat /\ Hole \in Nat
  BY <1>1, HoleLemma, NumbersLemma DEF Offsets
<1>3. x = va2la(p, a.pos) /\ y = va2la(r, a.pos) /\ x \in Linear /\ y \in Linear
  BY <1>2, RegionLemma
<1>4. e \in Goods /\ e.pt = a.m.pt
  BY <1>1, <1>3, TableLemma, EnsureTableLemma
<1>5. m \in Goods /\ m.pt = e.pt /\ (m.ok => m.pd[Table(y)] # 0) /\ m.ok \in BOOLEAN
  BY <1>3, <1>4, TableLemma, EnsureTableLemma, MemLemma DEF Goods
<1>6. CopyRound(a, Base(p), Base(r)) =
        IF ~m.ok \/ ~Present(m, x) THEN [a EXCEPT !.m = m]
        ELSE IF Present(m, y) THEN [a EXCEPT !.m = Panic(m)]
        ELSE [m |-> Share(m, x, y), pos |-> Advance(a.pos)]
  BY DEF CopyRound
<1> HIDE DEF m, x, y, e
<1>11. \A n \in Goods : n \in Tighter(m) \/ n.pt = m.pt => n \in Tighter(m0)
  <2>1. m \in Tighter(a.m)
    BY <1>1, <1>4, <1>5, TighterLemma
  <2>2. m \in Tighter(m0)
    BY <1>1, <2>1, TighterLemma
  <2>3. QED
    BY <1>5, <2>2, TighterLemma
<1>7. CASE ~m.ok \/ ~Present(m, x)
  BY <1>1, <1>5, <1>6, <1>7, <1>11
<1>8. CASE m.ok /\ Present(m, x) /\ Present(m, y)
  <2>1. Panic(m) \in Tighter(m0)
    BY <1>5, <1>11, PanicGood
  <2>2. QED
    BY <1>1, <1>5, <1>6, <1>8, <2>1
<1>9. CASE m.ok /\ Present(m, x) /\ ~Present(m, y)
  <2>1. x \notin Holes
    BY <1>5, <1>9, FrameLemma, HolesLemma DEF Goods, Present, Absent
  <2>2. a.pos # Hole
    BY <1>3, <2>1 DEF Holes
  <2>3. y \notin Holes
    <3>1. SUFFICES ASSUME NEW s \in Regions, y = va2la(s, Hole) PROVE FALSE
      BY DEF Holes
    <3>2. QED
      <4>1. a.pos = Hole
        <5>1. PICK q : q = a.pos
          OBVIOUS
        <5>2. q \in Offsets /\ Hole \in Offsets /\ va2la(r, q) = va2la(s, Hole)
          BY <1>2, <1>3, <3>1, <5>1, HoleLemma
        <5> HIDE DEF Hole
        <5>3. q = Hole
          BY <5>2, RegionsApart
        <5>4. QED
          BY <5>1, <5>3
      <4>2. QED
        BY <2>2, <4>1
  <2>4. Share(m, x, y) \in Tighter(m0)
    <3>1. Share(m, x, y) \in Tighter(m)
      BY <1>3, <1>5, <1>9, <2>3, ShareLemma
    <3>2. QED
      BY <1>5, <1>11, <3>1, TighterLemma
  <2>5. Advance(a.pos) \in 0..Hole
    <3>1. a.pos < Hole
      BY <1>1, <1>2, <2>2
    <3>2. CASE (a.pos + 1) % NR_ENTRY_PER_PAGE = NR_ENTRY_PER_PAGE - 1
      <4>1. a.pos + 1 # Hole
        BY <3>2, HoleLemma
      <4>2. Advance(a.pos) = a.pos + 2
        BY <3>2 DEF Advance
      <4> HIDE DEF Hole
      <4>3. QED
        BY <1>2, <3>1, <4>1, <4>2
    <3>3. CASE (a.pos + 1) % NR_ENTRY_PER_PAGE # NR_ENTRY_PER_PAGE - 1
      <4>1. Advance(a.pos) = a.pos + 1
        BY <3>3 DEF Advance
      <4> HIDE DEF Hole
      <4>2. QED
        BY <1>2, <3>1, <4>1
    <3>4. QED
      BY <3>2, <3>3
  <2>6. QED
    BY <1>6, <1>9, <2>4, <2>5
<1>10. QED
  BY <1>5, <1>7, <1>8, <1>9

LEMMA CopyOnWriteLemma ==
  ASSUME NEW m \in Goods, NEW p \in Regions, NEW r \in Regions
  PROVE  CopyOnWrite(m, Base(p), Base(r)) \in Tighter(m)
<1> DEFINE D == [m : Tighter(m), pos : 0..Hole]
           x0 == [m |-> m, pos |-> 0]
           Step(n, i) == CopyRound(n, Base(p), Base(r))
           M == [i \in 0..VM_SIZE |-> D]
           g == [y \in (1..VM_SIZE) \X D |-> Step(y[2], y[1])]
           F(h) == [i \in 0..VM_SIZE |-> IF i = 0 THEN [m |-> m, pos |-> 0]
                                         ELSE CopyRound(h[i - 1], Base(p), Base(r))]
           at == CHOOSE h : h = F(h)
<1>2. VM_SIZE \in Nat /\ VM_SIZE >= 1
  BY NumbersLemma
<1>3. CopyOnWrite(m, Base(p), Base(r)) = at[VM_SIZE].m
  BY DEF CopyOnWrite
<1>4. \A i \in 0..VM_SIZE : M[i] = D
  OBVIOUS
<1>5. \A i \in 1..VM_SIZE : \A n \in D : g[<<i, n>>] = Step(n, i)
  OBVIOUS
<1>6. \A h, i : i \in 0..VM_SIZE => F(h)[i] = IF i = 0 THEN x0 ELSE Step(h[i - 1], i)
  OBVIOUS
<1>7. \A h : F(h) = [i \in 0..VM_SIZE |-> IF i = 0 THEN x0 ELSE Step(h[i - 1], i)]
  OBVIOUS
<1>8. x0 \in M[0]
  BY <1>2, HoleLemma, TighterLemma
<1>9. ASSUME NEW i \in 1..VM_SIZE, NEW n \in M[i - 1] PROVE Step(n, i) \in M[i]
  <2>1. i - 1 \in 0..VM_SIZE /\ i \in 0..VM_SIZE
    BY <1>2
  <2>2. n \in D
    BY <1>4, <1>9, <2>1
  <2>3. Step(n, i) \in D
    BY <2>2, CopyRoundLemma
  <2>4. QED
    BY <1>4, <2>1, <2>3
<1> HIDE DEF D, x0
<1> HIDE DEF M, Step, F, g
<1>10. \E h : h = F(h)
  <2>1. LoopStep(VM_SIZE, M, g)
    <3>1. SUFFICES ASSUME NEW i \in 1..VM_SIZE, NEW n \in M[i - 1] PROVE g[<<i, n>>] \in M[i]
      BY DEF LoopStep
    <3>2. i - 1 \in 0..VM_SIZE
      BY <1>2
    <3>3. n \in D
      BY <1>4, <3>2
    <3>4. QED
      BY <1>5, <1>9, <3>3
  <2>2. PICK f : LoopRuns(f, VM_SIZE, M, x0, g)
    BY <1>2, <1>8, <2>1, LoopExists
  <2>3. /\ f = [i \in 0..VM_SIZE |-> f[i]] /\ f[0] = x0
        /\ \A i \in 1..VM_SIZE : f[i - 1] \in M[i - 1] /\ f[i] = g[<<i, f[i - 1]>>]
    BY <2>2 DEF LoopRuns
  <2>4. ASSUME NEW i \in 0..VM_SIZE PROVE f[i] = IF i = 0 THEN x0 ELSE Step(f[i - 1], i)
    <3>1. CASE i = 0
      BY <2>3, <3>1
    <3>2. CASE i # 0
      <4>1. i \in 1..VM_SIZE /\ i - 1 \in 0..VM_SIZE
        BY <1>2, <3>2
      <4>2. f[i - 1] \in M[i - 1] /\ f[i] = g[<<i, f[i - 1]>>]
        BY <2>3, <4>1
      <4>3. f[i - 1] \in D
        BY <1>4, <4>1, <4>2
      <4>4. QED
        BY <1>5, <3>2, <4>1, <4>2, <4>3
    <3>3. QED
      BY <3>1, <3>2
  <2>5. f = [i \in 0..VM_SIZE |-> IF i = 0 THEN x0 ELSE Step(f[i - 1], i)]
    BY <2>3, <2>4
  <2>6. QED
    BY <1>7, <2>5
<1>11. at = F(at)
  BY <1>10
<1> HIDE DEF at
<1>12. at[0] \in M[0] /\ \A i \in 1..VM_SIZE : at[i] = Step(at[i - 1], i)
  <2>1. \A i \in 0..VM_SIZE : at[i] = IF i = 0 THEN x0 ELSE Step(at[i - 1], i)
    BY <1>6, <1>11
  <2>2. QED
    BY <1>2, <1>8, <2>1
<1>13. \A i \in 1..VM_SIZE : at[i - 1] \in M[i - 1] => at[i] \in M[i]
  BY <1>9, <1>12
<1>14. \A i \in 0..VM_SIZE : at[i] \in M[i]
  BY <1>2, <1>12, <1>13, LoopInduction
<1>15. at[VM_SIZE] \in D
  BY <1>2, <1>4, <1>14
<1>16. QED
  BY <1>3, <1>15 DEF D

\* free_page_tables empties a table of region r and gives it back.
LEMMA FreeEntriesLemma ==
  ASSUME NEW m \in Goods, NEW r \in Regions, NEW j \in 0..NrTables - 1, NEW t, t = r * NrTables + j
  PROVE  LET n == FreeEntries(m, t)
         IN /\ n \in Tighter(m) /\ n.pd = m.pd /\ n.ok = m.ok
            /\ \A l \in Linear : Table(l) = t => n.pt[l] = Absent
<1> DEFINE N == NR_ENTRY_PER_PAGE
           b == t * N
           Step(n, i) == FreeEntry(n, b + i - 1)
           K(n, i) == /\ n.pd = m.pd /\ n.ok = m.ok
                      /\ \A k \in 1..i : n.pt[b + k - 1] = Absent
                      /\ \A l \in Linear : n.pt[l].rw => n.pt[l] = m.pt[l]
           M == [i \in 0..N |-> {n \in Goods : K(n, i)}]
           g == [y \in (1..N) \X Goods |-> Step(y[2], y[1])]
           F(h) == [i \in 0..N |-> IF i = 0 THEN m ELSE FreeEntry(h[i - 1], t * N + i - 1)]
           at == CHOOSE h : h = F(h)
<1>1. b \in Nat /\ t \in Nat /\ \A i \in 1..N : b + i - 1 \in Linear
  BY RegionTables, NumbersLemma
<1>2. N \in Nat /\ N >= 1
  BY NumbersLemma
<1>3. FreeEntries(m, t) = at[N]
  BY DEF FreeEntries
<1>4. \A i \in 0..N : \A n : n \in M[i] <=> n \in Goods /\ K(n, i)
  OBVIOUS
<1>5. \A i \in 1..N : \A n \in Goods : g[<<i, n>>] = Step(n, i)
  OBVIOUS
<1>6. \A h, i : i \in 0..N => F(h)[i] = IF i = 0 THEN m ELSE Step(h[i - 1], i)
  OBVIOUS
<1>7. \A h : F(h) = [i \in 0..N |-> IF i = 0 THEN m ELSE Step(h[i - 1], i)]
  OBVIOUS
<1> HIDE DEF N, b
<1>8. m \in M[0]
  <2>1. K(m, 0)
    OBVIOUS
  <2> HIDE DEF M, K
  <2>2. QED
    BY <1>2, <1>4, <2>1
<1>9. ASSUME NEW i \in 1..N, NEW n \in M[i - 1] PROVE Step(n, i) \in M[i]
  <2>1. i - 1 \in 0..N /\ i \in 0..N
    BY <1>2
  <2>2. n \in Goods /\ K(n, i - 1)
    <3> HIDE DEF M, K, Step
    <3>1. QED
      BY <1>4, <1>9, <2>1
  <2> DEFINE e == FreeEntry(n, b + i - 1)
  <2>3. /\ e \in Goods /\ e.pd = n.pd /\ e.ok = n.ok /\ e.pt[b + i - 1] = Absent
        /\ \A l \in Linear \ {b + i - 1} : e.pt[l] = n.pt[l]
    BY <1>1, <2>2, FreeEntryLemma
  <2>4. Step(n, i) = e
    OBVIOUS
  <2> HIDE DEF e
  <2>5. K(e, i)
    <3>1. ASSUME NEW k \in 1..i PROVE e.pt[b + k - 1] = Absent
      <4>1. CASE k = i
        BY <2>3, <4>1
      <4>2. CASE k # i
        <5>1. k \in 1..i - 1 /\ k \in 1..N /\ b + k - 1 # b + i - 1
          BY <1>1, <1>2, <4>2
        <5>2. e.pt[b + k - 1] = n.pt[b + k - 1]
          BY <1>1, <2>3, <5>1
        <5>3. QED
          BY <2>2, <5>1, <5>2
      <4>3. QED
        BY <4>1, <4>2
    <3>2. ASSUME NEW l \in Linear, e.pt[l].rw PROVE e.pt[l] = m.pt[l]
      <4>1. l # b + i - 1
        BY <2>3, <3>2 DEF Absent
      <4>2. QED
        BY <2>2, <2>3, <3>2, <4>1
    <3>3. QED
      BY <2>2, <2>3, <3>1, <3>2
  <2> HIDE DEF M, K, Step
  <2>6. QED
    BY <1>4, <2>1, <2>3, <2>4, <2>5
<1> HIDE DEF M, Step, F, g
<1>10. \E h : h = F(h)
  <2>1. LoopStep(N, M, g)
    <3>1. SUFFICES ASSUME NEW i \in 1..N, NEW n \in M[i - 1] PROVE g[<<i, n>>] \in M[i]
      BY DEF LoopStep
    <3>2. i - 1 \in 0..N
      BY <1>2
    <3>3. n \in Goods
      BY <1>4, <3>2
    <3>4. QED
      BY <1>5, <1>9, <3>3
  <2>2. PICK f : LoopRuns(f, N, M, m, g)
    BY <1>2, <1>8, <2>1, LoopExists
  <2>3. /\ f = [i \in 0..N |-> f[i]] /\ f[0] = m
        /\ \A i \in 1..N : f[i - 1] \in M[i - 1] /\ f[i] = g[<<i, f[i - 1]>>]
    BY <2>2 DEF LoopRuns
  <2>4. ASSUME NEW i \in 0..N PROVE f[i] = IF i = 0 THEN m ELSE Step(f[i - 1], i)
    <3>1. CASE i = 0
      BY <2>3, <3>1
    <3>2. CASE i # 0
      <4>1. i \in 1..N /\ i - 1 \in 0..N
        BY <1>2, <3>2
      <4>2. f[i - 1] \in M[i - 1] /\ f[i] = g[<<i, f[i - 1]>>]
        BY <2>3, <4>1
      <4>3. f[i - 1] \in Goods
        BY <1>4, <4>1, <4>2
      <4>4. QED
        BY <1>5, <3>2, <4>1, <4>2, <4>3
    <3>3. QED
      BY <3>1, <3>2
  <2>5. f = [i \in 0..N |-> IF i = 0 THEN m ELSE Step(f[i - 1], i)]
    BY <2>3, <2>4
  <2>6. QED
    BY <1>7, <2>5
<1>11. at = F(at)
  BY <1>10
<1> HIDE DEF at
<1>12. at[0] \in M[0] /\ \A i \in 1..N : at[i] = Step(at[i - 1], i)
  <2>1. \A i \in 0..N : at[i] = IF i = 0 THEN m ELSE Step(at[i - 1], i)
    BY <1>6, <1>11
  <2>2. QED
    BY <1>2, <1>8, <2>1
<1>13. \A i \in 1..N : at[i - 1] \in M[i - 1] => at[i] \in M[i]
  BY <1>9, <1>12
<1>14. \A i \in 0..N : at[i] \in M[i]
  BY <1>2, <1>12, <1>13, LoopInduction
<1>15. at[N] \in Goods /\ K(at[N], N)
  <2> HIDE DEF K
  <2>1. QED
    BY <1>2, <1>4, <1>14
<1>16. ASSUME NEW l \in Linear, Table(l) = t PROVE at[N].pt[l] = Absent
  <2>1. PICK i \in 1..N : l = b + i - 1
    BY <1>16, TableLemma DEF b, N
  <2>2. QED
    BY <1>15, <2>1
<1>17. QED
  BY <1>3, <1>15, <1>16 DEF Tighter

LEMMA FreeTableLemma ==
  ASSUME NEW m \in Goods, NEW r \in Regions, NEW j \in 0..NrTables - 1, NEW t, t = r * NrTables + j,
         m.pd[t] # 0
  PROVE  FreeTable(m, t) \in Tighter(m)
<1> DEFINE n == FreeEntries(m, t)
<1>1. /\ n \in Tighter(m) /\ n \in Goods /\ n.pd = m.pd
      /\ \A l \in Linear : Table(l) = t => n.pt[l] = Absent
  BY FreeEntriesLemma, TighterLemma
<1>2. t \in Tables
  BY RegionTables
<1>3. FreeTable(m, t) = [FreePage(n, n.pd[t]) EXCEPT !.pd[t] = 0]
  BY DEF FreeTable
<1> HIDE DEF n
<1>4. FreeTable(m, t) \in Goods /\ FreeTable(m, t).pt = n.pt
  <2>1. n \in Goods /\ n.pd[t] # 0
    BY <1>1
  <2> DEFINE k == [FreePage(n, n.pd[t]) EXCEPT !.pd[t] = 0]
  <2>2. k \in Goods /\ k.pt = n.pt
    BY <1>1, <1>2, <2>1, ReleaseLemma
  <2> HIDE DEF k
  <2>3. FreeTable(m, t) = k
    BY <1>3 DEF k
  <2>4. QED
    BY <2>2, <2>3
<1>5. QED
  BY <1>1, <1>4, TighterLemma

\* The cursor of free_page_tables stays on the tables of the region.
LEMMA FreePageTablesLemma ==
  ASSUME NEW m \in Goods, NEW r \in Regions
  PROVE  FreePageTables(m, Base(r)) \in Tighter(m)
<1> DEFINE D == [m : Tighter(m), t : Nat]
           s == r * NrTables
           x0 == [m |-> m, t |-> Table(Base(r))]
           Step(n, i) == FreeRound(n)
           M == [i \in 0..NrTables |-> {n \in D : n.t >= s /\ n.t <= s + i}]
           g == [y \in (1..NrTables) \X D |-> Step(y[2], y[1])]
           F(h) == [i \in 0..NrTables |-> IF i = 0 THEN [m |-> m, t |-> Table(Base(r))]
                                         ELSE FreeRound(h[i - 1])]
           at == CHOOSE h : h = F(h)
<1>2. NrTables \in Nat /\ NrTables >= 1
  BY NumbersLemma
<1>3. FreePageTables(m, Base(r)) = at[NrTables].m
  BY DEF FreePageTables
<1>4. \A i \in 0..NrTables : \A n : n \in M[i] <=> n \in D /\ n.t >= s /\ n.t <= s + i
  OBVIOUS
<1>5. \A i \in 1..NrTables : \A n \in D : g[<<i, n>>] = Step(n, i)
  OBVIOUS
<1>6. \A h, i : i \in 0..NrTables => F(h)[i] = IF i = 0 THEN x0 ELSE Step(h[i - 1], i)
  OBVIOUS
<1>7. \A h : F(h) = [i \in 0..NrTables |-> IF i = 0 THEN x0 ELSE Step(h[i - 1], i)]
  OBVIOUS
<1>8. x0 \in M[0]
  <2>1. s \in Nat /\ x0.t = s /\ x0 \in D
    BY RegionLemma, RegionStart, TighterLemma
  <2> HIDE DEF M, s, x0, D
  <2>2. x0.t >= s /\ x0.t <= s + 0 /\ 0 \in 0..NrTables
    BY <1>2, <2>1
  <2>3. QED
    BY <1>4, <2>1, <2>2
<1>9. ASSUME NEW i \in 1..NrTables, NEW n \in M[i - 1] PROVE Step(n, i) \in M[i]
  <2>1. i - 1 \in 0..NrTables /\ i \in 0..NrTables /\ s \in Nat
    BY <1>2, RegionLemma
  <2>2. n \in D /\ n.t >= s /\ n.t <= s + (i - 1)
    <3> HIDE DEF M, s, D
    <3>1. QED
      BY <1>4, <1>9, <2>1
  <2>3. Step(n, i) = IF n.m.pd[n.t] = 0 THEN n ELSE [m |-> FreeTable(n.m, n.t), t |-> n.t + 1]
    BY DEF FreeRound
  <2>4. n.m \in Tighter(m) /\ n.m \in Goods /\ n.t \in Nat
    BY <2>2, TighterLemma
  <2>5. CASE n.m.pd[n.t] = 0
    <3> HIDE DEF s, D
    <3>1. Step(n, i) = n /\ n.t <= s + i
      BY <2>1, <2>2, <2>3, <2>4, <2>5
    <3> HIDE DEF M, Step
    <3>2. QED
      BY <1>4, <2>1, <2>2, <3>1
  <2>6. CASE n.m.pd[n.t] # 0
    <3> DEFINE j == n.t - s
               e == FreeTable(n.m, n.t)
    <3>1. j \in 0..NrTables - 1 /\ n.t = s + j
      <4> HIDE DEF s, D
      <4>1. QED
        BY <1>2, <2>1, <2>2, <2>4
    <3>2. n.t = r * NrTables + j
      BY <3>1
    <3> HIDE DEF j, e
    <3>3. e \in Tighter(m)
      <4>1. e \in Tighter(n.m)
        BY <2>4, <2>6, <3>1, <3>2, FreeTableLemma DEF e
      <4>2. QED
        BY <2>4, <4>1, TighterLemma
    <3>4. Step(n, i) = [m |-> e, t |-> n.t + 1]
      BY <2>3, <2>6 DEF e
    <3>5. [m |-> e, t |-> n.t + 1] \in D
      BY <2>4, <3>3
    <3> HIDE DEF s, D, Step
    <3>6. Step(n, i).t >= s /\ Step(n, i).t <= s + i
      BY <2>1, <2>2, <2>4, <3>4
    <3> HIDE DEF M
    <3>7. QED
      BY <1>4, <2>1, <3>4, <3>5, <3>6
  <2>7. QED
    BY <2>5, <2>6
<1> HIDE DEF D, x0, s
<1> HIDE DEF M, Step, F, g
<1>10. \E h : h = F(h)
  <2>1. LoopStep(NrTables, M, g)
    <3>1. SUFFICES ASSUME NEW i \in 1..NrTables, NEW n \in M[i - 1] PROVE g[<<i, n>>] \in M[i]
      BY DEF LoopStep
    <3>2. i - 1 \in 0..NrTables
      BY <1>2
    <3>3. n \in D
      BY <1>4, <3>2
    <3>4. QED
      BY <1>5, <1>9, <3>3
  <2>2. PICK f : LoopRuns(f, NrTables, M, x0, g)
    BY <1>2, <1>8, <2>1, LoopExists
  <2>3. /\ f = [i \in 0..NrTables |-> f[i]] /\ f[0] = x0
        /\ \A i \in 1..NrTables : f[i - 1] \in M[i - 1] /\ f[i] = g[<<i, f[i - 1]>>]
    BY <2>2 DEF LoopRuns
  <2>4. ASSUME NEW i \in 0..NrTables PROVE f[i] = IF i = 0 THEN x0 ELSE Step(f[i - 1], i)
    <3>1. CASE i = 0
      BY <2>3, <3>1
    <3>2. CASE i # 0
      <4>1. i \in 1..NrTables /\ i - 1 \in 0..NrTables
        BY <1>2, <3>2
      <4>2. f[i - 1] \in M[i - 1] /\ f[i] = g[<<i, f[i - 1]>>]
        BY <2>3, <4>1
      <4>3. f[i - 1] \in D
        BY <1>4, <4>1, <4>2
      <4>4. QED
        BY <1>5, <3>2, <4>1, <4>2, <4>3
    <3>3. QED
      BY <3>1, <3>2
  <2>5. f = [i \in 0..NrTables |-> IF i = 0 THEN x0 ELSE Step(f[i - 1], i)]
    BY <2>3, <2>4
  <2>6. QED
    BY <1>7, <2>5
<1>11. at = F(at)
  BY <1>10
<1> HIDE DEF at
<1>12. at[0] \in M[0] /\ \A i \in 1..NrTables : at[i] = Step(at[i - 1], i)
  <2>1. \A i \in 0..NrTables : at[i] = IF i = 0 THEN x0 ELSE Step(at[i - 1], i)
    BY <1>6, <1>11
  <2>2. QED
    BY <1>2, <1>8, <2>1
<1>13. \A i \in 1..NrTables : at[i - 1] \in M[i - 1] => at[i] \in M[i]
  BY <1>9, <1>12
<1>14. \A i \in 0..NrTables : at[i] \in M[i]
  BY <1>2, <1>12, <1>13, LoopInduction
<1>15. at[NrTables] \in D
  BY <1>2, <1>4, <1>14
<1>16. QED
  BY <1>3, <1>15 DEF D

----------------------------------------------------------------------------
(* The invariant                                                            *)

\* Whether MM has panicked or not: a panic leaves the memory as it was.
IInv == memory \in Goods /\ in_use \subseteq Regions /\ Hidden(memory, tlb)

\* What fork and free_page_tables take back leads to no page to write.
LEMMA SupersededLemma ==
  ASSUME NEW m \in Goods, NEW n \in Tighter(m), NEW stale, Hidden(m, stale)
  PROVE  Hidden(n, Superseded(m, n, stale))
<1> DEFINE S == [page : Linear, frame : Frames, rw : BOOLEAN]
<1>1. n \in Goods /\ \A l \in Linear : n.pt[l].rw => n.pt[l] = m.pt[l]
  BY DEF Tighter
<1>2. ASSUME NEW e \in stale PROVE e \in S /\ ~n.pt[e.page].rw
  <2>1. e \in S /\ ~m.pt[e.page].rw
    BY <1>2 DEF Hidden
  <2>2. e.page \in Linear
    BY <2>1
  <2> HIDE DEF S
  <2>3. QED
    BY <1>1, <2>1, <2>2
<1>3. ASSUME NEW l \in Linear, Present(m, l),
             NEW e, e = [page |-> l, frame |-> m.pt[l].frame, rw |-> m.pt[l].rw],
             e \notin Translations(n)
      PROVE  e \in S /\ ~n.pt[e.page].rw
  <2>1. m.pt[l].frame \in Frames /\ m.pt[l].rw \in BOOLEAN
    BY <1>3, MemLemma DEF Goods, Present
  <2>2. e.page = l /\ e \in S
    BY <1>3, <2>1
  <2>3. SUFFICES ASSUME n.pt[l].rw PROVE FALSE
    BY <2>2
  <2>4. n.pt[l] = m.pt[l] /\ n.pt[l].frame \in Frames
    BY <1>1, <2>1, <2>3
  <2>5. Present(n, l)
    BY <1>1, <2>3, EmptyLemma
  <2>6. QED
    BY <1>3, <2>4, <2>5 DEF Translations
<1>4. ASSUME NEW e \in Superseded(m, n, stale) PROVE e \in S /\ ~n.pt[e.page].rw
  <2>1. e \notin Translations(n) /\ (e \in stale \/ e \in Translations(m))
    BY DEF Superseded
  <2>2. CASE e \in stale
    BY <1>2, <2>2
  <2>3. CASE e \in Translations(m)
    <3>1. PICK l \in Linear : /\ Present(m, l)
                              /\ e = [page |-> l, frame |-> m.pt[l].frame, rw |-> m.pt[l].rw]
      BY <2>3 DEF Translations
    <3>2. QED
      BY <1>3, <2>1, <3>1
  <2>4. QED
    BY <2>1, <2>2, <2>3
<1>5. QED
  BY <1>4 DEF Hidden

\* A fault leaves no stale translation, or leaves all as it is.
LEMMA HiddenLemma ==
  ASSUME NEW m, NEW stale, Hidden(m, stale)
  PROVE  /\ \A n : Hidden(n, AfterFaults(m, n, stale))
         /\ \A some \in Kept(stale) : Hidden(m, some)
<1>1. \A n : Hidden(n, {})
  BY DEF Hidden
<1>2. \A n : Hidden(n, AfterFaults(m, n, stale))
  BY <1>1 DEF AfterFaults
<1>3. \A some \in Kept(stale) : Hidden(m, some)
  BY DEF Kept, Hidden
<1>4. QED
  BY <1>2, <1>3

LEMMA TouchedLemma ==
  ASSUME NEW r \in Regions, NEW o \in Touched
  PROVE  o \in Offsets /\ va2la(r, o) \in Linear \ Holes
<1>1. o \in Offsets
  BY PageMemAssumption
<1>2. va2la(r, o) \in Linear
  BY <1>1, RegionLemma
<1>3. SUFFICES ASSUME NEW s \in Regions, va2la(r, o) = va2la(s, Hole) PROVE FALSE
  BY <1>1, <1>2 DEF Holes
<1>4. o = Hole
  BY <1>1, <1>3, HoleLemma, RegionsApart
<1>5. QED
  BY <1>4, HoleLemma

LEMMA AreaLemma ==
  ASSUME NEW r \in Regions, NEW a \in Areas(r)
  PROVE  /\ a \in Nat
         /\ a \div PAGE_SIZE \in PagesWritten(a, PAGE_SIZE)
         /\ \A l \in PagesWritten(a, PAGE_SIZE) : \E o \in Touched : l = va2la(r, o)
         /\ a % PAGE_SIZE = 0 => PagesWritten(a, PAGE_SIZE) = {a \div PAGE_SIZE}
<1> DEFINE P == PAGE_SIZE
<1>1. P \in Nat \ {0}
  BY NumbersLemma
<1>2. PICK o \in Touched, b \in {0, 1} : a = (Base(r) + o) * P + b
  BY DEF Areas
<1>3. Base(r) + o \in Nat
  <2>1. o \in 0..VM_SIZE - 1 /\ VM_SIZE \in Nat /\ Base(r) \in Nat
    BY TouchedLemma, RegionLemma, NumbersLemma DEF Offsets
  <2>2. QED
    BY <2>1
<1>4. a \in Nat
  <2>1. (Base(r) + o) * P \in Nat
    BY <1>1, <1>3
  <2>2. QED
    BY <1>2, <2>1
<1>5. \A l \in PagesWritten(a, PAGE_SIZE) : \E q \in Touched : l = va2la(r, q)
  <2>1. PagesWritten(a, PAGE_SIZE) \subseteq {Base(r) + q : q \in Touched}
    BY DEF Areas
  <2>2. QED
    BY <2>1 DEF va2la
<1>6. PICK q \in Nat, k \in 0..P - 1 : a \div P = q /\ a % P = k /\ a = q * P + k
  <2>1. a \div P \in Nat /\ a % P \in 0..P - 1 /\ a = (a \div P) * P + (a % P)
    BY <1>1, <1>4, DivLemma
  <2>2. QED
    BY <2>1
<1>7. q * P \in Nat /\ (q + 1) * P = q * P + P
  BY <1>1, <1>6
<1>8. CASE k = 0
  <2>1. a + P - 1 = q * P + (P - 1) /\ P - 1 \in 0..P - 1
    BY <1>1, <1>6, <1>7, <1>8
  <2>2. (q * P + (P - 1)) \div P = q
    BY <1>1, <1>6, <2>1, DivLemma
  <2>3. PagesWritten(a, P) = q..q
    BY <1>6, <2>1, <2>2 DEF PagesWritten
  <2>4. q..q = {q}
    OBVIOUS
  <2>5. QED
    BY <1>4, <1>5, <1>6, <2>3, <2>4
<1>9. CASE k # 0
  <2>1. a + P - 1 = (q + 1) * P + (k - 1) /\ k - 1 \in 0..P - 1 /\ q + 1 \in Nat
    BY <1>1, <1>6, <1>7, <1>9
  <2>2. ((q + 1) * P + (k - 1)) \div P = q + 1
    BY <1>1, <2>1, DivLemma
  <2>3. PagesWritten(a, P) = q..(q + 1)
    BY <1>6, <2>1, <2>2 DEF PagesWritten
  <2>4. q \in q..(q + 1) /\ a % P # 0
    BY <1>6, <1>9
  <2>5. QED
    BY <1>4, <1>5, <1>6, <2>3, <2>4
<1>10. QED
  BY <1>8, <1>9

\* A page a program uses is an area of its own.
LEMMA PageIsArea ==
  ASSUME NEW r \in Regions, NEW o \in Touched, NEW l, l = va2la(r, o),
         NEW a, a = l * PAGE_SIZE
  PROVE  a \in Areas(r) /\ PagesWritten(a, PAGE_SIZE) = {l} /\ a % PAGE_SIZE = 0
<1> DEFINE P == PAGE_SIZE
<1>1. P \in Nat \ {0} /\ l \in Nat /\ l = Base(r) + o
  <2>1. o \in 0..VM_SIZE - 1 /\ VM_SIZE \in Nat /\ Base(r) \in Nat
    BY TouchedLemma, RegionLemma, NumbersLemma DEF Offsets
  <2>2. QED
    BY <2>1, NumbersLemma DEF va2la
<1>2. a \in Nat /\ a = l * P + 0 /\ a + P - 1 = l * P + (P - 1) /\ {0, P - 1} \subseteq 0..P - 1
  <2>1. l * P \in Nat
    BY <1>1
  <2>2. QED
    BY <1>1, <2>1
<1>3. a \div P = l /\ a % P = 0 /\ (a + P - 1) \div P = l
  <2>1. (l * P + 0) \div P = l /\ (l * P + 0) % P = 0
    BY <1>1, <1>2, DivLemma
  <2>2. (l * P + (P - 1)) \div P = l
    BY <1>1, <1>2, DivLemma
  <2>3. QED
    BY <1>2, <2>1, <2>2
<1>4. PagesWritten(a, P) = {l}
  <2>1. PagesWritten(a, P) = l..l
    BY <1>3 DEF PagesWritten
  <2>2. QED
    BY <1>1, <2>1
<1>5. a = (Base(r) + o) * P + 0
  BY <1>1, <1>2
<1>6. a \in Areas(r)
  BY <1>1, <1>4, <1>5 DEF Areas
<1>7. QED
  BY <1>3, <1>4, <1>6

LEMMA AreaHole ==
  ASSUME NEW r \in Regions, NEW a \in Areas(r)
  PROVE  va2la(r, Hole) \notin PagesWritten(a, PAGE_SIZE)
<1>1. SUFFICES ASSUME NEW q \in Touched, va2la(r, Hole) = va2la(r, q) PROVE FALSE
  BY AreaLemma
<1>2. QED
  BY <1>1, TouchedLemma DEF Holes

\* What is stored for a program is in good memory, and, when it starts on a page
\* that no stale translation hides, in a page the program may write.
LEMMA StoresLemma ==
  ASSUME NEW m \in Goods, NEW r \in Regions, NEW a \in Areas(r), NEW stale,
         NEW v, v = VerifyArea(m, a, PAGE_SIZE), NEW pages, pages = PagesWritten(a, PAGE_SIZE),
         NEW hit \in Slips(v, pages, AfterFaults(m, v, stale)),
         NEW n, n = TaskWrites(v, r, pages \ hit)
  PROVE  /\ n \in Goods
         /\ \A l \in pages :
              a % PAGE_SIZE = 0 /\ n.ok /\ (Present(m, l) \/ Stale({l}, stale) = {})
                => l \in Linear /\ n.pt[l].rw
<1> DEFINE x == a \div PAGE_SIZE
<1>1. PICK o \in Touched : x = va2la(r, o)
  BY AreaLemma
<1>2. x \in Linear /\ o \in Offsets
  BY <1>1, TouchedLemma
<1>3. v = WriteVerify(m, x) /\ v \in Goods /\ (v.ok => (Present(v, x) => v.pt[x].rw))
  BY <1>2, AreaLemma, VerifyAreaLemma, WriteVerifyLemma
<1>4. va2la(r, Hole) \notin pages \ hit
  BY AreaHole
<1>5. a % PAGE_SIZE = 0 => pages = {x}
  BY AreaLemma
<1> HIDE DEF x
<1>6. /\ n \in Goods
      /\ pages \ hit = {x} /\ (v.ok /\ Present(v, x) => v.pt[x].rw) => (n.ok => n.pt[x].rw)
  BY <1>1, <1>2, <1>3, <1>4, TaskWritesLemma
<1>7. ASSUME a % PAGE_SIZE = 0, n.ok, Present(m, x) \/ Stale({x}, stale) = {}
      PROVE  n.pt[x].rw
  <2>1. x \notin hit
    <3>1. SUFFICES ASSUME x \in hit PROVE FALSE
      OBVIOUS
    <3>2. x \in Stale(pages, AfterFaults(m, v, stale)) /\ ~Present(v, x)
      BY <3>1 DEF Slips
    <3>3. v = m
      BY <3>2 DEF AfterFaults, Stale
    <3>4. Stale({x}, stale) # {}
      BY <3>2, <3>3 DEF AfterFaults, Stale
    <3>5. QED
      BY <1>7, <3>2, <3>3, <3>4
  <2>2. pages \ hit = {x}
    BY <1>5, <1>7, <2>1
  <2>3. QED
    BY <1>3, <1>6, <1>7, <2>2
<1>8. QED
  BY <1>2, <1>5, <1>6, <1>7

\* At boot nothing is used.
LEMMA InitLemma == Init => IInv
<1> DEFINE m == MemoryAtBoot
<1>1. /\ m.pd = [t \in Tables |-> 0] /\ m.pt = [l \in Linear |-> Absent]
      /\ m.page_table = [f \in Frames |-> 0] /\ m.mm_free_mem = nr_page
      /\ m \in Mem
  <2>1. Absent \in Entry
    BY DEF Absent, Entry
  <2>2. QED
    BY <2>1, NumbersLemma DEF MemoryAtBoot, Mem
<1>2. Absent.frame = 0 /\ ~Absent.rw
  BY DEF Absent
<1> HIDE DEF m
<1>3. Counted(m)
  <2>1. SUFFICES ASSUME NEW f \in Frames PROVE UsesIn(m, f) = 0
    BY <1>1 DEF Counted
  <2> DEFINE A == {l \in Linear : m.pt[l].frame = f}
             B == {t \in Tables : m.pd[t] = f}
  <2>2. A = {} /\ B = {}
    BY <1>1, <1>2, FrameLemma
  <2>3. Cardinality({}) = 0
    BY FS_EmptySet
  <2>4. UsesIn(m, f) = Cardinality(A) + Cardinality(B)
    BY DEF UsesIn
  <2> HIDE DEF A, B
  <2>5. QED
    BY <2>2, <2>3, <2>4
<1>4. FreeCounted(m)
  <2>1. FreeFrames(m) = Frames
    BY <1>1 DEF FreeFrames
  <2>2. QED
    BY <1>1, <2>1, FiniteLemma DEF FreeCounted
<1>5. Tabled(m) /\ Private(m)
  BY <1>1, <1>2 DEF Tabled, Private
<1>6. HolesFree(m)
  BY <1>1, HolesLemma
<1>7. m \in Goods
  BY <1>1, <1>3, <1>4, <1>5, <1>6 DEF Goods
<1>8. QED
  BY <1>7 DEF Init, IInv, Hidden, m

LEMMA StepLemma == IInv /\ [Next]_vars => IInv'
<1>1. SUFFICES ASSUME IInv, Next
               PROVE  memory' \in Goods /\ in_use' \subseteq Regions /\ Hidden(memory', tlb')
  BY DEF IInv, vars
<1>2. memory \in Goods /\ in_use \subseteq Regions /\ Hidden(memory, tlb)
  BY <1>1 DEF IInv
<1>3. PICK r \in Regions :
        \/ \E o \in Touched : Reads(r, o) \/ Writes(r, o) \/ WritesStale(r, o)
        \/ \E a \in Areas(r) : Stores(r, a, PAGE_SIZE) \/ StoresBlindly(r, a, PAGE_SIZE)
        \/ ForkInit(r)
        \/ \E p \in Regions : Fork(p, r)
        \/ \E last \in Touched : Exec(r, {o \in Touched : o <= last})
        \/ Exit(r)
  BY <1>1 DEF Next
<1>4. CASE \E o \in Touched : Reads(r, o) \/ Writes(r, o)
  <2>1. PICK o \in Touched : Reads(r, o) \/ Writes(r, o)
    BY <1>4
  <2>2. va2la(r, o) \in Linear \ Holes
    BY TouchedLemma
  <2>3. /\ memory.ok /\ in_use' = in_use /\ tlb' = AfterFaults(memory, memory', tlb)
        /\ memory' = UserRead(memory, va2la(r, o)) \/ memory' = UserWrite(memory, va2la(r, o))
    BY <2>1 DEF Reads, Writes
  <2>4. QED
    BY <1>2, <2>2, <2>3, UserLemma, HiddenLemma
<1>5. CASE \E o \in Touched : WritesStale(r, o)
  <2>1. PICK o \in Touched : WritesStale(r, o)
    BY <1>5
  <2>2. va2la(r, o) \in Linear
    BY TouchedLemma
  <2>3. /\ memory.ok /\ in_use' = in_use /\ tlb' = {}
        /\ memory' = IF Present(memory, va2la(r, o)) THEN UnWpPage(memory, va2la(r, o))
                     ELSE Panic(memory)
    BY <2>1 DEF WritesStale
  <2>4. memory' \in Goods
    BY <1>2, <2>2, <2>3, UnWpPageLemma, PanicGood
  <2>5. QED
    BY <1>2, <2>3, <2>4 DEF Hidden
<1>6. CASE \E a \in Areas(r) : Stores(r, a, PAGE_SIZE)
  <2>1. PICK a \in Areas(r) : Stores(r, a, PAGE_SIZE)
    BY <1>6
  <2>2. PICK v, pages : v = VerifyArea(memory, a, PAGE_SIZE) /\ pages = PagesWritten(a, PAGE_SIZE)
    OBVIOUS
  <2>3. PICK hit \in Slips(v, pages, AfterFaults(memory, v, tlb)) :
          /\ memory' = TaskWrites(v, r, pages \ hit)
          /\ tlb' = AfterFaults(v, memory', AfterFaults(memory, v, tlb))
    BY <2>1, <2>2 DEF Stores
  <2>4. memory' \in Goods
    BY <1>2, <2>2, <2>3, StoresLemma
  <2>5. Hidden(v, AfterFaults(memory, v, tlb))
    BY <1>2, HiddenLemma
  <2>6. Hidden(memory', tlb')
    BY <2>3, <2>5, HiddenLemma
  <2>7. QED
    BY <1>2, <2>1, <2>4, <2>6 DEF Stores
<1>7. CASE \E a \in Areas(r) : StoresBlindly(r, a, PAGE_SIZE)
  <2>1. PICK a \in Areas(r) : StoresBlindly(r, a, PAGE_SIZE)
    BY <1>7
  <2>2. PICK pages : /\ va2la(r, Hole) \notin pages /\ memory' = TaskWrites(memory, r, pages)
                     /\ tlb' = AfterFaults(memory, memory', tlb)
    BY <2>1, AreaHole DEF StoresBlindly
  <2>3. memory' \in Goods
    BY <1>2, <2>2, TaskWritesLemma
  <2>4. QED
    BY <1>2, <2>1, <2>2, <2>3, HiddenLemma DEF StoresBlindly
<1>8. CASE ForkInit(r)
  <2> DEFINE image == Base(r)..Base(r) + InitImage - 1
  <2>1. va2la(r, Hole) \notin image
    <3>1. /\ va2la(r, Hole) = Base(r) + Hole /\ Base(r) \in Nat /\ Hole \in Nat
          /\ InitImage \in Nat /\ Hole >= InitImage
      BY HoleLemma, RegionLemma, PageMemAssumption
    <3> HIDE DEF Hole
    <3>2. QED
      BY <3>1
  <2>2. PICK hit : memory' = TaskWrites(memory, r, image \ hit)
                   /\ tlb' = AfterFaults(memory, memory', tlb)
    BY <1>8 DEF ForkInit
  <2>3. in_use' = in_use \cup {r}
    BY <1>8 DEF ForkInit
  <2>4. va2la(r, Hole) \notin image \ hit
    BY <2>1
  <2> HIDE DEF image
  <2>5. memory' \in Goods
    BY <1>2, <2>2, <2>4, TaskWritesLemma
  <2>6. QED
    BY <1>2, <2>2, <2>3, <2>5, HiddenLemma
<1>9. CASE \E p \in Regions : Fork(p, r)
  <2>1. PICK p \in Regions : Fork(p, r)
    BY <1>9
  <2>2. /\ memory' = CopyOnWrite(memory, Base(p), Base(r)) /\ in_use' = in_use \cup {r}
        /\ tlb' \in Kept(Superseded(memory, memory', tlb))
    BY <2>1 DEF Fork
  <2>3. memory' \in Tighter(memory) /\ memory' \in Goods
    BY <1>2, <2>2, CopyOnWriteLemma, TighterLemma
  <2>4. Hidden(memory', Superseded(memory, memory', tlb))
    BY <1>2, <2>3, SupersededLemma
  <2>5. QED
    BY <1>2, <2>2, <2>3, <2>4, HiddenLemma
<1>10. CASE \E last \in Touched : Exec(r, {o \in Touched : o <= last})
  <2>1. PICK image : image \subseteq Touched /\ Exec(r, image)
    BY <1>10
  <2> DEFINE pages == {va2la(r, o) : o \in image \cup {VM_SIZE - 1}}
  <2>2. va2la(r, Hole) \notin pages
    <3>1. SUFFICES ASSUME NEW o \in image \cup {VM_SIZE - 1}, va2la(r, Hole) = va2la(r, o) PROVE FALSE
      OBVIOUS
    <3>2. VM_SIZE - 1 \in Offsets /\ VM_SIZE - 1 # Hole
      BY HoleLemma, NumbersLemma DEF Offsets
    <3>3. o \in Offsets /\ o # Hole
      BY <2>1, <3>2, TouchedLemma, HoleLemma
    <3>4. QED
      BY <3>1, <3>3, HoleLemma, RegionsApart
  <2>3. PICK m : m = FreePageTables(memory, Base(r))
    OBVIOUS
  <2>4. PICK hit : /\ memory' = TaskWrites(m, r, pages \ hit)
                   /\ tlb' \in Kept(AfterFaults(m, memory', Superseded(memory, m, tlb)))
    BY <2>1, <2>3 DEF Exec
  <2>5. in_use' = in_use
    BY <2>1 DEF Exec
  <2>6. m \in Tighter(memory) /\ m \in Goods
    BY <1>2, <2>3, FreePageTablesLemma, TighterLemma
  <2>7. Hidden(m, Superseded(memory, m, tlb))
    BY <1>2, <2>6, SupersededLemma
  <2>8. va2la(r, Hole) \notin pages \ hit
    BY <2>2
  <2> HIDE DEF pages
  <2>9. memory' \in Goods
    BY <2>4, <2>6, <2>8, TaskWritesLemma
  <2>10. Hidden(memory', AfterFaults(m, memory', Superseded(memory, m, tlb)))
    BY <2>7, HiddenLemma
  <2>11. QED
    BY <1>2, <2>4, <2>5, <2>9, <2>10, HiddenLemma
<1>11. CASE Exit(r)
  <2>1. /\ memory' = FreePageTables(memory, Base(r)) /\ in_use' = in_use \ {r}
        /\ tlb' \in Kept(Superseded(memory, memory', tlb))
    BY <1>11 DEF Exit
  <2>2. memory' \in Tighter(memory) /\ memory' \in Goods
    BY <1>2, <2>1, FreePageTablesLemma, TighterLemma
  <2>3. Hidden(memory', Superseded(memory, memory', tlb))
    BY <1>2, <2>2, SupersededLemma
  <2>4. QED
    BY <1>2, <2>1, <2>2, <2>3, HiddenLemma
<1>12. QED
  BY <1>3, <1>4, <1>5, <1>6, <1>7, <1>8, <1>9, <1>10, <1>11

LEMMA GoodLemma ==
  ASSUME NEW m \in Goods
  PROVE  /\ m.mm_free_mem \in 0..nr_page
         /\ \A f \in Frames : m.page_table[f] = UsesIn(m, f)
         /\ \A l \in Linear : m.pt[l].rw => UsesIn(m, m.pt[l].frame) = 1
<1>1. m.mm_free_mem \in 0..nr_page
  <2>1. FreeFrames(m) \in SUBSET Frames
    BY DEF FreeFrames
  <2>2. /\ Cardinality(FreeFrames(m)) \in Nat /\ Cardinality(FreeFrames(m)) <= nr_page
    BY <2>1, FiniteLemma, FS_Subset, FS_CardinalityType
  <2>3. QED
    BY <2>2, NumbersLemma DEF Goods, FreeCounted
<1>2. \A f \in Frames : m.page_table[f] = UsesIn(m, f)
  BY DEF Goods, Counted
<1>3. \A l \in Linear : m.pt[l].rw => UsesIn(m, m.pt[l].frame) = 1
  BY <1>2 DEF Goods, Private
<1>4. QED
  BY <1>1, <1>2, <1>3

LEMMA InvLemma == IInv => UsesCounted /\ WritableIsPrivate
<1>1. SUFFICES ASSUME IInv PROVE UsesCounted /\ WritableIsPrivate
  OBVIOUS
<1>2. memory \in Goods /\ in_use \subseteq Regions /\ Hidden(memory, tlb)
  BY <1>1 DEF IInv
<1>3. TypeOK
  BY <1>2, GoodLemma, MemLemma DEF TypeOK, Goods, Tabled, Entry, Hidden
<1>4. \A l \in Linear : memory.pt[l].rw => Stale({l}, tlb) = {}
  BY <1>2 DEF Hidden, Stale
<1>5. QED
  BY <1>2, <1>3, <1>4, GoodLemma DEF UsesCounted, WritableIsPrivate, Uses

----------------------------------------------------------------------------
\* The counts of the frames and of the free memory are true, no entry is writable
\* whose page has another user or another translation in use, and the copy of an
\* image ends in its region, in every state that forks, exec, exits, faults and
\* the tasks' stores reach (mm/memory.c).
THEOREM PageMemInvariant == Spec => []IInv
BY InitLemma, StepLemma, PTL DEF Spec

\* page_table counts every use of a frame (memory.c:56, 94, 210, 395).
THEOREM PageMemCounts == Spec => []UsesCounted
BY PageMemInvariant, InvLemma, PTL

\* No page that the tables let a program write has a second user, nor does the
\* CPU hold an older translation of it (memory.c:200-215, 395).  Of translations
\* that copy_on_write took back and the CPU still uses this says nothing.
THEOREM PageMemWrites == Spec => []WritableIsPrivate
BY PageMemInvariant, InvLemma, PTL

\* A task that calls verify_area and then stores for a program, through the tables
\* and from the start of a page, stores in a page that is the program's alone
\* (memory.c:265-276).
THEOREM PageMemStores == Spec => []StoresArePrivate
<1>1. IInv => StoresArePrivate
  <2>1. SUFFICES ASSUME IInv, NEW r \in in_use, NEW o \in Touched, NEW l, l = va2la(r, o),
                        NEW a, a = l * PAGE_SIZE, NEW v, v = VerifyArea(memory, a, PAGE_SIZE),
                        NEW n, n = TaskWrites(v, r, {l}), n.ok, Shared(n, l)
                 PROVE  FALSE
    BY DEF StoresArePrivate
  <2>2. memory \in Goods /\ r \in Regions
    BY <2>1 DEF IInv
  <2>3. a \in Areas(r) /\ a % PAGE_SIZE = 0
    BY <2>1, <2>2, PageIsArea
  <2>4. PICK pages : pages = PagesWritten(a, PAGE_SIZE) /\ pages = {l}
    BY <2>1, <2>2, PageIsArea
  <2>5. PICK hit, stale :
          /\ hit \in Slips(v, pages, AfterFaults(memory, v, stale))
          /\ pages \ hit = {l} /\ Stale({l}, stale) = {}
    <3>1. {} \in Slips(v, pages, AfterFaults(memory, v, {}))
      BY DEF Slips
    <3>2. pages \ {} = {l} /\ Stale({l}, {}) = {}
      BY <2>4 DEF Stale
    <3>3. QED
      BY <3>1, <3>2
  <2>6. n \in Goods /\ l \in Linear /\ n.pt[l].rw
    <3>1. /\ a \in Areas(r) /\ hit \in Slips(v, pages, AfterFaults(memory, v, stale))
          /\ v = VerifyArea(memory, a, PAGE_SIZE) /\ pages = PagesWritten(a, PAGE_SIZE)
          /\ n = TaskWrites(v, r, pages \ hit)
      BY <2>1, <2>3, <2>4, <2>5
    <3>2. /\ n \in Goods
          /\ \A k \in pages :
               a % PAGE_SIZE = 0 /\ n.ok /\ (Present(memory, k) \/ Stale({k}, stale) = {})
                 => k \in Linear /\ n.pt[k].rw
      BY <2>2, <3>1, StoresLemma
    <3>3. QED
      BY <2>1, <2>3, <2>4, <2>5, <3>2
  <2>7. UsesIn(n, n.pt[l].frame) = 1
    BY <2>6, GoodLemma
  <2>8. n.pt[l].frame \in Frames
    BY <2>1, <2>6, MemLemma DEF Goods, Shared, Present
  <2>9. n.page_table[n.pt[l].frame] = 1
    BY <2>6, <2>7, <2>8, GoodLemma
  <2>10. QED
    BY <2>1, <2>9 DEF Shared
<1>2. QED
  BY <1>1, PageMemInvariant, PTL
=============================================================================
