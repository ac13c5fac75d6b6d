----------------------------- MODULE FsDirProofs -----------------------------
(***************************************************************************)
(* Proofs about the names, the inodes and the descriptors of TASK FS, and    *)
(* about getcwd, for every set of processes and paths and every size of the  *)
(* tables.                                                                  *)
(***************************************************************************)
EXTENDS Getcwd, FiniteSetTheorems, SequenceTheorems, WellFoundedInduction, TLAPS

Inodes == [Ino -> [mode : {"none", "reg", "dir", "chr"}, nr : 0..MaxEnt,
                   ents : [1..MaxEnt -> [ino : {0} \cup Ino, name : Names]]]]

Counts ==
  \A n \in Ino : i_cnt[n] = Cardinality(Holders(n)) + Cardinality(Opens(n)) + RootRefs(n)

\* fd_cnt, and that a descriptor nobody holds is free.
Sharers(d) == {p \in Proc : d \in filp[p]}
Shared ==
  \A d \in Desc :
    /\ f_desc[d].cnt = Cardinality(Sharers(d))
    /\ f_desc[d].inode = 0 <=> f_desc[d].cnt = 0
    /\ f_desc[d].inode \in {0} \cup imap

FreeHoldNothing == \A p \in Proc : pwd[p] = 0 => filp[p] = {}

\* The directories of processes.
Dirs ==
  /\ \A p \in live : pwd[p] \in imap /\ inode[pwd[p]].mode = "dir"
  /\ {FS, MM, INIT} \subseteq live
  /\ ROOT_INODE \in imap /\ inode[ROOT_INODE].mode = "dir"

\* The two entries a directory starts with.
DotsOK(d) ==
  /\ inode[d].nr >= 2
  /\ inode[d].ents[1].ino = d /\ inode[d].ents[1].name = <<".">>
  /\ inode[d].ents[2].ino \in imap /\ inode[d].ents[2].name = <<"..">>
  /\ d # ROOT_INODE => inode[d].ents[2].ino # d

\* The other entries of the disk, those out of the size and those of what is no
\* directory any more among them.
NamesOK ==
  \A d \in Ino, i \in 3..MaxEnt :
    inode[d].ents[i].ino # 0 => inode[d].ents[i].ino \in imap \ {ROOT_INODE}
NamesDiffer ==
  \A d, e \in Ino : \A i, j \in 3..MaxEnt :
    inode[d].ents[i].ino # 0 /\ inode[d].ents[i].ino = inode[e].ents[j].ino
      => d = e /\ i = j

Tree == /\ \A d \in imap : inode[d].mode = "dir" => DotsOK(d)
        /\ NamesOK /\ NamesDiffer

Sizes == \A d \in Ino : inode[d].nr <= MaxIno + 1

\* The inductive invariant.
IInv == /\ TypeOK /\ Counts /\ Shared /\ FreeHoldNothing /\ Dirs /\ Sizes
        /\ ~halted => Tree

----------------------------------------------------------------------------
\* Lemmas about sets and numbers

\* A set of numbers that is not empty has a least one: the scans of the maps and
\* of the tables find it.
LEMMA MinLemma ==
  ASSUME NEW S \in SUBSET Nat, S # {}
  PROVE  Min(S) \in S /\ \A y \in S : Min(S) <= y
<1> DEFINE R == OpToRel(<, Nat)
<1>1. R = {r \in Nat \X Nat : r[1] < r[2]}
  BY DEF OpToRel
<1>2. IsWellFoundedOn(R, Nat)
  BY NatLessThanWellFounded
<1> HIDE DEF R
<1>3. PICK x \in S : \A y \in S : ~ (<<y, x>> \in R)
  BY <1>2, WFMin
<1>4. ASSUME NEW y \in S PROVE x <= y
  <2>1. ~ (y < x)
    BY <1>1, <1>3
  <2>2. QED
    BY <2>1
<1>5. QED
  BY <1>4 DEF Min

LEMMA MaxLemma ==
  ASSUME NEW a \in Nat, NEW b \in Nat
  PROVE  Max({a, b}) = IF a >= b THEN a ELSE b
BY DEF Max

LEMMA NumbersLemma ==
  /\ Ino \subseteq Nat /\ ROOT_INODE \in Ino /\ 0 \notin Ino /\ Desc \subseteq Nat
  /\ MaxIno \in Nat /\ MaxEnt \in Nat /\ MaxEnt > MaxIno + 1 /\ MaxIno > NR_CONSOLES
  /\ BlockEnt \in Nat \ {0} /\ NR_CONSOLES \in Nat /\ 1 \in 1..MaxEnt /\ 2 \in 1..MaxEnt
  /\ NR_FILE_DESC \in Nat
BY FsDirAssumption DEF Ino, Desc, ROOT_INODE

LEMMA FiniteLemma ==
  /\ IsFiniteSet(Proc) /\ IsFiniteSet(Desc) /\ IsFiniteSet(Ino)
  /\ IsFiniteSet(Proc \X Desc) /\ {FS, MM, INIT} \subseteq Proc /\ FS # MM
  /\ User \subseteq Proc /\ FS # INIT /\ MM # INIT
<1>1. IsFiniteSet(User \cup {FS}) /\ IsFiniteSet((User \cup {FS}) \cup {MM})
  BY FsDirAssumption, FS_AddElement
<1>2. Proc = (User \cup {FS}) \cup {MM}
  BY DEF Proc
<1>3. IsFiniteSet(Desc) /\ IsFiniteSet(Ino)
  BY FS_Interval, NumbersLemma DEF Desc, Ino
<1>4. QED
  BY <1>1, <1>2, <1>3, FS_Product, FsDirAssumption

\* What the counts of references count is finite.
LEMMA CardLemma ==
  /\ \A S \in SUBSET Proc : IsFiniteSet(S) /\ Cardinality(S) \in Nat
                            /\ Cardinality(S) <= Cardinality(Proc)
  /\ \A S \in SUBSET (Proc \X Desc) : IsFiniteSet(S) /\ Cardinality(S) \in Nat
  /\ Cardinality(Proc) \in Nat
BY FiniteLemma, FS_Subset, FS_CardinalityType

LEMMA SetsLemma ==
  /\ \A n : Holders(n) \in SUBSET Proc /\ Opens(n) \in SUBSET (Proc \X Desc)
  /\ \A d : Sharers(d) \in SUBSET Proc
  /\ live \in SUBSET Proc
BY DEF Holders, Opens, Sharers, live

LEMMA SurplusLemma == RootSurplus \in Nat
<1>1. Cardinality(User \ {INIT}) \in Nat
  BY CardLemma DEF Proc
<1>2. QED
  BY <1>1 DEF RootSurplus

----------------------------------------------------------------------------
\* Paths

\* Reading one entry beyond the size stays in the chunk.
LEMMA VisibleLemma ==
  ASSUME TypeOK, Sizes, NEW d \in Ino
  PROVE  Visible(inode[d]) \in Nat /\ Visible(inode[d]) <= MaxEnt
<1> DEFINE nr == inode[d].nr
           blks == (nr + BlockEnt - 1) \div BlockEnt
<1>1. nr \in Nat /\ nr + 1 <= MaxEnt
  BY NumbersLemma DEF TypeOK, Sizes
<1>2. blks \in Nat
  BY <1>1, NumbersLemma
<1> HIDE DEF nr
<1>3. blks * BlockEnt \in Nat
  <2> HIDE DEF blks
  <2>1. QED
    BY <1>2, NumbersLemma
<1>4. Visible(inode[d]) = Min({nr + 1, blks * BlockEnt})
  BY DEF Visible, nr
<1> HIDE DEF blks
<1>5. {nr + 1, blks * BlockEnt} \in SUBSET Nat
  BY <1>1, <1>3
<1>6. QED
  BY <1>1, <1>4, <1>5, MinLemma, NumbersLemma

\* An entry of an allocated directory is free or names an allocated inode.
LEMMA EntryLemma ==
  ASSUME TypeOK, Tree, Dirs, NEW d \in imap, inode[d].mode = "dir", NEW i \in 1..MaxEnt
  PROVE  inode[d].ents[i].ino \in {0} \cup imap
<1>1. d \in Ino
  BY DEF TypeOK
<1>2. CASE i = 1
  BY <1>2 DEF Tree, DotsOK
<1>3. CASE i = 2
  BY <1>3 DEF Tree, DotsOK
<1>4. CASE i \in 3..MaxEnt
  BY <1>1, <1>4 DEF Tree, NamesOK
<1>5. QED
  BY <1>2, <1>3, <1>4, NumbersLemma

LEMMA FindLemma ==
  ASSUME TypeOK, Sizes, Tree, Dirs, NEW d \in {0} \cup imap, NEW name
  PROVE  FindEntry(d, name) \in {0} \cup imap
<1>1. CASE d = 0 \/ inode[d].mode # "dir"
  BY <1>1 DEF FindEntry
<1>2. CASE d # 0 /\ inode[d].mode = "dir"
  <2> DEFINE at == {i \in 1..Visible(inode[d]) : inode[d].ents[i].name = name}
  <2>1. d \in Ino /\ d \in imap
    BY <1>2 DEF TypeOK
  <2>2. FindEntry(d, name) = IF at = {} THEN 0 ELSE inode[d].ents[Min(at)].ino
    BY <1>2 DEF FindEntry
  <2>3. at \in SUBSET (1..MaxEnt)
    BY <2>1, VisibleLemma, NumbersLemma
  <2> HIDE DEF at
  <2>4. at # {} => Min(at) \in 1..MaxEnt
    <3>1. at \in SUBSET Nat
      BY <2>3
    <3>2. at # {} => Min(at) \in at
      BY <3>1, MinLemma
    <3>3. QED
      BY <2>3, <3>2
  <2>5. QED
    BY <1>2, <2>1, <2>2, <2>4, EntryLemma
<1>3. QED
  BY <1>1, <1>2

LEMMA StartLemma ==
  ASSUME TypeOK, Dirs, NEW p \in live, NEW path
  PROVE  /\ StartDir(p, path) \in imap /\ StartDir(p, path) # 0
         /\ inode[StartDir(p, path)].mode = "dir"
BY NumbersLemma DEF StartDir, TypeOK, Dirs, live

\* The components of paths: those given to FS, and those getcwd uses.
Words == STRING \cup {".", "..", "/"}
LEMMA PathsLemma == Paths \cup Programs \cup NewDirs \subseteq Seq(Words) /\ <<>> \in Seq(Words)
<1>1. ASSUME NEW path \in Seq(STRING) PROVE path \in Seq(Words)
  <2>1. Len(path) \in Nat /\ \A k \in 1..Len(path) : path[k] \in Words
    BY DEF Words
  <2>2. path = [k \in 1..Len(path) |-> path[k]]
    OBVIOUS
  <2>3. QED
    BY <2>1, <2>2
<1>2. QED
  BY <1>1, FsDirAssumption

LEMMA CompsLemma ==
  ASSUME NEW path \in Seq(Words)
  PROVE  Comps(path) \in Seq(Words)
<1>1. CASE IsAbs(path)
  <2>1. path # <<>>
    BY <1>1 DEF IsAbs
  <2>2. Tail(path) \in Seq(Words)
    BY <2>1
  <2>3. QED
    BY <1>1, <2>2 DEF Comps
<1>2. CASE ~IsAbs(path)
  BY <1>2 DEF Comps
<1>3. QED
  BY <1>1, <1>2

\* The function search_file computes, from each component the next.
IsTrail(f, m, p, path) ==
  /\ f \in [0..m -> {0} \cup imap]
  /\ \A k \in 0..m :
       f[k] = IF k = 0 THEN StartDir(p, path) ELSE FindEntry(f[k-1], <<Comps(path)[k]>>)

LEMMA TrailExists ==
  ASSUME TypeOK, Sizes, Tree, Dirs, NEW p \in live, NEW path \in Seq(Words)
  PROVE  \E f : IsTrail(f, Len(Comps(path)), p, path)
<1> DEFINE L == Len(Comps(path))
           T == {0} \cup imap
           bad == {m \in 0..L : ~ \E f : IsTrail(f, m, p, path)}
<1>1. L \in Nat
  BY CompsLemma
<1>2. SUFFICES ASSUME bad # {} PROVE FALSE
  BY <1>1
<1>3. PICK m \in bad : \A y \in bad : m <= y
  <2>1. bad \in SUBSET Nat
    BY <1>1
  <2> HIDE DEF bad
  <2>2. QED
    BY <1>2, <2>1, MinLemma
<1>4. m \in 0..L /\ m \in Nat
  BY <1>1, <1>3
<1>5. CASE m = 0
  <2> DEFINE g == [k \in 0..0 |-> StartDir(p, path)]
  <2>1. g \in [0..0 -> T] /\ g[0] = StartDir(p, path)
    BY StartLemma
  <2>2. IsTrail(g, 0, p, path)
    <3> HIDE DEF g
    <3>1. \A k \in 0..0 : k = 0
      OBVIOUS
    <3>2. QED
      BY <2>1, <3>1 DEF IsTrail
  <2>3. QED
    BY <1>3, <1>5, <2>2
<1>6. CASE m # 0
  <2>1. m - 1 \in 0..L /\ m - 1 < m /\ m - 1 \notin bad
    BY <1>1, <1>3, <1>4, <1>6
  <2>2. PICK f : IsTrail(f, m - 1, p, path)
    BY <2>1
  <2> DEFINE v == FindEntry(f[m-1], <<Comps(path)[m]>>)
             g == [k \in 0..m |-> IF k = m THEN v ELSE f[k]]
  <2>3. f[m-1] \in T /\ f \in [0..m-1 -> T]
    BY <1>4, <1>6, <2>2 DEF IsTrail
  <2>4. v \in T
    BY <2>3, FindLemma
  <2> HIDE DEF v
  <2>5. g \in [0..m -> T]
    <3>1. ASSUME NEW k \in 0..m PROVE g[k] \in T
      BY <1>4, <2>3, <2>4, <3>1
    <3>2. QED
      BY <3>1
  <2>6. \A k \in 0..m : g[k] = IF k = m THEN v ELSE f[k]
    OBVIOUS
  <2> HIDE DEF g
  <2>7. ASSUME NEW k \in 0..m
        PROVE  g[k] = IF k = 0 THEN StartDir(p, path) ELSE FindEntry(g[k-1], <<Comps(path)[k]>>)
    <3>1. CASE k = m
      <4>1. g[k] = v /\ g[k-1] = f[m-1] /\ k # 0
        BY <1>4, <1>6, <2>6, <3>1
      <4>2. QED
        BY <3>1, <4>1 DEF v
    <3>2. CASE k # m
      <4>1. k \in 0..m-1 /\ g[k] = f[k] /\ (k # 0 => g[k-1] = f[k-1])
        BY <1>4, <2>6, <3>2
      <4>2. QED
        BY <2>2, <4>1 DEF IsTrail
    <3>3. QED
      BY <3>1, <3>2
  <2>8. IsTrail(g, m, p, path)
    BY <2>5, <2>7 DEF IsTrail
  <2>9. QED
    BY <1>3, <2>8
<1>7. QED
  BY <1>5, <1>6

\* Every inode on the way to a file exists.
LEMMA TrailLemma ==
  ASSUME TypeOK, Sizes, Tree, Dirs, NEW p \in live, NEW path \in Seq(Words)
  PROVE  /\ IsTrail(Trail(p, path), Len(Comps(path)), p, path)
         /\ search_file(p, path) \in {0} \cup imap
         /\ search_file(p, path) = 0 => Comps(path) # <<>>
<1> DEFINE L == Len(Comps(path))
           F(f) == [k \in 0..L |-> IF k = 0 THEN StartDir(p, path)
                                   ELSE FindEntry(f[k-1], <<Comps(path)[k]>>)]
<1>1. L \in Nat
  BY CompsLemma
<1>2. PICK f : IsTrail(f, L, p, path)
  BY TrailExists
<1>3. f = F(f)
  BY <1>2 DEF IsTrail
<1>4. Trail(p, path) = CHOOSE g : g = F(g)
  BY DEF Trail
<1>5. Trail(p, path) = F(Trail(p, path))
  <2> HIDE DEF F
  <2>1. QED
    BY <1>3, <1>4, Zenon
<1> DEFINE g == Trail(p, path)
           bad == {m \in 0..L : g[m] \notin {0} \cup imap}
<1> HIDE DEF g
<1>6. \A k \in 0..L : g[k] = IF k = 0 THEN StartDir(p, path)
                             ELSE FindEntry(g[k-1], <<Comps(path)[k]>>)
  BY <1>5 DEF g
<1>7. bad = {}
  <2>1. SUFFICES ASSUME bad # {} PROVE FALSE
    OBVIOUS
  <2>2. PICK m \in bad : \A y \in bad : m <= y
    <3>1. bad \in SUBSET Nat
      BY <1>1
    <3> HIDE DEF bad
    <3>2. QED
      BY <2>1, <3>1, MinLemma
  <2>3. m \in 0..L /\ g[m] \notin {0} \cup imap
    BY <2>2
  <2>4. m # 0
    BY <1>6, <2>3, StartLemma
  <2>5. m - 1 \in 0..L /\ m - 1 \notin bad
    BY <1>1, <2>2, <2>3, <2>4
  <2>6. g[m] = FindEntry(g[m-1], <<Comps(path)[m]>>)
    BY <1>6, <2>3, <2>4
  <2>7. QED
    BY <2>3, <2>5, <2>6, FindLemma
<1>8. \A k \in 0..L : g[k] \in {0} \cup imap
  BY <1>7
<1>9. g = F(g)
  BY <1>5 DEF g
<1>10. IsTrail(g, L, p, path)
  BY <1>6, <1>8, <1>9 DEF IsTrail
<1>11. search_file(p, path) = g[L] /\ L \in 0..L
  BY <1>1 DEF search_file, g
<1>12. Comps(path) = <<>> => L = 0 /\ g[L] # 0
  BY <1>6, <1>11, StartLemma
<1>13. QED
  BY <1>8, <1>10, <1>11, <1>12 DEF g

----------------------------------------------------------------------------
\* References

LEMMA RootLemma == \A n : RootRefs(n) \in Nat /\ RootRefs(ROOT_INODE) > 0
<1>1. Cardinality(live) \in Nat
  BY CardLemma, SetsLemma
<1>2. QED
  BY <1>1, SurplusLemma DEF RootRefs

LEMMA EmptyLemma ==
  \A S : (S \in SUBSET Proc \/ S \in SUBSET (Proc \X Desc)) /\ Cardinality(S) = 0 => S = {}
BY CardLemma, FS_EmptySet

\* Nobody holds what is not allocated.
LEMMA UnallocatedLemma ==
  ASSUME TypeOK, Counts, Shared, Dirs, NEW n \in Ino \ imap
  PROVE  Holders(n) = {} /\ Opens(n) = {} /\ n # ROOT_INODE /\ i_cnt[n] = 0
<1>1. n # ROOT_INODE /\ n # 0
  BY NumbersLemma DEF Dirs
<1>2. Holders(n) = {}
  BY <1>1 DEF Holders, Dirs, live
<1>3. Opens(n) = {}
  BY <1>1 DEF Opens, Shared
<1>4. Cardinality(Holders(n)) = 0 /\ Cardinality(Opens(n)) = 0 /\ RootRefs(n) = 0
  BY <1>1, <1>2, <1>3, FS_EmptySet DEF RootRefs
<1>5. QED
  BY <1>1, <1>2, <1>3, <1>4 DEF Counts

\* Nobody holds what has the count zero: do_unlink asks for no more.
LEMMA UnusedLemma ==
  ASSUME Counts, NEW n \in Ino, i_cnt[n] = 0
  PROVE  Holders(n) = {} /\ Opens(n) = {} /\ n # ROOT_INODE
<1>1. Cardinality(Holders(n)) + Cardinality(Opens(n)) + RootRefs(n) = 0
  BY DEF Counts
<1>2. Cardinality(Holders(n)) \in Nat /\ Cardinality(Opens(n)) \in Nat
  BY CardLemma, SetsLemma
<1>3. Cardinality(Holders(n)) = 0 /\ Cardinality(Opens(n)) = 0 /\ n # ROOT_INODE
  <2>1. RootRefs(n) \in Nat /\ (n = ROOT_INODE => RootRefs(n) > 0)
    BY RootLemma
  <2> HIDE DEF RootRefs, Holders, Opens
  <2>2. QED
    BY <1>1, <1>2, <2>1
<1>4. QED
  BY <1>3, EmptyLemma, SetsLemma

CountTypes == /\ i_cnt \in [Ino -> Nat]
              /\ f_desc \in [Desc -> [inode : {0} \cup Ino, cnt : 0..Cardinality(Proc)]]
              /\ filp \in [Proc -> SUBSET Desc]
              /\ pwd \in [Proc -> {0} \cup Ino]

RefsOK == CountTypes /\ Counts /\ Shared /\ FreeHoldNothing

LEMMA CountOfAdd ==
  /\ \A S, x : (S \in SUBSET Proc \/ S \in SUBSET (Proc \X Desc)) /\ x \notin S
                 => Cardinality(S \cup {x}) = Cardinality(S) + 1
  /\ \A S, x : (S \in SUBSET Proc \/ S \in SUBSET (Proc \X Desc)) /\ x \in S
                 => Cardinality(S \ {x}) = Cardinality(S) - 1
BY CardLemma, FS_AddElement, FS_RemoveElement

\* A count that equals a sum of three numbers is a number.
LEMMA CountTypeLemma ==
  ASSUME NEW S \in SUBSET Proc, NEW T \in SUBSET (Proc \X Desc), NEW r \in Nat
  PROVE  Cardinality(S) + Cardinality(T) + r \in Nat
BY CardLemma

\* A new descriptor of the inode n: open.
LEMMA TakeLemma ==
  ASSUME TypeOK, RefsOK, NEW p \in live, NEW n \in Ino, FreeDesc # {}, TakeDesc(p, n),
         pwd' = pwd, i_cnt' = [i_cnt EXCEPT ![n] = @ + 1], imap \subseteq imap', n \in imap'
  PROVE  RefsOK'
<1>1. Min(FreeDesc) \in FreeDesc
  <2>1. FreeDesc \in SUBSET Nat
    BY NumbersLemma DEF FreeDesc
  <2>2. QED
    BY <2>1, MinLemma
<1>2. PICK d \in FreeDesc : /\ f_desc' = [f_desc EXCEPT ![d] = [inode |-> n, cnt |-> 1]]
                            /\ filp' = [filp EXCEPT ![p] = @ \cup {d}]
  BY <1>1 DEF TakeDesc
<1>3. d \in Desc /\ f_desc[d].inode = 0 /\ p \in Proc /\ n # 0 /\ pwd[p] # 0
  BY <1>2, NumbersLemma DEF FreeDesc, live
<1>4. Sharers(d) = {} /\ \A q \in Proc : d \notin filp[q]
  <2>1. Cardinality(Sharers(d)) = 0
    BY <1>3 DEF RefsOK, Shared
  <2>2. Sharers(d) = {}
    BY <2>1, EmptyLemma, SetsLemma
  <2>3. QED
    BY <2>2 DEF Sharers
<1>5. /\ \A e \in Desc : f_desc'[e] = IF e = d THEN [inode |-> n, cnt |-> 1] ELSE f_desc[e]
      /\ \A q \in Proc : filp'[q] = IF q = p THEN filp[p] \cup {d} ELSE filp[q]
      /\ \A m \in Ino : i_cnt'[m] = IF m = n THEN i_cnt[n] + 1 ELSE i_cnt[m]
  BY <1>2 DEF RefsOK, CountTypes
<1>6. /\ \A m : Holders(m)' = Holders(m) /\ RootRefs(m)' = RootRefs(m)
      /\ live' = live
  BY DEF Holders, RootRefs, live
<1>7. Opens(n)' = Opens(n) \cup {<<p, d>>} /\ <<p, d>> \notin Opens(n)
  <2>1. ASSUME NEW h \in Proc \X Desc
        PROVE  h \in Opens(n)' <=> h \in Opens(n) \/ h = <<p, d>>
    <3>1. CASE h[2] = d
      BY <1>3, <1>4, <1>5, <3>1 DEF Opens
    <3>2. CASE h[2] # d
      BY <1>3, <1>5, <3>2 DEF Opens
    <3>3. QED
      BY <3>1, <3>2
  <2>2. <<p, d>> \in Proc \X Desc
    BY <1>3
  <2>3. <<p, d>> \notin Opens(n)
    BY <1>4, <1>3 DEF Opens
  <2>4. QED
    BY <2>1, <2>2, <2>3 DEF Opens
<1>8. ASSUME NEW m \in Ino, m # n PROVE Opens(m)' = Opens(m)
  <2>1. ASSUME NEW h \in Proc \X Desc PROVE h \in Opens(m)' <=> h \in Opens(m)
    <3>1. CASE h[2] = d
      BY <1>3, <1>4, <1>5, <1>8, <3>1 DEF Opens
    <3>2. CASE h[2] # d
      BY <1>3, <1>5, <3>2 DEF Opens
    <3>3. QED
      BY <3>1, <3>2
  <2>2. QED
    BY <2>1 DEF Opens
<1>9. Counts'
  <2>1. Cardinality(Opens(n)') = Cardinality(Opens(n)) + 1
    BY <1>7, SetsLemma, CountOfAdd
  <2>2. Cardinality(Opens(n)) \in Nat /\ Cardinality(Holders(n)) \in Nat /\ RootRefs(n) \in Nat
    BY SetsLemma, CardLemma, RootLemma
  <2>3. ASSUME NEW m \in Ino
        PROVE  i_cnt'[m] = Cardinality(Holders(m)') + Cardinality(Opens(m)') + RootRefs(m)'
    <3>1. CASE m = n
      BY <1>5, <1>6, <2>1, <2>2, <3>1 DEF RefsOK, Counts
    <3>2. CASE m # n
      BY <1>5, <1>6, <1>8, <3>2 DEF RefsOK, Counts
    <3>3. QED
      BY <3>1, <3>2
  <2>4. QED
    BY <2>3 DEF Counts
<1>10. Shared'
  <2>1. Sharers(d)' = {p}
    BY <1>3, <1>4, <1>5 DEF Sharers
  <2>2. \A e \in Desc : e # d => Sharers(e)' = Sharers(e)
    BY <1>5 DEF Sharers
  <2>3. Cardinality(Sharers(d)') = 1
    BY <2>1, FS_Singleton
  <2>4. ASSUME NEW e \in Desc
        PROVE  /\ f_desc'[e].cnt = Cardinality(Sharers(e)')
               /\ f_desc'[e].inode = 0 <=> f_desc'[e].cnt = 0
               /\ f_desc'[e].inode \in {0} \cup imap'
    <3>1. CASE e = d
      BY <1>3, <1>5, <2>3, <3>1
    <3>2. CASE e # d
      BY <1>5, <2>2, <3>2 DEF RefsOK, Shared
    <3>3. QED
      BY <3>1, <3>2
  <2>5. QED
    BY <2>4 DEF Shared
<1>11. FreeHoldNothing'
  BY <1>3, <1>5 DEF RefsOK, FreeHoldNothing
<1>12. CountTypes'
  <2>1. 1 \in 0..Cardinality(Proc)
    <3>1. {p} \in SUBSET Proc
      BY <1>3
    <3>2. Cardinality({p}) = 1
      BY FS_Singleton
    <3>3. Cardinality({p}) <= Cardinality(Proc) /\ Cardinality(Proc) \in Nat
      BY <3>1, CardLemma
    <3>4. QED
      BY <3>2, <3>3
  <2>2. i_cnt' \in [Ino -> Nat]
    BY DEF RefsOK, CountTypes
  <2>3. f_desc' \in [Desc -> [inode : {0} \cup Ino, cnt : 0..Cardinality(Proc)]]
    BY <1>2, <2>1 DEF RefsOK, CountTypes
  <2>4. filp' \in [Proc -> SUBSET Desc]
    BY <1>2, <1>3 DEF RefsOK, CountTypes
  <2>5. QED
    BY <2>2, <2>3, <2>4 DEF RefsOK, CountTypes
<1>13. QED
  BY <1>9, <1>10, <1>11, <1>12 DEF RefsOK

\* A descriptor given back: close, and each of those of a process that ends.
LEMMA CloseLemma ==
  ASSUME TypeOK, RefsOK, NEW p \in Proc, NEW d \in filp[p], CloseDesc(p, d)
  PROVE  RefsOK'
<1>0. PICK n : n = f_desc[d].inode
  OBVIOUS
<1>1. d \in Desc /\ n \in {0} \cup Ino
  BY <1>0 DEF RefsOK, CountTypes
<1>2. p \in Sharers(d) /\ IsFiniteSet(Sharers(d)) /\ f_desc[d].cnt = Cardinality(Sharers(d))
      /\ Cardinality(Sharers(d)) \in Nat
  BY <1>1, CardLemma, SetsLemma DEF Sharers, RefsOK, Shared
<1>3. f_desc[d].cnt # 0 /\ n # 0
  BY <1>0, <1>1, <1>2, EmptyLemma, SetsLemma DEF RefsOK, Shared
<1>4. n \in Ino
  BY <1>1, <1>3
<1>5. /\ i_cnt' = [i_cnt EXCEPT ![n] = @ - 1]
      /\ f_desc' = [f_desc EXCEPT ![d] = [inode |-> IF @.cnt = 1 THEN 0 ELSE n, cnt |-> @.cnt - 1]]
      /\ filp' = [filp EXCEPT ![p] = @ \ {d}]
      /\ pwd' = pwd /\ imap' = imap
  BY <1>0 DEF CloseDesc
<1>6. /\ \A e \in Desc : f_desc'[e] =
           IF e = d THEN [inode |-> IF f_desc[d].cnt = 1 THEN 0 ELSE n, cnt |-> f_desc[d].cnt - 1]
           ELSE f_desc[e]
      /\ \A q \in Proc : filp'[q] = IF q = p THEN filp[p] \ {d} ELSE filp[q]
      /\ \A m \in Ino : i_cnt'[m] = IF m = n THEN i_cnt[n] - 1 ELSE i_cnt[m]
  BY <1>5 DEF RefsOK, CountTypes
<1>7. f_desc[d].inode = n
  BY <1>0
<1>8. f_desc[d].cnt = 1 => Sharers(d) = {p}
  <2>1. SUFFICES ASSUME f_desc[d].cnt = 1 PROVE Sharers(d) = {p}
    OBVIOUS
  <2>2. Cardinality(Sharers(d)) = 1
    BY <1>2, <2>1
  <2>3. \E x : Sharers(d) = {x}
    BY <1>2, <2>2, FS_Singleton
  <2>4. QED
    BY <1>2, <2>3
<1>9. ASSUME NEW q \in Proc, q # p, d \in filp[q] PROVE f_desc'[d].inode = n
  <2>1. q \in Sharers(d)
    BY <1>9 DEF Sharers
  <2>2. QED
    BY <1>1, <1>6, <1>8, <1>9, <2>1
<1>10. /\ \A m : Holders(m)' = Holders(m) /\ RootRefs(m)' = RootRefs(m)
       /\ live' = live
  BY <1>5 DEF Holders, RootRefs, live
<1>11. Opens(n)' = Opens(n) \ {<<p, d>>} /\ <<p, d>> \in Opens(n)
  <2>1. ASSUME NEW h \in Proc \X Desc
        PROVE  h \in Opens(n)' <=> h \in Opens(n) /\ h # <<p, d>>
    <3>1. CASE h[2] = d /\ h[1] = p
      <4>1. h = <<p, d>> /\ d \notin filp'[h[1]]
        BY <1>6, <3>1
      <4>2. QED
        BY <3>1, <4>1 DEF Opens
    <3>2. CASE h[2] = d /\ h[1] # p
      <4>1. h[1] \in Proc /\ h # <<p, d>>
        BY <3>2
      <4>2. filp'[h[1]] = filp[h[1]]
        BY <1>6, <3>2, <4>1
      <4>3. d \in filp[h[1]] => f_desc'[d].inode = n
        BY <1>9, <3>2, <4>1
      <4>4. QED
        BY <1>7, <3>2, <4>1, <4>2, <4>3 DEF Opens
    <3>3. CASE h[2] # d
      <4>1. (h[2] \in filp'[h[1]] <=> h[2] \in filp[h[1]]) /\ f_desc'[h[2]] = f_desc[h[2]]
        BY <1>6, <3>3
      <4>2. h # <<p, d>>
        BY <3>3
      <4>3. QED
        BY <4>1, <4>2 DEF Opens
    <3>4. QED
      BY <3>1, <3>2, <3>3
  <2>2. <<p, d>> \in Opens(n)
    BY <1>1, <1>7 DEF Opens
  <2>3. QED
    BY <2>1, <2>2 DEF Opens
<1>12. ASSUME NEW m \in Ino, m # n PROVE Opens(m)' = Opens(m)
  <2>1. m # 0
    BY NumbersLemma
  <2>2. ASSUME NEW h \in Proc \X Desc PROVE h \in Opens(m)' <=> h \in Opens(m)
    <3>1. CASE h[2] = d
      <4>1. f_desc'[d].inode \in {0, n}
        BY <1>1, <1>6
      <4>2. QED
        BY <1>7, <1>12, <2>1, <3>1, <4>1 DEF Opens
    <3>2. CASE h[2] # d
      <4>1. (h[2] \in filp'[h[1]] <=> h[2] \in filp[h[1]]) /\ f_desc'[h[2]] = f_desc[h[2]]
        BY <1>6, <3>2
      <4>2. QED
        BY <3>2, <4>1 DEF Opens
    <3>3. QED
      BY <3>1, <3>2
  <2>3. QED
    BY <2>2 DEF Opens
<1>13. /\ Cardinality(Opens(n)') = Cardinality(Opens(n)) - 1
       /\ Cardinality(Opens(n)') \in Nat /\ Cardinality(Opens(n)) \in Nat
       /\ Cardinality(Holders(n)) \in Nat /\ RootRefs(n) \in Nat
  <2>1. Opens(n)' \in SUBSET (Proc \X Desc)
    BY <1>11, SetsLemma
  <2>2. QED
    BY <1>11, <2>1, SetsLemma, CardLemma, RootLemma, CountOfAdd
<1>14. i_cnt[n] = Cardinality(Holders(n)) + Cardinality(Opens(n)) + RootRefs(n)
  BY <1>4 DEF RefsOK, Counts
<1>15. Counts'
  <2>1. ASSUME NEW m \in Ino
        PROVE  i_cnt'[m] = Cardinality(Holders(m)') + Cardinality(Opens(m)') + RootRefs(m)'
    <3>1. CASE m = n
      <4>1. i_cnt'[n] = i_cnt[n] - 1 /\ Holders(n)' = Holders(n) /\ RootRefs(n)' = RootRefs(n)
        BY <1>4, <1>6, <1>10
      <4> HIDE DEF Holders, Opens, RootRefs
      <4>2. i_cnt'[n] = Cardinality(Holders(n)') + Cardinality(Opens(n)') + RootRefs(n)'
        BY <1>13, <1>14, <4>1
      <4>3. QED
        BY <3>1, <4>2
    <3>2. CASE m # n
      BY <1>6, <1>10, <1>12, <3>2 DEF RefsOK, Counts
    <3>3. QED
      BY <3>1, <3>2
  <2>2. QED
    BY <2>1 DEF Counts
<1>16. Shared'
  <2>1. Sharers(d)' = Sharers(d) \ {p}
    BY <1>1, <1>6 DEF Sharers
  <2>2. \A e \in Desc : e # d => Sharers(e)' = Sharers(e)
    BY <1>6 DEF Sharers
  <2>3. Cardinality(Sharers(d)') = f_desc[d].cnt - 1
    BY <1>2, <2>1, SetsLemma, CountOfAdd
  <2>4. ASSUME NEW e \in Desc
        PROVE  /\ f_desc'[e].cnt = Cardinality(Sharers(e)')
               /\ f_desc'[e].inode = 0 <=> f_desc'[e].cnt = 0
               /\ f_desc'[e].inode \in {0} \cup imap'
    <3>1. CASE e = d
      <4>1. n \in imap'
        BY <1>1, <1>3, <1>5, <1>7 DEF RefsOK, Shared
      <4>2. f_desc[d].cnt \in Nat
        BY <1>2
      <4>3. QED
        BY <1>3, <1>6, <2>3, <3>1, <4>1, <4>2
    <3>2. CASE e # d
      BY <1>5, <1>6, <2>2, <3>2 DEF RefsOK, Shared
    <3>3. QED
      BY <3>1, <3>2
  <2>5. QED
    BY <2>4 DEF Shared
<1>17. FreeHoldNothing'
  BY <1>5, <1>6 DEF RefsOK, FreeHoldNothing
<1>18. CountTypes'
  <2>1. f_desc[d].cnt - 1 \in 0..Cardinality(Proc) /\ f_desc[d].cnt \in 0..Cardinality(Proc)
    BY <1>1, <1>2, <1>3, SetsLemma, CardLemma
  <2>2. i_cnt[n] - 1 \in Nat
    BY <1>13, <1>14
  <2>3. i_cnt' \in [Ino -> Nat]
    BY <1>5, <2>2 DEF RefsOK, CountTypes
  <2>4. [inode |-> IF f_desc[d].cnt = 1 THEN 0 ELSE n, cnt |-> f_desc[d].cnt - 1]
          \in [inode : {0} \cup Ino, cnt : 0..Cardinality(Proc)]
    BY <1>4, <2>1
  <2>5. f_desc' \in [Desc -> [inode : {0} \cup Ino, cnt : 0..Cardinality(Proc)]]
    BY <1>5, <2>4 DEF RefsOK, CountTypes
  <2>6. filp' \in [Proc -> SUBSET Desc]
    BY <1>5 DEF RefsOK, CountTypes
  <2>7. QED
    BY <1>5, <2>3, <2>5, <2>6 DEF RefsOK, CountTypes
<1>19. QED
  BY <1>15, <1>16, <1>17, <1>18 DEF RefsOK

\* A process that changes its directory: chdir, and FS for an exec.
LEMMA MoveLemma ==
  ASSUME TypeOK, RefsOK, NEW q \in live, NEW n \in Ino,
         pwd' = [pwd EXCEPT ![q] = n], filp' = filp, f_desc' = f_desc, imap' = imap,
         i_cnt' = [m \in Ino |-> i_cnt[m] + (IF m = n THEN 1 ELSE 0)
                                          - (IF m = pwd[q] THEN 1 ELSE 0)]
  PROVE  RefsOK'
<1>1. PICK o : o = pwd[q]
  OBVIOUS
<1>2. q \in Proc /\ o \in Ino /\ o # 0 /\ n # 0
  BY <1>1, NumbersLemma DEF live, RefsOK, CountTypes
<1>3. \A x \in Proc : pwd'[x] = IF x = q THEN n ELSE pwd[x]
  BY DEF RefsOK, CountTypes
<1>4. live' = live
  BY <1>1, <1>2, <1>3 DEF live
<1>5. \A m : Opens(m)' = Opens(m) /\ RootRefs(m)' = RootRefs(m) /\ Sharers(m)' = Sharers(m)
  BY <1>4 DEF Opens, RootRefs, Sharers
<1>6. ASSUME NEW m \in Ino
      PROVE  /\ i_cnt'[m] = Cardinality(Holders(m)') + Cardinality(Opens(m)') + RootRefs(m)'
             /\ i_cnt'[m] \in Nat
  <2>1. Cardinality(Holders(m)) \in Nat /\ Cardinality(Opens(m)) \in Nat /\ RootRefs(m) \in Nat
    BY SetsLemma, CardLemma, RootLemma
  <2>2. i_cnt[m] = Cardinality(Holders(m)) + Cardinality(Opens(m)) + RootRefs(m)
    BY DEF RefsOK, Counts
  <2>3. i_cnt'[m] = i_cnt[m] + (IF m = n THEN 1 ELSE 0) - (IF m = o THEN 1 ELSE 0)
    BY <1>1
  <2>4. Holders(m)' \in SUBSET Proc
    BY DEF Holders
  <2>5. Cardinality(Holders(m)') \in Nat
    BY <2>4, CardLemma
  <2>6. CASE m = n /\ m # o
    <3>1. Holders(m)' = Holders(m) \cup {q} /\ q \notin Holders(m)
      BY <1>1, <1>2, <1>3, <2>6 DEF Holders
    <3>2. Cardinality(Holders(m)') = Cardinality(Holders(m)) + 1
      BY <3>1, SetsLemma, CountOfAdd
    <3>3. QED
      BY <1>5, <2>1, <2>2, <2>3, <2>5, <2>6, <3>2
  <2>7. CASE m # n /\ m = o
    <3>1. Holders(m)' = Holders(m) \ {q} /\ q \in Holders(m)
      BY <1>1, <1>2, <1>3, <2>7 DEF Holders
    <3>2. Cardinality(Holders(m)') = Cardinality(Holders(m)) - 1
      BY <3>1, SetsLemma, CountOfAdd
    <3>3. QED
      BY <1>5, <2>1, <2>2, <2>3, <2>5, <2>7, <3>2
  <2>8. CASE (m = n) <=> (m = o)
    <3>1. Holders(m)' = Holders(m)
      BY <1>1, <1>2, <1>3, <2>8 DEF Holders
    <3>2. i_cnt'[m] = i_cnt[m]
      BY <2>1, <2>2, <2>3, <2>8
    <3>3. QED
      BY <1>5, <2>1, <2>2, <3>1, <3>2
  <2>9. QED
    BY <2>6, <2>7, <2>8
<1>7. Counts'
  BY <1>6 DEF Counts
<1>8. Shared'
  BY <1>5 DEF RefsOK, Shared
<1>9. FreeHoldNothing'
  BY <1>2, <1>3, <1>1 DEF RefsOK, FreeHoldNothing
<1>10. CountTypes'
  BY <1>6 DEF RefsOK, CountTypes
<1>11. QED
  BY <1>7, <1>8, <1>9, <1>10 DEF RefsOK

\* The descriptors of one process that are of the inode m, as pairs.
LEMMA PairsLemma ==
  ASSUME NEW c, NEW S \in SUBSET Desc
  PROVE  /\ Cardinality({c} \X S) = Cardinality(S)
         /\ Cardinality(S) \in Nat /\ IsFiniteSet({c} \X S)
<1>1. IsFiniteSet(S) /\ Cardinality(S) \in Nat
  BY FiniteLemma, FS_Subset, FS_CardinalityType
<1>2. IsFiniteSet({c}) /\ Cardinality({c}) = 1
  BY FS_Singleton
<1>3. IsFiniteSet({c} \X S) /\ Cardinality({c} \X S) = Cardinality({c}) * Cardinality(S)
  BY <1>1, <1>2, FS_Product
<1>4. QED
  BY <1>1, <1>2, <1>3

LEMMA UnionLemma ==
  ASSUME NEW S \in SUBSET (Proc \X Desc), NEW T \in SUBSET (Proc \X Desc), S \cap T = {}
  PROVE  Cardinality(S \cup T) = Cardinality(S) + Cardinality(T)
<1>1. IsFiniteSet(S) /\ IsFiniteSet(T) /\ Cardinality(S) \in Nat /\ Cardinality(T) \in Nat
  BY CardLemma
<1>2. Cardinality(S \cap T) = 0
  BY FS_EmptySet
<1>3. Cardinality(S \cup T) = Cardinality(S) + Cardinality(T) - Cardinality(S \cap T)
  BY <1>1, FS_Union
<1>4. QED
  BY <1>1, <1>2, <1>3

LEMMA ForkLemma ==
  ASSUME TypeOK, RefsOK, NEW p \in User, NEW c \in User, Fork(p, c)
  PROVE  RefsOK' /\ live' = live \cup {c}
<1>0. p \in live /\ c \in Proc \ live /\ imap' = imap
  BY FiniteLemma DEF Fork, Caller
<1>1. PICK o : o = pwd[p]
  OBVIOUS
<1>2. /\ p \in Proc /\ o \in Ino /\ o # 0 /\ p # c /\ c \in Proc
      /\ pwd[c] = 0 /\ filp[c] = {} /\ filp[p] \in SUBSET Desc
  BY <1>0, <1>1 DEF live, RefsOK, CountTypes, FreeHoldNothing
<1>3. /\ \A x \in Proc : pwd'[x] = IF x = c THEN o ELSE pwd[x]
      /\ \A x \in Proc : filp'[x] = IF x = c THEN filp[p] ELSE filp[x]
      /\ \A d \in Desc : /\ f_desc'[d].inode = f_desc[d].inode
                         /\ f_desc'[d].cnt = f_desc[d].cnt + (IF d \in filp[p] THEN 1 ELSE 0)
  <2>1. /\ \A x \in Proc : pwd'[x] = IF x = c THEN o ELSE pwd[x]
        /\ \A x \in Proc : filp'[x] = IF x = c THEN filp[p] ELSE filp[x]
    BY <1>0, <1>1 DEF RefsOK, CountTypes, Fork
  <2>2. ASSUME NEW d \in Desc
        PROVE /\ f_desc'[d].inode = f_desc[d].inode
              /\ f_desc'[d].cnt = f_desc[d].cnt + (IF d \in filp[p] THEN 1 ELSE 0)
    <3>1. f_desc[d] \in [inode : {0} \cup Ino, cnt : 0..Cardinality(Proc)] /\ f_desc[d].cnt \in Nat
      BY CardLemma DEF RefsOK, CountTypes
    <3>2. f_desc'[d] = [f_desc[d] EXCEPT !.cnt = IF d \in filp[p] THEN @ + 1 ELSE @]
      BY DEF Fork
    <3>3. QED
      BY <3>1, <3>2
  <2>3. QED
    BY <2>1, <2>2
<1>4. live' = live \cup {c} /\ c \notin live
  BY <1>2, <1>3 DEF live
<1>5. Cardinality(live') = Cardinality(live) + 1 /\ Cardinality(live) \in Nat
  BY <1>4, SetsLemma, CountOfAdd, CardLemma
<1>6. ASSUME NEW m \in Ino
      PROVE  /\ i_cnt'[m] = Cardinality(Holders(m)') + Cardinality(Opens(m)') + RootRefs(m)'
             /\ i_cnt'[m] \in Nat
  <2>1. Cardinality(Holders(m)) \in Nat /\ Cardinality(Opens(m)) \in Nat /\ RootRefs(m) \in Nat
    BY SetsLemma, CardLemma, RootLemma
  <2>2. i_cnt[m] = Cardinality(Holders(m)) + Cardinality(Opens(m)) + RootRefs(m)
    BY DEF RefsOK, Counts
  <2>3. PICK S \in SUBSET Desc : S = {d \in filp[p] : f_desc[d].inode = m}
    BY <1>2
  <2>4. i_cnt'[m] = i_cnt[m] + ((IF m = ROOT_INODE THEN 1 ELSE 0) + (IF m = o THEN 1 ELSE 0)
                                  + Cardinality(S))
    BY <1>1, <2>3 DEF Refs, Fork
  <2>5. Opens(m)' = Opens(m) \cup ({c} \X S) /\ Opens(m) \cap ({c} \X S) = {}
    <3>1. ASSUME NEW h \in Proc \X Desc
          PROVE  /\ h \in Opens(m)' <=> h \in Opens(m) \/ (h[1] = c /\ h[2] \in S)
                 /\ h \in Opens(m) => h[1] # c
      BY <1>2, <1>3, <2>3 DEF Opens
    <3>2. \A h : h \in {c} \X S <=> h \in Proc \X Desc /\ h[1] = c /\ h[2] \in S
      BY <1>2, <2>3
    <3>3. QED
      BY <3>1, <3>2 DEF Opens
  <2>6. {c} \X S \in SUBSET (Proc \X Desc)
    BY <1>2, <2>3
  <2>7. Cardinality(Opens(m)') = Cardinality(Opens(m)) + Cardinality(S) /\ Cardinality(S) \in Nat
    <3>1. Cardinality({c} \X S) = Cardinality(S) /\ Cardinality(S) \in Nat
      BY PairsLemma
    <3>2. Cardinality(Opens(m) \cup ({c} \X S)) = Cardinality(Opens(m)) + Cardinality({c} \X S)
      BY <2>5, <2>6, SetsLemma, UnionLemma
    <3>3. QED
      BY <2>5, <3>1, <3>2
  <2>8. Cardinality(Holders(m)') = Cardinality(Holders(m)) + (IF m = o THEN 1 ELSE 0)
    <3>1. CASE m = o
      <4>1. Holders(m)' = Holders(m) \cup {c} /\ c \notin Holders(m)
        BY <1>2, <1>3, <3>1 DEF Holders
      <4>2. QED
        BY <3>1, <4>1, SetsLemma, CountOfAdd
    <3>2. CASE m # o
      <4>1. Holders(m)' = Holders(m)
        BY <1>2, <1>3, <3>2, NumbersLemma DEF Holders
      <4>2. QED
        BY <2>1, <3>2, <4>1
    <3>3. QED
      BY <3>1, <3>2
  <2>9. RootRefs(m)' = RootRefs(m) + (IF m = ROOT_INODE THEN 1 ELSE 0)
    BY <1>5, SurplusLemma DEF RootRefs
  <2> HIDE DEF Holders, Opens, RootRefs
  <2>10. QED
    BY <2>1, <2>2, <2>4, <2>7, <2>8, <2>9
<1>7. Counts'
  BY <1>6 DEF Counts
<1>8. ASSUME NEW d \in Desc
      PROVE  /\ f_desc'[d].cnt = Cardinality(Sharers(d)')
             /\ f_desc'[d].inode = 0 <=> f_desc'[d].cnt = 0
             /\ f_desc'[d].inode \in {0} \cup imap'
  <2>1. /\ f_desc[d].cnt = Cardinality(Sharers(d)) /\ f_desc[d].cnt \in Nat
        /\ f_desc[d].inode = 0 <=> f_desc[d].cnt = 0
        /\ f_desc[d].inode \in {0} \cup imap
    BY SetsLemma, CardLemma DEF RefsOK, Shared
  <2>2. CASE d \in filp[p]
    <3>1. Sharers(d)' = Sharers(d) \cup {c} /\ c \notin Sharers(d) /\ p \in Sharers(d)
      BY <1>2, <1>3, <2>2 DEF Sharers
    <3>2. Cardinality(Sharers(d)') = Cardinality(Sharers(d)) + 1
      BY <3>1, SetsLemma, CountOfAdd
    <3>3. Cardinality(Sharers(d)) # 0
      BY <3>1, EmptyLemma, SetsLemma
    <3>4. QED
      BY <1>0, <1>3, <2>1, <2>2, <3>2, <3>3
  <2>3. CASE d \notin filp[p]
    <3>1. Sharers(d)' = Sharers(d)
      BY <1>2, <1>3, <2>3 DEF Sharers
    <3>2. QED
      BY <1>0, <1>3, <2>1, <2>3, <3>1
  <2>4. QED
    BY <2>2, <2>3
<1>9. Shared'
  BY <1>8 DEF Shared
<1>10. FreeHoldNothing'
  BY <1>2, <1>3 DEF RefsOK, FreeHoldNothing
<1>11. CountTypes'
  <2>1. ASSUME NEW d \in Desc
        PROVE  f_desc'[d] \in [inode : {0} \cup Ino, cnt : 0..Cardinality(Proc)]
    <3>1. Sharers(d)' \in SUBSET Proc
      BY DEF Sharers
    <3>2. f_desc'[d].cnt \in 0..Cardinality(Proc)
      BY <1>8, <3>1, CardLemma
    <3>3. f_desc[d] \in [inode : {0} \cup Ino, cnt : 0..Cardinality(Proc)]
      BY DEF RefsOK, CountTypes
    <3>4. PICK k : f_desc'[d] = [f_desc[d] EXCEPT !.cnt = k]
      BY DEF Fork
    <3>5. f_desc'[d].cnt = k
      BY <3>3, <3>4
    <3>6. QED
      BY <3>2, <3>3, <3>4, <3>5
  <2>2. f_desc' \in [Desc -> [inode : {0} \cup Ino, cnt : 0..Cardinality(Proc)]]
    BY <2>1 DEF Fork
  <2>3. i_cnt' \in [Ino -> Nat]
    BY <1>6 DEF Fork
  <2>4. pwd' \in [Proc -> {0} \cup Ino] /\ filp' \in [Proc -> SUBSET Desc]
    BY <1>1, <1>2 DEF RefsOK, CountTypes, Fork
  <2>5. QED
    BY <2>2, <2>3, <2>4 DEF CountTypes
<1>12. QED
  BY <1>4, <1>7, <1>9, <1>10, <1>11 DEF RefsOK

LEMMA ExitLemma ==
  ASSUME TypeOK, RefsOK, NEW p \in User, Exit(p), i_cnt[pwd[p]] > 0
  PROVE  RefsOK' /\ live' = live \ {p} /\ UNCHANGED <<imap, inode, exec, halted>>
<1>0. p \in live /\ UNCHANGED <<imap, inode, exec, halted>>
  BY DEF Exit, Caller
<1>1. PICK o : o = pwd[p]
  OBVIOUS
<1>2. p \in Proc /\ o \in Ino /\ o # 0 /\ filp[p] \in SUBSET Desc
  BY <1>0, <1>1 DEF live, RefsOK, CountTypes
<1>3. /\ \A x \in Proc : pwd'[x] = IF x = p THEN 0 ELSE pwd[x]
      /\ \A x \in Proc : filp'[x] = IF x = p THEN {} ELSE filp[x]
      /\ \A d \in Desc : f_desc'[d] =
           IF d \notin filp[p] THEN f_desc[d]
           ELSE [inode |-> IF f_desc[d].cnt = 1 THEN 0 ELSE f_desc[d].inode,
                 cnt |-> f_desc[d].cnt - 1]
  BY <1>1 DEF RefsOK, CountTypes, Exit
<1>4. live' = live \ {p}
  BY <1>2, <1>3 DEF live
<1>5. Cardinality(live') = Cardinality(live) - 1 /\ Cardinality(live) \in Nat
      /\ Cardinality(live') \in Nat
  <2>1. live \ {p} \in SUBSET Proc
    BY SetsLemma
  <2>2. QED
    BY <1>0, <1>4, <2>1, SetsLemma, CountOfAdd, CardLemma
\* What others have open stays as it is.
<1>6. ASSUME NEW q \in Proc, q # p, NEW d \in filp[q]
      PROVE  d \in Desc /\ f_desc'[d].inode = f_desc[d].inode
  <2>1. d \in Desc
    BY DEF RefsOK, CountTypes
  <2>2. CASE d \notin filp[p]
    BY <1>3, <2>1, <2>2
  <2>3. CASE d \in filp[p]
    <3>1. {p, q} \subseteq Sharers(d) /\ f_desc[d].cnt = Cardinality(Sharers(d))
      BY <1>2, <2>1, <2>3 DEF Sharers, RefsOK, Shared
    <3>2. IsFiniteSet(Sharers(d))
      BY SetsLemma, CardLemma
    <3>3. f_desc[d].cnt # 1
      <4>1. SUFFICES ASSUME f_desc[d].cnt = 1 PROVE FALSE
        OBVIOUS
      <4>2. \E x : Sharers(d) = {x}
        BY <3>1, <3>2, <4>1, FS_Singleton
      <4>3. QED
        BY <1>6, <3>1, <4>2
    <3>4. PICK k : f_desc'[d] = [inode |-> f_desc[d].inode, cnt |-> k]
      BY <1>3, <2>1, <2>3, <3>3
    <3>5. QED
      BY <2>1, <3>4
  <2>4. QED
    BY <2>2, <2>3
<1>7. ASSUME NEW m \in Ino
      PROVE  /\ i_cnt'[m] = Cardinality(Holders(m)') + Cardinality(Opens(m)') + RootRefs(m)'
             /\ i_cnt'[m] \in Nat
  <2>1. Cardinality(Holders(m)) \in Nat /\ Cardinality(Opens(m)) \in Nat /\ RootRefs(m) \in Nat
    BY SetsLemma, CardLemma, RootLemma
  <2>2. i_cnt[m] = Cardinality(Holders(m)) + Cardinality(Opens(m)) + RootRefs(m)
    BY DEF RefsOK, Counts
  <2>3. PICK S \in SUBSET Desc : S = {d \in filp[p] : f_desc[d].inode = m}
    BY <1>2
  <2>4. i_cnt'[m] = i_cnt[m] - ((IF m = ROOT_INODE THEN 1 ELSE 0) + (IF m = o THEN 1 ELSE 0)
                                  + Cardinality(S))
    BY <1>1, <2>3 DEF Refs, Exit
  <2>5. Opens(m) = Opens(m)' \cup ({p} \X S) /\ Opens(m)' \cap ({p} \X S) = {}
    <3>1. ASSUME NEW h \in Proc \X Desc
          PROVE  /\ h \in Opens(m)' <=> h \in Opens(m) /\ h[1] # p
                 /\ h[1] = p => (h \in Opens(m) <=> h[2] \in S)
      <4>1. CASE h[1] = p
        BY <1>2, <1>3, <2>3, <4>1 DEF Opens
      <4>2. CASE h[1] # p
        <5>1. filp'[h[1]] = filp[h[1]]
          BY <1>3, <4>2
        <5>2. h[2] \in filp[h[1]] => f_desc'[h[2]].inode = f_desc[h[2]].inode
          BY <1>6, <4>2
        <5>3. QED
          BY <4>2, <5>1, <5>2 DEF Opens
      <4>3. QED
        BY <4>1, <4>2
    <3>2. \A h : h \in {p} \X S <=> h \in Proc \X Desc /\ h[1] = p /\ h[2] \in S
      BY <1>2, <2>3
    <3>3. QED
      BY <3>1, <3>2 DEF Opens
  <2>6. {p} \X S \in SUBSET (Proc \X Desc) /\ Opens(m)' \in SUBSET (Proc \X Desc)
    BY <1>2, <2>3 DEF Opens
  <2>7. /\ Cardinality(Opens(m)) = Cardinality(Opens(m)') + Cardinality(S)
        /\ Cardinality(S) \in Nat /\ Cardinality(Opens(m)') \in Nat
    <3>1. Cardinality({p} \X S) = Cardinality(S) /\ Cardinality(S) \in Nat
      BY PairsLemma
    <3>2. PICK T \in SUBSET (Proc \X Desc) : T = Opens(m)'
      BY <2>6
    <3>3. Cardinality(T \cup ({p} \X S)) = Cardinality(T) + Cardinality({p} \X S)
      BY <2>5, <2>6, <3>2, UnionLemma
    <3>4. QED
      BY <2>5, <3>1, <3>2, <3>3, CardLemma
  <2>8. /\ Cardinality(Holders(m)') = Cardinality(Holders(m)) - (IF m = o THEN 1 ELSE 0)
        /\ Cardinality(Holders(m)') \in Nat
    <3>1. CASE m = o
      <4>1. Holders(m)' = Holders(m) \ {p} /\ p \in Holders(m)
        BY <1>1, <1>2, <1>3, <3>1 DEF Holders
      <4>2. Holders(m) \ {p} \in SUBSET Proc
        BY SetsLemma
      <4>3. QED
        BY <3>1, <4>1, <4>2, SetsLemma, CountOfAdd, CardLemma
    <3>2. CASE m # o
      <4>1. Holders(m)' = Holders(m)
        BY <1>1, <1>2, <1>3, <3>2, NumbersLemma DEF Holders
      <4>2. QED
        BY <2>1, <3>2, <4>1
    <3>3. QED
      BY <3>1, <3>2
  <2>9. RootRefs(m)' = RootRefs(m) - (IF m = ROOT_INODE THEN 1 ELSE 0) /\ RootRefs(m)' \in Nat
    BY <1>5, SurplusLemma DEF RootRefs
  <2> HIDE DEF Holders, Opens, RootRefs
  <2>10. QED
    BY <2>1, <2>2, <2>4, <2>7, <2>8, <2>9
<1>8. Counts'
  BY <1>7 DEF Counts
<1>9. ASSUME NEW d \in Desc
      PROVE  /\ f_desc'[d].cnt = Cardinality(Sharers(d)')
             /\ f_desc'[d].inode = 0 <=> f_desc'[d].cnt = 0
             /\ f_desc'[d].inode \in {0} \cup imap'
  <2>1. /\ f_desc[d].cnt = Cardinality(Sharers(d)) /\ f_desc[d].cnt \in Nat
        /\ f_desc[d].inode = 0 <=> f_desc[d].cnt = 0
        /\ f_desc[d].inode \in {0} \cup imap
    BY SetsLemma, CardLemma DEF RefsOK, Shared
  <2>2. CASE d \in filp[p]
    <3>1. Sharers(d)' = Sharers(d) \ {p} /\ p \in Sharers(d)
      BY <1>2, <1>3, <2>2 DEF Sharers
    <3>2. Cardinality(Sharers(d)') = Cardinality(Sharers(d)) - 1
      BY <3>1, SetsLemma, CountOfAdd
    <3>3. Cardinality(Sharers(d)) # 0
      BY <3>1, EmptyLemma, SetsLemma
    <3>4. f_desc'[d].cnt = f_desc[d].cnt - 1
          /\ f_desc'[d].inode = IF f_desc[d].cnt = 1 THEN 0 ELSE f_desc[d].inode
      <4>1. PICK i, k : i = (IF f_desc[d].cnt = 1 THEN 0 ELSE f_desc[d].inode)
                        /\ k = f_desc[d].cnt - 1
        OBVIOUS
      <4>2. f_desc'[d] = [inode |-> i, cnt |-> k]
        BY <1>3, <2>2, <4>1
      <4>3. QED
        BY <4>1, <4>2
    <3>5. QED
      BY <1>0, <2>1, <3>2, <3>3, <3>4
  <2>3. CASE d \notin filp[p]
    <3>1. Sharers(d)' = Sharers(d)
      BY <1>2, <1>3, <2>3 DEF Sharers
    <3>2. f_desc'[d] = f_desc[d]
      BY <1>3, <2>3
    <3>3. QED
      BY <1>0, <2>1, <3>1, <3>2
  <2>4. QED
    BY <2>2, <2>3
<1>10. Shared'
  BY <1>9 DEF Shared
<1>11. FreeHoldNothing'
  BY <1>2, <1>3 DEF RefsOK, FreeHoldNothing
<1>12. CountTypes'
  <2>1. ASSUME NEW d \in Desc
        PROVE  f_desc'[d] \in [inode : {0} \cup Ino, cnt : 0..Cardinality(Proc)]
    <3>1. Sharers(d)' \in SUBSET Proc
      BY DEF Sharers
    <3>2. f_desc'[d].cnt \in 0..Cardinality(Proc)
      BY <1>9, <3>1, CardLemma
    <3>3. f_desc[d] \in [inode : {0} \cup Ino, cnt : 0..Cardinality(Proc)]
      BY DEF RefsOK, CountTypes
    <3>4. CASE d \notin filp[p]
      BY <1>3, <3>3, <3>4
    <3>5. CASE d \in filp[p]
      <4>1. PICK i, k : f_desc'[d] = [inode |-> i, cnt |-> k] /\ i \in {0, f_desc[d].inode}
        BY <1>3, <3>5
      <4>2. f_desc'[d].cnt = k
        BY <4>1
      <4>3. QED
        BY <3>2, <3>3, <4>1, <4>2
    <3>6. QED
      BY <3>4, <3>5
  <2>2. f_desc' \in [Desc -> [inode : {0} \cup Ino, cnt : 0..Cardinality(Proc)]]
    BY <2>1 DEF Exit
  <2>3. i_cnt' \in [Ino -> Nat]
    BY <1>7 DEF Exit
  <2>4. pwd' \in [Proc -> {0} \cup Ino] /\ filp' \in [Proc -> SUBSET Desc]
    BY DEF RefsOK, CountTypes, Exit
  <2>5. QED
    BY <2>2, <2>3, <2>4 DEF CountTypes
<1>13. QED
  BY <1>0, <1>4, <1>8, <1>10, <1>11, <1>12 DEF RefsOK

----------------------------------------------------------------------------
\* Directories

\* The slot new_dirent takes in the directory d.
Slot(f, d) ==
  LET free == {i \in 1..f[d].nr : f[d].ents[i].ino = 0}
  IN  IF free # {} THEN Min(free) ELSE f[d].nr + 1

LEMMA DirentLemma ==
  ASSUME NEW f \in Inodes, NEW d \in Ino, NEW n \in Ino, NEW name \in Names,
         NEW i \in 1..MaxEnt, i = Slot(f, d),
         NEW g, g = new_dirent(f, d, n, name)
  PROVE  /\ g \in Inodes
         /\ \A e \in Ino : e # d => g[e] = f[e]
         /\ g[d].mode = f[d].mode
         /\ g[d].nr = IF f[d].nr >= i THEN f[d].nr ELSE i
         /\ \A j \in 1..MaxEnt :
              g[d].ents[j] = IF j = i THEN [ino |-> n, name |-> name] ELSE f[d].ents[j]
<1>1. g = [f EXCEPT ![d].ents[i] = [ino |-> n, name |-> name], ![d].nr = Max({@, i})]
  BY DEF new_dirent, Slot
<1>2. f[d] \in [mode : {"none", "reg", "dir", "chr"}, nr : 0..MaxEnt,
                ents : [1..MaxEnt -> [ino : {0} \cup Ino, name : Names]]]
  BY DEF Inodes
<1>3. PICK s : s = Max({f[d].nr, i})
  OBVIOUS
<1>4. s = (IF f[d].nr >= i THEN f[d].nr ELSE i) /\ s \in 0..MaxEnt
  <2>1. f[d].nr \in Nat /\ i \in Nat /\ f[d].nr \in 0..MaxEnt /\ i \in 0..MaxEnt
    BY <1>2, NumbersLemma
  <2>2. Max({f[d].nr, i}) = IF f[d].nr >= i THEN f[d].nr ELSE i
    BY <2>1, MaxLemma
  <2>3. QED
    BY <1>3, <2>1, <2>2
<1>5. PICK x : x = [f[d].ents EXCEPT ![i] = [ino |-> n, name |-> name]]
  OBVIOUS
<1>6. /\ x \in [1..MaxEnt -> [ino : {0} \cup Ino, name : Names]]
      /\ \A j \in 1..MaxEnt : x[j] = IF j = i THEN [ino |-> n, name |-> name] ELSE f[d].ents[j]
  <2>1. [ino |-> n, name |-> name] \in [ino : {0} \cup Ino, name : Names]
    OBVIOUS
  <2>2. f[d].ents \in [1..MaxEnt -> [ino : {0} \cup Ino, name : Names]]
    BY <1>2
  <2>3. QED
    BY <1>5, <2>1, <2>2
<1>7. g = [f EXCEPT ![d] = [mode |-> f[d].mode, nr |-> s, ents |-> x]]
  <2>1. g \in [Ino -> {g[e] : e \in Ino}] /\ g = [e \in Ino |-> g[e]]
    BY <1>1 DEF Inodes
  <2>2. \A e \in Ino : e # d => g[e] = f[e]
    BY <1>1 DEF Inodes
  <2>3. g[d] = [mode |-> f[d].mode, nr |-> s, ents |-> x]
    <3>1. g[d] = [[f[d] EXCEPT !.ents = x] EXCEPT !.nr = s]
      BY <1>1, <1>3, <1>5, <1>2 DEF Inodes
    <3>2. QED
      BY <1>2, <3>1
  <2>4. QED
    BY <2>1, <2>2, <2>3 DEF Inodes
<1>8. g[d] = [mode |-> f[d].mode, nr |-> s, ents |-> x] /\ \A e \in Ino : e # d => g[e] = f[e]
  BY <1>7 DEF Inodes
<1>9. g \in Inodes
  BY <1>2, <1>4, <1>6, <1>7 DEF Inodes
<1>10. QED
  BY <1>4, <1>6, <1>8, <1>9

\* There is a slot in the chunk: a directory holds no more names than there are
\* inodes to name.
LEMMA SlotLemma ==
  ASSUME TypeOK, Sizes, Tree, Dirs, NEW d \in imap, inode[d].mode = "dir", NEW n \in Ino \ imap
  PROVE  Slot(inode, d) \in 3..MaxIno + 1 /\ Slot(inode, d) \in 3..MaxEnt
<1> DEFINE nr == inode[d].nr
           free == {i \in 1..nr : inode[d].ents[i].ino = 0}
<1>1. d \in Ino /\ nr \in Nat /\ nr <= MaxIno + 1 /\ nr >= 2
  BY NumbersLemma DEF TypeOK, Sizes, Tree, DotsOK
<1>2. Slot(inode, d) = IF free # {} THEN Min(free) ELSE nr + 1
  BY DEF Slot
<1>3. inode[d].ents[1].ino # 0 /\ inode[d].ents[2].ino # 0
  BY <1>1, NumbersLemma DEF Tree, DotsOK, TypeOK
<1>4. CASE free # {}
  <2>1. free \in SUBSET Nat
    BY <1>1
  <2>2. Min(free) \in free
    BY <1>4, <2>1, MinLemma
  <2>3. Min(free) \in 1..nr /\ Min(free) # 1 /\ Min(free) # 2
    BY <1>3, <2>2
  <2> HIDE DEF free
  <2>4. QED
    BY <1>1, <1>2, <1>4, <2>3, NumbersLemma
<1>5. CASE free = {}
  <2>1. SUFFICES ASSUME nr = MaxIno + 1 PROVE FALSE
    BY <1>1, <1>2, <1>5, NumbersLemma
  <2> DEFINE S == 3..nr
             T == imap \ {ROOT_INODE}
             f == [i \in S |-> inode[d].ents[i].ino]
  <2>2. f \in [S -> T]
    <3>1. ASSUME NEW i \in S PROVE inode[d].ents[i].ino \in T
      <4>1. inode[d].ents[i].ino # 0 /\ i \in 3..MaxEnt
        BY <1>1, <1>5, NumbersLemma
      <4>2. QED
        BY <1>1, <4>1 DEF Tree, NamesOK
    <3>2. QED
      BY <3>1
  <2>3. \A i, j \in S : f[i] = f[j] => i = j
    <3>1. ASSUME NEW i \in S, NEW j \in S, f[i] = f[j] PROVE i = j
      <4>1. i \in 3..MaxEnt /\ j \in 3..MaxEnt /\ inode[d].ents[i].ino # 0
        BY <1>1, <1>5, NumbersLemma
      <4>2. QED
        BY <1>1, <3>1, <4>1 DEF Tree, NamesDiffer
    <3>2. QED
      BY <3>1
  <2>4. IsFiniteSet(S) /\ Cardinality(S) = nr - 2
    BY <1>1, FS_Interval
  <2>5. IsFiniteSet(T) /\ Cardinality(T) <= MaxIno - 2
    <3>1. IsFiniteSet(Ino) /\ Cardinality(Ino) = MaxIno
      BY NumbersLemma, FS_Interval DEF Ino
    <3>2. IsFiniteSet(Ino \ {n}) /\ Cardinality(Ino \ {n}) = MaxIno - 1
      BY <3>1, FS_RemoveElement
    <3>3. ROOT_INODE \in Ino \ {n}
      BY NumbersLemma DEF Dirs
    <3>4. /\ IsFiniteSet((Ino \ {n}) \ {ROOT_INODE})
          /\ Cardinality((Ino \ {n}) \ {ROOT_INODE}) = MaxIno - 1 - 1
      BY <3>2, <3>3, FS_RemoveElement
    <3>5. T \in SUBSET ((Ino \ {n}) \ {ROOT_INODE})
      BY DEF TypeOK
    <3>6. IsFiniteSet(T) /\ Cardinality(T) <= Cardinality((Ino \ {n}) \ {ROOT_INODE})
      BY <3>4, <3>5, FS_Subset
    <3>7. QED
      BY <3>4, <3>6, NumbersLemma
  <2>6. Cardinality(T) < Cardinality(S)
    <3>1. Cardinality(T) \in Nat
      BY <2>5, FS_CardinalityType
    <3> HIDE DEF S, T
    <3>2. QED
      BY <2>1, <2>4, <2>5, <3>1, NumbersLemma
  <2> HIDE DEF S, T, f
  <2>7. \E x, y \in S : x # y /\ f[x] = f[y]
    BY <2>2, <2>4, <2>5, <2>6, FS_PigeonHole
  <2>8. QED
    BY <2>3, <2>7
<1>6. QED
  BY <1>4, <1>5

\* Of the entries that hold names only the entry i of d changes, to n.
EntryBecomes(d, i, n) ==
  \A e \in Ino, j \in 3..MaxEnt :
    inode'[e].ents[j].ino = IF e = d /\ j = i THEN n ELSE inode[e].ents[j].ino

\* One more name, of an inode just allocated.
LEMMA AddNameLemma ==
  ASSUME NamesOK, NamesDiffer, Dirs, NEW n \in Ino \ imap, imap' = imap \cup {n},
         NEW d \in Ino, NEW i \in 3..MaxEnt, EntryBecomes(d, i, n)
  PROVE  NamesOK' /\ NamesDiffer'
<1>0. \A e \in Ino, j \in 3..MaxEnt :
        inode'[e].ents[j].ino = IF e = d /\ j = i THEN n ELSE inode[e].ents[j].ino
  BY DEF EntryBecomes
<1>1. n # ROOT_INODE /\ n \notin imap
  BY DEF Dirs
<1>2. NamesOK'
  BY <1>0, <1>1 DEF NamesOK
<1>3. \A e \in Ino, j \in 3..MaxEnt : inode[e].ents[j].ino # n
  BY <1>1, NumbersLemma DEF NamesOK
<1>4. ASSUME NEW a \in Ino, NEW e \in Ino, NEW k \in 3..MaxEnt, NEW j \in 3..MaxEnt,
             inode'[a].ents[k].ino # 0, inode'[a].ents[k].ino = inode'[e].ents[j].ino
      PROVE  a = e /\ k = j
  <2>1. CASE a = d /\ k = i
    BY <1>0, <1>3, <1>4, <2>1
  <2>2. CASE e = d /\ j = i
    BY <1>0, <1>3, <1>4, <2>2
  <2>3. CASE ~(a = d /\ k = i) /\ ~(e = d /\ j = i)
    <3>1. inode'[a].ents[k].ino = inode[a].ents[k].ino
          /\ inode'[e].ents[j].ino = inode[e].ents[j].ino
      BY <1>0, <2>3
    <3>2. inode[a].ents[k].ino # 0 /\ inode[a].ents[k].ino = inode[e].ents[j].ino
      BY <1>4, <3>1
    <3>3. QED
      BY <3>2 DEF NamesDiffer
  <2>4. QED
    BY <2>1, <2>2, <2>3
<1>5. QED
  BY <1>2, <1>4 DEF NamesDiffer

\* One name less, of an inode just freed.
LEMMA DropNameLemma ==
  ASSUME NamesOK, NamesDiffer, NEW n \in Ino, imap' = imap \ {n},
         NEW d \in Ino, NEW i \in 3..MaxEnt, inode[d].ents[i].ino = n,
         EntryBecomes(d, i, 0)
  PROVE  NamesOK' /\ NamesDiffer'
<1>1. ASSUME NEW e \in Ino, NEW j \in 3..MaxEnt, inode'[e].ents[j].ino # 0
      PROVE  /\ inode'[e].ents[j].ino = inode[e].ents[j].ino
             /\ inode[e].ents[j].ino # n
  <2>1. ~(e = d /\ j = i) /\ inode'[e].ents[j].ino = inode[e].ents[j].ino
    BY <1>1 DEF EntryBecomes
  <2>2. n # 0
    BY NumbersLemma
  <2>3. QED
    BY <2>1, <2>2 DEF NamesDiffer
<1>2. NamesOK'
  BY <1>1 DEF NamesOK
<1>3. NamesDiffer'
  BY <1>1 DEF NamesDiffer
<1>4. QED
  BY <1>2, <1>3

----------------------------------------------------------------------------
\* The requests

ExecOK == /\ exec \in [at : {"idle", "stat", "open", "close"}, who : Proc,
                       path : Programs \cup {<<>>}]
          /\ halted \in BOOLEAN

LEMMA PartsLemma ==
  IInv <=> /\ imap \subseteq Ino /\ inode \in Inodes /\ ExecOK
           /\ RefsOK /\ Dirs /\ Sizes /\ (~halted => Tree)
BY DEF IInv, TypeOK, Inodes, ExecOK, RefsOK, CountTypes

LEMMA PartsNext ==
  ASSUME (imap \subseteq Ino)', (inode \in Inodes)', ExecOK', RefsOK', Dirs', Sizes',
         (~halted => Tree)'
  PROVE  IInv'
<1>1. (IInv <=> /\ imap \subseteq Ino /\ inode \in Inodes /\ ExecOK
                /\ RefsOK /\ Dirs /\ Sizes /\ (~halted => Tree))'
  BY PartsLemma, PTL
<1>2. QED
  BY <1>1

\* An inode as new_inode or do_unlink leaves it; its chunk is not written.
Reset(n, m) == [inode EXCEPT ![n].mode = m, ![n].nr = 0]
LEMMA InodeLemma ==
  ASSUME inode \in Inodes, NEW n \in Ino, NEW m \in {"none", "reg", "dir"},
         NEW f, f = Reset(n, m)
  PROVE  /\ f \in Inodes
         /\ \A e \in Ino : e # n => f[e] = inode[e]
         /\ f[n].mode = m /\ f[n].nr = 0 /\ f[n].ents = inode[n].ents
<1>1. inode[n] \in [mode : {"none", "reg", "dir", "chr"}, nr : 0..MaxEnt,
                    ents : [1..MaxEnt -> [ino : {0} \cup Ino, name : Names]]]
  BY DEF Inodes
<1>2. PICK x : x = [mode |-> m, nr |-> 0, ents |-> inode[n].ents]
  OBVIOUS
<1>3. x \in [mode : {"none", "reg", "dir", "chr"}, nr : 0..MaxEnt,
             ents : [1..MaxEnt -> [ino : {0} \cup Ino, name : Names]]]
  BY <1>1, <1>2, NumbersLemma
<1>4. f[n] = x /\ (\A e \in Ino : e # n => f[e] = inode[e]) /\ f = [e \in Ino |-> f[e]]
  <2>1. f[n] = [[inode[n] EXCEPT !.mode = m] EXCEPT !.nr = 0]
    BY DEF Inodes, Reset
  <2>2. [[inode[n] EXCEPT !.mode = m] EXCEPT !.nr = 0] = x
    <3>1. PICK a, b, c : inode[n] = [mode |-> a, nr |-> b, ents |-> c]
      BY <1>1
    <3>2. [[mode |-> a, nr |-> b, ents |-> c] EXCEPT !.mode = m] = [mode |-> m, nr |-> b, ents |-> c]
      OBVIOUS
    <3>3. [[mode |-> m, nr |-> b, ents |-> c] EXCEPT !.nr = 0] = [mode |-> m, nr |-> 0, ents |-> c]
      OBVIOUS
    <3>4. inode[n].ents = c
      BY <3>1
    <3>5. QED
      BY <1>2, <3>1, <3>2, <3>3, <3>4
  <2>3. (\A e \in Ino : e # n => f[e] = inode[e]) /\ f = [e \in Ino |-> f[e]]
    BY DEF Inodes, Reset
  <2>4. QED
    BY <2>1, <2>2, <2>3
<1>5. \A e \in Ino : f[e] \in [mode : {"none", "reg", "dir", "chr"}, nr : 0..MaxEnt,
                               ents : [1..MaxEnt -> [ino : {0} \cup Ino, name : Names]]]
  BY <1>3, <1>4 DEF Inodes
<1>6. f \in Inodes
  BY <1>4, <1>5 DEF Inodes
<1>7. QED
  BY <1>2, <1>4, <1>6

LEMMA AllocLemma ==
  ASSUME Ino \ imap # {}
  PROVE  alloc_imap_bit \in Ino \ imap
<1>1. Ino \ imap \in SUBSET Nat
  BY NumbersLemma
<1>2. QED
  BY <1>1, MinLemma DEF alloc_imap_bit

LEMMA NamesLemma ==
  /\ <<".">> \in Names /\ <<"..">> \in Names
  /\ \A path \in NewDirs : path \in Names
  /\ \A path \in Paths : Comps(path) # <<>> => <<Comps(path)[1]>> \in Names
BY DEF Names

LEMMA SameRefsLemma ==
  ASSUME RefsOK, UNCHANGED <<imap, i_cnt, f_desc, filp, pwd>>
  PROVE  RefsOK' /\ live' = live
<1>1. imap' = imap /\ i_cnt' = i_cnt /\ f_desc' = f_desc /\ filp' = filp /\ pwd' = pwd
  OBVIOUS
<1>2. /\ \A m : Holders(m)' = Holders(m) /\ Opens(m)' = Opens(m) /\ RootRefs(m)' = RootRefs(m)
      /\ (\A d : Sharers(d)' = Sharers(d)) /\ live' = live
  BY <1>1 DEF Holders, Opens, RootRefs, Sharers, live
<1>3. CountTypes' /\ Counts' /\ Shared' /\ FreeHoldNothing'
  BY <1>1, <1>2 DEF RefsOK, CountTypes, Counts, Shared, FreeHoldNothing
<1>4. QED
  BY <1>2, <1>3 DEF RefsOK

LEMMA PanicLemma ==
  ASSUME IInv, Panic, UNCHANGED exec
  PROVE  IInv'
<1>1. /\ halted' = TRUE /\ imap' = imap /\ inode' = inode /\ i_cnt' = i_cnt
      /\ f_desc' = f_desc /\ filp' = filp /\ pwd' = pwd /\ exec' = exec
  BY DEF Panic
<1>2. /\ imap \subseteq Ino /\ inode \in Inodes /\ ExecOK /\ RefsOK /\ Dirs /\ Sizes
  BY PartsLemma
<1>3. RefsOK'
  BY <1>1, <1>2, SameRefsLemma
<1>4. ExecOK'
  BY <1>1, <1>2 DEF ExecOK
<1>5. Dirs' /\ Sizes'
  BY <1>1, <1>2 DEF Dirs, Sizes, live
<1>6. QED
  BY <1>1, <1>2, <1>3, <1>4, <1>5, PartsNext

\* A request that changes no inode and no name.
LEMMA KeepTreeLemma ==
  ASSUME IInv, RefsOK', ExecOK', UNCHANGED <<imap, inode, halted>>,
         \A x \in live' : pwd'[x] \in imap /\ inode[pwd'[x]].mode = "dir",
         {FS, MM, INIT} \subseteq live'
  PROVE  IInv'
<1>1. imap \subseteq Ino /\ inode \in Inodes /\ RefsOK /\ Dirs /\ Sizes /\ (~halted => Tree)
  BY PartsLemma
<1>2. imap' = imap /\ inode' = inode /\ halted' = halted
  OBVIOUS
<1>3. Dirs' /\ Sizes'
  BY <1>1, <1>2 DEF Dirs, Sizes
<1>4. (~halted => Tree)'
  BY <1>1, <1>2 DEF Tree, DotsOK, NamesOK, NamesDiffer
<1>5. QED
  BY <1>1, <1>2, <1>3, <1>4, PartsNext

LEMMA CreateLemma ==
  ASSUME IInv, ~halted, NEW p \in live, NEW path \in Paths, search_file(p, path) = 0,
         FreeDesc # {}, Ino \ imap # {}, create_file(p, path), UNCHANGED <<pwd, exec, halted>>
  PROVE  IInv'
<1>1. /\ imap \subseteq Ino /\ inode \in Inodes /\ ExecOK /\ RefsOK /\ Dirs /\ Sizes
      /\ Tree /\ TypeOK
  BY PartsLemma DEF IInv
<1>2. path \in Seq(Words) /\ <<Comps(path)[1]>> \in Names
  BY <1>1, TrailLemma, NamesLemma, PathsLemma
<1>3. PICK n \in Ino \ imap : n = alloc_imap_bit
  BY AllocLemma
<1>4. PICK d \in imap : d = StartDir(p, path)
  BY <1>1, StartLemma
<1>5. PICK name \in Names : name = <<Comps(path)[1]>>
  BY <1>2
<1>6a. PICK m \in {"none", "reg", "dir"} : m = "reg"
  OBVIOUS
<1>6. PICK f : f = Reset(n, m)
  OBVIOUS
<1>7. /\ imap' = imap \cup {n} /\ i_cnt' = [i_cnt EXCEPT ![n] = 1]
      /\ inode' = new_dirent(f, d, n, name) /\ TakeDesc(p, n)
      /\ pwd' = pwd /\ exec' = exec /\ halted' = halted
  BY <1>3, <1>4, <1>5, <1>6a, <1>6 DEF create_file, Reset
<1>8. d \in Ino /\ d # n /\ inode[d].mode = "dir" /\ n # ROOT_INODE
  BY <1>1, <1>4, StartLemma DEF Dirs
<1>9. /\ f \in Inodes /\ (\A e \in Ino : e # n => f[e] = inode[e])
      /\ f[n].mode = "reg" /\ f[n].nr = 0 /\ f[n].ents = inode[n].ents
  <2>1. /\ f \in Inodes /\ (\A e \in Ino : e # n => f[e] = inode[e])
        /\ f[n].mode = m /\ f[n].nr = 0 /\ f[n].ents = inode[n].ents
    BY <1>1, <1>6, InodeLemma
  <2>2. QED
    BY <1>6a, <2>1
<1>10. PICK i \in 3..MaxEnt : i = Slot(inode, d) /\ i <= MaxIno + 1
  BY <1>1, <1>8, SlotLemma
<1>11. Slot(f, d) = i /\ i \in 1..MaxEnt
  <2>1. f[d] = inode[d]
    BY <1>8, <1>9
  <2>2. Slot(f, d) = Slot(inode, d)
    BY <2>1 DEF Slot
  <2>3. QED
    BY <1>10, <2>2, NumbersLemma
<1>12. /\ inode' \in Inodes
       /\ \A e \in Ino : e # d => inode'[e] = f[e]
       /\ inode'[d].mode = f[d].mode
       /\ inode'[d].nr = IF f[d].nr >= i THEN f[d].nr ELSE i
       /\ \A j \in 1..MaxEnt :
            inode'[d].ents[j] = IF j = i THEN [ino |-> n, name |-> name] ELSE f[d].ents[j]
  BY <1>7, <1>8, <1>9, <1>11, DirentLemma
<1>13. RefsOK'
  <2>1. i_cnt[n] = 0
    BY <1>1, <1>3, UnallocatedLemma DEF RefsOK
  <2>2. i_cnt' = [i_cnt EXCEPT ![n] = @ + 1]
    BY <1>7, <2>1
  <2>3. QED
    BY <1>1, <1>7, <2>2, TakeLemma
<1>14. \A e \in imap : inode'[e].mode = inode[e].mode
  BY <1>1, <1>3, <1>8, <1>9, <1>12
<1>15. Dirs'
  <2>1. live' = live
    BY <1>7 DEF live
  <2>2. QED
    BY <1>1, <1>7, <1>14, <2>1 DEF Dirs
<1>16. Sizes'
  <2>1. ASSUME NEW e \in Ino PROVE inode'[e].nr <= MaxIno + 1
    BY <1>1, <1>8, <1>9, <1>10, <1>12, NumbersLemma DEF Sizes
  <2>2. QED
    BY <2>1 DEF Sizes
<1>17. NamesOK' /\ NamesDiffer'
  <2>1. ASSUME NEW e \in Ino, NEW j \in 3..MaxEnt
        PROVE  inode'[e].ents[j].ino = IF e = d /\ j = i THEN n ELSE inode[e].ents[j].ino
    <3>1. j \in 1..MaxEnt
      BY NumbersLemma
    <3>2. CASE e = d
      <4>1. inode'[d].ents[j] = IF j = i THEN [ino |-> n, name |-> name] ELSE inode[d].ents[j]
        BY <1>8, <1>9, <1>12, <3>1
      <4>2. QED
        BY <3>2, <4>1
    <3>3. CASE e # d
      BY <1>9, <1>12, <3>3
    <3>4. QED
      BY <3>2, <3>3
  <2>2. NamesOK /\ NamesDiffer
    BY <1>1 DEF Tree
  <2>3. EntryBecomes(d, i, n)
    BY <2>1 DEF EntryBecomes
  <2>4. imap' = imap \cup {n} /\ d \in Ino
    BY <1>7, <1>8
  <2>5. QED
    BY <1>1, <2>2, <2>3, <2>4, AddNameLemma
<1>18. ASSUME NEW e \in imap', inode'[e].mode = "dir" PROVE DotsOK(e)'
  <2>1. e # n /\ e \in imap /\ e \in Ino /\ inode[e].mode = "dir"
    BY <1>1, <1>7, <1>8, <1>9, <1>12, <1>14, <1>18
  <2>2. DotsOK(e)
    BY <1>1, <2>1 DEF Tree
  <2>3. CASE e # d
    <3>1. inode'[e] = inode[e]
      BY <1>9, <1>12, <2>1, <2>3
    <3>2. QED
      BY <1>7, <2>2, <3>1 DEF DotsOK
  <2>4. CASE e = d
    <3>1. inode'[d].ents[1] = inode[d].ents[1] /\ inode'[d].ents[2] = inode[d].ents[2]
      BY <1>8, <1>9, <1>10, <1>12, NumbersLemma
    <3>2. inode'[d].nr >= 2
      BY <1>10, <1>12, <1>9, <1>8, <2>2, <2>4 DEF DotsOK
    <3>3. QED
      BY <1>7, <2>2, <2>4, <3>1, <3>2 DEF DotsOK
  <2>5. QED
    BY <2>3, <2>4
<1>19. Tree'
  BY <1>17, <1>18 DEF Tree
<1>20. ExecOK' /\ imap' \subseteq Ino
  BY <1>1, <1>7 DEF ExecOK
<1>21. QED
  BY <1>12, <1>13, <1>15, <1>16, <1>19, <1>20, PartsNext

\* A request that changes the table of inodes and no reference.
LEMMA KeepRefsLemma ==
  ASSUME RefsOK, NEW n \in Ino, i_cnt[n] = 0, i_cnt' = i_cnt,
         UNCHANGED <<f_desc, filp, pwd>>, imap \ {n} \subseteq imap'
  PROVE  RefsOK'
<1>1. /\ \A m : Holders(m)' = Holders(m) /\ Opens(m)' = Opens(m) /\ RootRefs(m)' = RootRefs(m)
      /\ \A d : Sharers(d)' = Sharers(d)
      /\ f_desc' = f_desc /\ filp' = filp /\ pwd' = pwd
  BY DEF Holders, Opens, RootRefs, Sharers, live
<1>2. Counts' /\ CountTypes' /\ FreeHoldNothing'
  BY <1>1 DEF RefsOK, Counts, CountTypes, FreeHoldNothing
<1>3. ASSUME NEW d \in Desc PROVE f_desc[d].inode \in {0} \cup imap'
  <2>1. f_desc[d].inode \in {0} \cup imap /\ f_desc[d].cnt = Cardinality(Sharers(d))
        /\ (f_desc[d].inode = 0 <=> f_desc[d].cnt = 0)
    BY DEF RefsOK, Shared
  <2>2. CASE f_desc[d].inode = n
    <3>1. Opens(n) = {} /\ n # 0
      BY UnusedLemma, NumbersLemma DEF RefsOK
    <3>2. ASSUME NEW q \in Proc, d \in filp[q] PROVE FALSE
      <4>1. <<q, d>> \in Opens(n)
        BY <2>2, <3>2 DEF Opens
      <4>2. QED
        BY <3>1, <4>1
    <3>3. Sharers(d) = {}
      BY <3>2 DEF Sharers
    <3>4. Cardinality(Sharers(d)) = 0
      BY <3>3, FS_EmptySet
    <3>5. QED
      BY <2>1, <3>4
  <2>3. CASE f_desc[d].inode # n
    BY <2>1, <2>3
  <2>4. QED
    BY <2>2, <2>3
<1>4. Shared'
  BY <1>1, <1>3 DEF RefsOK, Shared
<1>5. QED
  BY <1>2, <1>4 DEF RefsOK

LEMMA MkdirLemma ==
  ASSUME IInv, NEW p \in User, NEW path \in NewDirs, Mkdir(p, path)
  PROVE  IInv'
<1>1. /\ imap \subseteq Ino /\ inode \in Inodes /\ ExecOK /\ RefsOK /\ Dirs /\ Sizes
      /\ Tree /\ TypeOK
  BY PartsLemma DEF IInv, Mkdir, Caller
<1>2. Ino \ imap # {}
  BY DEF Mkdir
<1>3. PICK n \in Ino \ imap : n = alloc_imap_bit
  BY <1>2, AllocLemma
<1>4. CASE ~Fits(n)
  BY <1>3, <1>4, PanicLemma DEF Mkdir
<1>5. CASE Fits(n)
  <2>1. PICK d \in imap : d = pwd[FS] /\ inode[d].mode = "dir"
    BY <1>1 DEF Dirs
  <2>2. PICK m \in {"none", "reg", "dir"} : m = "dir"
    OBVIOUS
  <2>3. PICK f : f = Reset(n, m)
    OBVIOUS
  <2>4. PICK g : g = new_dirent(f, d, n, path)
    OBVIOUS
  <2>5. PICK h : h = new_dirent(g, n, n, <<".">>)
    OBVIOUS
  <2>6. /\ imap' = imap \cup {n} /\ i_cnt' = [i_cnt EXCEPT ![n] = 0]
        /\ inode' = new_dirent(h, n, d, <<"..">>)
        /\ f_desc' = f_desc /\ filp' = filp /\ pwd' = pwd /\ exec' = exec /\ halted' = halted
    BY <1>3, <1>5, <2>1, <2>2, <2>3, <2>4, <2>5 DEF Mkdir, Reset
  <2>7. d \in Ino /\ d # n /\ n # 0 /\ n # ROOT_INODE
    BY <1>1, NumbersLemma DEF Dirs
  <2>8. /\ f \in Inodes /\ (\A e \in Ino : e # n => f[e] = inode[e])
        /\ f[n].mode = m /\ f[n].nr = 0 /\ f[n].ents = inode[n].ents
    BY <1>1, <2>3, InodeLemma
  <2>9. PICK i \in 3..MaxEnt : i = Slot(inode, d) /\ i <= MaxIno + 1
    BY <1>1, <2>1, SlotLemma
  <2>10. Slot(f, d) = i /\ i \in 1..MaxEnt
    <3>1. f[d] = inode[d]
      BY <2>7, <2>8
    <3>2. Slot(f, d) = Slot(inode, d)
      BY <3>1 DEF Slot
    <3>3. QED
      BY <2>9, <3>2, NumbersLemma
  <2>11. /\ g \in Inodes
         /\ \A e \in Ino : e # d => g[e] = f[e]
         /\ g[d].mode = f[d].mode
         /\ g[d].nr = IF f[d].nr >= i THEN f[d].nr ELSE i
         /\ \A j \in 1..MaxEnt :
              g[d].ents[j] = IF j = i THEN [ino |-> n, name |-> path] ELSE f[d].ents[j]
    BY <2>4, <2>7, <2>8, <2>10, DirentLemma, NamesLemma
  <2>12. g[n] = f[n] /\ g[n].nr = 0
    BY <2>7, <2>8, <2>11
  <2>13. Slot(g, n) = 1
    <3>1. {k \in 1..g[n].nr : g[n].ents[k].ino = 0} = {}
      BY <2>12
    <3>2. QED
      BY <2>12, <3>1 DEF Slot
  <2>14. /\ h \in Inodes
         /\ \A e \in Ino : e # n => h[e] = g[e]
         /\ h[n].mode = g[n].mode
         /\ h[n].nr = IF g[n].nr >= 1 THEN g[n].nr ELSE 1
         /\ \A j \in 1..MaxEnt :
              h[n].ents[j] = IF j = 1 THEN [ino |-> n, name |-> <<".">>] ELSE g[n].ents[j]
    BY <2>5, <2>11, <2>13, DirentLemma, NamesLemma, NumbersLemma
  <2>15. h[n].nr = 1 /\ h[n].ents[1].ino = n
    BY <2>12, <2>14, NumbersLemma
  <2>16. Slot(h, n) = 2
    <3>1. {k \in 1..h[n].nr : h[n].ents[k].ino = 0} = {}
      BY <2>7, <2>15
    <3>2. QED
      BY <2>15, <3>1 DEF Slot
  <2>17. /\ inode' \in Inodes
         /\ \A e \in Ino : e # n => inode'[e] = h[e]
         /\ inode'[n].mode = h[n].mode
         /\ inode'[n].nr = IF h[n].nr >= 2 THEN h[n].nr ELSE 2
         /\ \A j \in 1..MaxEnt :
              inode'[n].ents[j] = IF j = 2 THEN [ino |-> d, name |-> <<"..">>] ELSE h[n].ents[j]
    BY <2>6, <2>7, <2>14, <2>16, DirentLemma, NamesLemma, NumbersLemma
\* The three directories that matter: the new one, the one it is in, any other.
  <2>18. /\ inode'[n].nr = 2 /\ inode'[n].mode = "dir"
         /\ inode'[n].ents[1] = [ino |-> n, name |-> <<".">>]
         /\ inode'[n].ents[2] = [ino |-> d, name |-> <<"..">>]
         /\ \A j \in 3..MaxEnt : inode'[n].ents[j] = inode[n].ents[j]
    <3>1. inode'[n].nr = 2
      BY <2>15, <2>17
    <3>2. inode'[n].mode = "dir"
      BY <2>2, <2>8, <2>12, <2>14, <2>17
    <3>3. /\ inode'[n].ents[1] = [ino |-> n, name |-> <<".">>]
          /\ inode'[n].ents[2] = [ino |-> d, name |-> <<"..">>]
      BY <2>14, <2>17, NumbersLemma
    <3>4. ASSUME NEW j \in 3..MaxEnt PROVE inode'[n].ents[j] = inode[n].ents[j]
      BY <2>8, <2>12, <2>14, <2>17, NumbersLemma
    <3>5. QED
      BY <3>1, <3>2, <3>3, <3>4
  <2>19. /\ inode'[d].mode = inode[d].mode
         /\ inode'[d].nr = IF inode[d].nr >= i THEN inode[d].nr ELSE i
         /\ \A j \in 1..MaxEnt :
              inode'[d].ents[j] = IF j = i THEN [ino |-> n, name |-> path] ELSE inode[d].ents[j]
    <3>1. inode'[d] = g[d] /\ f[d] = inode[d]
      BY <2>7, <2>8, <2>14, <2>17
    <3>2. QED
      BY <2>11, <3>1
  <2>20. \A e \in Ino : e # d /\ e # n => inode'[e] = inode[e]
    BY <2>8, <2>11, <2>14, <2>17
  <2>21. RefsOK'
    <3>1. i_cnt[n] = 0
      BY <1>1, <1>3, UnallocatedLemma DEF RefsOK
    <3>2. i_cnt' = i_cnt
      BY <1>1, <2>6, <3>1 DEF RefsOK, CountTypes
    <3>3. QED
      BY <1>1, <2>6, <3>1, <3>2, KeepRefsLemma
  <2>22. \A e \in imap : inode'[e].mode = inode[e].mode
    BY <1>1, <1>3, <2>19, <2>20
  <2>23. Dirs'
    <3>1. live' = live
      BY <2>6 DEF live
    <3>2. QED
      BY <1>1, <2>6, <2>22, <3>1 DEF Dirs
  <2>24. Sizes'
    <3>1. ASSUME NEW e \in Ino PROVE inode'[e].nr <= MaxIno + 1
      <4>1. CASE e = n
        BY <2>7, <2>18, <4>1, NumbersLemma DEF Ino, ROOT_INODE
      <4>2. CASE e = d
        BY <1>1, <2>9, <2>19, <4>2 DEF Sizes
      <4>3. CASE e # d /\ e # n
        BY <1>1, <2>20, <4>3 DEF Sizes
      <4>4. QED
        BY <4>1, <4>2, <4>3
    <3>2. QED
      BY <3>1 DEF Sizes
  <2>25. NamesOK' /\ NamesDiffer'
    <3>1. ASSUME NEW e \in Ino, NEW j \in 3..MaxEnt
          PROVE  inode'[e].ents[j].ino = IF e = d /\ j = i THEN n ELSE inode[e].ents[j].ino
      <4>1. j \in 1..MaxEnt
        BY NumbersLemma
      <4>2. CASE e = d
        <5>1. inode'[d].ents[j] = IF j = i THEN [ino |-> n, name |-> path] ELSE inode[d].ents[j]
          BY <2>19, <4>1
        <5>2. QED
          BY <4>2, <5>1
      <4>3. CASE e = n
        BY <2>7, <2>18, <4>3
      <4>4. CASE e # d /\ e # n
        BY <2>20, <4>4
      <4>5. QED
        BY <4>2, <4>3, <4>4
    <3>2. NamesOK /\ NamesDiffer
      BY <1>1 DEF Tree
    <3>3. EntryBecomes(d, i, n)
      BY <3>1 DEF EntryBecomes
    <3>4. imap' = imap \cup {n} /\ d \in Ino
      BY <2>6, <2>7
    <3>5. QED
      BY <1>1, <3>2, <3>3, <3>4, AddNameLemma
  <2>26. ASSUME NEW e \in imap', inode'[e].mode = "dir" PROVE DotsOK(e)'
    <3>1. CASE e = n
      <4>1. inode'[n].ents[1].ino = n /\ inode'[n].ents[1].name = <<".">>
            /\ inode'[n].ents[2].ino = d /\ inode'[n].ents[2].name = <<"..">>
        BY <2>18
      <4>2. QED
        BY <2>6, <2>18, <3>1, <4>1 DEF DotsOK
    <3>2. CASE e # n
      <4>1. e \in imap /\ e \in Ino /\ DotsOK(e)
        BY <1>1, <2>6, <2>22, <2>26, <3>2 DEF Tree
      <4>2. CASE e # d
        <5>1. inode'[e] = inode[e]
          BY <2>20, <3>2, <4>1, <4>2
        <5>2. QED
          BY <2>6, <4>1, <5>1 DEF DotsOK
      <4>3. CASE e = d
        <5>1. inode'[d].ents[1] = inode[d].ents[1] /\ inode'[d].ents[2] = inode[d].ents[2]
          BY <2>9, <2>19, NumbersLemma
        <5>2. inode'[d].nr >= 2
          BY <2>9, <2>19, <4>1, <4>3 DEF DotsOK
        <5>3. QED
          BY <2>6, <4>1, <4>3, <5>1, <5>2 DEF DotsOK
      <4>4. QED
        BY <4>2, <4>3
    <3>3. QED
      BY <3>1, <3>2
  <2>27. Tree'
    BY <2>25, <2>26 DEF Tree
  <2>28. ExecOK' /\ imap' \subseteq Ino
    BY <1>1, <2>6 DEF ExecOK
  <2>29. QED
    BY <2>17, <2>21, <2>23, <2>24, <2>27, <2>28, PartsNext
<1>6. QED
  BY <1>4, <1>5

\* The entry do_unlink clears.
FirstOf(f, d, n) == Min({j \in InSize(f[d]) : f[d].ents[j].ino = n})

\* Clearing the entry i of d, and the size do_unlink leaves it.
LEMMA RemoveLemma ==
  ASSUME NEW f \in Inodes, NEW d \in Ino, NEW n \in Ino, NEW i \in InSize(f[d]),
         i = FirstOf(f, d, n),
         NEW g, g = RemoveEntry(f, d, n)
  PROVE  /\ g \in Inodes
         /\ \A e \in Ino : e # d => g[e] = f[e]
         /\ g[d].mode = f[d].mode
         /\ g[d].nr = IF i = f[d].nr THEN Cardinality(InSize(f[d]) \ {i}) ELSE f[d].nr
         /\ g[d].nr <= f[d].nr
         /\ \A j \in 1..MaxEnt : g[d].ents[j] = IF j = i THEN NoEntry ELSE f[d].ents[j]
<1>1. g = [f EXCEPT ![d].ents[i] = NoEntry,
                    ![d].nr = IF i = @ THEN Cardinality(InSize(f[d]) \ {i}) ELSE @]
  BY DEF RemoveEntry, FirstOf
<1>2. f[d] \in [mode : {"none", "reg", "dir", "chr"}, nr : 0..MaxEnt,
                ents : [1..MaxEnt -> [ino : {0} \cup Ino, name : Names]]]
  BY DEF Inodes
<1>3. PICK s : s = IF i = f[d].nr THEN Cardinality(InSize(f[d]) \ {i}) ELSE f[d].nr
  OBVIOUS
<1>4. s \in Nat /\ s <= f[d].nr /\ s \in 0..MaxEnt /\ i \in 1..MaxEnt
  <2>1. f[d].nr \in Nat /\ f[d].nr <= MaxEnt /\ i \in 1..f[d].nr
    BY <1>2, NumbersLemma DEF InSize
  <2>2. IsFiniteSet(1..f[d].nr) /\ Cardinality(1..f[d].nr) = f[d].nr
    <3>1. PICK k \in Nat : k = f[d].nr
      BY <2>1
    <3>2. IsFiniteSet(1..k) /\ Cardinality(1..k) = k
      BY FS_Interval
    <3>3. QED
      BY <3>1, <3>2
  <2>3. InSize(f[d]) \ {i} \in SUBSET (1..f[d].nr)
    BY DEF InSize
  <2>4. /\ IsFiniteSet(InSize(f[d]) \ {i})
        /\ Cardinality(InSize(f[d]) \ {i}) <= f[d].nr
    <3>1. PICK S, T : S = 1..f[d].nr /\ T = InSize(f[d]) \ {i}
      OBVIOUS
    <3>2. IsFiniteSet(S) /\ Cardinality(S) = f[d].nr /\ T \in SUBSET S
      BY <2>2, <2>3, <3>1
    <3>3. IsFiniteSet(T) /\ Cardinality(T) <= Cardinality(S)
      BY <3>2, FS_Subset
    <3>4. QED
      BY <3>1, <3>2, <3>3
  <2>5. Cardinality(InSize(f[d]) \ {i}) \in Nat
    BY <2>4, FS_CardinalityType
  <2>6. QED
    BY <1>3, <2>1, <2>4, <2>5, NumbersLemma
<1>5. PICK x : x = [f[d].ents EXCEPT ![i] = NoEntry]
  OBVIOUS
<1>6. /\ x \in [1..MaxEnt -> [ino : {0} \cup Ino, name : Names]]
      /\ \A j \in 1..MaxEnt : x[j] = IF j = i THEN NoEntry ELSE f[d].ents[j]
  <2>1. NoEntry \in [ino : {0} \cup Ino, name : Names]
    BY DEF NoEntry, Names
  <2>2. f[d].ents \in [1..MaxEnt -> [ino : {0} \cup Ino, name : Names]]
    BY <1>2
  <2>3. QED
    BY <1>4, <1>5, <2>1, <2>2
<1>7. g[d] = [mode |-> f[d].mode, nr |-> s, ents |-> x]
      /\ (\A e \in Ino : e # d => g[e] = f[e]) /\ g = [e \in Ino |-> g[e]]
  <2>1. (\A e \in Ino : e # d => g[e] = f[e]) /\ g = [e \in Ino |-> g[e]]
    BY <1>1 DEF Inodes
  <2>2. PICK a, b, c : f[d] = [mode |-> a, nr |-> b, ents |-> c]
    BY <1>2
  <2>3. g[d] = [[f[d] EXCEPT !.ents = x] EXCEPT !.nr = s]
    BY <1>1, <1>3, <1>5, <1>2 DEF Inodes
  <2>4. [[mode |-> a, nr |-> b, ents |-> c] EXCEPT !.ents = x] = [mode |-> a, nr |-> b, ents |-> x]
    OBVIOUS
  <2>5. [[mode |-> a, nr |-> b, ents |-> x] EXCEPT !.nr = s] = [mode |-> a, nr |-> s, ents |-> x]
    OBVIOUS
  <2>6. f[d].mode = a
    BY <2>2
  <2>7. QED
    BY <2>1, <2>2, <2>3, <2>4, <2>5, <2>6
<1>8. g \in Inodes
  <2>1. \A e \in Ino : g[e] \in [mode : {"none", "reg", "dir", "chr"}, nr : 0..MaxEnt,
                                 ents : [1..MaxEnt -> [ino : {0} \cup Ino, name : Names]]]
    <3>1. g[d] \in [mode : {"none", "reg", "dir", "chr"}, nr : 0..MaxEnt,
                    ents : [1..MaxEnt -> [ino : {0} \cup Ino, name : Names]]]
      BY <1>2, <1>4, <1>6, <1>7
    <3>2. QED
      BY <1>7, <3>1 DEF Inodes
  <2>2. QED
    BY <1>7, <2>1 DEF Inodes
<1>9. g[d].mode = f[d].mode /\ g[d].nr = s /\ g[d].ents = x
  BY <1>7
<1>10. QED
  BY <1>3, <1>4, <1>6, <1>7, <1>8, <1>9

LEMMA UnlinkLemma ==
  ASSUME IInv, NEW p \in User, NEW path \in Paths, Unlink(p, path)
  PROVE  IInv'
<1>1. /\ imap \subseteq Ino /\ inode \in Inodes /\ ExecOK /\ RefsOK /\ Dirs /\ Sizes
      /\ Tree /\ TypeOK /\ ~halted /\ p \in live
  BY PartsLemma DEF IInv, Unlink, Caller
<1>2. PICK n \in {0} \cup imap : n = search_file(p, path)
  BY <1>1, TrailLemma, PathsLemma
<1>3. PICK d \in imap : d = StartDir(p, path) /\ inode[d].mode = "dir"
  BY <1>1, StartLemma
<1>4. CASE ~(SearchFits(p, path) /\ (n # 0 => Fits(n)))
  BY <1>2, <1>4, PanicLemma DEF Unlink
<1>5. CASE SearchFits(p, path) /\ (n # 0 => Fits(n))
  <2>1. PICK m \in {"none", "reg", "dir"} : m = "none"
    OBVIOUS
  <2>2. PICK f : f = Reset(n, m)
    OBVIOUS
  <2>3. PICK flg \in BOOLEAN : flg <=> \E i \in InSize(f[d]) : f[d].ents[i].ino = n
    OBVIOUS
  <2>4. /\ n # 0 /\ Removable(n) /\ KeepsTree(n)
        /\ imap' = imap \ {n} /\ inode' = (IF flg THEN RemoveEntry(f, d, n) ELSE f)
        /\ halted' = ~flg
        /\ i_cnt' = i_cnt /\ f_desc' = f_desc /\ filp' = filp /\ pwd' = pwd /\ exec' = exec
    BY <1>2, <1>3, <1>5, <2>1, <2>2, <2>3 DEF Unlink, Reset
  <2>5. n \in imap /\ n \in Ino /\ d \in Ino /\ i_cnt[n] = 0
    BY <1>1, <2>4 DEF Removable
  <2>6. Holders(n) = {} /\ Opens(n) = {} /\ n # ROOT_INODE
    BY <1>1, <2>5, UnusedLemma DEF RefsOK
  <2>7. d # n
    <3>1. p \in Proc /\ pwd[p] # n
      BY <1>1, <2>6 DEF live, Holders
    <3>2. QED
      BY <1>3, <2>6, <3>1 DEF StartDir
  <2>8. /\ f \in Inodes /\ (\A e \in Ino : e # n => f[e] = inode[e])
        /\ f[n].mode = m /\ f[n].nr = 0 /\ f[n].ents = inode[n].ents
    BY <1>1, <2>2, <2>5, InodeLemma
  <2>9. f[d] = inode[d]
    BY <2>5, <2>7, <2>8
  <2>10. RefsOK'
    BY <1>1, <2>4, <2>5, KeepRefsLemma
  <2>11. ExecOK' /\ imap' \subseteq Ino
    BY <1>1, <2>4 DEF ExecOK
  <2>12. \A x \in live : pwd[x] \in imap \ {n}
    BY <1>1, <2>6 DEF Dirs, live, Holders
  <2>13. live' = live
    BY <2>4 DEF live
  <2>14. CASE ~flg
    <3>1. inode' = f /\ halted' = TRUE
      BY <2>4, <2>14
    <3>2. Dirs'
      BY <1>1, <2>4, <2>6, <2>8, <2>12, <2>13, <3>1 DEF Dirs
    <3>3. Sizes'
      <4>1. ASSUME NEW e \in Ino PROVE f[e].nr <= MaxIno + 1
        <5>1. CASE e = n
          BY <2>8, <5>1, NumbersLemma
        <5>2. CASE e # n
          BY <1>1, <2>8, <5>2 DEF Sizes
        <5>3. QED
          BY <5>1, <5>2
      <4>2. QED
        BY <3>1, <4>1 DEF Sizes
    <3>4. QED
      BY <2>8, <2>10, <2>11, <3>1, <3>2, <3>3, PartsNext
  <2>15. CASE flg
    <3> DEFINE at == {j \in InSize(f[d]) : f[d].ents[j].ino = n}
    <3>1. PICK i : i = FirstOf(f, d, n)
      OBVIOUS
    <3>2. i \in at
      <4>1. at \in SUBSET Nat
        BY DEF InSize
      <4>2. at # {}
        BY <2>3, <2>15
      <4>3. i = Min(at)
        BY <3>1 DEF FirstOf
      <4> HIDE DEF at
      <4>4. QED
        BY <4>1, <4>2, <4>3, MinLemma
    <3>3. i \in InSize(f[d]) /\ f[d].ents[i].ino = n
      BY <3>2
    <3>4. inode' = RemoveEntry(f, d, n)
      BY <2>4, <2>15
    <3>5. /\ inode' \in Inodes
          /\ \A e \in Ino : e # d => inode'[e] = f[e]
          /\ inode'[d].mode = f[d].mode
          /\ inode'[d].nr = IF i = f[d].nr THEN Cardinality(InSize(f[d]) \ {i}) ELSE f[d].nr
          /\ inode'[d].nr <= f[d].nr
          /\ \A j \in 1..MaxEnt : inode'[d].ents[j] = IF j = i THEN NoEntry ELSE f[d].ents[j]
      BY <2>5, <2>8, <3>1, <3>3, <3>4, RemoveLemma
\* No directory that is left has the removed inode as its "." or "..".
    <3>6. ASSUME NEW e \in imap, e # n, inode[e].mode = "dir"
          PROVE  DotsOK(e) /\ inode[e].ents[1].ino # n /\ inode[e].ents[2].ino # n
      <4>1. DotsOK(e) /\ e \in Ino
        BY <1>1, <3>6 DEF Tree
      <4>2. PICK a, b : inode[e].ents[2] = [ino |-> a, name |-> b]
        <5>1. inode[e].ents \in [1..MaxEnt -> [ino : {0} \cup Ino, name : Names]]
          BY <1>1, <4>1 DEF Inodes
        <5>2. inode[e].ents[2] \in [ino : {0} \cup Ino, name : Names]
          BY <5>1, NumbersLemma
        <5>3. QED
          BY <5>2
      <4>3. b = <<"..">> /\ inode[e].ents[2].ino = a
        BY <4>1, <4>2 DEF DotsOK
      <4>4. a # n
        <5>1. SUFFICES ASSUME a = n PROVE FALSE
          OBVIOUS
        <5>2. inode[e].ents[2] = [ino |-> n, name |-> <<"..">>]
          BY <4>2, <4>3, <5>1
        <5>3. QED
          BY <2>4, <3>6, <5>2, NumbersLemma DEF KeepsTree
      <4>5. QED
        BY <3>6, <4>1, <4>3, <4>4 DEF DotsOK
    <3>7. DotsOK(d) /\ inode[d].ents[1].ino # n /\ inode[d].ents[2].ino # n
      BY <1>3, <2>7, <3>6
    <3>8. i \in 3..MaxEnt /\ inode[d].nr \in 0..MaxEnt
      <4>1. i \in 1..inode[d].nr /\ inode[d].nr \in 0..MaxEnt
        BY <1>1, <2>5, <2>9, <3>3 DEF InSize, Inodes
      <4>2. i # 1 /\ i # 2
        BY <2>9, <3>3, <3>7
      <4>3. QED
        BY <4>1, <4>2, NumbersLemma
    <3>9. \A e \in imap \ {n} : inode'[e].mode = inode[e].mode
      BY <1>1, <2>8, <2>9, <3>5
    <3>10. Dirs'
      BY <1>1, <2>4, <2>6, <2>12, <2>13, <3>9 DEF Dirs
    <3>11. Sizes'
      <4>1. ASSUME NEW e \in Ino PROVE inode'[e].nr <= MaxIno + 1
        <5>1. CASE e = d
          <6>1. inode'[d].nr <= inode[d].nr /\ inode[d].nr <= MaxIno + 1
            BY <1>1, <2>5, <2>9, <3>5 DEF Sizes
          <6>2. inode'[d].nr \in Nat /\ inode[d].nr \in Nat
            BY <1>1, <2>5, <3>5, NumbersLemma DEF Inodes
          <6>3. QED
            BY <5>1, <6>1, <6>2, NumbersLemma
        <5>2. CASE e # d
          BY <1>1, <2>8, <3>5, <5>2, NumbersLemma DEF Sizes
        <5>3. QED
          BY <5>1, <5>2
      <4>2. QED
        BY <4>1 DEF Sizes
    <3>12. inode'[d].nr >= 2
      <4>1. CASE i = f[d].nr
        <5>1. inode[d].ents[1].ino # 0 /\ inode[d].ents[2].ino # 0 /\ inode[d].nr >= 2
          BY <1>1, <2>5, <3>7, NumbersLemma DEF DotsOK
        <5>2. PICK k \in Nat : k = inode[d].nr
          BY <3>8, NumbersLemma
        <5>2a. PICK S, T : S = 1..k /\ T = InSize(f[d]) \ {i}
          OBVIOUS
        <5>3. {1, 2} \in SUBSET T /\ T \in SUBSET S
          BY <2>9, <3>8, <5>1, <5>2, <5>2a, NumbersLemma DEF InSize
        <5>4. IsFiniteSet(S)
          BY <5>2a, FS_Interval
        <5>5. IsFiniteSet(T) /\ Cardinality(T) \in Nat
          BY <5>3, <5>4, FS_Subset, FS_CardinalityType
        <5>6. Cardinality({1, 2}) = 2
          <6>1. IsFiniteSet({1}) /\ Cardinality({1}) = 1
            BY FS_Singleton
          <6>2. {1, 2} = {1} \cup {2} /\ 2 \notin {1}
            OBVIOUS
          <6>3. Cardinality({1} \cup {2}) = 1 + 1
            BY <6>1, <6>2, FS_AddElement
          <6>4. QED
            BY <6>2, <6>3
        <5>7. Cardinality({1, 2}) <= Cardinality(T)
          BY <5>3, <5>5, FS_Subset
        <5>8. inode'[d].nr = Cardinality(T)
          BY <3>5, <4>1, <5>2a
        <5>9. QED
          BY <5>5, <5>6, <5>7, <5>8
      <4>2. CASE i # f[d].nr
        BY <2>9, <3>5, <3>7, <4>2 DEF DotsOK
      <4>3. QED
        BY <4>1, <4>2
    <3>13. NamesOK' /\ NamesDiffer'
      <4>1. ASSUME NEW e \in Ino, NEW j \in 3..MaxEnt
            PROVE  inode'[e].ents[j].ino = IF e = d /\ j = i THEN 0 ELSE inode[e].ents[j].ino
        <5>1. j \in 1..MaxEnt
          BY NumbersLemma
        <5>2. CASE e = d
          <6>1. inode'[d].ents[j] = IF j = i THEN NoEntry ELSE inode[d].ents[j]
            BY <2>9, <3>5, <5>1
          <6>2. QED
            BY <5>2, <6>1 DEF NoEntry
        <5>3. CASE e # d
          BY <2>8, <3>5, <5>3
        <5>4. QED
          BY <5>2, <5>3
      <4>2. EntryBecomes(d, i, 0)
        BY <4>1 DEF EntryBecomes
      <4>3. NamesOK /\ NamesDiffer
        BY <1>1 DEF Tree
      <4>4. inode[d].ents[i].ino = n
        BY <2>9, <3>3
      <4>5. QED
        BY <2>4, <2>5, <3>8, <4>2, <4>3, <4>4, DropNameLemma
    <3>14. ASSUME NEW e \in imap', inode'[e].mode = "dir" PROVE DotsOK(e)'
      <4>1. e \in imap /\ e # n /\ e \in Ino
        BY <1>1, <2>4
      <4>2. inode[e].mode = "dir"
        BY <3>9, <3>14, <4>1
      <4>3. DotsOK(e) /\ inode[e].ents[1].ino # n /\ inode[e].ents[2].ino # n
        BY <3>6, <4>1, <4>2
      <4>4. CASE e # d
        <5>1. inode'[e] = inode[e]
          BY <2>8, <3>5, <4>1, <4>4
        <5>2. QED
          BY <2>4, <4>3, <5>1 DEF DotsOK
      <4>5. CASE e = d
        <5>1. inode'[d].ents[1] = inode[d].ents[1] /\ inode'[d].ents[2] = inode[d].ents[2]
          BY <2>9, <3>5, <3>8, NumbersLemma
        <5>2. QED
          BY <2>4, <3>12, <4>3, <4>5, <5>1 DEF DotsOK
      <4>6. QED
        BY <4>4, <4>5
    <3>15. Tree'
      BY <3>13, <3>14 DEF Tree
    <3>16. QED
      BY <2>10, <2>11, <3>5, <3>10, <3>11, <3>15, PartsNext
  <2>16. QED
    BY <2>14, <2>15
<1>6. QED
  BY <1>4, <1>5

\* Open of a file that is there, for a user or for MM in exec.
LEMMA FindsLemma ==
  ASSUME IInv, ~halted, NEW p \in live, NEW path \in Seq(Words), NEW flags,
         OpenFinds(p, path, flags), ExecOK', Panic => UNCHANGED exec
  PROVE  IInv'
<1>1. RefsOK /\ Dirs /\ Sizes /\ Tree /\ TypeOK /\ imap \subseteq Ino
  BY PartsLemma DEF IInv
<1>2. PICK n \in {0} \cup imap : n = search_file(p, path)
  BY <1>1, TrailLemma
<1>3. n # 0 /\ n \in imap /\ n \in Ino /\ FreeDesc # {}
  BY <1>1, <1>2 DEF OpenFinds, CanOpen
<1>4. CASE Fits(n)
  <2>1. /\ i_cnt' = [i_cnt EXCEPT ![n] = @ + 1] /\ TakeDesc(p, n)
        /\ imap' = imap /\ inode' = inode /\ pwd' = pwd /\ halted' = halted
    BY <1>2, <1>4 DEF OpenFinds
  <2>2. RefsOK'
    BY <1>1, <1>3, <2>1, TakeLemma
  <2>3. live' = live
    BY <2>1 DEF live
  <2>4. /\ \A x \in live' : pwd'[x] \in imap /\ inode[pwd'[x]].mode = "dir"
        /\ {FS, MM, INIT} \subseteq live'
    BY <1>1, <2>1, <2>3 DEF Dirs
  <2>5. QED
    BY <2>1, <2>2, <2>4, KeepTreeLemma
<1>5. CASE ~Fits(n)
  <2>1. Panic
    BY <1>2, <1>5 DEF OpenFinds
  <2>2. QED
    BY <2>1, PanicLemma
<1>6. QED
  BY <1>4, <1>5

LEMMA OpenLemma ==
  ASSUME IInv, NEW p \in User, NEW path \in Paths, NEW flags, Open(p, path, flags)
  PROVE  IInv'
<1>1. ~halted /\ p \in live /\ exec' = exec /\ path \in Seq(Words)
  BY PathsLemma DEF Open, Caller
<1>2. CASE OpenCreates(p, path, flags)
  <2>1. search_file(p, path) = 0 /\ FreeDesc # {} /\ Ino \ imap # {}
    BY <1>2 DEF OpenCreates, CanOpen
  <2>2. CASE Fits(alloc_imap_bit)
    BY <1>1, <1>2, <2>1, <2>2, CreateLemma DEF OpenCreates
  <2>3. CASE ~Fits(alloc_imap_bit)
    BY <1>1, <1>2, <2>3, PanicLemma DEF OpenCreates
  <2>4. QED
    BY <2>2, <2>3
<1>3. CASE OpenFinds(p, path, flags)
  <2>1. CASE Panic
    BY <1>1, <2>1, PanicLemma
  <2>2. CASE ~Panic
    <3>1. halted' = halted
      BY <1>3, <2>2 DEF OpenFinds
    <3>2. ExecOK'
      BY <1>1, <3>1, PartsLemma DEF ExecOK
    <3>3. QED
      BY <1>1, <1>3, <2>2, <3>2, FindsLemma
  <2>3. QED
    BY <2>1, <2>2
<1>4. CASE OpenPanics(p, path)
  BY <1>1, <1>4, PanicLemma DEF OpenPanics
<1>5. QED
  BY <1>2, <1>3, <1>4 DEF Open

LEMMA CloseDescLemma ==
  ASSUME IInv, NEW p \in Proc, NEW d \in filp[p], CloseDesc(p, d), ExecOK'
  PROVE  IInv'
<1>1. RefsOK /\ Dirs /\ TypeOK
  BY PartsLemma DEF IInv
<1>2. RefsOK'
  BY <1>1, CloseLemma
<1>3. pwd' = pwd /\ imap' = imap /\ inode' = inode /\ halted' = halted
  BY DEF CloseDesc
<1>4. live' = live
  BY <1>3 DEF live
<1>5. /\ \A x \in live' : pwd'[x] \in imap /\ inode[pwd'[x]].mode = "dir"
      /\ {FS, MM, INIT} \subseteq live'
  BY <1>1, <1>3, <1>4 DEF Dirs
<1>6. QED
  BY <1>2, <1>3, <1>5, KeepTreeLemma

\* A process goes to the directory n: chdir, and FS for an exec.
LEMMA GoLemma ==
  ASSUME IInv, ExecOK', NEW q \in live, NEW n \in imap, inode[n].mode = "dir",
         pwd' = [pwd EXCEPT ![q] = n], UNCHANGED <<imap, inode, f_desc, filp, halted>>,
         i_cnt' = [m \in Ino |-> i_cnt[m] + (IF m = n THEN 1 ELSE 0)
                                          - (IF m = pwd[q] THEN 1 ELSE 0)]
  PROVE  IInv'
<1>1. RefsOK /\ Dirs /\ TypeOK /\ n \in Ino /\ n # 0
  BY PartsLemma, NumbersLemma DEF IInv
<1>2. filp' = filp /\ f_desc' = f_desc /\ imap' = imap
  OBVIOUS
<1>3. RefsOK'
  BY <1>1, <1>2, MoveLemma
<1>4. \A x \in Proc : pwd'[x] = IF x = q THEN n ELSE pwd[x]
  BY <1>1 DEF RefsOK, CountTypes
<1>5. live' = live
  BY <1>1, <1>4 DEF live
<1>6. /\ \A x \in live' : pwd'[x] \in imap /\ inode[pwd'[x]].mode = "dir"
      /\ {FS, MM, INIT} \subseteq live'
  BY <1>1, <1>4, <1>5 DEF Dirs, live
<1>7. QED
  BY <1>3, <1>6, KeepTreeLemma

LEMMA ChdirLemma ==
  ASSUME IInv, NEW p \in User, NEW path \in Seq(Words), Chdir(p, path)
  PROVE  IInv'
<1>1. /\ RefsOK /\ Dirs /\ Sizes /\ Tree /\ TypeOK /\ imap \subseteq Ino
      /\ p \in live /\ ExecOK
  BY PartsLemma DEF IInv, Chdir, Caller
<1>2. PICK n \in {0} \cup imap : n = search_file(p, path)
  BY <1>1, TrailLemma
<1>3. PICK ok \in BOOLEAN : ok = (SearchFits(p, path) /\ (n # 0 => Fits(n)) /\ n # pwd[p])
  OBVIOUS
<1>4. CASE ~ok
  BY <1>2, <1>3, <1>4, PanicLemma DEF Chdir
<1>5. CASE ok
  <2>1. /\ n # 0 /\ inode[n].mode = "dir"
        /\ i_cnt' = [i_cnt EXCEPT ![n] = @ + 1, ![pwd[p]] = @ - 1]
        /\ pwd' = [pwd EXCEPT ![p] = n]
        /\ UNCHANGED <<imap, inode, f_desc, filp, exec, halted>>
    BY <1>2, <1>3, <1>5 DEF Chdir
  <2>2. n # pwd[p]
    BY <1>3, <1>5
  <2>3. i_cnt' = [m \in Ino |-> i_cnt[m] + (IF m = n THEN 1 ELSE 0)
                                         - (IF m = pwd[p] THEN 1 ELSE 0)]
    <3>1. PICK o : o = pwd[p]
      OBVIOUS
    <3>2. i_cnt \in [Ino -> Nat]
      BY <1>1 DEF RefsOK, CountTypes
    <3>3. i_cnt' = [i_cnt EXCEPT ![n] = @ + 1, ![o] = @ - 1] /\ n # o
      BY <2>1, <2>2, <3>1
    <3>4. ASSUME NEW m \in Ino
          PROVE  i_cnt'[m] = i_cnt[m] + (IF m = n THEN 1 ELSE 0) - (IF m = o THEN 1 ELSE 0)
      <4>1. i_cnt[m] \in Nat
        BY <3>2
      <4>2. i_cnt'[m] = IF m = o THEN i_cnt[m] - 1 ELSE IF m = n THEN i_cnt[m] + 1 ELSE i_cnt[m]
        BY <3>2, <3>3
      <4>3. QED
        BY <3>3, <4>1, <4>2
    <3>5. i_cnt' = [m \in Ino |-> i_cnt'[m]]
      BY <3>2, <3>3
    <3>6. QED
      BY <3>1, <3>4, <3>5
  <2>4. ExecOK'
    BY <1>1, <2>1 DEF ExecOK
  <2>5. QED
    BY <1>1, <2>1, <2>3, <2>4, GoLemma
<1>6. QED
  BY <1>3, <1>4, <1>5

LEMMA TellFsLemma ==
  ASSUME IInv, NEW p \in User, NEW path \in Programs, ExecTellFs(p, path)
  PROVE  IInv'
<1>1. RefsOK /\ Dirs /\ TypeOK /\ p \in live /\ FS \in live /\ p \in Proc /\ ExecOK
  BY PartsLemma, FiniteLemma DEF IInv, ExecTellFs, Caller, Dirs
<1>2. PICK n \in imap : n = pwd[p] /\ inode[n].mode = "dir"
  BY <1>1 DEF Dirs
<1>3. /\ pwd' = [pwd EXCEPT ![FS] = n] /\ UNCHANGED <<imap, inode, f_desc, filp, halted>>
      /\ i_cnt' = [m \in Ino |-> i_cnt[m] + (IF m = n THEN 1 ELSE 0)
                                          - (IF m = pwd[FS] THEN 1 ELSE 0)]
      /\ exec' = [at |-> "stat", who |-> p, path |-> path]
  BY <1>2 DEF ExecTellFs
<1>4. ExecOK'
  BY <1>1, <1>3 DEF ExecOK
<1>5. QED
  BY <1>1, <1>2, <1>3, <1>4, GoLemma

LEMMA ForkStep ==
  ASSUME IInv, NEW p \in User, NEW c \in User, Fork(p, c)
  PROVE  IInv'
<1>1. RefsOK /\ Dirs /\ TypeOK /\ p \in live /\ ExecOK /\ c \in Proc /\ p \in Proc
  BY PartsLemma, FiniteLemma DEF IInv, Fork, Caller
<1>2. RefsOK' /\ live' = live \cup {c}
  BY <1>1, ForkLemma
<1>3. pwd' = [pwd EXCEPT ![c] = pwd[p]] /\ UNCHANGED <<imap, inode, exec, halted>>
  BY DEF Fork
<1>4. \A x \in Proc : pwd'[x] = IF x = c THEN pwd[p] ELSE pwd[x]
  BY <1>1, <1>3 DEF RefsOK, CountTypes
<1>5. /\ \A x \in live' : pwd'[x] \in imap /\ inode[pwd'[x]].mode = "dir"
      /\ {FS, MM, INIT} \subseteq live'
  BY <1>1, <1>2, <1>4 DEF Dirs, live
<1>6. ExecOK'
  BY <1>1, <1>3 DEF ExecOK
<1>7. QED
  BY <1>2, <1>3, <1>5, <1>6, KeepTreeLemma

LEMMA ExitStep ==
  ASSUME IInv, NEW p \in User, Exit(p)
  PROVE  IInv'
<1>1. RefsOK /\ Dirs /\ TypeOK /\ p \in live /\ ExecOK /\ p \in Proc /\ p # INIT
  BY PartsLemma, FiniteLemma DEF IInv, Exit, Caller
<1>2. CASE ~(i_cnt[pwd[p]] > 0)
  BY <1>2, PanicLemma DEF Exit
<1>3. CASE i_cnt[pwd[p]] > 0
  <2>1. RefsOK' /\ live' = live \ {p} /\ UNCHANGED <<imap, inode, exec, halted>>
    BY <1>1, <1>3, ExitLemma
  <2>2. pwd' = [pwd EXCEPT ![p] = 0]
    BY <1>3 DEF Exit
  <2>3. \A x \in Proc : x # p => pwd'[x] = pwd[x]
    BY <1>1, <2>2 DEF RefsOK, CountTypes
  <2>4. p # FS /\ p # MM
    BY FsDirAssumption
  <2>5. /\ \A x \in live' : pwd'[x] \in imap /\ inode[pwd'[x]].mode = "dir"
        /\ {FS, MM, INIT} \subseteq live'
    BY <1>1, <2>1, <2>3, <2>4 DEF Dirs, live
  <2>6. ExecOK'
    BY <1>1, <2>1 DEF ExecOK
  <2>7. QED
    BY <2>1, <2>5, <2>6, KeepTreeLemma
<1>4. QED
  BY <1>2, <1>3

\* MM asks for stat: only its own state changes.
LEMMA ExecStatLemma ==
  ASSUME IInv, ExecStat
  PROVE  IInv'
<1>1. RefsOK /\ Dirs /\ TypeOK /\ ExecOK
  BY PartsLemma DEF IInv
<1>2. CASE Panic /\ UNCHANGED exec
  BY <1>2, PanicLemma
<1>3. CASE /\ exec' = Idle \/ exec' = [exec EXCEPT !.at = "open"]
           /\ UNCHANGED <<imap, inode, i_cnt, f_desc, filp, pwd, halted>>
  <2>1. Idle \in [at : {"idle", "stat", "open", "close"}, who : Proc, path : Programs \cup {<<>>}]
    BY FiniteLemma DEF Idle
  <2>2. ExecOK'
    BY <1>1, <1>3, <2>1 DEF ExecOK
  <2>3. RefsOK'
    BY <1>1, <1>3, SameRefsLemma
  <2>4. live' = live
    BY <1>3 DEF live
  <2>5. /\ \A x \in live' : pwd'[x] \in imap /\ inode[pwd'[x]].mode = "dir"
        /\ {FS, MM, INIT} \subseteq live'
    BY <1>1, <1>3, <2>4 DEF Dirs
  <2>6. QED
    BY <1>3, <2>2, <2>3, <2>5, KeepTreeLemma
<1>4. QED
  BY <1>2, <1>3 DEF ExecStat

LEMMA ExecPathLemma ==
  ASSUME ExecOK
  PROVE  exec.path \in Seq(Words)
<1>1. exec.path \in Programs \cup {<<>>}
  BY DEF ExecOK
<1>2. Programs \subseteq Seq(Words) /\ <<>> \in Seq(Words)
  BY PathsLemma
<1>3. QED
  BY <1>1, <1>2

LEMMA ExecOpenLemma ==
  ASSUME IInv, ExecOpen
  PROVE  IInv'
<1>1. RefsOK /\ Dirs /\ TypeOK /\ ExecOK /\ ~halted /\ MM \in live
  BY PartsLemma DEF IInv, ExecOpen, Dirs
<1>2. Idle \in [at : {"idle", "stat", "open", "close"}, who : Proc, path : Programs \cup {<<>>}]
  BY FiniteLemma DEF Idle
<1>3. CASE /\ OpenFinds(MM, exec.path, {"RDWR"})
           /\ exec' = IF halted' THEN exec ELSE [exec EXCEPT !.at = "close"]
  <2>1. exec.path \in Seq(Words)
    BY <1>1, ExecPathLemma
  <2>2. Panic => UNCHANGED exec
    BY <1>3 DEF Panic
  <2>3. halted' \in BOOLEAN
    BY <1>1, <1>3 DEF OpenFinds, Panic, ExecOK
  <2>4. ExecOK'
    BY <1>1, <1>3, <2>3 DEF ExecOK
  <2>5. QED
    BY <1>1, <1>3, <2>1, <2>2, <2>4, FindsLemma
<1>4. CASE OpenPanics(MM, exec.path) /\ UNCHANGED exec
  BY <1>4, PanicLemma DEF OpenPanics
<1>5. CASE /\ exec' = Idle
           /\ UNCHANGED <<imap, inode, i_cnt, f_desc, filp, pwd, halted>>
  <2>1. ExecOK'
    BY <1>1, <1>2, <1>5 DEF ExecOK
  <2>2. RefsOK'
    BY <1>1, <1>5, SameRefsLemma
  <2>3. live' = live
    BY <1>5 DEF live
  <2>4. /\ \A x \in live' : pwd'[x] \in imap /\ inode[pwd'[x]].mode = "dir"
        /\ {FS, MM, INIT} \subseteq live'
    BY <1>1, <1>5, <2>3 DEF Dirs
  <2>5. QED
    BY <1>5, <2>1, <2>2, <2>4, KeepTreeLemma
<1>6. QED
  BY <1>3, <1>4, <1>5 DEF ExecOpen

LEMMA ExecCloseLemma ==
  ASSUME IInv, ExecClose
  PROVE  IInv'
<1>1. PICK d \in filp[MM] : CloseDesc(MM, d)
  BY DEF ExecClose
<1>2. exec' = Idle /\ halted' = halted /\ ExecOK
  BY <1>1, PartsLemma DEF ExecClose, CloseDesc
<1>3. ExecOK'
  BY <1>2, FiniteLemma DEF ExecOK, Idle
<1>4. QED
  BY <1>1, <1>3, CloseDescLemma, FiniteLemma

LEMMA CloseStep ==
  ASSUME IInv, NEW p \in User, NEW d \in Desc, Close(p, d)
  PROVE  IInv'
<1>1. d \in filp[p] /\ CloseDesc(p, d) /\ exec' = exec /\ halted' = halted /\ ExecOK
  BY PartsLemma DEF Close, CloseDesc
<1>2. ExecOK'
  BY <1>1 DEF ExecOK
<1>3. QED
  BY <1>1, <1>2, CloseDescLemma, FiniteLemma

LEMMA StepLemma == IInv /\ [Next]_vars => IInv'
<1>1. SUFFICES ASSUME IInv, [Next]_vars PROVE IInv'
  OBVIOUS
<1>2. ASSUME NEW p \in User, NEW path \in Paths, NEW flags \in Flags, Open(p, path, flags)
      PROVE  IInv'
  BY <1>1, <1>2, OpenLemma
<1>3. ASSUME NEW p \in User, NEW path \in Paths, Unlink(p, path)
      PROVE  IInv'
  BY <1>1, <1>3, UnlinkLemma
<1>4. ASSUME NEW p \in User, NEW path \in Paths, Chdir(p, path)
      PROVE  IInv'
  BY <1>1, <1>4, ChdirLemma, PathsLemma
<1>5. ASSUME NEW p \in User, NEW path \in NewDirs, Mkdir(p, path)
      PROVE  IInv'
  BY <1>1, <1>5, MkdirLemma
<1>6. ASSUME NEW p \in User, NEW path \in Programs, ExecTellFs(p, path)
      PROVE  IInv'
  BY <1>1, <1>6, TellFsLemma
<1>7. ASSUME NEW p \in User, NEW d \in Desc, Close(p, d)
      PROVE  IInv'
  BY <1>1, <1>7, CloseStep
<1>8. ASSUME NEW p \in User, NEW c \in User, Fork(p, c)
      PROVE  IInv'
  BY <1>1, <1>8, ForkStep
<1>9. ASSUME NEW p \in User, Exit(p)
      PROVE  IInv'
  BY <1>1, <1>9, ExitStep
<1>10. CASE ExecStat
  BY <1>1, <1>10, ExecStatLemma
<1>11. CASE ExecOpen
  BY <1>1, <1>11, ExecOpenLemma
<1>12. CASE ExecClose
  BY <1>1, <1>12, ExecCloseLemma
<1>13. CASE UNCHANGED vars
  <2>1. /\ UNCHANGED <<imap, i_cnt, f_desc, filp, pwd>>
        /\ inode' = inode /\ exec' = exec /\ halted' = halted
    BY <1>13 DEF vars
  <2>2. RefsOK /\ Dirs /\ ExecOK
    BY <1>1, PartsLemma
  <2>3. RefsOK' /\ live' = live
    BY <2>1, <2>2, SameRefsLemma
  <2>4. ExecOK'
    BY <2>1, <2>2 DEF ExecOK
  <2>5. /\ \A x \in live' : pwd'[x] \in imap /\ inode[pwd'[x]].mode = "dir"
        /\ {FS, MM, INIT} \subseteq live'
    BY <2>1, <2>2, <2>3 DEF Dirs
  <2>6. QED
    BY <1>1, <2>1, <2>3, <2>4, <2>5, KeepTreeLemma
<1>14. QED
  BY <1>1, <1>2, <1>3, <1>4, <1>5, <1>6, <1>7, <1>8, <1>9, <1>10, <1>11, <1>12, <1>13 DEF Next, Asks

\* What init_fs and Init() leave.
LEMMA BootLemma ==
  /\ Len(Boot) = 2 + NR_CONSOLES
  /\ Boot[1] = [ino |-> ROOT_INODE, name |-> <<".">>]
  /\ Boot[2] = [ino |-> ROOT_INODE, name |-> <<"..">>]
  /\ \A i \in 3..2 + NR_CONSOLES :
       Boot[i] = [ino |-> ROOT_INODE + (i - 2), name |-> <<TtyName[i - 2]>>]
<1>1. PICK s : s = [k \in 1..NR_CONSOLES |-> [ino |-> ROOT_INODE + k, name |-> <<TtyName[k]>>]]
  OBVIOUS
<1>2. PICK a, b : /\ a = [ino |-> ROOT_INODE, name |-> <<".">>]
                  /\ b = [ino |-> ROOT_INODE, name |-> <<"..">>]
  OBVIOUS
<1>3. PICK R : R = {s[k] : k \in 1..NR_CONSOLES} \cup {a, b}
  OBVIOUS
<1>4. s \in Seq(R) /\ Len(s) = NR_CONSOLES /\ <<a, b>> \in Seq(R)
  <2>1. s \in [1..NR_CONSOLES -> R]
    BY <1>1, <1>3
  <2>2. s \in Seq(R) /\ Len(s) = NR_CONSOLES
    BY <2>1, NumbersLemma
  <2>3. a \in R /\ b \in R
    BY <1>3
  <2>4. QED
    BY <2>2, <2>3
<1>5. Boot = <<a, b>> \o s
  BY <1>1, <1>2 DEF Boot
<1>6. Len(Boot) = 2 + NR_CONSOLES
  BY <1>4, <1>5, NumbersLemma
<1>7. Boot[1] = a /\ Boot[2] = b
  BY <1>4, <1>5, NumbersLemma
<1>8. ASSUME NEW i \in 3..2 + NR_CONSOLES
      PROVE  Boot[i] = [ino |-> ROOT_INODE + (i - 2), name |-> <<TtyName[i - 2]>>]
  <2>1. i - 2 \in 1..NR_CONSOLES /\ i \in Nat
    BY NumbersLemma
  <2>2. Boot[i] = s[i - 2]
    BY <1>4, <1>5, <2>1, NumbersLemma
  <2>3. QED
    BY <1>1, <2>1, <2>2
<1>9. QED
  BY <1>2, <1>6, <1>7, <1>8

LEMMA InitLemma == Init => IInv
<1>1. SUFFICES ASSUME Init PROVE IInv
  OBVIOUS
<1>2. /\ imap = {ROOT_INODE} \cup Special
      /\ i_cnt = [n \in Ino |-> IF n = ROOT_INODE THEN 1 + 2 * Cardinality(Proc) ELSE 0]
      /\ f_desc = [d \in Desc |-> [inode |-> 0, cnt |-> 0]]
      /\ filp = [p \in Proc |-> {}]
      /\ pwd = [p \in Proc |-> IF p \in {INIT, FS, MM} THEN ROOT_INODE ELSE 0]
      /\ exec = Idle /\ halted = FALSE
  BY <1>1 DEF Init
<1>3. /\ imap \subseteq Ino /\ ROOT_INODE \in imap
      /\ \A k \in 1..NR_CONSOLES : ROOT_INODE + k \in imap \ {ROOT_INODE}
  BY <1>2, NumbersLemma DEF Special, Ino, ROOT_INODE
\* The root directory.
<1>4. PICK L \in Nat : L = Len(Boot) /\ L = 2 + NR_CONSOLES
  BY BootLemma, NumbersLemma
<1>5. \A n \in Ino :
        /\ inode[n].mode \in {"none", "dir", "chr"} /\ (inode[n].mode = "dir" <=> n = ROOT_INODE)
        /\ inode[n].nr = IF n = ROOT_INODE THEN L ELSE 0
        /\ \A i \in 1..MaxEnt :
             inode[n].ents[i] = IF n = ROOT_INODE /\ i <= L THEN Boot[i] ELSE NoEntry
  <2>1. ASSUME NEW n \in Ino
        PROVE  /\ inode[n].mode = IF n = ROOT_INODE THEN "dir"
                                  ELSE IF n \in Special THEN "chr" ELSE "none"
               /\ inode[n].nr = IF n = ROOT_INODE THEN L ELSE 0
               /\ inode[n].ents = [i \in 1..MaxEnt |->
                                    IF n = ROOT_INODE /\ i <= L THEN Boot[i] ELSE NoEntry]
    <3>1. PICK a, b, x :
            /\ a = (IF n = ROOT_INODE THEN "dir" ELSE IF n \in Special THEN "chr" ELSE "none")
            /\ b = (IF n = ROOT_INODE THEN L ELSE 0)
            /\ x = [i \in 1..MaxEnt |-> IF n = ROOT_INODE /\ i <= L THEN Boot[i] ELSE NoEntry]
      OBVIOUS
    <3>2. inode[n] = [mode |-> a, nr |-> b, ents |-> x]
      BY <1>1, <1>4, <3>1 DEF Init
    <3>3. inode[n].mode = a /\ inode[n].nr = b /\ inode[n].ents = x
      BY <3>2
    <3>4. QED
      BY <3>1, <3>3
  <2>2. ASSUME NEW n \in Ino
        PROVE  /\ inode[n].mode \in {"none", "dir", "chr"}
               /\ inode[n].mode = "dir" <=> n = ROOT_INODE
    BY <2>1
  <2>3. \A n \in Ino : inode[n].nr = IF n = ROOT_INODE THEN L ELSE 0
    BY <2>1
  <2>4. ASSUME NEW n \in Ino, NEW i \in 1..MaxEnt
        PROVE  inode[n].ents[i] = IF n = ROOT_INODE /\ i <= L THEN Boot[i] ELSE NoEntry
    BY <2>1
  <2>5. QED
    BY <2>2, <2>3, <2>4
<1>6. \A i \in 1..L : Boot[i] \in [ino : {0} \cup Ino, name : Names]
  <2>1. Boot[1] \in [ino : {0} \cup Ino, name : Names] /\ Boot[2] \in [ino : {0} \cup Ino, name : Names]
    BY BootLemma, NamesLemma, NumbersLemma
  <2>2. ASSUME NEW i \in 3..L PROVE Boot[i] \in [ino : {0} \cup Ino, name : Names]
    <3>1. i - 2 \in 1..NR_CONSOLES /\ i \in 3..2 + NR_CONSOLES
      BY <1>4, NumbersLemma
    <3>2. ROOT_INODE + (i - 2) \in Ino
      BY <1>3, <3>1
    <3>3. <<TtyName[i - 2]>> \in Names
      BY <3>1 DEF Names
    <3>4. PICK u \in Ino : u = ROOT_INODE + (i - 2)
      BY <3>2
    <3>5. PICK v \in Names : v = <<TtyName[i - 2]>>
      BY <3>3
    <3>6. Boot[i] = [ino |-> u, name |-> v]
      BY <3>1, <3>4, <3>5, BootLemma
    <3>7. QED
      BY <3>6
  <2>3. QED
    BY <2>1, <2>2
<1>7. inode \in Inodes
  <2>1. NoEntry \in [ino : {0} \cup Ino, name : Names]
    BY DEF NoEntry, Names
  <2>2. L \in 0..MaxEnt
    BY <1>4, NumbersLemma
  <2>3. ASSUME NEW n \in Ino
        PROVE  [i \in 1..MaxEnt |-> IF n = ROOT_INODE /\ i <= L THEN Boot[i] ELSE NoEntry]
                 \in [1..MaxEnt -> [ino : {0} \cup Ino, name : Names]]
    BY <1>4, <1>6, <2>1, NumbersLemma
  <2>4. ASSUME NEW n \in Ino
        PROVE  inode[n] \in [mode : {"none", "reg", "dir", "chr"}, nr : 0..MaxEnt,
                             ents : [1..MaxEnt -> [ino : {0} \cup Ino, name : Names]]]
    <3>1. PICK a, b, x : /\ inode[n] = [mode |-> a, nr |-> b, ents |-> x]
                         /\ x = [i \in 1..MaxEnt |->
                                   IF n = ROOT_INODE /\ i <= L THEN Boot[i] ELSE NoEntry]
      BY <1>1, <1>4 DEF Init
    <3>2. a = inode[n].mode /\ b = inode[n].nr
      BY <3>1
    <3>3. a \in {"none", "reg", "dir", "chr"} /\ b \in 0..MaxEnt
      BY <1>5, <2>2, <3>2, NumbersLemma
    <3>4. x \in [1..MaxEnt -> [ino : {0} \cup Ino, name : Names]]
      BY <2>3, <3>1
    <3>5. QED
      BY <3>1, <3>3, <3>4
  <2>5. inode = [n \in Ino |-> inode[n]]
    BY <1>1 DEF Init
  <2>6. QED
    BY <2>4, <2>5 DEF Inodes
\* The references.
<1>8. live = {INIT, FS, MM} /\ Holders(ROOT_INODE) = {INIT, FS, MM}
  BY <1>2, NumbersLemma, FiniteLemma DEF live, Holders
<1>9. /\ \A n \in Ino : Opens(n) = {} /\ (n # ROOT_INODE => Holders(n) = {})
      /\ \A d \in Desc : Sharers(d) = {}
  BY <1>2, NumbersLemma DEF Opens, Holders, Sharers
<1>10. Cardinality({INIT, FS, MM}) = 3
  <2>1. IsFiniteSet({INIT}) /\ Cardinality({INIT}) = 1
    BY FS_Singleton
  <2>2. FS \notin {INIT} /\ MM \notin {INIT} \cup {FS} /\ {INIT, FS, MM} = ({INIT} \cup {FS}) \cup {MM}
    BY FiniteLemma
  <2>3. IsFiniteSet({INIT} \cup {FS}) /\ Cardinality({INIT} \cup {FS}) = 1 + 1
    BY <2>1, <2>2, FS_AddElement
  <2>4. Cardinality(({INIT} \cup {FS}) \cup {MM}) = 1 + 1 + 1
    BY <2>2, <2>3, FS_AddElement
  <2>5. QED
    BY <2>2, <2>4
<1>11. Cardinality(Proc) = Cardinality(User \ {INIT}) + 3 /\ Cardinality(User \ {INIT}) \in Nat
  <2>1. IsFiniteSet(User \ {INIT}) /\ Cardinality(User \ {INIT}) \in Nat
    BY FsDirAssumption, FS_RemoveElement, FS_CardinalityType
  <2>2. /\ INIT \notin User \ {INIT} /\ FS \notin (User \ {INIT}) \cup {INIT}
        /\ MM \notin ((User \ {INIT}) \cup {INIT}) \cup {FS}
        /\ Proc = (((User \ {INIT}) \cup {INIT}) \cup {FS}) \cup {MM}
    BY FsDirAssumption DEF Proc
  <2>3. /\ IsFiniteSet((User \ {INIT}) \cup {INIT})
        /\ Cardinality((User \ {INIT}) \cup {INIT}) = Cardinality(User \ {INIT}) + 1
    BY <2>1, <2>2, FS_AddElement
  <2>4. /\ IsFiniteSet(((User \ {INIT}) \cup {INIT}) \cup {FS})
        /\ Cardinality(((User \ {INIT}) \cup {INIT}) \cup {FS}) = Cardinality(User \ {INIT}) + 1 + 1
    BY <2>2, <2>3, FS_AddElement
  <2>5. Cardinality((((User \ {INIT}) \cup {INIT}) \cup {FS}) \cup {MM})
          = Cardinality(User \ {INIT}) + 1 + 1 + 1
    BY <2>2, <2>4, FS_AddElement
  <2>6. QED
    BY <2>1, <2>2, <2>5
<1>12. Counts
  <2>1. Cardinality({}) = 0
    BY FS_EmptySet
  <2>2. ASSUME NEW n \in Ino
        PROVE  i_cnt[n] = Cardinality(Holders(n)) + Cardinality(Opens(n)) + RootRefs(n)
    <3>1. CASE n = ROOT_INODE
      <4>1. RootRefs(n) = 3 + 1 + 2 * Cardinality(User \ {INIT})
        BY <1>8, <1>10, <3>1 DEF RootRefs, RootSurplus
      <4>2. i_cnt[n] = 1 + 2 * Cardinality(Proc)
        BY <1>2, <3>1
      <4>3. Cardinality(Holders(n)) = 3 /\ Cardinality(Opens(n)) = 0
        BY <1>8, <1>9, <1>10, <2>1, <3>1
      <4>4. QED
        BY <1>11, <4>1, <4>2, <4>3
    <3>2. CASE n # ROOT_INODE
      BY <1>2, <1>9, <2>1, <3>2 DEF RootRefs
    <3>3. QED
      BY <3>1, <3>2
  <2>3. QED
    BY <2>2 DEF Counts
<1>13. Shared /\ FreeHoldNothing
  <2>1. Cardinality({}) = 0
    BY FS_EmptySet
  <2>2. QED
    BY <1>2, <1>9, <2>1 DEF Shared, FreeHoldNothing
<1>14. CountTypes
  <2>1. 1 + 2 * Cardinality(Proc) \in Nat /\ 0 \in 0..Cardinality(Proc)
    BY CardLemma
  <2>2. QED
    BY <1>2, <2>1, NumbersLemma DEF CountTypes
<1>15. Dirs
  <2>1. inode[ROOT_INODE].mode = "dir"
    BY <1>5, NumbersLemma
  <2>2. \A p \in live : pwd[p] = ROOT_INODE
    BY <1>2, <1>8, FiniteLemma
  <2>3. QED
    BY <1>3, <1>8, <2>1, <2>2 DEF Dirs
<1>16. Sizes
  <2>1. L <= MaxIno + 1 /\ 0 <= MaxIno + 1
    BY <1>4, NumbersLemma
  <2>2. QED
    BY <1>5, <2>1 DEF Sizes
<1>17. ASSUME NEW n \in Ino, NEW i \in 3..MaxEnt, inode[n].ents[i].ino # 0
       PROVE  /\ n = ROOT_INODE /\ inode[n].ents[i].ino = ROOT_INODE + (i - 2)
              /\ inode[n].ents[i].ino \in imap \ {ROOT_INODE}
  <2>1. i \in 1..MaxEnt /\ i \in Nat
    BY NumbersLemma
  <2>2. n = ROOT_INODE /\ i <= L
    BY <1>5, <1>17, <2>1 DEF NoEntry
  <2>3. i \in 3..2 + NR_CONSOLES /\ i - 2 \in 1..NR_CONSOLES /\ inode[n].ents[i] = Boot[i]
    BY <1>4, <1>5, <2>1, <2>2, NumbersLemma
  <2>4. inode[n].ents[i].ino = ROOT_INODE + (i - 2)
    <3>1. PICK u, v : u = ROOT_INODE + (i - 2) /\ v = <<TtyName[i - 2]>>
      OBVIOUS
    <3>2. inode[n].ents[i] = [ino |-> u, name |-> v]
      BY <2>3, <3>1, BootLemma
    <3>3. QED
      BY <3>1, <3>2
  <2>5. QED
    BY <1>3, <2>2, <2>3, <2>4
<1>18. Tree
  <2>1. NamesOK
    BY <1>17 DEF NamesOK
  <2>2. NamesDiffer
    <3>1. ASSUME NEW d \in Ino, NEW e \in Ino, NEW i \in 3..MaxEnt, NEW j \in 3..MaxEnt,
                 inode[d].ents[i].ino # 0, inode[d].ents[i].ino = inode[e].ents[j].ino
          PROVE  d = e /\ i = j
      <4>1. /\ d = ROOT_INODE /\ inode[d].ents[i].ino = ROOT_INODE + (i - 2)
            /\ e = ROOT_INODE /\ inode[e].ents[j].ino = ROOT_INODE + (j - 2)
        BY <1>17, <3>1
      <4>2. i \in Nat /\ j \in Nat
        BY NumbersLemma
      <4>3. QED
        BY <3>1, <4>1, <4>2 DEF ROOT_INODE
    <3>2. QED
      BY <3>1 DEF NamesDiffer
  <2>3. ASSUME NEW d \in imap, inode[d].mode = "dir" PROVE DotsOK(d)
    <3>0. L >= 2 /\ d \in Ino
      BY <1>3, <1>4, NumbersLemma
    <3>1. d = ROOT_INODE /\ L >= 2 /\ inode[d].nr = L
      BY <1>5, <2>3, <3>0
    <3>2. inode[d].ents[1] = Boot[1] /\ inode[d].ents[2] = Boot[2]
      BY <1>4, <1>5, <3>1, NumbersLemma
    <3>3. inode[d].nr >= 2 /\ d \in imap
      BY <3>1
    <3>4. QED
      BY <3>1, <3>2, <3>3, BootLemma DEF DotsOK
  <2>4. QED
    BY <2>1, <2>2, <2>3 DEF Tree
<1>19. ExecOK
  BY <1>2, FiniteLemma DEF ExecOK, Idle
<1>20. QED
  BY <1>3, <1>7, <1>12, <1>13, <1>14, <1>15, <1>16, <1>18, <1>19, PartsLemma DEF RefsOK

----------------------------------------------------------------------------
\* Theorems

\* The tables of FS keep the shape above: counts, descriptors, directories and the
\* entries of the disk fit together after every request.
THEOREM FsDirInvariant == Spec => []IInv
BY InitLemma, StepLemma, PTL DEF Spec

\* The count of an inode is that of the pointers processes hold to it (get_inode,
\* put_inode, fs_fork, fs_exit, change_proc_dir), whatever the order of requests.
THEOREM CountsAreExact == Spec => []PointersCounted
<1>1. IInv => PointersCounted
  BY DEF IInv, PointersCounted, Counts
<1>2. QED
  BY <1>1, FsDirInvariant, PTL

\* What a process holds exists: no unlink, mkdir or exec takes its directory or the
\* inode of a file it has open.
THEOREM HeldExists == Spec => []HeldIsAllocated
<1>1. IInv => HeldIsAllocated
  <2>1. SUFFICES ASSUME IInv PROVE HeldIsAllocated
    OBVIOUS
  <2>2. ASSUME NEW d \in Desc
        PROVE  /\ f_desc[d].cnt = Cardinality({p \in Proc : d \in filp[p]})
               /\ f_desc[d].cnt > 0 => f_desc[d].inode \in imap
    <3>1. /\ f_desc[d].cnt = Cardinality(Sharers(d))
          /\ f_desc[d].inode = 0 <=> f_desc[d].cnt = 0
          /\ f_desc[d].inode \in {0} \cup imap
      BY <2>1 DEF IInv, Shared
    <3>2. QED
      BY <3>1 DEF Sharers
  <2>3. QED
    BY <2>1, <2>2 DEF IInv, Dirs, HeldIsAllocated
<1>2. QED
  BY <1>1, FsDirInvariant, PTL

\* A name in a directory is of an allocated inode and the only name of it: what
\* do_unlink frees is reached by no name when it is allocated again.
THEOREM NamesFindFiles == Spec => []NamesAreAllocated
<1>1. IInv => NamesAreAllocated
  <2>1. SUFFICES ASSUME IInv, ~halted PROVE NamesAreAllocated
    BY DEF NamesAreAllocated
  <2>2. Tree /\ TypeOK
    BY <2>1 DEF IInv
  <2> DEFINE entries == {e \in imap \X (1..MaxEnt) :
                           /\ inode[e[1]].mode = "dir" /\ e[2] \in InSize(inode[e[1]])
                           /\ inode[e[1]].ents[e[2]].name \notin {<<".">>, <<"..">>}}
  <2>3. ASSUME NEW e \in entries
        PROVE  /\ e[1] \in Ino /\ e[2] \in 3..MaxEnt /\ e = <<e[1], e[2]>>
               /\ inode[e[1]].ents[e[2]].ino # 0
    <3>1. /\ e[1] \in imap /\ e[2] \in 1..MaxEnt /\ inode[e[1]].mode = "dir"
          /\ e[2] \in InSize(inode[e[1]]) /\ e = <<e[1], e[2]>>
          /\ inode[e[1]].ents[e[2]].name \notin {<<".">>, <<"..">>}
      OBVIOUS
    <3>2. DotsOK(e[1]) /\ e[1] \in Ino
      BY <2>2, <3>1 DEF Tree, TypeOK
    <3>3. e[2] # 1 /\ e[2] # 2
      BY <3>1, <3>2 DEF DotsOK
    <3>4. QED
      BY <3>1, <3>2, <3>3, NumbersLemma DEF InSize
  <2> HIDE DEF entries
  <2>4. ASSUME NEW e \in entries PROVE inode[e[1]].ents[e[2]].ino \in imap
    BY <2>2, <2>3 DEF Tree, NamesOK
  <2>5. ASSUME NEW e \in entries, NEW f \in entries,
               inode[e[1]].ents[e[2]].ino = inode[f[1]].ents[f[2]].ino
        PROVE  e = f
    <3>1. e[1] = f[1] /\ e[2] = f[2]
      BY <2>2, <2>3, <2>5 DEF Tree, NamesDiffer
    <3>2. QED
      BY <2>3, <3>1
  <2>6. QED
    BY <2>4, <2>5 DEF NamesAreAllocated, entries
<1>2. QED
  BY <1>1, FsDirInvariant, PTL

----------------------------------------------------------------------------
\* getcwd

Comp  == Words \ {"/"}
Entry == [ino : {0} \cup Ino, name : Names]

Calls == [at : {"none", "above", "opendir", "open", "readdir", "entry", "close", "chdir",
                "recover", "returned"},
          who : Proc, start : {0} \cup Ino, files : SUBSET Desc,
          current : {0} \cup Ino, above : {0} \cup Ino, names : Seq(Comp), fd : {0} \cup Desc,
          pos : Nat, found : Seq(Entry) \cup Seq(Comp), cycle : {0, 1},
          ok : BOOLEAN, changed : BOOLEAN]

Typed(call) ==
  /\ call \in Calls
  /\ call.at = "entry" => call.found \in Seq(Entry) /\ call.found # <<>>
  /\ call.at = "recover" => call.found \in Seq(Comp) /\ call.found # <<>>

\* The descriptors the caller of getcwd has: those it had, and that of the stream.
Reading == {"readdir", "entry", "close"}
Holds(call, files) ==
  /\ call.at # "none" /\ (call.at \in {"close", "recover", "returned"} \/ call.ok)
  /\ IF call.at \in Reading
     THEN call.fd \in Desc \ call.files /\ files = call.files \cup {call.fd}
     ELSE files = call.files

\* The names of path lead from the directory d to e.
Leads(d, path, e) ==
  \E f \in [0..Len(path) -> {0} \cup Ino] :
    /\ f[0] = d /\ f[Len(path)] = e
    /\ \A k \in 1..Len(path) : f[k] = FindEntry(f[k-1], <<path[k]>>)

\* The names found lead back from where the caller is to where it was.
Up == {"opendir", "open", "chdir"} \cup Reading
Way(call, here) ==
  /\ call.start # 0 /\ inode[call.start].mode = "dir"
  /\ call.at \in Up \cup {"above"} => call.current = here
  /\ call.at \in Up => call.above = FindEntry(here, <<"..">>) /\ call.above # 0
  /\ call.at \in Up \ {"opendir"} => inode[call.above].mode = "dir"
  /\ call.at \in {"above", "opendir", "open", "readdir", "entry"} \/ (call.at = "close" /\ ~call.ok)
       => Leads(here, call.names, call.start)
  /\ call.at = "chdir" \/ (call.at = "close" /\ call.ok)
       => Leads(call.above, call.names, call.start)
  /\ call.at = "recover" => Leads(here, call.found, call.start)
  /\ call.at = "returned" => here = call.start
  /\ call.at \in {"recover", "returned"} /\ call.ok => Leads(ROOT_INODE, call.names, call.start)

\* The invariant of a call in progress: what it holds, and while no directory changes
\* the way back.
CallOK ==
  /\ Typed(cwd)
  /\ cwd # NoCall =>
       /\ exec = Idle /\ w \in User /\ w \in live /\ Holds(cwd, filp[w])
       /\ ~cwd.changed => Way(cwd, pwd[w])

\* The empty path leads to where it starts, and nowhere else.
LEMMA LeadsEmpty ==
  ASSUME NEW d \in {0} \cup Ino, NEW e
  PROVE  Leads(d, <<>>, e) <=> d = e
<1>1. ASSUME Leads(d, <<>>, e) PROVE d = e
  BY <1>1 DEF Leads
<1>2. ASSUME d = e PROVE Leads(d, <<>>, e)
  <2> DEFINE f == [k \in 0..0 |-> d]
  <2>1. f \in [0..0 -> {0} \cup Ino] /\ f[0] = d
    OBVIOUS
  <2> HIDE DEF f
  <2>2. QED
    BY <1>2, <2>1 DEF Leads
<1>3. QED
  BY <1>1, <1>2

\* A path leads where the rest of it leads from its first component.
LEMMA LeadsNext ==
  ASSUME NEW d, NEW e, NEW path \in Seq(Words), path # <<>>, Leads(d, path, e)
  PROVE  /\ Leads(FindEntry(d, <<Head(path)>>), Tail(path), e)
         /\ FindEntry(d, <<Head(path)>>) \in {0} \cup Ino
<1> DEFINE L == Len(path)
           b == Tail(path)
<1>1. /\ L \in Nat /\ L > 0 /\ b \in Seq(Words) /\ Len(b) = L - 1 /\ Head(path) = path[1]
      /\ \A k \in 1..Len(b) : b[k] = path[k+1]
  OBVIOUS
<1>2. PICK f \in [0..L -> {0} \cup Ino] :
        /\ f[0] = d /\ f[L] = e
        /\ \A k \in 1..L : f[k] = FindEntry(f[k-1], <<path[k]>>)
  BY DEF Leads
<1> HIDE DEF L, b
<1> DEFINE g == [k \in 0..Len(b) |-> f[k+1]]
<1>3. \A k \in 0..Len(b) : k + 1 \in 0..L /\ g[k] = f[k+1] /\ f[k+1] \in {0} \cup Ino
  BY <1>1, <1>2
<1>4. g \in [0..Len(b) -> {0} \cup Ino]
  BY <1>3
<1> HIDE DEF g
<1>5. g[0] = f[1] /\ f[1] = FindEntry(d, <<path[1]>>) /\ g[Len(b)] = e
  <2>1. 0 \in 0..Len(b) /\ Len(b) \in 0..Len(b) /\ 0 + 1 = 1 /\ Len(b) + 1 = L /\ 1 \in 1..L /\ 1 - 1 = 0
    BY <1>1
  <2>2. QED
    BY <1>2, <1>3, <2>1
<1>6. ASSUME NEW k \in 1..Len(b) PROVE g[k] = FindEntry(g[k-1], <<b[k]>>)
  <2>1. /\ k \in 0..Len(b) /\ k - 1 \in 0..Len(b) /\ k + 1 \in 1..L
        /\ (k - 1) + 1 = k /\ (k + 1) - 1 = k
    BY <1>1
  <2>2. g[k] = f[k+1] /\ g[k-1] = f[k] /\ b[k] = path[k+1]
    BY <1>1, <1>3, <2>1
  <2>3. f[k+1] = FindEntry(f[k], <<path[k+1]>>)
    BY <1>2, <2>1
  <2>4. QED
    BY <2>2, <2>3
<1>7. Leads(g[0], b, e)
  BY <1>4, <1>5, <1>6 DEF Leads
<1>8. QED
  BY <1>1, <1>3, <1>5, <1>7 DEF b

\* One path after another.
LEMMA LeadsOn ==
  ASSUME NEW d, NEW m, NEW e, NEW a \in Seq(Words), NEW b \in Seq(Words),
         Leads(d, a, m), Leads(m, b, e)
  PROVE  Leads(d, a \o b, e)
<1> DEFINE K == Len(a)
           L == Len(b)
           c == a \o b
<1>1. /\ K \in Nat /\ L \in Nat /\ Len(c) = K + L
      /\ \A k \in 1..K : c[k] = a[k]
      /\ \A k \in K+1..K+L : c[k] = b[k-K]
  OBVIOUS
<1>2. PICK f \in [0..K -> {0} \cup Ino] :
        /\ f[0] = d /\ f[K] = m
        /\ \A k \in 1..K : f[k] = FindEntry(f[k-1], <<a[k]>>)
  BY DEF Leads
<1>3. PICK g \in [0..L -> {0} \cup Ino] :
        /\ g[0] = m /\ g[L] = e
        /\ \A k \in 1..L : g[k] = FindEntry(g[k-1], <<b[k]>>)
  BY DEF Leads
<1> HIDE DEF K, L, c
<1> DEFINE h == [k \in 0..K+L |-> IF k <= K THEN f[k] ELSE g[k-K]]
<1>4. ASSUME NEW k \in 0..K+L
      PROVE  /\ h[k] = IF k <= K THEN f[k] ELSE g[k-K]
             /\ h[k] \in {0} \cup Ino
             /\ k >= K => k - K \in 0..L /\ h[k] = g[k-K]
  <2>1. k \in Int /\ (k <= K => k \in 0..K) /\ (k >= K => k - K \in 0..L)
    BY <1>1
  <2>2. k = K => k - K = 0 /\ f[k] = g[0]
    BY <1>1, <1>2, <1>3, <2>1
  <2>3. QED
    BY <1>1, <1>2, <1>3, <2>1, <2>2
<1>5. h \in [0..Len(c) -> {0} \cup Ino]
  BY <1>1, <1>4
<1> HIDE DEF h
<1>6. h[0] = d /\ h[Len(c)] = e
  <2>1. 0 \in 0..K+L /\ 0 <= K /\ K + L \in 0..K+L /\ K + L >= K /\ (K + L) - K = L
    BY <1>1
  <2>2. QED
    BY <1>1, <1>2, <1>3, <1>4, <2>1
<1>7. ASSUME NEW k \in 1..Len(c) PROVE h[k] = FindEntry(h[k-1], <<c[k]>>)
  <2>1. CASE k <= K
    <3>1. k \in 1..K /\ k \in 0..K+L /\ k - 1 \in 0..K+L /\ k - 1 <= K
      BY <1>1, <2>1
    <3>2. h[k] = f[k] /\ h[k-1] = f[k-1] /\ c[k] = a[k]
      BY <1>1, <1>4, <2>1, <3>1
    <3>3. QED
      BY <1>2, <3>1, <3>2
  <2>2. CASE ~(k <= K)
    <3>1. /\ k \in K+1..K+L /\ k \in 0..K+L /\ k - 1 \in 0..K+L /\ k >= K /\ k - 1 >= K
          /\ k - K \in 1..L /\ (k - K) - 1 = (k - 1) - K
      BY <1>1, <2>2
    <3>2. h[k] = g[k-K] /\ h[k-1] = g[(k-K)-1] /\ c[k] = b[k-K]
      BY <1>1, <1>4, <3>1
    <3>3. QED
      BY <1>3, <3>1, <3>2
  <2>3. QED
    BY <2>1, <2>2
<1>8. QED
  BY <1>5, <1>6, <1>7 DEF Leads, c

\* From what is no directory nothing is found.
LEMMA LeadsNowhere ==
  ASSUME NEW d, NEW e, NEW path \in Seq(Words), Leads(d, path, e),
         d = 0 \/ inode[d].mode # "dir", e # 0, inode[e].mode = "dir"
  PROVE  FALSE
<1> DEFINE L == Len(path)
<1>1. L \in Nat
  OBVIOUS
<1>2. PICK f \in [0..L -> {0} \cup Ino] :
        /\ f[0] = d /\ f[L] = e
        /\ \A k \in 1..L : f[k] = FindEntry(f[k-1], <<path[k]>>)
  BY DEF Leads
<1> HIDE DEF L
<1> DEFINE bad == {k \in 0..L : f[k] # 0 /\ inode[f[k]].mode = "dir"}
<1>3. bad \in SUBSET Nat /\ L \in bad
  BY <1>1, <1>2
<1> HIDE DEF bad
<1>4. Min(bad) \in bad /\ \A k \in bad : Min(bad) <= k
  BY <1>3, MinLemma
<1>5. PICK k \in 0..L : k = Min(bad) /\ f[k] # 0 /\ inode[f[k]].mode = "dir"
  BY <1>4 DEF bad
<1>6. k # 0
  BY <1>2, <1>5
<1>7. k - 1 \in 0..L /\ k \in 1..L /\ ~(k <= k - 1)
  BY <1>1, <1>5, <1>6
<1>8. k - 1 \notin bad
  BY <1>4, <1>5, <1>7
<1>9. f[k-1] = 0 \/ inode[f[k-1]].mode # "dir"
  BY <1>7, <1>8 DEF bad
<1>10. f[k] = 0
  BY <1>2, <1>7, <1>9 DEF FindEntry
<1>11. QED
  BY <1>5, <1>10

\* search_file finds where the components of a path lead.
LEMMA LeadsSearch ==
  ASSUME NEW p, NEW path \in Seq(Words), NEW e, Leads(StartDir(p, path), Comps(path), e)
  PROVE  search_file(p, path) = e
<1> DEFINE L == Len(Comps(path))
           F(f) == [k \in 0..L |-> IF k = 0 THEN StartDir(p, path)
                                   ELSE FindEntry(f[k-1], <<Comps(path)[k]>>)]
           g == Trail(p, path)
<1>1. L \in Nat
  BY CompsLemma
<1>2. PICK f \in [0..L -> {0} \cup Ino] :
        /\ f[0] = StartDir(p, path) /\ f[L] = e
        /\ \A k \in 1..L : f[k] = FindEntry(f[k-1], <<Comps(path)[k]>>)
  BY DEF Leads
<1>3. f = F(f)
  <2>1. ASSUME NEW k \in 0..L
        PROVE  f[k] = IF k = 0 THEN StartDir(p, path) ELSE FindEntry(f[k-1], <<Comps(path)[k]>>)
    BY <1>1, <1>2
  <2>2. f = [k \in 0..L |-> f[k]]
    BY <1>2
  <2> HIDE DEF L
  <2>3. QED
    BY <2>1, <2>2
<1>4. g = CHOOSE h : h = F(h)
  BY DEF Trail
<1>5. g = F(g)
  <2> HIDE DEF F, g
  <2>1. QED
    BY <1>3, <1>4, Zenon
<1> HIDE DEF g
<1>6. \A k \in 0..L : g[k] = IF k = 0 THEN StartDir(p, path)
                             ELSE FindEntry(g[k-1], <<Comps(path)[k]>>)
  BY <1>5
<1> HIDE DEF F
<1> DEFINE bad == {k \in 0..L : g[k] # f[k]}
<1>7. bad \in SUBSET Nat
  BY <1>1
<1>8. bad = {}
  <2> SUFFICES ASSUME bad # {} PROVE FALSE
    OBVIOUS
  <2>1. Min(bad) \in bad /\ \A k \in bad : Min(bad) <= k
    <3> HIDE DEF bad
    <3>1. QED
      BY <1>7, MinLemma
  <2>2. PICK k \in 0..L : k = Min(bad) /\ g[k] # f[k]
    BY <2>1
  <2>3. k # 0
    BY <1>2, <1>6, <2>2
  <2> HIDE DEF L
  <2>4. k - 1 \in 0..L /\ k \in 1..L /\ ~(k <= k - 1)
    BY <1>1, <2>2, <2>3
  <2>5. g[k-1] = f[k-1]
    BY <2>1, <2>2, <2>4
  <2>6. QED
    BY <1>2, <1>6, <2>2, <2>3, <2>4, <2>5
<1>9. search_file(p, path) = g[L] /\ L \in 0..L
  BY <1>1 DEF search_file, g
<1>10. QED
  BY <1>2, <1>8, <1>9
LEMMA SearchLeads ==
  ASSUME TypeOK, Sizes, Tree, Dirs, NEW p \in live, NEW path \in Seq(Words)
  PROVE  Leads(StartDir(p, path), Comps(path), search_file(p, path))
<1> DEFINE L == Len(Comps(path))
<1>1. PICK f : f = Trail(p, path) /\ IsTrail(f, L, p, path)
  BY TrailLemma
<1>2. L \in Nat
  BY CompsLemma
<1>3. search_file(p, path) = f[L]
  BY <1>1 DEF search_file
<1>4. f \in [0..L -> {0} \cup Ino]
  <2>1. f \in [0..L -> {0} \cup imap] /\ imap \subseteq Ino
    BY <1>1 DEF IsTrail, TypeOK
  <2>2. QED
    BY <2>1
<1>5. f[0] = StartDir(p, path)
  <2>1. 0 \in 0..L
    BY <1>2
  <2> HIDE DEF L
  <2>2. QED
    BY <1>1, <2>1 DEF IsTrail
<1>6. ASSUME NEW k \in 1..L PROVE f[k] = FindEntry(f[k-1], <<Comps(path)[k]>>)
  BY <1>1, <1>2 DEF IsTrail
<1>7. QED
  BY <1>3, <1>4, <1>5, <1>6 DEF Leads

\* A relative path of one component.
LEMMA OneLemma ==
  ASSUME TypeOK, Sizes, Tree, Dirs, NEW p \in live, NEW x \in Comp
  PROVE  /\ search_file(p, <<x>>) = FindEntry(pwd[p], <<x>>)
         /\ search_file(p, <<x>>) \in {0} \cup imap
<1>1. <<x>> \in Seq(Words) /\ <<x>> # <<>> /\ Head(<<x>>) = x /\ Tail(<<x>>) = <<>> /\ x # "/"
  BY DEF Comp, Words
<1>2. Comps(<<x>>) = <<x>> /\ StartDir(p, <<x>>) = pwd[p]
  BY <1>1 DEF Comps, StartDir, IsAbs
<1>3. Leads(pwd[p], <<x>>, search_file(p, <<x>>))
  BY <1>1, <1>2, SearchLeads
<1>4. Leads(FindEntry(pwd[p], <<x>>), <<>>, search_file(p, <<x>>)) /\ FindEntry(pwd[p], <<x>>) \in {0} \cup Ino
  BY <1>1, <1>3, LeadsNext
<1>5. QED
  BY <1>1, <1>4, LeadsEmpty, TrailLemma

\* The first two entries of a directory are seen, and are "." and "..".
LEMMA DotsLemma ==
  ASSUME TypeOK, Sizes, Tree, NEW d \in imap, inode[d].mode = "dir"
  PROVE  /\ FindEntry(d, <<".">>) = d
         /\ FindEntry(d, <<"..">>) = d => d = ROOT_INODE
<1> DEFINE nr == inode[d].nr
           blks == (nr + BlockEnt - 1) \div BlockEnt
           at(x) == {i \in 1..Visible(inode[d]) : inode[d].ents[i].name = x}
<1>1. d \in Ino /\ d # 0 /\ DotsOK(d)
  BY NumbersLemma DEF TypeOK, Tree
<1>2. nr \in Nat /\ nr >= 2 /\ BlockEnt \in Nat /\ BlockEnt > 0
  BY <1>1, NumbersLemma DEF TypeOK, DotsOK
<1> HIDE DEF nr
<1>3. blks \in Nat /\ blks * BlockEnt >= 2
  <2>1. blks \in Nat /\ blks >= 1
    BY <1>2
  <2>2. BlockEnt = 1 => blks = nr
    BY <1>2
  <2> HIDE DEF blks
  <2>3. BlockEnt = 1 => blks * BlockEnt >= 2
    BY <1>2, <2>1, <2>2
  <2>4. BlockEnt >= 2 => blks * BlockEnt >= 2
    BY <1>2, <2>1
  <2>5. QED
    BY <1>2, <2>1, <2>3, <2>4
<1>4. Visible(inode[d]) = Min({nr + 1, blks * BlockEnt})
  BY DEF Visible, nr
<1> HIDE DEF blks
<1>5. Visible(inode[d]) \in Nat /\ Visible(inode[d]) >= 2
  <2>1. {nr + 1, blks * BlockEnt} \in SUBSET Nat
    <3>1. blks * BlockEnt \in Nat
      BY <1>2, <1>3
    <3>2. QED
      BY <1>2, <3>1
  <2>2. Min({nr + 1, blks * BlockEnt}) \in {nr + 1, blks * BlockEnt}
    BY <2>1, MinLemma
  <2>3. QED
    BY <1>2, <1>3, <1>4, <2>1, <2>2
<1>6. ASSUME NEW x PROVE FindEntry(d, x) = IF at(x) = {} THEN 0 ELSE inode[d].ents[Min(at(x))].ino
  BY <1>1 DEF FindEntry
<1>7. ASSUME NEW x, NEW k \in {1, 2}, \A i \in {1, 2} : i \in at(x) <=> i = k
      PROVE  FindEntry(d, x) = inode[d].ents[k].ino
  <2>1. at(x) \in SUBSET Nat /\ k \in at(x) /\ \A i \in at(x) : k <= i
    BY <1>5, <1>7
  <2> HIDE DEF at
  <2>2. Min(at(x)) = k
    <3>1. Min(at(x)) \in at(x) /\ \A y \in at(x) : Min(at(x)) <= y
      BY <2>1, MinLemma
    <3>2. Min(at(x)) <= k /\ k <= Min(at(x)) /\ Min(at(x)) \in Nat /\ k \in Nat
      BY <2>1, <3>1
    <3>3. QED
      BY <3>2
  <2>3. QED
    BY <1>6, <2>1, <2>2
<1>8. 1 \in 1..Visible(inode[d]) /\ 2 \in 1..Visible(inode[d])
  BY <1>5
<1>9. <<".">> # <<"..">>
  <2>1. <<".">>[1] # <<"..">>[1]
    OBVIOUS
  <2>2. QED
    BY <2>1
<1>10. FindEntry(d, <<".">>) = d
  <2>1. \A i \in {1, 2} : i \in at(<<".">>) <=> i = 1
    BY <1>1, <1>8, <1>9 DEF DotsOK
  <2> HIDE DEF at
  <2>2. FindEntry(d, <<".">>) = inode[d].ents[1].ino
    BY <1>7, <2>1
  <2>3. QED
    BY <1>1, <2>2 DEF DotsOK
<1>11. FindEntry(d, <<"..">>) = inode[d].ents[2].ino
  <2>1. \A i \in {1, 2} : i \in at(<<"..">>) <=> i = 2
    BY <1>1, <1>8, <1>9 DEF DotsOK
  <2> HIDE DEF at
  <2>2. QED
    BY <1>7, <2>1
<1>12. QED
  BY <1>1, <1>10, <1>11 DEF DotsOK

\* What leads where depends on the directories only.
LEMMA SameWay ==
  ASSUME inode' = inode, NEW call, NEW here
  PROVE  Way(call, here)' <=> Way(call, here)
<1>1. \A d, name : FindEntry(d, name)' = FindEntry(d, name)
  BY DEF FindEntry, Visible
<1>2. \A d, path, e : Leads(d, path, e)' <=> Leads(d, path, e)
  BY <1>1 DEF Leads
<1>3. QED
  BY <1>1, <1>2 DEF Way

\* A step of the caller or of others, which says so when it changes a directory.
LEMMA SameDirs ==
  ASSUME Typed(cwd'), cwd' # NoCall, w' = w, w \in User, exec' = Idle,
         NEW here, here = pwd'[w], here # 0, NEW files, files = filp'[w],
         NEW next, next = cwd', Holds(next, files),
         ~next.changed => inode' = inode /\ Way(next, here)
  PROVE  CallOK'
<1>1. w \in live'
  BY FiniteLemma DEF live, Proc
<1>2. inode' = inode => (Way(next, here)' <=> Way(next, here))
  BY SameWay
<1>3. Holds(next, files)'
  BY DEF Holds
<1>4. Typed(next)
  OBVIOUS
<1>5. Typed(cwd)'
  BY <1>4 DEF Typed, Calls
<1>6. QED
  BY <1>1, <1>2, <1>3, <1>5 DEF CallOK

\* What the caller is at, with names for its state.
AtHome(call, here, files) ==
  /\ call = cwd /\ here = pwd[w] /\ files = filp[w] /\ exec = Idle /\ w \in User /\ w \in live
  /\ Typed(call) /\ Holds(call, files) /\ (~call.changed => Way(call, here))
  /\ here \in imap /\ here \in Ino /\ here # 0 /\ inode[here].mode = "dir"
  /\ call # NoCall

LEMMA HomeLemma ==
  ASSUME IInv, CallOK, cwd.at # "none"
  PROVE  \E call, here, files : AtHome(call, here, files)
<1>1. cwd # NoCall
  BY DEF NoCall
<1>2. w \in live /\ pwd[w] \in imap /\ imap \subseteq Ino /\ inode[pwd[w]].mode = "dir" /\ pwd[w] # 0
  BY <1>1 DEF CallOK, IInv, Dirs, TypeOK, live
<1>3. AtHome(cwd, pwd[w], filp[w])
  BY <1>1, <1>2 DEF CallOK, AtHome
<1>4. QED
  BY <1>3

\* A request that leaves the tables of FS as they are.
LEMMA KeepLemma ==
  ASSUME KeepFs \/ (Panic /\ UNCHANGED exec), NEW call, NEW here, NEW files, AtHome(call, here, files),
         NEW next, cwd' = next, Typed(next), next.who = call.who, next.at # "none",
         Holds(next, files), ~next.changed => Way(next, here)
  PROVE  CallOK'
<1>1. inode' = inode /\ exec' = exec /\ pwd' = pwd /\ filp' = filp
  BY DEF KeepFs, Panic
<1>2. next # NoCall
  BY DEF NoCall
<1>3. Typed(cwd')
  BY DEF Typed
<1>4. /\ cwd' # NoCall /\ w' = w /\ w \in User /\ exec' = Idle
      /\ here = pwd'[w] /\ here # 0 /\ files = filp'[w] /\ next = cwd'
  <2>1. w' = w
    BY DEF AtHome, w
  <2>2. QED
    BY <1>1, <1>2, <2>1 DEF AtHome
<1>5. QED
  BY <1>1, <1>3, <1>4, SameDirs

\* stat: FS panics, or the caller goes on with the inode.
LEMMA StatLemma ==
  ASSUME IInv, ~halted, NEW path \in Seq(Words), NEW next, Stat(w, path, next),
         NEW call, NEW here, NEW files, AtHome(call, here, files)
  PROVE  \/ CallOK'
         \/ /\ KeepFs /\ cwd' = next[search_file(w, path)]
            /\ search_file(w, path) \in {0} \cup imap
            /\ search_file(w, path) \in 0..MaxIno
<1>1. CASE Panic /\ UNCHANGED <<exec, cwd>>
  <2>1. call.at # "none"
    BY DEF AtHome, Holds
  <2>2. QED
    BY <1>1, <2>1, KeepLemma DEF AtHome
<1>2. CASE KeepFs /\ cwd' = next[search_file(w, path)]
  <2>1. search_file(w, path) \in {0} \cup imap /\ imap \subseteq Ino
    BY TrailLemma DEF IInv, AtHome, TypeOK
  <2>2. search_file(w, path) \in 0..MaxIno
    <3>1. Ino = 1..MaxIno /\ MaxIno \in Nat
      BY FsDirAssumption DEF Ino
    <3>2. \A n \in {0} \cup Ino : n \in 0..MaxIno
      BY <3>1
    <3>3. QED
      BY <2>1, <3>2
  <2>3. QED
    BY <1>2, <2>1, <2>2
<1>3. QED
  BY <1>1, <1>2 DEF Stat

\* recover() starts where the names found lead back.
LEMMA RecoverLemma ==
  ASSUME NEW call \in Calls, NEW here \in {0} \cup Ino,
         ~call.changed => /\ call.start # 0 /\ inode[call.start].mode = "dir"
                          /\ Leads(here, call.names, call.start)
                          /\ call.ok => here = ROOT_INODE,
         NEW next, next = Recover(call)
  PROVE  /\ Typed(next) /\ next.who = call.who /\ next.at # "none" /\ Holds(next, call.files)
         /\ ~next.changed => Way(next, here)
<1> DEFINE at == IF call.names = <<>> THEN "returned" ELSE "recover"
<1>1. next = [call EXCEPT !.at = at, !.found = call.names]
  BY DEF Recover
<1>2. /\ next.at = at /\ next.found = call.names /\ next.who = call.who /\ next.files = call.files
      /\ next.start = call.start /\ next.names = call.names /\ next.ok = call.ok
      /\ next.changed = call.changed
  BY <1>1 DEF Calls
<1>3. next \in Calls
  BY <1>1 DEF Calls
<1>4. call.names \in Seq(Comp) /\ at \in {"returned", "recover"} /\ (at = "recover" => call.names # <<>>)
  BY DEF Calls
<1>5. Typed(next)
  BY <1>2, <1>3, <1>4 DEF Typed
<1>6. Holds(next, call.files)
  BY <1>2, <1>4 DEF Holds, Reading
<1>7. at = "returned" /\ ~call.changed => here = call.start
  <2>1. at = "returned" => call.names = <<>>
    OBVIOUS
  <2>2. QED
    BY <2>1, LeadsEmpty
<1>8. ~next.changed => Way(next, here)
  BY <1>2, <1>4, <1>7 DEF Way, Up, Reading
<1>9. QED
  BY <1>2, <1>4, <1>5, <1>6, <1>8
LEMMA FailsLemma ==
  ASSUME NEW call \in Calls, NEW here \in {0} \cup Ino,
         ~call.changed => /\ call.start # 0 /\ inode[call.start].mode = "dir"
                          /\ Leads(here, call.names, call.start),
         NEW next, next = Fails(call)
  PROVE  /\ Typed(next) /\ next.who = call.who /\ next.at # "none" /\ Holds(next, call.files)
         /\ ~next.changed => Way(next, here)
<1>1. PICK failed : failed = [call EXCEPT !.ok = FALSE]
  OBVIOUS
<1>2. /\ failed \in Calls /\ failed.ok = FALSE /\ failed.who = call.who /\ failed.files = call.files
      /\ failed.start = call.start /\ failed.names = call.names /\ failed.changed = call.changed
  BY <1>1 DEF Calls
<1>3. next = Recover(failed)
  BY <1>1 DEF Fails
<1>4. QED
  BY <1>2, <1>3, RecoverLemma

\* The paths the caller gives to FS, from its own directory.
LEMMA UpLemma ==
  ASSUME IInv, ~halted, NEW call, NEW here, NEW files, AtHome(call, here, files)
  PROVE  /\ search_file(w, <<"..">>) = FindEntry(here, <<"..">>)
         /\ search_file(w, <<".">>) = here
         /\ FindEntry(here, <<"..">>) = here => here = ROOT_INODE
         /\ FindEntry(here, <<"..">>) \in {0} \cup imap
<1>1. TypeOK /\ Sizes /\ Tree /\ Dirs /\ w \in live /\ here = pwd[w] /\ here \in imap /\ inode[here].mode = "dir"
  BY DEF IInv, AtHome
<1>2. "." \in Comp /\ ".." \in Comp
  BY DEF Comp, Words
<1>3. QED
  BY <1>1, <1>2, OneLemma, DotsLemma

LEMMA StatAboveLemma ==
  ASSUME IInv, CallOK, StatAbove
  PROVE  CallOK'
<1>1. cwd.at = "above" /\ ~halted
  BY DEF StatAbove, Is
<1>2. PICK call, here, files : AtHome(call, here, files)
  BY <1>1, HomeLemma
<1>3. call = cwd /\ call \in Calls /\ call.at = "above" /\ here \in {0} \cup Ino /\ call.ok /\ files = call.files
  BY <1>1, <1>2 DEF AtHome, Typed, Holds, Reading
<1>4. PICK n : n = search_file(w, <<"..">>)
  OBVIOUS
<1>5. n = FindEntry(here, <<"..">>) /\ (n = here => here = ROOT_INODE)
  BY <1>1, <1>2, <1>4, UpLemma
<1> DEFINE step(m) == IF m = 0 THEN Fails(cwd)
                      ELSE IF m = cwd.current THEN Recover(cwd)
                      ELSE [cwd EXCEPT !.at = "opendir", !.above = m]
           steps == [m \in 0..MaxIno |-> step(m)]
<1>6. Stat(w, <<"..">>, steps)
  BY DEF StatAbove
<1>7. <<"..">> \in Seq(Words)
  BY DEF Words
<1>8. CASE KeepFs /\ cwd' = steps[n] /\ n \in 0..MaxIno /\ n \in {0} \cup imap
  <2>1. cwd' = step(n)
    BY <1>8
  <2>2. ~call.changed => /\ call.start # 0 /\ inode[call.start].mode = "dir"
                         /\ call.current = here /\ Leads(here, call.names, call.start)
    BY <1>2, <1>3 DEF AtHome, Way
  <2>3. CASE n = 0
    <3>1. PICK next : next = cwd' /\ next = Fails(call)
      BY <1>3, <2>1, <2>3
    <3>2. QED
      BY <1>2, <1>3, <1>8, <2>2, <3>1, FailsLemma, KeepLemma
  <2>4. CASE n # 0 /\ n = call.current
    <3>1. PICK next : next = cwd' /\ next = Recover(call)
      BY <1>3, <2>1, <2>4
    <3>2. ~call.changed => here = ROOT_INODE
      BY <1>5, <2>2, <2>4
    <3>3. QED
      BY <1>2, <1>3, <1>8, <2>2, <3>1, <3>2, RecoverLemma, KeepLemma
  <2>5. CASE n # 0 /\ n # call.current
    <3>1. PICK next : next = cwd' /\ next = [call EXCEPT !.at = "opendir", !.above = n]
      BY <1>3, <2>1, <2>5
    <3>2. n \in {0} \cup Ino
      BY <1>2, <1>8 DEF IInv, TypeOK
    <3>3. /\ next.at = "opendir" /\ next.above = n /\ next.who = call.who /\ next.files = call.files
          /\ next.start = call.start /\ next.names = call.names /\ next.ok = call.ok
          /\ next.changed = call.changed /\ next.current = call.current /\ next \in Calls
      BY <1>3, <3>1, <3>2 DEF Calls
    <3>4. Typed(next)
      BY <3>3 DEF Typed
    <3>5. Holds(next, files)
      BY <1>3, <3>3 DEF Holds, Reading
    <3>6. ~next.changed => Way(next, here)
      BY <1>5, <2>2, <2>5, <3>3 DEF Way, Up, Reading
    <3>7. QED
      BY <1>2, <1>8, <3>1, <3>3, <3>4, <3>5, <3>6, KeepLemma
  <2>6. QED
    BY <2>3, <2>4, <2>5
<1>9. QED
  <2> HIDE DEF steps
  <2>1. QED
    BY <1>1, <1>2, <1>4, <1>6, <1>7, <1>8, StatLemma

LEMMA OpendirStatLemma ==
  ASSUME IInv, CallOK, OpendirStat
  PROVE  CallOK'
<1>1. cwd.at = "opendir" /\ ~halted
  BY DEF OpendirStat, Is
<1>2. PICK call, here, files : AtHome(call, here, files)
  BY <1>1, HomeLemma
<1>3. /\ call = cwd /\ call \in Calls /\ call.at = "opendir" /\ here \in {0} \cup Ino /\ call.ok
      /\ files = call.files
  BY <1>1, <1>2 DEF AtHome, Typed, Holds, Reading
<1>4. PICK n : n = search_file(w, <<"..">>)
  OBVIOUS
<1>5. n = FindEntry(here, <<"..">>)
  BY <1>1, <1>2, <1>4, UpLemma
<1> DEFINE step(m) == IF m = 0 \/ inode[m].mode # "dir" THEN Fails(cwd)
                      ELSE [cwd EXCEPT !.at = "open"]
           steps == [m \in 0..MaxIno |-> step(m)]
<1>6. Stat(w, <<"..">>, steps)
  BY DEF OpendirStat
<1>7. <<"..">> \in Seq(Words)
  BY DEF Words
<1>8. CASE KeepFs /\ cwd' = steps[n] /\ n \in 0..MaxIno /\ n \in {0} \cup imap
  <2>1. cwd' = step(n)
    BY <1>8
  <2>2. ~call.changed => /\ call.start # 0 /\ inode[call.start].mode = "dir"
                         /\ call.current = here /\ Leads(here, call.names, call.start)
                         /\ call.above = n
    BY <1>2, <1>3, <1>5 DEF AtHome, Way, Up
  <2>3. CASE n = 0 \/ inode[n].mode # "dir"
    <3>1. PICK next : next = cwd' /\ next = Fails(call)
      BY <1>3, <2>1, <2>3
    <3>2. QED
      BY <1>2, <1>3, <1>8, <2>2, <3>1, FailsLemma, KeepLemma
  <2>4. CASE n # 0 /\ inode[n].mode = "dir"
    <3>1. PICK next : next = cwd' /\ next = [call EXCEPT !.at = "open"]
      BY <1>3, <2>1, <2>4
    <3>2. /\ next.at = "open" /\ next.above = call.above /\ next.who = call.who
          /\ next.files = call.files /\ next.start = call.start /\ next.names = call.names
          /\ next.ok = call.ok /\ next.changed = call.changed /\ next.current = call.current
          /\ next \in Calls
      BY <1>3, <3>1 DEF Calls
    <3>3. Typed(next)
      BY <3>2 DEF Typed
    <3>4. Holds(next, files)
      BY <1>3, <3>2 DEF Holds, Reading
    <3>5. ~next.changed => Way(next, here)
      BY <1>5, <2>2, <2>4, <3>2 DEF Way, Up, Reading
    <3>6. QED
      BY <1>2, <1>8, <3>1, <3>2, <3>3, <3>4, <3>5, KeepLemma
  <2>5. QED
    BY <2>3, <2>4
<1>9. QED
  <2> HIDE DEF steps
  <2>1. QED
    BY <1>1, <1>2, <1>4, <1>6, <1>7, <1>8, StatLemma

\* A descriptor in use is of an allocated inode; the one open takes is of nobody.
LEMMA DescLemma ==
  ASSUME IInv, NEW p \in Proc
  PROVE  /\ \A d \in filp[p] : d \in Desc /\ f_desc[d].inode \in Ino
         /\ FreeDesc # {} => Min(FreeDesc) \in Desc \ filp[p]
<1>1. filp[p] \subseteq Desc /\ imap \subseteq Ino /\ Shared
  BY DEF IInv, TypeOK
<1>2. ASSUME NEW d \in filp[p]
      PROVE  d \in Desc /\ f_desc[d].inode \in Ino /\ f_desc[d].inode # 0
  <2>1. d \in Desc /\ p \in Sharers(d)
    BY <1>1 DEF Sharers
  <2>2. Sharers(d) # {} /\ IsFiniteSet(Sharers(d))
    BY <2>1, SetsLemma, FiniteLemma, FS_Subset
  <2>3. f_desc[d].cnt # 0
    BY <1>1, <2>1, <2>2, FS_EmptySet DEF Shared
  <2>4. QED
    BY <1>1, <2>1, <2>3 DEF Shared
<1>3. FreeDesc # {} => Min(FreeDesc) \in FreeDesc
  <2>1. FreeDesc \in SUBSET Nat
    BY NumbersLemma DEF FreeDesc
  <2>2. QED
    BY <2>1, MinLemma
<1>4. QED
  BY <1>2, <1>3 DEF FreeDesc

\* What open and close make of the stream.
LEMMA OpensType ==
  ASSUME NEW call \in Calls, NEW fd \in {0} \cup Desc
  PROVE  [call EXCEPT !.at = "readdir", !.fd = fd, !.pos = 0, !.cycle = 0] \in Calls
<1>1. ASSUME NEW pos \in Nat, NEW cycle \in {0, 1}
      PROVE  [call EXCEPT !.at = "readdir", !.fd = fd, !.pos = pos, !.cycle = cycle] \in Calls
  BY DEF Calls
<1>2. 0 \in Nat /\ 0 \in {0, 1}
  OBVIOUS
<1>3. QED
  BY <1>1, <1>2
LEMMA ClosesType ==
  ASSUME NEW call \in Calls
  PROVE  [call EXCEPT !.fd = 0, !.pos = 0, !.found = <<>>] \in Calls
<1>1. ASSUME NEW fd \in {0} \cup Desc, NEW pos \in Nat, NEW found \in Seq(Entry) \cup Seq(Comp)
      PROVE  [call EXCEPT !.fd = fd, !.pos = pos, !.found = found] \in Calls
  BY DEF Calls
<1>2. 0 \in Nat /\ 0 \in {0} \cup Desc /\ <<>> \in Seq(Comp)
  OBVIOUS
<1>3. QED
  BY <1>1, <1>2

LEMMA OpendirOpenLemma ==
  ASSUME IInv, CallOK, OpendirOpen
  PROVE  IInv' /\ CallOK'
<1>1. cwd.at = "open" /\ ~halted
  BY DEF OpendirOpen, Is
<1>2. PICK call, here, files : AtHome(call, here, files)
  BY <1>1, HomeLemma
<1>3. /\ call = cwd /\ call \in Calls /\ call.at = "open" /\ here \in {0} \cup Ino /\ call.ok
      /\ files = call.files /\ w \in live /\ w \in Proc /\ files = filp[w] /\ here = pwd[w] /\ exec = Idle
      /\ w \in User /\ here # 0
  BY <1>1, <1>2 DEF AtHome, Typed, Holds, Reading, live
<1>4. ~call.changed => /\ call.start # 0 /\ inode[call.start].mode = "dir"
                       /\ call.current = here /\ Leads(here, call.names, call.start)
                       /\ call.above # 0 /\ inode[call.above].mode = "dir"
                       /\ call.above = FindEntry(here, <<"..">>)
  BY <1>2, <1>3 DEF AtHome, Way, Up
<1>5. call.at # "none"
  BY <1>3
<1>6. <<"..">> \in Seq(Words)
  BY DEF Words
<1>7. CASE Panic /\ UNCHANGED exec /\ cwd' = cwd
  <2>1. CallOK'
    BY <1>2, <1>5, <1>7, KeepLemma DEF AtHome
  <2>2. QED
    BY <1>7, <2>1, PanicLemma
<1>8. CASE KeepFs /\ cwd' = Fails(cwd)
  <2>1. PICK next : next = cwd' /\ next = Fails(call)
    BY <1>3, <1>8
  <2>2. CallOK'
    <3>1. /\ Typed(next) /\ next.who = call.who /\ next.at # "none" /\ Holds(next, files)
          /\ ~next.changed => Way(next, here)
      BY <1>3, <1>4, <2>1, FailsLemma
    <3>2. QED
      BY <1>2, <1>8, <2>1, <3>1, KeepLemma
  <2>3. UNCHANGED vars
    BY <1>8 DEF KeepFs, vars
  <2>4. QED
    BY <2>2, <2>3, StepLemma
<1>9. CASE /\ OpenFinds(w, <<"..">>, {"RDWR"}) /\ ~Panic /\ exec' = exec
           /\ cwd' = IF halted' THEN cwd
                  ELSE [cwd EXCEPT !.at = "readdir", !.fd = Min(FreeDesc),
                                   !.pos = 0, !.cycle = 0]
  <2>1. TakeDesc(w, search_file(w, <<"..">>)) /\ inode' = inode /\ pwd' = pwd /\ halted' = halted /\ FreeDesc # {}
    BY <1>9 DEF OpenFinds, CanOpen
  <2>2. ExecOK'
    BY <1>9, <2>1, PartsLemma DEF ExecOK
  <2>3. IInv'
    BY <1>1, <1>3, <1>6, <1>9, <2>2, FindsLemma
  <2>4. PICK d : d = Min(FreeDesc)
    OBVIOUS
  <2>5. d \in Desc \ files /\ filp' = [filp EXCEPT ![w] = @ \cup {d}] /\ filp \in [Proc -> SUBSET Desc]
    BY <1>3, <2>1, <2>4, DescLemma DEF TakeDesc, IInv, TypeOK
  <2>6. filp'[w] = files \cup {d}
    BY <1>3, <2>5
  <2>7. PICK next : next = cwd' /\ next = [call EXCEPT !.at = "readdir", !.fd = d, !.pos = 0, !.cycle = 0]
    BY <1>1, <1>3, <1>9, <2>1, <2>4
  <2>8. /\ next.at = "readdir" /\ next.above = call.above /\ next.who = call.who
        /\ next.files = call.files /\ next.start = call.start /\ next.names = call.names
        /\ next.ok = call.ok /\ next.changed = call.changed /\ next.current = call.current
        /\ next.fd = d
    BY <1>3, <2>7 DEF Calls
  <2>9. next \in Calls
    <3>1. d \in {0} \cup Desc
      BY <2>5
    <3>2. call \in Calls
      BY <1>3
    <3>3. [call EXCEPT !.at = "readdir", !.fd = d, !.pos = 0, !.cycle = 0] \in Calls
      BY <3>1, <3>2, OpensType
    <3>4. QED
      BY <2>7, <3>3, Zenon
  <2>10. Typed(next)
    BY <2>8, <2>9 DEF Typed
  <2>11. Holds(next, files \cup {d})
    BY <1>3, <2>5, <2>8 DEF Holds, Reading
  <2>12. ~next.changed => Way(next, here)
    BY <1>4, <2>8 DEF Way, Up, Reading
  <2>13. w' = w /\ next # NoCall
    <3>1. next # NoCall
      BY <2>8 DEF NoCall
    <3>2. cwd'.who = cwd.who
      BY <1>3, <2>7, <2>8
    <3>3. QED
      BY <3>1, <3>2 DEF w
  <2>14. CallOK'
    <3>1. /\ Typed(cwd') /\ cwd' # NoCall /\ w' = w /\ w \in User /\ exec' = Idle
          /\ here = pwd'[w] /\ here # 0 /\ (files \cup {d}) = filp'[w] /\ next = cwd'
      BY <1>3, <1>9, <2>1, <2>6, <2>7, <2>10, <2>13
    <3>2. QED
      BY <2>1, <2>11, <2>12, <3>1, SameDirs
  <2>15. QED
    BY <2>3, <2>14
<1>10. CASE OpenFinds(w, <<"..">>, {"RDWR"}) \/ OpenPanics(w, <<"..">>)
  <2>1. halted' => Panic
    BY <1>1, <1>10 DEF OpenFinds, OpenPanics
  <2>2. Panic => halted'
    BY DEF Panic
  <2>3. QED
    BY <1>7, <1>8, <1>9, <1>10, <2>1, <2>2 DEF OpendirOpen, Open, OpenCreates, OpenPanics
<1>11. QED
  BY <1>8, <1>10 DEF OpendirOpen, Open, OpenCreates

LEMMA ClosedirLemma ==
  ASSUME IInv, CallOK, Closedir
  PROVE  IInv' /\ CallOK'
<1>1. cwd.at = "close" /\ ~halted
  BY DEF Closedir, Is
<1>2. PICK call, here, files : AtHome(call, here, files)
  BY <1>1, HomeLemma
<1>3. /\ call = cwd /\ call \in Calls /\ call.at = "close" /\ here \in {0} \cup Ino
      /\ files = filp[w] /\ w \in live /\ w \in Proc /\ here = pwd[w] /\ exec = Idle
      /\ w \in User /\ here # 0
  BY <1>1, <1>2 DEF AtHome, Typed, live
<1>4. call.fd \in Desc \ call.files /\ files = call.files \cup {call.fd}
  BY <1>2, <1>3 DEF AtHome, Holds, Reading
<1>5. ~call.changed => /\ call.start # 0 /\ inode[call.start].mode = "dir"
                       /\ call.current = here
                       /\ call.above # 0 /\ inode[call.above].mode = "dir"
                       /\ call.above = FindEntry(here, <<"..">>)
                       /\ IF call.ok THEN Leads(call.above, call.names, call.start)
                          ELSE Leads(here, call.names, call.start)
  BY <1>2, <1>3 DEF AtHome, Way, Up, Reading
<1>6. CloseDesc(w, call.fd) /\ exec' = exec /\ Close(w, call.fd)
  BY <1>3 DEF Closedir, Close
<1>7. IInv'
  BY <1>3, <1>4, <1>6, CloseStep
<1>8. inode' = inode /\ pwd' = pwd /\ filp' = [filp EXCEPT ![w] = @ \ {call.fd}]
  BY <1>6 DEF CloseDesc
<1>9. filp \in [Proc -> SUBSET Desc]
  BY DEF IInv, TypeOK
<1>10. filp'[w] = call.files
  BY <1>3, <1>4, <1>8, <1>9
<1>11. PICK closed : closed = [call EXCEPT !.fd = 0, !.pos = 0, !.found = <<>>]
  OBVIOUS
<1>12. /\ closed.at = call.at /\ closed.above = call.above /\ closed.who = call.who
       /\ closed.files = call.files /\ closed.start = call.start /\ closed.names = call.names
       /\ closed.ok = call.ok /\ closed.changed = call.changed /\ closed.current = call.current
  BY <1>3, <1>11 DEF Calls
<1>13. closed \in Calls
  BY <1>3, <1>11, ClosesType
<1>14. cwd' = IF call.ok THEN [closed EXCEPT !.at = "chdir"] ELSE Fails(closed)
  BY <1>3, <1>11 DEF Closedir
<1>15. PICK next : next = cwd'
  OBVIOUS
<1>16. /\ Typed(next) /\ next.who = call.who /\ next.at # "none" /\ Holds(next, call.files)
       /\ ~next.changed => Way(next, here)
  <2>1. CASE call.ok
    <3>1. next = [closed EXCEPT !.at = "chdir"]
      BY <1>14, <1>15, <2>1
    <3>2. /\ next.at = "chdir" /\ next.above = call.above /\ next.who = call.who
          /\ next.files = call.files /\ next.start = call.start /\ next.names = call.names
          /\ next.ok = call.ok /\ next.changed = call.changed /\ next.current = call.current
      BY <1>12, <1>13, <3>1 DEF Calls
    <3>3. next \in Calls
      BY <1>13, <3>1 DEF Calls
    <3>4. QED
      BY <1>5, <2>1, <3>2, <3>3 DEF Typed, Holds, Way, Up, Reading
  <2>2. CASE ~call.ok
    <3>1. next = Fails(closed)
      BY <1>14, <1>15, <2>2
    <3>2. ~closed.changed => /\ closed.start # 0 /\ inode[closed.start].mode = "dir"
                             /\ Leads(here, closed.names, closed.start)
      BY <1>5, <1>12, <2>2
    <3>3. /\ Typed(next) /\ next.who = closed.who /\ next.at # "none" /\ Holds(next, closed.files)
          /\ ~next.changed => Way(next, here)
      BY <1>3, <1>13, <3>1, <3>2, FailsLemma
    <3>4. QED
      BY <1>12, <3>3
  <2>3. QED
    BY <2>1, <2>2
<1>17. CallOK'
  <2>1. w' = w /\ next # NoCall
    BY <1>3, <1>15, <1>16 DEF w, NoCall
  <2>2. /\ Typed(cwd') /\ cwd' # NoCall /\ w' = w /\ w \in User /\ exec' = Idle
        /\ here = pwd'[w] /\ here # 0 /\ call.files = filp'[w] /\ next = cwd'
    BY <1>3, <1>6, <1>8, <1>10, <1>15, <1>16, <2>1
  <2>3. QED
    BY <1>8, <1>16, <2>2, SameDirs
<1>18. QED
  BY <1>7, <1>17

\* Looking at what is left of a sector moves the caller on by one entry or more, or
\* back to readdir.
LEMMA LookLemma ==
  ASSUME NEW call \in Calls, call = cwd, NEW block \in Seq(Entry), NEW next, next = LookAt(block)
  PROVE  /\ next \in Calls /\ Typed(next) /\ next.at \in {"readdir", "entry"}
         /\ next.who = call.who /\ next.files = call.files /\ next.start = call.start
         /\ next.names = call.names /\ next.ok = call.ok /\ next.changed = call.changed
         /\ next.current = call.current /\ next.above = call.above /\ next.fd = call.fd
         /\ next.pos = call.pos /\ next.cycle = call.cycle
<1>1. CASE Wanted(block) = {}
  <2>1. next = [call EXCEPT !.at = "readdir", !.found = <<>>]
    BY <1>1 DEF LookAt
  <2>2. PICK e \in Seq(Comp) : e = <<>>
    <3>1. <<>> \in Seq(Comp)
      OBVIOUS
    <3>2. QED
      BY <3>1
  <2>3. next = [call EXCEPT !.at = "readdir", !.found = e] /\ e \in Seq(Entry) \cup Seq(Comp)
    BY <2>1, <2>2
  <2>4. next \in Calls /\ next.at = "readdir"
    BY <2>3 DEF Calls
  <2>5. QED
    BY <2>3, <2>4 DEF Typed, Calls
<1>2. CASE Wanted(block) # {}
  <2>1. PICK i : i = Min(Wanted(block))
    OBVIOUS
  <2>2. i \in 1..Len(block) /\ Len(block) \in Nat
    <3>1. Wanted(block) \in SUBSET (1..Len(block)) /\ Wanted(block) \in SUBSET Nat
      BY DEF Wanted
    <3>2. QED
      BY <1>2, <2>1, <3>1, MinLemma
  <2>3. PICK rest : rest = SubSeq(block, i, Len(block))
    OBVIOUS
  <2>4. rest \in Seq(Entry) /\ rest # <<>>
    <3>1. \A j \in i..Len(block) : block[j] \in Entry
      BY <2>2
    <3>2. i \in Int /\ Len(block) \in Int /\ i <= Len(block)
      BY <2>2
    <3>3. rest \in Seq(Entry) /\ Len(rest) = Len(block) - i + 1
      BY <2>3, <3>1, <3>2, SubSeqProperties
    <3>4. QED
      BY <3>2, <3>3
  <2>5. next = [call EXCEPT !.at = "entry", !.found = rest]
    BY <1>2, <2>1, <2>3 DEF LookAt
  <2>6. next \in Calls /\ next.at = "entry" /\ next.found = rest
    BY <2>4, <2>5 DEF Calls
  <2>7. QED
    BY <2>4, <2>5, <2>6 DEF Typed, Calls
<1>3. QED
  BY <1>1, <1>2

\* The sector readdir reads holds entries.
LEMMA ArrayLemma ==
  ASSUME NEW S, NEW m \in Nat, NEW block \in [1..m -> S]
  PROVE  block \in Seq(S)
OBVIOUS
LEMMA BlockLemma ==
  ASSUME TypeOK, NEW n \in Ino, NEW pos \in Nat, pos < inode[n].nr,
         NEW block, block = [i \in 1 .. Min({BlockEnt, inode[n].nr - pos}) |-> inode[n].ents[pos + i]]
  PROVE  block \in Seq(Entry)
<1>1. /\ inode[n].nr \in 0..MaxEnt
      /\ \A i \in 1..MaxEnt : inode[n].ents[i] \in Entry
  <2>1. inode \in [Ino -> [mode : {"none", "reg", "dir", "chr"}, nr : 0..MaxEnt,
                           ents : [1..MaxEnt -> Entry]]]
    BY DEF TypeOK, Entry
  <2>2. QED
    BY <2>1
<1>2. PICK nr : nr = inode[n].nr
  OBVIOUS
<1>3. PICK m : m = Min({BlockEnt, nr - pos})
  OBVIOUS
<1>4. nr - pos \in Nat /\ nr \in Nat /\ nr <= MaxEnt
  BY <1>1, <1>2, NumbersLemma
<1>5. m \in Nat /\ m <= nr - pos
  <2>1. {BlockEnt, nr - pos} \in SUBSET Nat
    BY <1>4, NumbersLemma
  <2>2. QED
    BY <1>3, <2>1, MinLemma
<1>6. \A i \in 1..m : pos + i \in 1..MaxEnt
  BY <1>4, <1>5, NumbersLemma
<1>7. block = [i \in 1..m |-> inode[n].ents[pos + i]]
  BY <1>2, <1>3
<1>8. \A i \in 1..m : block[i] \in Entry
  BY <1>1, <1>6, <1>7
<1>9. block \in [1..m -> Entry]
  <2>1. DOMAIN block = 1..m
    BY <1>7
  <2>2. block = [i \in 1..m |-> block[i]]
    BY <1>7
  <2>3. QED
    BY <1>8, <2>2
<1>10. QED
  BY <1>5, <1>9, ArrayLemma

LEMMA ReaddirLemma ==
  ASSUME IInv, CallOK, Readdir
  PROVE  CallOK'
<1>1. cwd.at = "readdir" /\ ~halted /\ KeepFs
  BY DEF Readdir, Is
<1>2. PICK call, here, files : AtHome(call, here, files)
  BY <1>1, HomeLemma
<1>3. /\ call = cwd /\ call \in Calls /\ call.at = "readdir" /\ here \in {0} \cup Ino /\ call.ok
      /\ files = filp[w] /\ w \in live /\ w \in Proc
  BY <1>1, <1>2 DEF AtHome, Typed, Holds, Reading, live
<1>4. call.fd \in Desc \ call.files /\ files = call.files \cup {call.fd}
  BY <1>2, <1>3 DEF AtHome, Holds, Reading
<1>5. ~call.changed => /\ call.start # 0 /\ inode[call.start].mode = "dir"
                       /\ call.current = here /\ Leads(here, call.names, call.start)
                       /\ call.above # 0 /\ inode[call.above].mode = "dir"
                       /\ call.above = FindEntry(here, <<"..">>)
  BY <1>2, <1>3 DEF AtHome, Way, Up, Reading
<1>6. PICK n \in Ino : n = f_desc[call.fd].inode
  BY <1>3, <1>4, DescLemma
<1>7. cwd' = IF call.pos < inode[n].nr THEN ReadFrom(inode[n])
             ELSE IF call.cycle = 0 THEN Rewinddir(call)
             ELSE [call EXCEPT !.at = "close", !.ok = FALSE]
  BY <1>3, <1>6 DEF Readdir
<1>8. PICK next : next = cwd'
  OBVIOUS
<1>9. /\ next \in Calls /\ Typed(next) /\ next.at \in {"readdir", "entry", "close"}
      /\ next.who = call.who /\ next.files = call.files /\ next.start = call.start
      /\ next.names = call.names /\ next.changed = call.changed
      /\ next.current = call.current /\ next.above = call.above /\ next.fd = call.fd
      /\ next.ok <=> next.at # "close"
  <2>1. CASE call.pos < inode[n].nr
    <3>1. PICK block : block = [i \in 1 .. Min({BlockEnt, inode[n].nr - call.pos})
                                  |-> inode[n].ents[call.pos + i]]
      OBVIOUS
    <3>2. call.pos \in Nat
      BY <1>3 DEF Calls
    <3>3. block \in Seq(Entry) /\ Len(block) \in Nat
      <4>1. block \in Seq(Entry)
        BY <2>1, <3>1, <3>2, BlockLemma DEF IInv
      <4>2. QED
        BY <4>1
    <3>4. PICK look : look = LookAt(block)
      OBVIOUS
    <3>5. next = [look EXCEPT !.pos = @ + Len(block)]
      BY <1>3, <1>7, <1>8, <2>1, <3>1, <3>4 DEF ReadFrom
    <3>6. /\ look \in Calls /\ Typed(look) /\ look.at \in {"readdir", "entry"}
          /\ look.who = call.who /\ look.files = call.files /\ look.start = call.start
          /\ look.names = call.names /\ look.ok = call.ok /\ look.changed = call.changed
          /\ look.current = call.current /\ look.above = call.above /\ look.fd = call.fd
          /\ look.pos = call.pos
      <4>1. call \in Calls /\ call = cwd
        BY <1>3
      <4>2. QED
        BY <3>3, <3>4, <4>1, LookLemma
    <3>7. PICK pos \in Nat : pos = look.pos + Len(block)
      BY <3>2, <3>3, <3>6
    <3>8. next = [look EXCEPT !.pos = pos]
      BY <3>5, <3>7
    <3>9. /\ next.at = look.at /\ next.found = look.found
          /\ next.who = look.who /\ next.files = look.files /\ next.start = look.start
          /\ next.names = look.names /\ next.ok = look.ok /\ next.changed = look.changed
          /\ next.current = look.current /\ next.above = look.above /\ next.fd = look.fd
      BY <3>6, <3>8 DEF Calls
    <3>10. next \in Calls
      BY <3>6, <3>8 DEF Calls
    <3>11. QED
      BY <1>3, <3>6, <3>9, <3>10 DEF Typed
  <2>2. CASE ~(call.pos < inode[n].nr) /\ call.cycle = 0
    <3>1. PICK one, zero : one \in {0, 1} /\ zero \in Nat /\ one = 1 /\ zero = 0
      OBVIOUS
    <3>2. next = [call EXCEPT !.cycle = one, !.pos = zero] /\ one \in {0, 1} /\ zero \in Nat
      BY <1>7, <1>8, <2>2, <3>1 DEF Rewinddir
    <3>3. next \in Calls
      BY <1>3, <3>2 DEF Calls
    <3>4. QED
      BY <1>3, <3>2, <3>3 DEF Typed, Calls
  <2>3. CASE ~(call.pos < inode[n].nr) /\ call.cycle # 0
    <3>1. next = [call EXCEPT !.at = "close", !.ok = FALSE]
      BY <1>7, <1>8, <2>3
    <3>2. next \in Calls
      BY <1>3, <3>1 DEF Calls
    <3>3. QED
      BY <1>3, <3>1, <3>2 DEF Typed, Calls
  <2>4. QED
    BY <2>1, <2>2, <2>3
<1>10. Holds(next, files)
  BY <1>4, <1>9 DEF Holds, Reading
<1>11. ~next.changed => Way(next, here)
  BY <1>5, <1>9 DEF Way, Up, Reading
<1>12. QED
  BY <1>1, <1>2, <1>8, <1>9, <1>10, <1>11, KeepLemma

\* A name of an entry is a sequence of components, and may follow others.
LEMMA NameLemma ==
  ASSUME NEW e \in Entry
  PROVE  e.name \in Seq(Comp) /\ e.name \in Seq(Words)
<1>1. e.name \in Seq(STRING \ {"/"})
  BY GetcwdAssumption DEF Entry
<1>2. STRING \ {"/"} \subseteq Comp /\ Comp \subseteq Words
  BY DEF Comp, Words
<1>3. QED
  BY <1>1, <1>2, SeqMonotonic

LEMMA PrefixLemma ==
  ASSUME NEW x \in Words, NEW name \in Seq(Words), NEW path, path = <<x>> \o name
  PROVE  path \in Seq(Words) /\ path # <<>> /\ Head(path) = x /\ Tail(path) = name
<1>1. <<x>> \in Seq(Words)
  OBVIOUS
<1>2. path \in Seq(Words) /\ Len(path) = 1 + Len(name) /\ Len(name) \in Nat /\ path[1] = x
      /\ \A i \in 1..Len(name) : path[i+1] = name[i]
  BY <1>1
<1>3. path # <<>> /\ Head(path) = path[1] /\ Tail(path) \in Seq(Words)
      /\ Len(Tail(path)) = Len(name) /\ \A i \in 1..Len(name) : Tail(path)[i] = path[i+1]
  BY <1>2
<1>4. Tail(path) = name
  <2>1. /\ Tail(path) \in Seq(Words) /\ name \in Seq(Words) /\ Len(Tail(path)) = Len(name)
        /\ \A i \in 1..Len(Tail(path)) : Tail(path)[i] = name[i]
    BY <1>2, <1>3
  <2>2. QED
    BY <2>1, SeqEqual
<1>5. QED
  BY <1>2, <1>3, <1>4

\* Two steps down from "..": the entry found is the directory looked for.
LEMMA StatEntryLemma ==
  ASSUME IInv, CallOK, StatEntry
  PROVE  CallOK'
<1>1. cwd.at = "entry" /\ ~halted
  BY DEF StatEntry, Is
<1>2. PICK call, here, files : AtHome(call, here, files)
  BY <1>1, HomeLemma
<1>3. /\ call = cwd /\ call \in Calls /\ call.at = "entry" /\ here \in {0} \cup Ino /\ call.ok
      /\ files = filp[w] /\ w \in live /\ w \in Proc /\ here = pwd[w]
  BY <1>1, <1>2 DEF AtHome, Typed, Holds, Reading, live
<1>4. call.fd \in Desc \ call.files /\ files = call.files \cup {call.fd}
  BY <1>2, <1>3 DEF AtHome, Holds, Reading
<1>5. ~call.changed => /\ call.start # 0 /\ inode[call.start].mode = "dir"
                       /\ call.current = here /\ Leads(here, call.names, call.start)
                       /\ call.above # 0 /\ inode[call.above].mode = "dir"
                       /\ call.above = FindEntry(here, <<"..">>)
  BY <1>2, <1>3 DEF AtHome, Way, Up, Reading
<1>6. call.found \in Seq(Entry) /\ call.found # <<>>
  BY <1>2, <1>3 DEF AtHome, Typed
<1>7. PICK name, rest : /\ name = Head(call.found).name /\ rest = Tail(call.found)
                        /\ name \in Seq(Comp) /\ name \in Seq(Words) /\ rest \in Seq(Entry)
  <2>1. Head(call.found) \in Entry /\ Tail(call.found) \in Seq(Entry)
    BY <1>6
  <2>2. QED
    BY <2>1, NameLemma
<1>8. PICK path : path = <<"..">> \o name
  OBVIOUS
<1>9. /\ path \in Seq(Words) /\ path # <<>> /\ Head(path) = ".." /\ Tail(path) = name
      /\ IsAbs(path) = FALSE
  <2>1. ".." \in Words
    BY DEF Words
  <2>2. path \in Seq(Words) /\ path # <<>> /\ Head(path) = ".." /\ Tail(path) = name
    BY <1>7, <1>8, <2>1, PrefixLemma
  <2>3. QED
    BY <2>2 DEF IsAbs
<1>10. PICK n : n = search_file(w, path)
  OBVIOUS
<1>11. Leads(FindEntry(here, <<"..">>), name, n)
  <2>1. Comps(path) = path /\ StartDir(w, path) = here
    BY <1>3, <1>9 DEF Comps, StartDir
  <2>2. Leads(here, path, n)
    BY <1>1, <1>3, <1>9, <1>10, <2>1, SearchLeads DEF IInv
  <2>3. QED
    BY <1>9, <2>2, LeadsNext
<1> DEFINE steps == [m \in 0..MaxIno |-> IF m = cwd.current THEN AddPath(name)
                                         ELSE LookAt(Tail(cwd.found))]
<1>12. Stat(w, path, steps)
  BY <1>3, <1>7, <1>8 DEF StatEntry
<1>13. CASE KeepFs /\ cwd' = steps[n] /\ n \in 0..MaxIno
  <2>1. cwd' = IF n = call.current THEN AddPath(name) ELSE LookAt(rest)
    BY <1>3, <1>7, <1>13
  <2>2. PICK next : next = cwd'
    OBVIOUS
  <2>3. /\ Typed(next) /\ next.who = call.who /\ next.at # "none" /\ Holds(next, files)
        /\ ~next.changed => Way(next, here)
    <3>1. CASE n # call.current
      <4>1. next = LookAt(rest) /\ call = cwd /\ call \in Calls
        BY <1>3, <2>1, <2>2, <3>1
      <4>2. /\ next \in Calls /\ Typed(next) /\ next.at \in {"readdir", "entry"}
            /\ next.who = call.who /\ next.files = call.files /\ next.start = call.start
            /\ next.names = call.names /\ next.ok = call.ok /\ next.changed = call.changed
            /\ next.current = call.current /\ next.above = call.above /\ next.fd = call.fd
        <5>1. rest \in Seq(Entry)
          BY <1>7
        <5>2. QED
          BY <4>1, <5>1, LookLemma
      <4>3. Holds(next, files)
        BY <1>3, <1>4, <4>2 DEF Holds, Reading
      <4>4. ~next.changed => Way(next, here)
        BY <1>5, <4>2 DEF Way, Up, Reading
      <4>5. QED
        BY <4>2, <4>3, <4>4
    <3>2. CASE n = call.current /\ Len(name) + Len(call.names) > MaxNames
      <4>1. next = [call EXCEPT !.at = "close", !.ok = FALSE]
        BY <1>3, <2>1, <2>2, <3>2 DEF AddPath
      <4>2. next \in Calls
        BY <1>3, <4>1 DEF Calls
      <4>3. /\ next.at = "close" /\ next.ok = FALSE
            /\ next.who = call.who /\ next.files = call.files /\ next.start = call.start
            /\ next.names = call.names /\ next.changed = call.changed
            /\ next.current = call.current /\ next.above = call.above /\ next.fd = call.fd
        BY <1>3, <4>1 DEF Calls
      <4>4. Holds(next, files)
        BY <1>3, <1>4, <4>3 DEF Holds, Reading
      <4>5. ~next.changed => Way(next, here)
        BY <1>5, <4>3 DEF Way, Up, Reading
      <4>6. QED
        BY <4>2, <4>3, <4>4, <4>5 DEF Typed
    <3>3. CASE n = call.current /\ ~(Len(name) + Len(call.names) > MaxNames)
      <4>1. PICK names : names = name \o call.names
        OBVIOUS
      <4>2. next = [call EXCEPT !.at = "close", !.names = names]
        BY <1>3, <2>1, <2>2, <3>3, <4>1 DEF AddPath
      <4>3. call.names \in Seq(Comp) /\ call.names \in Seq(Words)
        <5>1. call.names \in Seq(Comp) /\ Comp \subseteq Words
          BY <1>3 DEF Calls, Comp
        <5>2. QED
          BY <5>1, SeqMonotonic
      <4>4. names \in Seq(Comp)
        BY <1>7, <4>1, <4>3
      <4>5. next \in Calls
        BY <1>3, <4>2, <4>4 DEF Calls
      <4>6. /\ next.at = "close" /\ next.ok = call.ok
            /\ next.who = call.who /\ next.files = call.files /\ next.start = call.start
            /\ next.names = names /\ next.changed = call.changed
            /\ next.current = call.current /\ next.above = call.above /\ next.fd = call.fd
        BY <1>3, <4>2 DEF Calls
      <4>7. Holds(next, files)
        BY <1>3, <1>4, <4>6 DEF Holds, Reading
      <4>8. ~call.changed => Leads(call.above, names, call.start)
        <5>1. ~call.changed => Leads(call.above, name, here) /\ Leads(here, call.names, call.start)
          BY <1>5, <1>11, <3>3
        <5>2. QED
          BY <1>7, <4>1, <4>3, <5>1, LeadsOn
      <4>9. ~next.changed => Way(next, here)
        BY <1>3, <1>5, <4>6, <4>8 DEF Way, Up, Reading
      <4>10. QED
        BY <4>5, <4>6, <4>7, <4>9 DEF Typed
    <3>4. QED
      BY <3>1, <3>2, <3>3
  <2>4. QED
    BY <1>2, <1>13, <2>2, <2>3, KeepLemma
<1>14. QED
  <2> HIDE DEF steps
  <2>1. QED
    BY <1>1, <1>2, <1>9, <1>10, <1>12, <1>13, StatLemma

\* A chdir of the caller that does not fail halts the system or goes to the directory
\* it found; one that fails leaves the caller where it is.
LEMMA ChangeLemma ==
  ASSUME IInv, ~halted, NEW x \in Comp, NEW to, ChangeDir(<<x>>, to),
         NEW call, NEW here, NEW files, AtHome(call, here, files)
  PROVE  /\ IInv'
         /\ \/ CallOK'
            \/ /\ cwd' = to /\ inode' = inode /\ exec' = exec /\ filp' = filp
               /\ LET n == FindEntry(here, <<x>>)
                  IN  IF n # 0 /\ inode[n].mode = "dir" THEN pwd'[w] = n ELSE pwd'[w] = here
<1>1. /\ call = cwd /\ here = pwd[w] /\ w \in live /\ w \in User /\ w \in Proc /\ call.at # "none"
      /\ pwd \in [Proc -> {0} \cup Ino]
  BY DEF AtHome, Holds, live, IInv, TypeOK
<1>2. PICK n \in {0} \cup imap : n = search_file(w, <<x>>) /\ n = FindEntry(here, <<x>>)
  BY <1>1, OneLemma DEF IInv
<1>3. <<x>> \in Seq(Words)
  BY DEF Comp
<1>4. CASE Chdir(w, <<x>>) /\ cwd' = IF halted' THEN cwd ELSE to
  <2>1. IInv'
    BY <1>1, <1>3, <1>4, ChdirLemma
  <2>2. CASE Panic /\ exec' = exec
    <3>1. halted' /\ cwd' = cwd
      BY <1>4, <2>2 DEF Panic
    <3>2. CallOK'
      BY <1>1, <2>2, <3>1, KeepLemma DEF AtHome
    <3>3. QED
      BY <2>1, <3>2
  <2>3. CASE /\ n # 0 /\ inode[n].mode = "dir" /\ pwd' = [pwd EXCEPT ![w] = n]
             /\ UNCHANGED <<imap, inode, f_desc, filp, exec, halted>>
    <3>1. cwd' = to /\ pwd'[w] = n /\ inode' = inode /\ exec' = exec /\ filp' = filp
      BY <1>1, <1>4, <2>3
    <3>2. QED
      BY <1>2, <2>1, <2>3, <3>1
  <2>4. QED
    BY <1>2, <1>4, <2>2, <2>3 DEF Chdir
<1>5. CASE (n # 0 => inode[n].mode # "dir") /\ KeepFs /\ cwd' = to
  <2>1. UNCHANGED vars
    BY <1>5 DEF KeepFs, vars
  <2>2. IInv'
    BY <2>1, StepLemma
  <2>3. /\ inode' = inode /\ exec' = exec /\ filp' = filp /\ pwd' = pwd
    BY <1>5 DEF KeepFs
  <2>4. QED
    BY <1>1, <1>2, <1>5, <2>2, <2>3
<1>6. QED
  BY <1>2, <1>4, <1>5 DEF ChangeDir

\* The caller goes on from another directory, with what it had open.
LEMMA GoesLemma ==
  ASSUME NEW call, NEW here, NEW files, AtHome(call, here, files),
         NEW there, there = pwd'[w], there # 0, inode' = inode, exec' = exec, filp' = filp,
         NEW next, cwd' = next, Typed(next), next.who = call.who, next.at # "none",
         Holds(next, files), ~next.changed => Way(next, there)
  PROVE  CallOK'
<1>1. w' = w /\ next # NoCall
  BY DEF AtHome, w, NoCall
<1>2. /\ Typed(cwd') /\ cwd' # NoCall /\ w' = w /\ w \in User /\ exec' = Idle
      /\ there = pwd'[w] /\ there # 0 /\ files = filp'[w] /\ next = cwd'
  BY <1>1 DEF AtHome
<1>3. QED
  BY <1>2, SameDirs

LEMMA ChdirUpLemma ==
  ASSUME IInv, CallOK, ChdirUp
  PROVE  IInv' /\ CallOK'
<1>1. cwd.at = "chdir" /\ ~halted
  BY DEF ChdirUp, Is
<1>2. PICK call, here, files : AtHome(call, here, files)
  BY <1>1, HomeLemma
<1>3. /\ call = cwd /\ call \in Calls /\ call.at = "chdir" /\ here # 0 /\ call.ok
      /\ files = call.files
  BY <1>1, <1>2 DEF AtHome, Typed, Holds, Reading
<1>4. ~call.changed => /\ call.start # 0 /\ inode[call.start].mode = "dir"
                       /\ call.above # 0 /\ inode[call.above].mode = "dir"
                       /\ call.above = FindEntry(here, <<"..">>)
                       /\ Leads(call.above, call.names, call.start)
  BY <1>2, <1>3 DEF AtHome, Way, Up, Reading
<1>5. PICK to : to = [call EXCEPT !.at = "above", !.current = call.above]
  OBVIOUS
<1>6. ChangeDir(<<"..">>, to) /\ ".." \in Comp
  BY <1>3, <1>5 DEF ChdirUp, Comp, Words
<1>7. SUFFICES ASSUME ~CallOK' PROVE CallOK'
  BY <1>1, <1>2, <1>6, ChangeLemma
<1>8. PICK n : n = FindEntry(here, <<"..">>)
  OBVIOUS
<1>9. /\ cwd' = to /\ inode' = inode /\ exec' = exec /\ filp' = filp
      /\ IF n # 0 /\ inode[n].mode = "dir" THEN pwd'[w] = n ELSE pwd'[w] = here
  BY <1>1, <1>2, <1>6, <1>7, <1>8, ChangeLemma
<1>10. PICK there : there = pwd'[w]
  OBVIOUS
<1>11. there # 0 /\ (~call.changed => there = call.above)
  BY <1>3, <1>4, <1>8, <1>9, <1>10
<1>12. to \in Calls
  BY <1>3, <1>5 DEF Calls
<1>13. /\ to.at = "above" /\ to.ok = call.ok /\ to.who = call.who /\ to.files = call.files
       /\ to.start = call.start /\ to.names = call.names /\ to.changed = call.changed
       /\ to.current = call.above
  BY <1>3, <1>5 DEF Calls
<1>14. Typed(to) /\ Holds(to, files)
  BY <1>3, <1>12, <1>13 DEF Typed, Holds, Reading
<1>15. ~to.changed => Way(to, there)
  BY <1>4, <1>11, <1>13 DEF Way, Up, Reading
<1>16. QED
  BY <1>2, <1>9, <1>10, <1>11, <1>13, <1>14, <1>15, GoesLemma

LEMMA DownType ==
  ASSUME NEW call \in Calls, NEW rest \in Seq(Comp), NEW at \in {"returned", "recover"}
  PROVE  [call EXCEPT !.found = rest, !.at = at] \in Calls
BY DEF Calls
LEMMA LastLemma ==
  ASSUME NEW S, NEW s \in Seq(S), s # <<>>
  PROVE  /\ Head(s) \in S /\ Tail(s) \in Seq(S)
         /\ Len(s) = 1 <=> Tail(s) = <<>>
<1>1. /\ Head(s) \in S /\ Tail(s) \in Seq(S) /\ Len(Tail(s)) = Len(s) - 1 /\ Len(s) \in Nat
  BY HeadTailProperties, LenProperties
<1>2. Len(s) = 1 <=> Len(Tail(s)) = 0
  BY <1>1
<1>3. Tail(s) = <<>> <=> Len(Tail(s)) = 0
  BY <1>1, EmptySeq
<1>4. QED
  BY <1>1, <1>2, <1>3
LEMMA ChdirDownLemma ==
  ASSUME IInv, CallOK, ChdirDown
  PROVE  IInv' /\ CallOK'
<1>1. cwd.at = "recover" /\ ~halted
  BY DEF ChdirDown, Is
<1>2. PICK call, here, files : AtHome(call, here, files)
  BY <1>1, HomeLemma
<1>3. /\ call = cwd /\ call \in Calls /\ call.at = "recover" /\ here # 0 /\ here \in {0} \cup Ino
      /\ files = call.files
  BY <1>1, <1>2 DEF AtHome, Typed, Holds, Reading
<1>4. ~call.changed => /\ call.start # 0 /\ inode[call.start].mode = "dir"
                       /\ Leads(here, call.found, call.start)
                       /\ call.ok => Leads(ROOT_INODE, call.names, call.start)
  BY <1>2, <1>3 DEF AtHome, Way, Up, Reading
<1>5. PICK x, rest : /\ call.found \in Seq(Comp) /\ call.found # <<>> /\ x = Head(call.found)
                     /\ rest = Tail(call.found) /\ x \in Comp /\ rest \in Seq(Comp)
                     /\ (Len(call.found) = 1 <=> rest = <<>>)
  <2>1. call.found \in Seq(Comp) /\ call.found # <<>>
    BY <1>2, <1>3 DEF AtHome, Typed
  <2>2. QED
    BY <2>1, LastLemma
<1>6. call.found \in Seq(Words) /\ rest \in Seq(Words)
  <2>1. Comp \subseteq Words
    BY DEF Comp
  <2>2. QED
    BY <1>5, <2>1, SeqMonotonic
<1>7. PICK to : to = [call EXCEPT !.found = rest,
                                  !.at = IF rest = <<>> THEN "returned" ELSE "recover"]
  OBVIOUS
<1>8. ChangeDir(<<x>>, to)
  <2>1. ChangeDir(<<Head(cwd.found)>>,
               [cwd EXCEPT !.found = Tail(@),
                           !.at = IF Len(cwd.found) = 1 THEN "returned" ELSE "recover"])
    BY DEF ChdirDown
  <2>2. to = [cwd EXCEPT !.found = Tail(@),
                         !.at = IF Len(cwd.found) = 1 THEN "returned" ELSE "recover"]
    BY <1>3, <1>5, <1>7
  <2>3. QED
    BY <1>3, <1>5, <2>1, <2>2
<1>9. SUFFICES ASSUME ~CallOK' PROVE CallOK'
  BY <1>1, <1>2, <1>5, <1>8, ChangeLemma
<1>10. PICK n : n = FindEntry(here, <<x>>)
  OBVIOUS
<1>11. /\ cwd' = to /\ inode' = inode /\ exec' = exec /\ filp' = filp
       /\ IF n # 0 /\ inode[n].mode = "dir" THEN pwd'[w] = n ELSE pwd'[w] = here
  BY <1>1, <1>2, <1>5, <1>8, <1>9, <1>10, ChangeLemma
<1>12. PICK there : there = pwd'[w]
  OBVIOUS
<1>13. ~call.changed => Leads(n, rest, call.start) /\ n \in {0} \cup Ino
  BY <1>4, <1>5, <1>6, <1>10, LeadsNext
<1>14. ~call.changed => n # 0 /\ inode[n].mode = "dir"
  BY <1>4, <1>6, <1>13, LeadsNowhere
<1>15. there # 0 /\ (~call.changed => there = n)
  BY <1>3, <1>11, <1>12, <1>14
<1>16. to \in Calls
  <2>1. PICK at : at = (IF rest = <<>> THEN "returned" ELSE "recover") /\ at \in {"returned", "recover"}
    OBVIOUS
  <2>2. to = [call EXCEPT !.found = rest, !.at = at]
    BY <1>7, <2>1
  <2>3. QED
    BY <1>3, <1>5, <2>1, <2>2, DownType
<1>17. /\ to.at = IF rest = <<>> THEN "returned" ELSE "recover"
       /\ to.ok = call.ok /\ to.who = call.who /\ to.files = call.files
       /\ to.start = call.start /\ to.names = call.names /\ to.changed = call.changed
       /\ to.found = rest
  BY <1>3, <1>7 DEF Calls
<1>18. Typed(to) /\ Holds(to, files) /\ to.at # "none"
  BY <1>3, <1>5, <1>16, <1>17 DEF Typed, Holds, Reading
<1>19. rest = <<>> /\ ~call.changed => there = call.start
  BY <1>13, <1>15, LeadsEmpty
<1>20. ~to.changed => Way(to, there)
  BY <1>4, <1>13, <1>15, <1>17, <1>19 DEF Way, Up, Reading
<1>21. QED
  BY <1>2, <1>11, <1>12, <1>15, <1>17, <1>18, <1>20, GoesLemma

LEMMA NoCallType == Typed(NoCall)
<1>1. NoCall \in Calls
  <2>1. /\ 0 \in {0} \cup Ino /\ 0 \in {0} \cup Desc /\ 0 \in Nat /\ 0 \in {0, 1} /\ MM \in Proc
        /\ {} \in SUBSET Desc
    BY DEF Proc
  <2>2. PICK e \in Seq(Comp) : e = <<>>
    BY EmptySeq
  <2>3. QED
    BY <2>1, <2>2 DEF NoCall, Calls
<1>2. QED
  BY <1>1 DEF Typed, NoCall

LEMMA NoCallLemma ==
  ASSUME cwd' = NoCall
  PROVE  CallOK'
<1>1. Typed(cwd)'
  BY NoCallType DEF Typed, Calls
<1>2. QED
  BY <1>1 DEF CallOK

LEMMA GetcwdLemma ==
  ASSUME IInv, CallOK, NEW p \in Callers, Getcwd(p)
  PROVE  CallOK'
<1>1. /\ ~halted /\ p \in User /\ p \in Proc /\ p \in live /\ cwd = NoCall /\ exec = Idle
  BY GetcwdAssumption, FiniteLemma DEF Getcwd, Caller
<1>2. PICK n, here, files : n = search_file(p, <<".">>) /\ here = pwd[p] /\ files = filp[p]
  OBVIOUS
<1>3. /\ here \in imap /\ inode[here].mode = "dir" /\ here \in Ino /\ here # 0 /\ files \in SUBSET Desc
      /\ imap \subseteq Ino
  BY <1>1, <1>2, NumbersLemma DEF IInv, TypeOK, Dirs
<1>4. n = here
  <2>1. "." \in Comp
    BY DEF Comp, Words
  <2>2. n = FindEntry(here, <<".">>)
    BY <1>1, <1>2, <2>1, OneLemma DEF IInv
  <2>3. QED
    BY <1>1, <1>3, <2>2, DotsLemma DEF IInv
<1> DEFINE first(m) == [NoCall EXCEPT !.at = "above", !.who = p, !.start = here,
                                      !.files = files, !.current = m]
           steps == [m \in 0..MaxIno |-> IF m = 0 THEN NoCall ELSE first(m)]
<1>5. Stat(p, <<".">>, steps)
  BY <1>2 DEF Getcwd
<1>6. CASE Panic /\ UNCHANGED <<exec, cwd>>
  BY <1>1, <1>6, NoCallLemma
<1>7. CASE KeepFs /\ cwd' = steps[n]
  <2>1. n \in 0..MaxIno
    BY <1>3, <1>4, NumbersLemma DEF Ino
  <2>2. PICK next : next = cwd' /\ next = first(here)
    BY <1>3, <1>4, <1>7, <2>1
  <2>3. /\ next.at = "above" /\ next.who = p /\ next.start = here /\ next.files = files
        /\ next.current = here /\ next.names = <<>> /\ next.ok = TRUE /\ next.changed = FALSE
    BY <2>2 DEF NoCall
  <2>4. next \in Calls
    <3>1. /\ 0 \in {0} \cup Ino /\ 0 \in {0} \cup Desc /\ 0 \in Nat /\ 0 \in {0, 1}
          /\ here \in {0} \cup Ino
      BY <1>3
    <3>2. PICK e \in Seq(Comp) : e = <<>>
      BY EmptySeq
    <3>3. QED
      BY <1>1, <1>3, <2>2, <3>1, <3>2 DEF NoCall, Calls
  <2>5. Typed(next) /\ Holds(next, files)
    BY <2>3, <2>4 DEF Typed, Holds, Reading
  <2>6. Leads(here, <<>>, here)
    BY <1>3, LeadsEmpty
  <2>7. Way(next, here)
    BY <1>3, <2>3, <2>6 DEF Way, Up, Reading
  <2>8. UNCHANGED <<inode, filp, pwd, exec>>
    BY <1>7 DEF KeepFs
  <2>9. next # NoCall
    BY <2>3 DEF NoCall
  <2>10. p \in live'
    BY <1>1, <2>8 DEF live
  <2>11. Way(next, here)' /\ Holds(next, files)'
    BY <2>5, <2>7, <2>8, SameWay DEF Holds
  <2>12. Typed(cwd)'
    BY <2>2, <2>5 DEF Typed, Calls
  <2>13. w' = p
    BY <2>2, <2>3 DEF w
  <2>14. QED
    BY <1>1, <1>2, <2>2, <2>8, <2>10, <2>11, <2>12, <2>13 DEF CallOK
<1>8. QED
  <2> HIDE DEF steps
  <2>1. QED
    BY <1>2, <1>5, <1>6, <1>7 DEF Stat

\* Nobody takes the directory or the descriptors of another.
LEMMA KeepsLemma ==
  ASSUME IInv, NEW p \in User, NEW q \in live, p # q, q \in User, Asks(p)
  PROVE  pwd'[q] = pwd[q] /\ filp'[q] = filp[q]
<1>1. /\ pwd \in [Proc -> {0} \cup Ino] /\ filp \in [Proc -> SUBSET Desc] /\ q \in Proc /\ p \in Proc
      /\ q # FS
  BY FiniteLemma, FsDirAssumption DEF IInv, TypeOK
<1>2. CASE Panic
  BY <1>2 DEF Panic
<1>3. ASSUME NEW path, NEW flags, Open(p, path, flags), ~Panic
      PROVE  pwd'[q] = pwd[q] /\ filp'[q] = filp[q]
  <2>1. pwd' = pwd /\ \E d : filp' = [filp EXCEPT ![p] = @ \cup {d}]
    BY <1>3 DEF Open, OpenCreates, OpenFinds, OpenPanics, create_file, TakeDesc
  <2>2. QED
    BY <1>1, <2>1
<1>4. ASSUME NEW path, Unlink(p, path), ~Panic
      PROVE  pwd'[q] = pwd[q] /\ filp'[q] = filp[q]
  BY <1>4 DEF Unlink
<1>5. ASSUME NEW path, Chdir(p, path), ~Panic
      PROVE  pwd'[q] = pwd[q] /\ filp'[q] = filp[q]
  <2>1. filp' = filp /\ \E n : pwd' = [pwd EXCEPT ![p] = n]
    BY <1>5 DEF Chdir
  <2>2. QED
    BY <1>1, <2>1
<1>6. ASSUME NEW path, Mkdir(p, path), ~Panic
      PROVE  pwd'[q] = pwd[q] /\ filp'[q] = filp[q]
  BY <1>6 DEF Mkdir
<1>7. ASSUME NEW path, ExecTellFs(p, path)
      PROVE  pwd'[q] = pwd[q] /\ filp'[q] = filp[q]
  BY <1>1, <1>7 DEF ExecTellFs
<1>8. ASSUME NEW d, Close(p, d)
      PROVE  pwd'[q] = pwd[q] /\ filp'[q] = filp[q]
  <2>1. pwd' = pwd /\ filp' = [filp EXCEPT ![p] = @ \ {d}]
    BY <1>8 DEF Close, CloseDesc
  <2>2. QED
    BY <1>1, <2>1
<1>9. ASSUME NEW c, Fork(p, c)
      PROVE  pwd'[q] = pwd[q] /\ filp'[q] = filp[q]
  BY <1>1, <1>9 DEF Fork
<1>10. ASSUME Exit(p), ~Panic
      PROVE  pwd'[q] = pwd[q] /\ filp'[q] = filp[q]
  BY <1>1, <1>10 DEF Exit
<1>11. QED
  BY <1>2, <1>3, <1>4, <1>5, <1>6, <1>7, <1>8, <1>9, <1>10 DEF Asks

LEMMA OthersLemma ==
  ASSUME IInv, CallOK, Others
  PROVE  CallOK'
<1>1. cwd \in Calls /\ cwd' = [cwd EXCEPT !.changed = @ \/ (cwd # NoCall /\ inode' # inode)]
  BY DEF CallOK, Typed, Others
<1>2. CASE cwd = NoCall
  <2>1. cwd' = [NoCall EXCEPT !.changed = FALSE]
    BY <1>1, <1>2 DEF NoCall
  <2>2. cwd' = NoCall
    BY <2>1 DEF NoCall
  <2>3. QED
    BY <2>2, NoCallLemma
<1>3. CASE cwd # NoCall
  <2>1. cwd.at # "none"
    BY <1>3 DEF CallOK, Holds
  <2>2. PICK call, here, files : AtHome(call, here, files)
    BY <2>1, HomeLemma
  <2>3. /\ call = cwd /\ call \in Calls /\ here = pwd[w] /\ files = filp[w] /\ here # 0
        /\ Typed(call) /\ Holds(call, files) /\ (~call.changed => Way(call, here))
        /\ w \in live /\ w \in User /\ exec = Idle /\ call.at # "none"
    BY <1>1, <2>1, <2>2 DEF AtHome
  <2>4. PICK b \in BOOLEAN : b = (call.changed \/ inode' # inode)
    OBVIOUS
  <2>5. PICK next : next = cwd' /\ next = [call EXCEPT !.changed = b]
    BY <1>1, <1>3, <2>3, <2>4
  <2>6. /\ next \in Calls /\ next.changed = b
        /\ next.at = call.at /\ next.who = call.who /\ next.start = call.start
        /\ next.files = call.files /\ next.current = call.current /\ next.above = call.above
        /\ next.names = call.names /\ next.fd = call.fd /\ next.found = call.found
        /\ next.ok = call.ok
    BY <2>3, <2>5 DEF Calls
  <2>7. Typed(next) /\ Holds(next, files)
    BY <2>3, <2>6 DEF Typed, Holds
  <2>8. ~next.changed => inode' = inode /\ Way(next, here)
    BY <2>3, <2>4, <2>6 DEF Way
  <2>9. PICK p \in User \ {w} : Asks(p)
    BY <2>3 DEF Others, ExecStat, ExecOpen, ExecClose, Idle
  <2>10. pwd'[w] = here /\ filp'[w] = files
    BY <2>3, <2>9, KeepsLemma
  <2>11. exec' = Idle
    BY <1>3 DEF Others
  <2>12. w' = w /\ next # NoCall
    <3>1. next # NoCall
      BY <2>3, <2>6 DEF NoCall
    <3>2. cwd'.who = cwd.who
      BY <2>3, <2>5, <2>6
    <3>3. QED
      BY <3>1, <3>2 DEF w
  <2>13. /\ Typed(cwd') /\ cwd' # NoCall /\ w' = w /\ w \in User /\ exec' = Idle
         /\ here = pwd'[w] /\ here # 0 /\ files = filp'[w] /\ next = cwd'
    BY <2>3, <2>5, <2>7, <2>10, <2>11, <2>12
  <2>14. QED
    BY <2>7, <2>8, <2>13, SameDirs
<1>4. QED
  BY <1>2, <1>3

\* The inductive invariant of the processes with one of them in getcwd.
LEMMA WalkStep == IInv /\ CallOK /\ [GNext]_gvars => IInv' /\ CallOK'
<1>1. SUFFICES ASSUME IInv, CallOK, [GNext]_gvars PROVE IInv' /\ CallOK'
  OBVIOUS
<1>2. ASSUME UNCHANGED vars \/ (Panic /\ UNCHANGED exec) \/ KeepFs PROVE IInv'
  <2>1. CASE Panic /\ UNCHANGED exec
    BY <1>1, <2>1, PanicLemma
  <2>2. CASE UNCHANGED vars \/ KeepFs
    BY <1>1, <2>2, StepLemma DEF KeepFs, vars
  <2>3. QED
    BY <1>2, <2>1, <2>2
<1>3. CASE Others
  <2>1. Next
    BY <1>3 DEF Others, Next
  <2>2. QED
    BY <1>1, <1>3, <2>1, StepLemma, OthersLemma
<1>4. CASE StatAbove
  BY <1>1, <1>2, <1>4, StatAboveLemma DEF StatAbove, Stat
<1>5. CASE OpendirStat
  BY <1>1, <1>2, <1>5, OpendirStatLemma DEF OpendirStat, Stat
<1>6. CASE OpendirOpen
  BY <1>1, <1>6, OpendirOpenLemma
<1>7. CASE Readdir
  BY <1>1, <1>2, <1>7, ReaddirLemma DEF Readdir
<1>8. CASE StatEntry
  BY <1>1, <1>2, <1>8, StatEntryLemma DEF StatEntry, Stat
<1>9. CASE Closedir
  BY <1>1, <1>9, ClosedirLemma
<1>10. CASE ChdirUp
  BY <1>1, <1>10, ChdirUpLemma
<1>11. CASE ChdirDown
  BY <1>1, <1>11, ChdirDownLemma
<1>12. CASE Returns
  BY <1>1, <1>2, <1>12, NoCallLemma DEF Returns
<1>13. ASSUME NEW p \in Callers, Getcwd(p) PROVE IInv' /\ CallOK'
  BY <1>1, <1>2, <1>13, GetcwdLemma DEF Getcwd, Stat
<1>14. CASE UNCHANGED gvars
  <2>1. UNCHANGED vars /\ cwd' = cwd
    BY <1>14 DEF gvars
  <2>2. UNCHANGED <<inode, filp, pwd, exec>>
    BY <2>1 DEF vars
  <2>3. CASE cwd = NoCall
    BY <1>2, <2>1, <2>3, NoCallLemma
  <2>4. CASE cwd # NoCall
    <3>1. cwd.at # "none"
      BY <1>1, <2>4 DEF CallOK, Holds
    <3>2. PICK call, here, files : AtHome(call, here, files)
      BY <1>1, <3>1, HomeLemma
    <3>3. KeepFs
      BY <2>1 DEF vars, KeepFs
    <3>4. CallOK'
      BY <2>1, <3>1, <3>2, <3>3, KeepLemma DEF AtHome
    <3>5. QED
      BY <1>2, <2>1, <3>4
  <2>5. QED
    BY <2>3, <2>4
<1>15. QED
  BY <1>1, <1>3, <1>4, <1>5, <1>6, <1>7, <1>8, <1>9, <1>10, <1>11, <1>12, <1>13, <1>14 DEF GNext, Walk

LEMMA WalkInit == GInit => IInv /\ CallOK
BY InitLemma, NoCallType DEF GInit, CallOK

\* With a process in getcwd too, the tables of FS fit together, and the call holds its
\* directory and descriptors and knows the way back.
THEOREM WalkInvariant == GSpec => [](IInv /\ CallOK)
BY WalkInit, WalkStep, PTL DEF GSpec

\* getcwd closes what it opened, and while no directory changes it brings its caller
\* back and the path it returns leads there, whatever requests of others come between.
THEOREM GetcwdComesBack == GSpec => []GetcwdReturns
<1>1. IInv /\ CallOK => GetcwdReturns
  <2>1. SUFFICES ASSUME IInv, CallOK, cwd.at = "returned" PROVE GetcwdReturns
    BY DEF GetcwdReturns
  <2>2. PICK call, here, files : AtHome(call, here, files)
    BY <2>1, HomeLemma
  <2>3. call = cwd /\ here = pwd[w] /\ files = filp[w] /\ files = call.files /\ call \in Calls
    BY <2>1, <2>2 DEF AtHome, Holds, Reading, Typed
  <2>4. ~call.changed => here = call.start
    BY <2>1, <2>2, <2>3 DEF AtHome, Way
  <2>5. ~call.changed /\ call.ok => Leads(ROOT_INODE, call.names, call.start)
    BY <2>1, <2>2, <2>3 DEF AtHome, Way
  <2>6. PICK path : path = <<"/">> \o call.names
    OBVIOUS
  <2>7. path \in Seq(Words) /\ IsAbs(path) /\ Comps(path) = call.names
    <3>1. call.names \in Seq(Comp) /\ Comp \subseteq Words
      BY <2>3 DEF Calls, Comp
    <3>2. call.names \in Seq(Words)
      BY <3>1, SeqMonotonic
    <3>3. PICK names \in Seq(Words) : names = call.names
      BY <3>2
    <3>4. "/" \in Words
      BY DEF Words
    <3>5. path \in Seq(Words) /\ path # <<>> /\ Head(path) = "/" /\ Tail(path) = names
      BY <2>6, <3>3, <3>4, PrefixLemma
    <3>6. QED
      BY <3>3, <3>5 DEF IsAbs, Comps
  <2>8. StartDir(w, path) = ROOT_INODE
    BY <2>7 DEF StartDir
  <2>9. ~call.changed /\ call.ok => search_file(w, path) = call.start
    BY <2>5, <2>7, <2>8, LeadsSearch
  <2>10. QED
    BY <2>1, <2>3, <2>4, <2>6, <2>9 DEF GetcwdReturns
<1>2. QED
  BY <1>1, WalkInvariant, PTL
==============================================================================
