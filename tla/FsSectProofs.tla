---------------------------- MODULE FsSectProofs ----------------------------
(***************************************************************************)
(* Proofs about FsSect, for every set of files, every size of sectors, blocks   *)
(* and map, and every careful program: each sector has one owner, an inode is   *)
(* on the disk, and what is read is what was written.                        *)
(***************************************************************************)
EXTENDS FsSect, FiniteSetTheorems, WellFoundedInduction, TLAPS

Z == NR_ZONE_PER_SECT
ND == NR_DIRECT_ZONE
S2 == NR_SECOND_LEVEL_ZONE

----------------------------------------------------------------------------
(* Numbers                                                                 *)

LEMMA LeastLemma ==
  ASSUME NEW S \in SUBSET Nat, S # {}
  PROVE  /\ Min(S) \in S /\ \A y \in S : Min(S) <= y
         /\ \E x \in S : \A y \in S : x <= y
<1>1. \E x \in S : \A y \in S : x <= y
  <2> DEFINE R == OpToRel(<, Nat)
  <2>1. IsWellFoundedOn(R, S)
    BY NatLessThanWellFounded, IsWellFoundedOnSubset
  <2>2. \A x, y \in Nat : y < x => <<y, x>> \in R
    BY DEF OpToRel
  <2> HIDE DEF R
  <2>3. PICK x \in S : \A y \in S : ~ (<<y, x>> \in R)
    BY <2>1, WFMin
  <2>4. ASSUME NEW y \in S PROVE x <= y
    <3>1. ~ (y < x) /\ x \in Nat /\ y \in Nat
      BY <2>2, <2>3
    <3>2. QED
      BY <3>1
  <2>5. QED
    BY <2>4
<1>2. QED
  BY <1>1 DEF Min

LEMMA DivLemma ==
  ASSUME NEW N \in Nat \ {0}
  PROVE  /\ \A l \in Nat : l \div N \in Nat /\ l % N \in 0..N - 1 /\ l = (l \div N) * N + (l % N)
         /\ \A a \in Nat, k \in 0..N - 1 : (a * N + k) \div N = a /\ (a * N + k) % N = k
<1>1. \A a \in Nat, k \in 0..N - 1 : (a * N + k) \div N = a /\ (a * N + k) % N = k
  BY SMTT(60)
<1>2. ASSUME NEW l \in Nat
      PROVE  l \div N \in Nat /\ l % N \in 0..N - 1 /\ l = (l \div N) * N + (l % N)
  <2> DEFINE S == {k \in Nat : \E a \in Nat : l = a * N + k}
  <2>1. l = 0 * N + l
    OBVIOUS
  <2>2. PICK k \in S : \A y \in S : k <= y
    <3>1. S \in SUBSET Nat /\ l \in S
      BY <2>1
    <3> HIDE DEF S
    <3>2. QED
      BY <3>1, LeastLemma
  <2>3. PICK a \in Nat : l = a * N + k
    BY <2>2
  <2>4. k < N
    <3>1. SUFFICES ASSUME k >= N PROVE FALSE
      BY <2>2
    <3>2. l = (a + 1) * N + (k - N) /\ a + 1 \in Nat /\ k - N \in Nat
      BY <2>2, <2>3, <3>1
    <3>3. k - N \in S
      BY <3>2
    <3>4. k \in Nat
      BY <2>2
    <3> HIDE DEF S
    <3>5. k <= k - N
      BY <2>2, <3>3
    <3>6. QED
      BY <3>4, <3>5
  <2>5. l \div N = a /\ l % N = k
    BY <1>1, <2>2, <2>3, <2>4
  <2>6. QED
    BY <2>2, <2>3, <2>4, <2>5
<1>3. QED
  BY <1>1, <1>2

\* Products are in the order of their factors.
LEMMA ProductLemma ==
  ASSUME NEW N \in Nat, NEW x \in Nat, NEW y \in Nat, x < y
  PROVE  x * N \in Nat /\ y * N \in Nat /\ x * N + N <= y * N
<1>1. PICK z \in Nat : y = x + 1 + z
  <2>1. y - x - 1 \in Nat
    OBVIOUS
  <2>2. QED
    BY <2>1
<1>2. y * N = x * N + N + z * N
  BY <1>1
<1>3. x * N \in Nat /\ y * N \in Nat /\ z * N \in Nat
  BY <1>1
<1>4. QED
  BY <1>2, <1>3

LEMMA MinMaxLemma ==
  ASSUME NEW a \in Nat, NEW b \in Nat
  PROVE  /\ Max({a, b}) = IF a <= b THEN b ELSE a
         /\ Min({a, b}) = IF a <= b THEN a ELSE b
<1>1. \E x \in {a, b} : \A y \in {a, b} : x >= y
  OBVIOUS
<1>2. Max({a, b}) \in {a, b} /\ \A y \in {a, b} : Max({a, b}) >= y
  BY <1>1 DEF Max
<1>3. Min({a, b}) \in {a, b} /\ \A y \in {a, b} : Min({a, b}) <= y
  BY LeastLemma
<1>4. QED
  BY <1>2, <1>3

LEMMA MinNat == \A a, b \in Nat : Min({a, b}) \in Nat
<1>1. \A a, b \in Nat : {a, b} \in SUBSET Nat /\ {a, b} # {}
  OBVIOUS
<1>2. \A S \in SUBSET Nat : S # {} => Min(S) \in S
  BY LeastLemma
<1>3. QED
  BY <1>1, <1>2, Zenon

LEMMA ConstantsLemma ==
  /\ Z \in Nat \ {0} /\ ND \in Nat \ {0} /\ SECTOR_SIZE \in Nat \ {0} /\ NrBits \in Nat \ {0}
  /\ S2 = ND + Z /\ S2 \in Nat /\ NR_THIRD_LEVEL_ZONE = S2 + Z * Z /\ Z * Z \in Nat
  /\ NR_THIRD_LEVEL_ZONE \in Nat
  /\ SECOND_LEVEL_ZONE = ND /\ THIRD_LEVEL_ZONE = ND + 1
  /\ 0 \notin Sectors /\ Zones = Sectors \cup {0} /\ NO_ZONE = 0 /\ Sectors \subseteq Nat
<1>1. Z \in Nat \ {0} /\ ND \in Nat \ {0} /\ SECTOR_SIZE \in Nat \ {0} /\ NrBits \in Nat \ {0}
  BY FsSectAssumption DEF Z, ND
<1>2. Z * Z \in Nat
  BY <1>1
<1>3. QED
  BY <1>1, <1>2 DEF S2, NR_SECOND_LEVEL_ZONE, NR_THIRD_LEVEL_ZONE, SECOND_LEVEL_ZONE,
     THIRD_LEVEL_ZONE, Sectors, Zones, NO_ZONE, Z, ND

----------------------------------------------------------------------------
(* Where a file keeps the numbers of its sectors: in the zones of its inode, in   *)
(* the slots of the block of the second level, in those of the third level, and  *)
(* in those of the blocks that these name.                                  *)

Slots == 0..Z - 1
InZone(i) == <<1, i, 0>>
InSecond(i) == <<2, i, 0>>
InThird(q) == <<3, q, 0>>
InBlock(q, i) == <<4, q, i>>
Cells ==
  {InZone(i) : i \in 0..ND + 1} \cup {InSecond(i) : i \in Slots}
    \cup {InThird(q) : q \in Slots} \cup {InBlock(q, i) : q \in Slots, i \in Slots}

\* What disk d and zones z have in a place.
Hold(d, z, p) ==
  IF p[1] = 1 THEN z[p[2]]
  ELSE IF p[1] = 2 THEN d[z[ND]][p[2]]
  ELSE IF p[1] = 3 THEN d[z[ND + 1]][p[2]]
  ELSE d[d[z[ND + 1]][p[2]]][p[3]]

\* The sectors it names there are blocks of numbers.
IsBlock(p) == p = InZone(ND) \/ p = InZone(ND + 1) \/ p[1] = 3

Block == [Slots -> Zones]

\* The places Q are in use, with the blocks they are in, and the others of those blocks
\* are empty.
Shaped(d, z, Q) ==
  /\ z \in [0..ND + 1 -> Zones] /\ Q \subseteq Cells
  /\ InZone(ND) \notin Q => z[ND] = NO_ZONE
  /\ InZone(ND + 1) \notin Q => z[ND + 1] = NO_ZONE
  /\ InZone(ND) \in Q => d[z[ND]] \in Block
  /\ InZone(ND + 1) \in Q => d[z[ND + 1]] \in Block
  /\ \A i \in Slots :
       /\ InSecond(i) \in Q => InZone(ND) \in Q
       /\ InZone(ND) \in Q /\ InSecond(i) \notin Q => d[z[ND]][i] = NO_ZONE
       /\ InThird(i) \in Q => InZone(ND + 1) \in Q /\ d[d[z[ND + 1]][i]] \in Block
       /\ InZone(ND + 1) \in Q /\ InThird(i) \notin Q => d[z[ND + 1]][i] = NO_ZONE
       /\ \A j \in Slots :
            /\ InBlock(i, j) \in Q => InThird(i) \in Q
            /\ InThird(i) \in Q /\ InBlock(i, j) \notin Q =>
                 d[d[z[ND + 1]][i]][j] = NO_ZONE

\* They name different sectors, of the set u.
Own(u, d, z, Q) ==
  /\ Shaped(d, z, Q) /\ u \subseteq Sectors
  /\ \A p \in Q : Hold(d, z, p) \in u
  /\ \A p, q \in Q : Hold(d, z, p) = Hold(d, z, q) => p = q

\* The file has got the places that Q2 has and Q has not, with sectors that were not in use;
\* and only its own blocks have changed.
Grown(u, d, z, Q, u2, d2, z2, Q2) ==
  /\ Shaped(d2, z2, Q2) /\ Q \subseteq Q2 /\ u \subseteq u2 /\ u2 \subseteq Sectors
  /\ \A p \in Q : Hold(d2, z2, p) = Hold(d, z, p)
  /\ \A p \in Q2 \ Q : Hold(d2, z2, p) \in u2 \ u
  /\ \A p, q \in Q2 \ Q : Hold(d2, z2, p) = Hold(d2, z2, q) => p = q
  /\ \A s \in u2 \ u : \E p \in Q2 \ Q : Hold(d2, z2, p) = s
  /\ \A s \in u : (\A p \in Q : IsBlock(p) => Hold(d, z, p) # s) => d2[s] = d[s]

LEMMA CellsLemma ==
  /\ \A p \in Cells : \/ \E i \in 0..ND + 1 : p = InZone(i)
                      \/ \E i \in Slots : p = InSecond(i) \/ p = InThird(i)
                      \/ \E q \in Slots, i \in Slots : p = InBlock(q, i)
  /\ \A i \in 0..ND + 1 : InZone(i) \in Cells
  /\ \A i \in Slots : InSecond(i) \in Cells /\ InThird(i) \in Cells
  /\ \A q, i \in Slots : InBlock(q, i) \in Cells
  /\ \A i, j, k, l : /\ InZone(i) # InSecond(j) /\ InZone(i) # InThird(j)
                     /\ InZone(i) # InBlock(j, k) /\ InSecond(i) # InThird(j)
                     /\ InSecond(i) # InBlock(j, k) /\ InThird(i) # InBlock(j, k)
                     /\ (InZone(i) = InZone(j) => i = j)
                     /\ (InSecond(i) = InSecond(j) => i = j)
                     /\ (InThird(i) = InThird(j) => i = j)
                     /\ (InBlock(i, k) = InBlock(j, l) => i = j /\ k = l)
BY DEF Cells, InZone, InSecond, InThird, InBlock

LEMMA HoldLemma ==
  /\ \A d, z, i : Hold(d, z, InZone(i)) = z[i]
  /\ \A d, z, i : Hold(d, z, InSecond(i)) = d[z[ND]][i]
  /\ \A d, z, i : Hold(d, z, InThird(i)) = d[z[ND + 1]][i]
  /\ \A d, z, q, i : Hold(d, z, InBlock(q, i)) = d[d[z[ND + 1]][q]][i]
BY DEF Hold, InZone, InSecond, InThird, InBlock

LEMMA IsBlockLemma ==
  /\ IsBlock(InZone(ND)) /\ IsBlock(InZone(ND + 1))
  /\ \A i : (IsBlock(InZone(i)) <=> i \in {ND, ND + 1})
  /\ \A i : IsBlock(InThird(i)) /\ ~ IsBlock(InSecond(i))
  /\ \A q, i : ~ IsBlock(InBlock(q, i))
BY DEF IsBlock, InZone, InSecond, InThird, InBlock

\* Zone i of the inode holds 0..ND + 1.
LEMMA IndexLemma ==
  /\ ND \in 0..ND + 1 /\ ND + 1 \in 0..ND + 1 /\ ND # ND + 1
  /\ ND \in Nat /\ 0 \in Slots /\ Slots \subseteq Nat
BY ConstantsLemma DEF Slots

LEMMA GrownOwn ==
  ASSUME NEW u, NEW d, NEW z, NEW Q, NEW u2, NEW d2, NEW z2, NEW Q2,
         Own(u, d, z, Q), Grown(u, d, z, Q, u2, d2, z2, Q2)
  PROVE  Own(u2, d2, z2, Q2)
<1>1. Shaped(d2, z2, Q2) /\ u2 \subseteq Sectors
  BY DEF Grown
<1>2. \A p \in Q2 : IF p \in Q THEN Hold(d2, z2, p) = Hold(d, z, p) /\ Hold(d2, z2, p) \in u
                    ELSE Hold(d2, z2, p) \in u2 \ u
  BY DEF Grown, Own
<1>3. \A p \in Q2 : Hold(d2, z2, p) \in u2
  BY <1>2 DEF Grown
<1>4. \A p, q \in Q2 : Hold(d2, z2, p) = Hold(d2, z2, q) => p = q
  BY <1>2 DEF Grown, Own
<1>5. QED
  BY <1>1, <1>3, <1>4 DEF Own

LEMMA GrownTwice ==
  ASSUME NEW u, NEW d, NEW z, NEW Q, NEW u1, NEW d1, NEW z1, NEW Q1, NEW u2, NEW d2, NEW z2,
         NEW Q2, Own(u, d, z, Q),
         Grown(u, d, z, Q, u1, d1, z1, Q1), Grown(u1, d1, z1, Q1, u2, d2, z2, Q2)
  PROVE  Grown(u, d, z, Q, u2, d2, z2, Q2)
<1>1. /\ Shaped(d2, z2, Q2) /\ Q \subseteq Q2 /\ u \subseteq u2 /\ u2 \subseteq Sectors
      /\ Q \subseteq Q1 /\ Q1 \subseteq Q2 /\ u \subseteq u1 /\ u1 \subseteq u2
  BY DEF Grown
<1>2. \A p \in Q : Hold(d2, z2, p) = Hold(d, z, p)
  BY <1>1 DEF Grown
<1>3. \A p \in Q1 \ Q : Hold(d2, z2, p) = Hold(d1, z1, p) /\ Hold(d2, z2, p) \in u1 \ u
  BY <1>1 DEF Grown
<1>4. \A p \in Q2 \ Q1 : Hold(d2, z2, p) \in u2 \ u1
  BY DEF Grown
<1>5. \A p \in Q2 \ Q : Hold(d2, z2, p) \in u2 \ u
  BY <1>1, <1>3, <1>4
<1>6. \A p, q \in Q2 \ Q : Hold(d2, z2, p) = Hold(d2, z2, q) => p = q
  <2>1. SUFFICES ASSUME NEW p \in Q2 \ Q, NEW q \in Q2 \ Q, Hold(d2, z2, p) = Hold(d2, z2, q)
                 PROVE  p = q
    OBVIOUS
  <2>2. CASE p \in Q1 /\ q \in Q1
    BY <1>3, <2>1, <2>2 DEF Grown
  <2>3. CASE p \notin Q1 /\ q \notin Q1
    BY <2>1, <2>3 DEF Grown
  <2>4. QED
    BY <1>3, <1>4, <2>1, <2>2, <2>3
<1>7. \A s \in u2 \ u : \E p \in Q2 \ Q : Hold(d2, z2, p) = s
  <2>1. SUFFICES ASSUME NEW s \in u2 \ u PROVE \E p \in Q2 \ Q : Hold(d2, z2, p) = s
    OBVIOUS
  <2>2. CASE s \in u1
    <3>1. PICK p \in Q1 \ Q : Hold(d1, z1, p) = s
      BY <2>2 DEF Grown
    <3>2. QED
      BY <1>1, <1>3, <3>1
  <2>3. CASE s \notin u1
    <3>1. PICK p \in Q2 \ Q1 : Hold(d2, z2, p) = s
      BY <2>3 DEF Grown
    <3>2. QED
      BY <1>1, <3>1
  <2>4. QED
    BY <2>2, <2>3
<1>8. ASSUME NEW s \in u, \A p \in Q : IsBlock(p) => Hold(d, z, p) # s PROVE d2[s] = d[s]
  <2>1. d1[s] = d[s]
    BY <1>8 DEF Grown
  <2>2. ASSUME NEW p \in Q1, IsBlock(p) PROVE Hold(d1, z1, p) # s
    <3>1. CASE p \in Q
      BY <1>8, <2>2, <3>1 DEF Grown
    <3>2. CASE p \notin Q
      BY <2>2, <3>2 DEF Grown
    <3>3. QED
      BY <3>1, <3>2
  <2>3. QED
    BY <1>1, <2>1, <2>2 DEF Grown
<1>9. QED
  BY <1>1, <1>2, <1>5, <1>6, <1>7, <1>8 DEF Grown

\* What is added are places of one kind.
LEMMA AddedLemma ==
  ASSUME NEW Q, NEW I
  PROVE  /\ \A k, i : InZone(i) \in Q \cup {InZone(k)} <=> (InZone(i) \in Q \/ i = k)
         /\ \A k, i : InSecond(i) \in Q \cup {InZone(k)} <=> InSecond(i) \in Q
         /\ \A k, i : InThird(i) \in Q \cup {InZone(k)} <=> InThird(i) \in Q
         /\ \A k, q, i : InBlock(q, i) \in Q \cup {InZone(k)} <=> InBlock(q, i) \in Q
         /\ \A k, i : InZone(i) \in Q \cup {InThird(k)} <=> InZone(i) \in Q
         /\ \A k, i : InSecond(i) \in Q \cup {InThird(k)} <=> InSecond(i) \in Q
         /\ \A k, i : InThird(i) \in Q \cup {InThird(k)} <=> (InThird(i) \in Q \/ i = k)
         /\ \A k, q, i : InBlock(q, i) \in Q \cup {InThird(k)} <=> InBlock(q, i) \in Q
         /\ \A i : InZone(i) \in Q \cup {InSecond(k) : k \in I} <=> InZone(i) \in Q
         /\ \A i : InSecond(i) \in Q \cup {InSecond(k) : k \in I} <=> (InSecond(i) \in Q \/ i \in I)
         /\ \A i : InThird(i) \in Q \cup {InSecond(k) : k \in I} <=> InThird(i) \in Q
         /\ \A q, i : InBlock(q, i) \in Q \cup {InSecond(k) : k \in I} <=> InBlock(q, i) \in Q
         /\ \A r, i : InZone(i) \in Q \cup {InBlock(r, k) : k \in I} <=> InZone(i) \in Q
         /\ \A r, i : InSecond(i) \in Q \cup {InBlock(r, k) : k \in I} <=> InSecond(i) \in Q
         /\ \A r, i : InThird(i) \in Q \cup {InBlock(r, k) : k \in I} <=> InThird(i) \in Q
         /\ \A r, q, i : InBlock(q, i) \in Q \cup {InBlock(r, k) : k \in I} <=>
                           (InBlock(q, i) \in Q \/ (q = r /\ i \in I))
<1>1. \A k, i : InZone(i) \in Q \cup {InZone(k)} <=> (InZone(i) \in Q \/ i = k)
  BY DEF InZone, InSecond, InThird, InBlock
<1>2. \A k, i : InSecond(i) \in Q \cup {InZone(k)} <=> InSecond(i) \in Q
  BY DEF InZone, InSecond, InThird, InBlock
<1>3. \A k, i : InThird(i) \in Q \cup {InZone(k)} <=> InThird(i) \in Q
  BY DEF InZone, InSecond, InThird, InBlock
<1>4. \A k, q, i : InBlock(q, i) \in Q \cup {InZone(k)} <=> InBlock(q, i) \in Q
  BY DEF InZone, InSecond, InThird, InBlock
<1>5. \A k, i : InZone(i) \in Q \cup {InThird(k)} <=> InZone(i) \in Q
  BY DEF InZone, InSecond, InThird, InBlock
<1>6. \A k, i : InSecond(i) \in Q \cup {InThird(k)} <=> InSecond(i) \in Q
  BY DEF InZone, InSecond, InThird, InBlock
<1>7. \A k, i : InThird(i) \in Q \cup {InThird(k)} <=> (InThird(i) \in Q \/ i = k)
  BY DEF InZone, InSecond, InThird, InBlock
<1>8. \A k, q, i : InBlock(q, i) \in Q \cup {InThird(k)} <=> InBlock(q, i) \in Q
  BY DEF InZone, InSecond, InThird, InBlock
<1>9. \A i : InZone(i) \in Q \cup {InSecond(k) : k \in I} <=> InZone(i) \in Q
  BY DEF InZone, InSecond, InThird, InBlock
<1>10. \A i : InSecond(i) \in Q \cup {InSecond(k) : k \in I} <=> (InSecond(i) \in Q \/ i \in I)
  BY DEF InZone, InSecond, InThird, InBlock
<1>11. \A i : InThird(i) \in Q \cup {InSecond(k) : k \in I} <=> InThird(i) \in Q
  BY DEF InZone, InSecond, InThird, InBlock
<1>12. \A q, i : InBlock(q, i) \in Q \cup {InSecond(k) : k \in I} <=> InBlock(q, i) \in Q
  BY DEF InZone, InSecond, InThird, InBlock
<1>13. \A r, i : InZone(i) \in Q \cup {InBlock(r, k) : k \in I} <=> InZone(i) \in Q
  BY DEF InZone, InSecond, InThird, InBlock
<1>14. \A r, i : InSecond(i) \in Q \cup {InBlock(r, k) : k \in I} <=> InSecond(i) \in Q
  BY DEF InZone, InSecond, InThird, InBlock
<1>15. \A r, i : InThird(i) \in Q \cup {InBlock(r, k) : k \in I} <=> InThird(i) \in Q
  BY DEF InZone, InSecond, InThird, InBlock
<1>16. \A r, q, i : InBlock(q, i) \in Q \cup {InBlock(r, k) : k \in I} <=>
                           (InBlock(q, i) \in Q \/ (q = r /\ i \in I))
  BY DEF InZone, InSecond, InThird, InBlock
<1>17. QED
  BY <1>1, <1>2, <1>3, <1>4, <1>5, <1>6, <1>7, <1>8, <1>9, <1>10, <1>11, <1>12, <1>13, <1>14, <1>15, <1>16

\* A place names the same as before if its block is the same, and was in the same sector.
Same(d, z, Q, d2, z2) ==
  /\ \A i \in 0..ND + 1 : InZone(i) \in Q => z2[i] = z[i]
  /\ \A i \in Slots : InSecond(i) \in Q => d2[z2[ND]][i] = d[z[ND]][i]
  /\ \A q \in Slots : InThird(q) \in Q => d2[z2[ND + 1]][q] = d[z[ND + 1]][q]
  /\ \A q, i \in Slots : InBlock(q, i) \in Q =>
       d2[d2[z2[ND + 1]][q]][i] = d[d[z[ND + 1]][q]][i]

LEMMA SameHold ==
  ASSUME NEW d, NEW z, NEW Q, Q \subseteq Cells, NEW d2, NEW z2, Same(d, z, Q, d2, z2)
  PROVE  \A p \in Q : Hold(d2, z2, p) = Hold(d, z, p)
<1>1. SUFFICES ASSUME NEW p \in Q PROVE Hold(d2, z2, p) = Hold(d, z, p)
  OBVIOUS
<1>2. CASE \E i \in 0..ND + 1 : p = InZone(i)
  BY <1>2 DEF Hold, InZone, Same
<1>3. CASE \E i \in Slots : p = InSecond(i)
  BY <1>3 DEF Hold, InSecond, Same
<1>4. CASE \E i \in Slots : p = InThird(i)
  BY <1>4 DEF Hold, InThird, Same
<1>5. CASE \E q \in Slots, i \in Slots : p = InBlock(q, i)
  BY <1>5 DEF Hold, InBlock, Same
<1>6. QED
  BY <1>2, <1>3, <1>4, <1>5, CellsLemma

\* The blocks of a file are sectors of u, all different.
LEMMA BlocksLemma ==
  ASSUME NEW u, NEW d, NEW z, NEW Q, Own(u, d, z, Q)
  PROVE  /\ InZone(ND) \in Q => z[ND] \in u
         /\ InZone(ND + 1) \in Q => z[ND + 1] \in u
         /\ InZone(ND) \in Q /\ InZone(ND + 1) \in Q => z[ND] # z[ND + 1]
         /\ \A q \in Slots : InThird(q) \in Q =>
              /\ InZone(ND + 1) \in Q
              /\ d[z[ND + 1]][q] \in u /\ d[z[ND + 1]][q] # z[ND + 1]
              /\ InZone(ND) \in Q => d[z[ND + 1]][q] # z[ND]
              /\ \A r \in Slots : InThird(r) \in Q /\ r # q => d[z[ND + 1]][r] # d[z[ND + 1]][q]
<1>1. \A p, q \in Q : Hold(d, z, p) \in u /\ (p # q => Hold(d, z, p) # Hold(d, z, q))
  BY DEF Own
<1>2. \A q \in Slots : InThird(q) \in Q => InZone(ND + 1) \in Q
  BY DEF Own, Shaped
<1>3. /\ Hold(d, z, InZone(ND)) = z[ND] /\ Hold(d, z, InZone(ND + 1)) = z[ND + 1]
      /\ \A q \in Slots : Hold(d, z, InThird(q)) = d[z[ND + 1]][q]
  BY HoldLemma
<1>4. /\ InZone(ND) # InZone(ND + 1)
      /\ \A q \in Slots : InThird(q) # InZone(ND) /\ InThird(q) # InZone(ND + 1)
      /\ \A q, r \in Slots : q # r => InThird(q) # InThird(r)
  BY CellsLemma, IndexLemma
<1>5. QED
  BY <1>1, <1>2, <1>3, <1>4

\* Slots I of the block of the second level are filled.
LEMMA NoZonesLemma == NoZones \in Block /\ \A i \in Slots : NoZones[i] = NO_ZONE
<1>1. NO_ZONE \in Zones
  BY DEF Zones
<1>2. NoZones = [i \in Slots |-> NO_ZONE]
  BY DEF NoZones, Slots, Z
<1>3. QED
  BY <1>1, <1>2 DEF Block

\* A function with another value in one place.
LEMMA UpdateLemma ==
  ASSUME NEW S, NEW T, NEW f \in [S -> T], NEW a \in S, NEW y \in T
  PROVE  [f EXCEPT ![a] = y] \in [S -> T]
OBVIOUS

LEMMA FillSecond ==
  ASSUME NEW u, NEW d, NEW z, NEW Q, Own(u, d, z, Q), InZone(ND) \in Q,
         NEW I \in SUBSET Slots, \A i \in I : InSecond(i) \notin Q,
         NEW u2, NEW d2, NEW b \in Block, d2[z[ND]] = b,
         \A t \in u : t # z[ND] => d2[t] = d[t],
         \A i \in Slots \ I : b[i] = d[z[ND]][i],
         \A i \in I : b[i] \in Sectors \ u,
         \A i, j \in I : b[i] = b[j] => i = j,
         u2 = u \cup {b[i] : i \in I}
  PROVE  Grown(u, d, z, Q, u2, d2, z, Q \cup {InSecond(i) : i \in I})
<1> DEFINE Q2 == Q \cup {InSecond(i) : i \in I}
<1>1. Shaped(d, z, Q) /\ u \subseteq Sectors
  BY DEF Own
<1>2. ASSUME InZone(ND + 1) \in Q PROVE d2[z[ND + 1]] = d[z[ND + 1]]
  BY <1>2, BlocksLemma
<1>3. ASSUME NEW q \in Slots, InThird(q) \in Q
      PROVE  d2[d2[z[ND + 1]][q]] = d[d[z[ND + 1]][q]] /\ InZone(ND + 1) \in Q
  BY <1>2, <1>3, BlocksLemma
<1>4. \A p \in Q : Hold(d2, z, p) = Hold(d, z, p)
  <2>1. \A i \in Slots : InSecond(i) \in Q => d2[z[ND]][i] = d[z[ND]][i]
    OBVIOUS
  <2>2. \A q \in Slots : InThird(q) \in Q => d2[z[ND + 1]][q] = d[z[ND + 1]][q]
    BY <1>2, <1>3
  <2>3. \A q, i \in Slots : InBlock(q, i) \in Q =>
           d2[d2[z[ND + 1]][q]][i] = d[d[z[ND + 1]][q]][i]
    BY <1>1, <1>3 DEF Shaped
  <2>4. Same(d, z, Q, d2, z)
    BY <2>1, <2>2, <2>3 DEF Same
  <2>5. QED
    BY <1>1, <2>4, SameHold DEF Shaped
<1>5. /\ \A i : InZone(i) \in Q2 <=> InZone(i) \in Q
      /\ \A i : InThird(i) \in Q2 <=> InThird(i) \in Q
      /\ \A q, i : InBlock(q, i) \in Q2 <=> InBlock(q, i) \in Q
      /\ \A i : InSecond(i) \in Q2 <=> InSecond(i) \in Q \/ i \in I
      /\ Q \subseteq Q2 /\ \A p \in Q2 \ Q : \E i \in I : p = InSecond(i)
  <2>1. \A i : InZone(i) \in Q2 <=> InZone(i) \in Q
    BY AddedLemma
  <2>2. \A i : InThird(i) \in Q2 <=> InThird(i) \in Q
    BY AddedLemma
  <2>3. \A q, i : InBlock(q, i) \in Q2 <=> InBlock(q, i) \in Q
    BY AddedLemma
  <2>4. \A i : InSecond(i) \in Q2 <=> InSecond(i) \in Q \/ i \in I
    BY AddedLemma
  <2>5. Q \subseteq Q2 /\ \A p \in Q2 \ Q : \E i \in I : p = InSecond(i)
    BY CellsLemma
  <2>6. QED
    BY <2>1, <2>2, <2>3, <2>4, <2>5
<1> HIDE DEF Q2
<1>6. Shaped(d2, z, Q2)
  <2>1. Q2 \subseteq Cells
    BY <1>1, <1>5, CellsLemma DEF Shaped
  <2>2. QED
    BY <1>1, <1>2, <1>3, <1>5, <2>1 DEF Shaped
<1>7. \A i : Hold(d2, z, InSecond(i)) = b[i]
  BY HoldLemma
<1>8. \A p \in Q2 \ Q : \E i \in I : p = InSecond(i) /\ Hold(d2, z, p) = b[i]
  BY <1>5, <1>7
<1>9. \A p \in Q2 \ Q : Hold(d2, z, p) \in u2 \ u
  BY <1>8
<1>10. \A p, q \in Q2 \ Q : Hold(d2, z, p) = Hold(d2, z, q) => p = q
  BY <1>8
<1>11. \A s \in u2 \ u : \E p \in Q2 \ Q : Hold(d2, z, p) = s
  BY <1>5, <1>7
<1>12. ASSUME NEW s \in u, \A p \in Q : IsBlock(p) => Hold(d, z, p) # s PROVE d2[s] = d[s]
  BY <1>12, HoldLemma, IsBlockLemma
<1>13. u \subseteq u2 /\ u2 \subseteq Sectors
  BY <1>1
<1>14. QED
  BY <1>4, <1>5, <1>6, <1>9, <1>10, <1>11, <1>12, <1>13 DEF Grown, Q2

\* Slots I of block q of the third level are filled.
BlockFills(u, d, z, Q, q, I, u2, d2, b, t0) ==
  /\ Own(u, d, z, Q) /\ q \in Slots /\ InThird(q) \in Q
  /\ I \in SUBSET Slots /\ \A i \in I : InBlock(q, i) \notin Q
  /\ b \in Block /\ t0 = d[z[ND + 1]][q] /\ d2[t0] = b
  /\ \A t \in u : t # t0 => d2[t] = d[t]
  /\ \A i \in Slots \ I : b[i] = d[t0][i]
  /\ \A i \in I : b[i] \in Sectors \ u
  /\ \A i, j \in I : b[i] = b[j] => i = j
  /\ u2 = u \cup {b[i] : i \in I}

LEMMA FillBlock ==
  ASSUME NEW u, NEW d, NEW z, NEW Q, NEW q, NEW I, NEW u2, NEW d2, NEW b, NEW t0,
         BlockFills(u, d, z, Q, q, I, u2, d2, b, t0)
  PROVE  Grown(u, d, z, Q, u2, d2, z, Q \cup {InBlock(q, i) : i \in I})
<1>0. /\ Own(u, d, z, Q) /\ q \in Slots /\ InThird(q) \in Q
      /\ I \in SUBSET Slots /\ \A i \in I : InBlock(q, i) \notin Q
      /\ b \in Block /\ t0 = d[z[ND + 1]][q] /\ d2[t0] = b
      /\ \A t \in u : t # t0 => d2[t] = d[t]
      /\ \A i \in Slots \ I : b[i] = d[t0][i]
      /\ \A i \in I : b[i] \in Sectors \ u
      /\ \A i, j \in I : b[i] = b[j] => i = j
      /\ u2 = u \cup {b[i] : i \in I}
  BY DEF BlockFills
<1> USE <1>0
<1> DEFINE Q2 == Q \cup {InBlock(q, i) : i \in I}
<1>1. Shaped(d, z, Q) /\ u \subseteq Sectors
  BY DEF Own
<1>2. InZone(ND + 1) \in Q /\ d2[z[ND + 1]] = d[z[ND + 1]]
  BY BlocksLemma
<1>3. ASSUME NEW r \in Slots, InThird(r) \in Q
      PROVE  d2[d2[z[ND + 1]][r]] = IF r = q THEN b ELSE d[d[z[ND + 1]][r]]
  BY <1>2, <1>3, BlocksLemma
<1>4. ASSUME InZone(ND) \in Q PROVE d2[z[ND]] = d[z[ND]]
  BY <1>4, BlocksLemma
<1>5. \A p \in Q : Hold(d2, z, p) = Hold(d, z, p)
  <2>1. \A i \in Slots : InSecond(i) \in Q => d2[z[ND]][i] = d[z[ND]][i]
    BY <1>1, <1>4 DEF Shaped
  <2>2. \A r \in Slots : InThird(r) \in Q => d2[z[ND + 1]][r] = d[z[ND + 1]][r]
    BY <1>2
  <2>3. ASSUME NEW r \in Slots, NEW i \in Slots, InBlock(r, i) \in Q
        PROVE  d2[d2[z[ND + 1]][r]][i] = d[d[z[ND + 1]][r]][i]
    <3>1. InThird(r) \in Q
      BY <1>1, <2>3 DEF Shaped
    <3>2. CASE r = q
      BY <1>3, <2>3, <3>1, <3>2
    <3>3. CASE r # q
      BY <1>3, <3>1, <3>3
    <3>4. QED
      BY <3>2, <3>3
  <2>4. Same(d, z, Q, d2, z)
    BY <2>1, <2>2, <2>3 DEF Same
  <2>5. QED
    BY <1>1, <2>4, SameHold DEF Shaped
<1>6. /\ \A i : InZone(i) \in Q2 <=> InZone(i) \in Q
      /\ \A i : InThird(i) \in Q2 <=> InThird(i) \in Q
      /\ \A i : InSecond(i) \in Q2 <=> InSecond(i) \in Q
      /\ \A r, i : InBlock(r, i) \in Q2 <=> InBlock(r, i) \in Q \/ (r = q /\ i \in I)
      /\ Q \subseteq Q2 /\ \A p \in Q2 \ Q : \E i \in I : p = InBlock(q, i)
  <2>1. \A i : InZone(i) \in Q2 <=> InZone(i) \in Q
    BY DEF InZone, InSecond, InThird, InBlock
  <2>2. \A i : InThird(i) \in Q2 <=> InThird(i) \in Q
    BY DEF InZone, InSecond, InThird, InBlock
  <2>3. \A i : InSecond(i) \in Q2 <=> InSecond(i) \in Q
    BY DEF InZone, InSecond, InThird, InBlock
  <2>4. \A r, i : InBlock(r, i) \in Q2 <=> InBlock(r, i) \in Q \/ (r = q /\ i \in I)
    BY DEF InZone, InSecond, InThird, InBlock
  <2>5. Q \subseteq Q2 /\ \A p \in Q2 \ Q : \E i \in I : p = InBlock(q, i)
    BY CellsLemma
  <2>6. QED
    BY <2>1, <2>2, <2>3, <2>4, <2>5
<1> HIDE DEF Q2
<1>7. Shaped(d2, z, Q2)
  <2>1. Q2 \subseteq Cells
    BY <1>1, <1>6, CellsLemma, SMTT(40) DEF Shaped
  <2>2. ASSUME NEW i \in Slots
        PROVE  /\ InSecond(i) \in Q2 => InZone(ND) \in Q2
               /\ InZone(ND) \in Q2 /\ InSecond(i) \notin Q2 => d2[z[ND]][i] = NO_ZONE
               /\ InThird(i) \in Q2 => InZone(ND + 1) \in Q2 /\ d2[d2[z[ND + 1]][i]] \in Block
               /\ InZone(ND + 1) \in Q2 /\ InThird(i) \notin Q2 => d2[z[ND + 1]][i] = NO_ZONE
    <3>1. InThird(i) \in Q => d2[d2[z[ND + 1]][i]] \in Block
      BY <1>1, <1>3 DEF Shaped
    <3>2. QED
      BY <1>1, <1>2, <1>4, <1>6, <3>1, SMTT(40) DEF Shaped
  <2>3. ASSUME NEW i \in Slots, NEW j \in Slots
        PROVE  /\ InBlock(i, j) \in Q2 => InThird(i) \in Q2
               /\ InThird(i) \in Q2 /\ InBlock(i, j) \notin Q2 => d2[d2[z[ND + 1]][i]][j] = NO_ZONE
    <3>1. InBlock(i, j) \in Q2 => InThird(i) \in Q2
      BY <1>1, <1>6 DEF Shaped
    <3>2. ASSUME InThird(i) \in Q2, InBlock(i, j) \notin Q2 PROVE d2[d2[z[ND + 1]][i]][j] = NO_ZONE
      <4>1. InThird(i) \in Q /\ InBlock(i, j) \notin Q
        BY <1>6, <3>2, SMTT(40)
      <4>2. d[d[z[ND + 1]][i]][j] = NO_ZONE
        BY <1>1, <4>1 DEF Shaped
      <4>3. i = q => j \notin I
        BY <1>6, <3>2
      <4>4. CASE i = q
        BY <1>3, <4>1, <4>2, <4>3, <4>4
      <4>5. CASE i # q
        BY <1>3, <4>1, <4>2, <4>5, SMTT(40)
      <4>6. QED
        BY <4>4, <4>5
    <3>3. QED
      BY <3>1, <3>2, SMTT(40)
  <2>4. /\ z \in [0..ND + 1 -> Zones]
        /\ InZone(ND) \notin Q2 => z[ND] = NO_ZONE
        /\ InZone(ND + 1) \notin Q2 => z[ND + 1] = NO_ZONE
        /\ InZone(ND) \in Q2 => d2[z[ND]] \in Block
        /\ InZone(ND + 1) \in Q2 => d2[z[ND + 1]] \in Block
    BY <1>1, <1>2, <1>4, <1>6 DEF Shaped
  <2>5. QED
    BY <2>1, <2>2, <2>3, <2>4 DEF Shaped
<1>8. \A i : Hold(d2, z, InBlock(q, i)) = b[i]
  BY <1>2, HoldLemma
<1>9. \A p \in Q2 \ Q : \E i \in I : p = InBlock(q, i) /\ Hold(d2, z, p) = b[i]
  BY <1>6, <1>8
<1>10. \A p \in Q2 \ Q : Hold(d2, z, p) \in u2 \ u
  BY <1>9
<1>11. \A p, r \in Q2 \ Q : Hold(d2, z, p) = Hold(d2, z, r) => p = r
  BY <1>9
<1>12. \A s \in u2 \ u : \E p \in Q2 \ Q : Hold(d2, z, p) = s
  BY <1>6, <1>8
<1>13. ASSUME NEW s \in u, \A p \in Q : IsBlock(p) => Hold(d, z, p) # s PROVE d2[s] = d[s]
  BY <1>13, HoldLemma, IsBlockLemma
<1>14. u \subseteq u2 /\ u2 \subseteq Sectors
  BY <1>1
<1>15. QED
  BY <1>5, <1>6, <1>7, <1>10, <1>11, <1>12, <1>13, <1>14 DEF Grown, Q2

\* A new block, without numbers, for the second level or the third.
LEMMA FillZone ==
  ASSUME NEW u, NEW d, NEW z, NEW Q, Own(u, d, z, Q), NEW k \in {ND, ND + 1}, InZone(k) \notin Q,
         NEW s \in Sectors \ u, NEW d2, d2[s] = NoZones, \A t \in u : d2[t] = d[t]
  PROVE  Grown(u, d, z, Q, u \cup {s}, d2, [z EXCEPT ![k] = s], Q \cup {InZone(k)})
<1> DEFINE Q2 == Q \cup {InZone(k)}
           z2 == [z EXCEPT ![k] = s]
<1>1. Shaped(d, z, Q) /\ u \subseteq Sectors /\ z \in [0..ND + 1 -> Zones]
  BY DEF Own, Shaped
<1>2. /\ z2 \in [0..ND + 1 -> Zones] /\ z2[k] = s
      /\ \A i \in 0..ND + 1 : i # k => z2[i] = z[i]
  BY <1>1, IndexLemma DEF Zones
<1>3. NoZones \in Block /\ \A i \in Slots : NoZones[i] = NO_ZONE
  BY NoZonesLemma
<1>4. /\ \A i : InZone(i) \in Q2 <=> InZone(i) \in Q \/ i = k
      /\ \A i : InThird(i) \in Q2 <=> InThird(i) \in Q
      /\ \A i : InSecond(i) \in Q2 <=> InSecond(i) \in Q
      /\ \A r, i : InBlock(r, i) \in Q2 <=> InBlock(r, i) \in Q
      /\ Q \subseteq Q2 /\ Q2 \ Q = {InZone(k)}
  <2>1. \A i : InZone(i) \in Q2 <=> InZone(i) \in Q \/ i = k
    BY AddedLemma
  <2>2. \A i : InThird(i) \in Q2 <=> InThird(i) \in Q
    BY AddedLemma
  <2>3. \A i : InSecond(i) \in Q2 <=> InSecond(i) \in Q
    BY AddedLemma
  <2>4. \A r, i : InBlock(r, i) \in Q2 <=> InBlock(r, i) \in Q
    BY AddedLemma
  <2>5. Q \subseteq Q2 /\ Q2 \ Q = {InZone(k)}
    BY CellsLemma
  <2>6. QED
    BY <2>1, <2>2, <2>3, <2>4, <2>5
<1> HIDE DEF Q2, z2
<1>5. ASSUME InZone(ND) \in Q PROVE z2[ND] = z[ND] /\ d2[z[ND]] = d[z[ND]]
  <2>1. k # ND
    BY <1>5
  <2>2. QED
    BY <1>2, <1>5, <2>1, IndexLemma, BlocksLemma
<1>6. ASSUME InZone(ND + 1) \in Q PROVE z2[ND + 1] = z[ND + 1] /\ d2[z[ND + 1]] = d[z[ND + 1]]
  <2>1. k # ND + 1
    BY <1>6
  <2>2. QED
    BY <1>2, <1>6, <2>1, IndexLemma, BlocksLemma
<1>7. ASSUME NEW q \in Slots, InThird(q) \in Q
      PROVE  d2[d2[z2[ND + 1]][q]] = d[d[z[ND + 1]][q]] /\ InZone(ND + 1) \in Q
  BY <1>6, <1>7, BlocksLemma
<1>8. \A p \in Q : Hold(d2, z2, p) = Hold(d, z, p)
  <2>1. \A i \in 0..ND + 1 : InZone(i) \in Q => z2[i] = z[i]
    BY <1>2
  <2>2. \A i \in Slots : InSecond(i) \in Q => d2[z2[ND]][i] = d[z[ND]][i]
    BY <1>1, <1>5 DEF Shaped
  <2>3. \A q \in Slots : InThird(q) \in Q => d2[z2[ND + 1]][q] = d[z[ND + 1]][q]
    BY <1>6, <1>7
  <2>4. \A q, i \in Slots : InBlock(q, i) \in Q =>
           d2[d2[z2[ND + 1]][q]][i] = d[d[z[ND + 1]][q]][i]
    BY <1>1, <1>7 DEF Shaped
  <2>5. Same(d, z, Q, d2, z2)
    BY <2>1, <2>2, <2>3, <2>4 DEF Same
  <2>6. QED
    BY <1>1, <2>5, SameHold DEF Shaped
<1>9. Shaped(d2, z2, Q2)
  <2>1. Q2 \subseteq Cells
    BY <1>1, <1>4, CellsLemma, IndexLemma DEF Shaped
  <2>2. /\ InZone(ND) \notin Q2 => z2[ND] = NO_ZONE
        /\ InZone(ND + 1) \notin Q2 => z2[ND + 1] = NO_ZONE
    BY <1>1, <1>2, <1>4, IndexLemma DEF Shaped
  <2>3. ASSUME InZone(ND) \in Q2
        PROVE  /\ d2[z2[ND]] \in Block
               /\ \A i \in Slots : InSecond(i) \notin Q2 => d2[z2[ND]][i] = NO_ZONE
    <3>1. CASE k = ND
      BY <1>2, <1>3, <3>1
    <3>2. CASE k # ND
      <4>1. InZone(ND) \in Q
        BY <1>4, <2>3, <3>2
      <4>2. QED
        BY <1>1, <1>4, <1>5, <4>1 DEF Shaped
    <3>3. QED
      BY <3>1, <3>2
  <2>4. ASSUME InZone(ND + 1) \in Q2
        PROVE  /\ d2[z2[ND + 1]] \in Block
               /\ \A i \in Slots : InThird(i) \notin Q2 => d2[z2[ND + 1]][i] = NO_ZONE
    <3>1. CASE k = ND + 1
      BY <1>2, <1>3, <3>1
    <3>2. CASE k # ND + 1
      <4>1. InZone(ND + 1) \in Q
        BY <1>4, <2>4, <3>2
      <4>2. QED
        BY <1>1, <1>4, <1>6, <4>1 DEF Shaped
    <3>3. QED
      BY <3>1, <3>2
  <2>5. ASSUME NEW i \in Slots
        PROVE  /\ InSecond(i) \in Q2 => InZone(ND) \in Q2
               /\ InThird(i) \in Q2 => InZone(ND + 1) \in Q2 /\ d2[d2[z2[ND + 1]][i]] \in Block
               /\ \A j \in Slots :
                    /\ InBlock(i, j) \in Q2 => InThird(i) \in Q2
                    /\ InThird(i) \in Q2 /\ InBlock(i, j) \notin Q2 =>
                         d2[d2[z2[ND + 1]][i]][j] = NO_ZONE
    BY <1>1, <1>4, <1>7 DEF Shaped
  <2>6. QED
    BY <1>2, <2>1, <2>2, <2>3, <2>4, <2>5 DEF Shaped
<1>10. Hold(d2, z2, InZone(k)) = s
  <2>1. Hold(d2, z2, InZone(k)) = z2[k]
    BY HoldLemma
  <2>2. QED
    BY <1>2, <2>1
<1>11. /\ \A p \in Q2 \ Q : Hold(d2, z2, p) \in (u \cup {s}) \ u
       /\ \A p, r \in Q2 \ Q : Hold(d2, z2, p) = Hold(d2, z2, r) => p = r
       /\ \A t \in (u \cup {s}) \ u : \E p \in Q2 \ Q : Hold(d2, z2, p) = t
       /\ u \cup {s} \subseteq Sectors
  BY <1>1, <1>4, <1>10
<1>12. QED
  BY <1>4, <1>8, <1>9, <1>11 DEF Grown, Q2, z2

\* A new block, without numbers, that slot q of the third level names.
LEMMA FillThird ==
  ASSUME NEW u, NEW d, NEW z, NEW Q, Own(u, d, z, Q), InZone(ND + 1) \in Q,
         NEW q \in Slots, InThird(q) \notin Q,
         NEW s \in Sectors \ u, NEW d2, d2[s] = NoZones,
         d2[z[ND + 1]] = [d[z[ND + 1]] EXCEPT ![q] = s],
         \A t \in u : t # z[ND + 1] => d2[t] = d[t]
  PROVE  Grown(u, d, z, Q, u \cup {s}, d2, z, Q \cup {InThird(q)})
<1> DEFINE Q2 == Q \cup {InThird(q)}
           top == d[z[ND + 1]]
           top2 == d2[z[ND + 1]]
<1>1. Shaped(d, z, Q) /\ u \subseteq Sectors /\ z \in [0..ND + 1 -> Zones] /\ top \in Block
  BY DEF Own, Shaped
<1>2. /\ top2 \in Block /\ top2[q] = s
      /\ \A i \in Slots : i # q => top2[i] = top[i]
  BY <1>1 DEF Block, Zones
<1>3. NoZones \in Block /\ \A i \in Slots : NoZones[i] = NO_ZONE
  BY NoZonesLemma
<1>4. /\ \A i : InZone(i) \in Q2 <=> InZone(i) \in Q
      /\ \A i : InThird(i) \in Q2 <=> InThird(i) \in Q \/ i = q
      /\ \A i : InSecond(i) \in Q2 <=> InSecond(i) \in Q
      /\ \A r, i : InBlock(r, i) \in Q2 <=> InBlock(r, i) \in Q
      /\ Q \subseteq Q2 /\ Q2 \ Q = {InThird(q)}
  <2>1. \A i : InZone(i) \in Q2 <=> InZone(i) \in Q
    BY AddedLemma
  <2>2. \A i : InThird(i) \in Q2 <=> InThird(i) \in Q \/ i = q
    BY AddedLemma
  <2>3. \A i : InSecond(i) \in Q2 <=> InSecond(i) \in Q
    BY AddedLemma
  <2>4. \A r, i : InBlock(r, i) \in Q2 <=> InBlock(r, i) \in Q
    BY AddedLemma
  <2>5. Q \subseteq Q2 /\ Q2 \ Q = {InThird(q)}
    BY CellsLemma
  <2>6. QED
    BY <2>1, <2>2, <2>3, <2>4, <2>5
<1> HIDE DEF Q2
<1>5. ASSUME InZone(ND) \in Q PROVE d2[z[ND]] = d[z[ND]]
  BY <1>5, BlocksLemma
<1>6. ASSUME NEW r \in Slots, InThird(r) \in Q
      PROVE  r # q /\ top2[r] = top[r] /\ d2[top2[r]] = d[top[r]]
  <2>1. r # q /\ top2[r] = top[r]
    BY <1>2, <1>6
  <2>2. top[r] \in u /\ top[r] # z[ND + 1]
    BY <1>6, BlocksLemma
  <2>3. QED
    BY <2>1, <2>2
<1>7. \A p \in Q : Hold(d2, z, p) = Hold(d, z, p)
  <2>1. \A i \in Slots : InSecond(i) \in Q => d2[z[ND]][i] = d[z[ND]][i]
    BY <1>1, <1>5 DEF Shaped
  <2>2. \A r \in Slots : InThird(r) \in Q => top2[r] = top[r]
    BY <1>6
  <2>3. \A r, i \in Slots : InBlock(r, i) \in Q => d2[top2[r]][i] = d[top[r]][i]
    BY <1>1, <1>6 DEF Shaped
  <2>4. Same(d, z, Q, d2, z)
    BY <2>1, <2>2, <2>3, ZenonT(40) DEF Same
  <2>5. QED
    BY <1>1, <2>4, SameHold DEF Shaped
<1>8. Shaped(d2, z, Q2)
  <2>1. Q2 \subseteq Cells
    BY <1>1, <1>4, CellsLemma, IndexLemma DEF Shaped
  <2>2. /\ InZone(ND) \notin Q2 => z[ND] = NO_ZONE
        /\ InZone(ND + 1) \notin Q2 => z[ND + 1] = NO_ZONE
        /\ InZone(ND) \in Q2 => d2[z[ND]] \in Block
        /\ InZone(ND + 1) \in Q2 => d2[z[ND + 1]] \in Block
    BY <1>1, <1>2, <1>4, <1>5 DEF Shaped
  <2>3. ASSUME NEW i \in Slots
        PROVE  /\ InSecond(i) \in Q2 => InZone(ND) \in Q2
               /\ InZone(ND) \in Q2 /\ InSecond(i) \notin Q2 => d2[z[ND]][i] = NO_ZONE
               /\ InZone(ND + 1) \in Q2 /\ InThird(i) \notin Q2 => d2[z[ND + 1]][i] = NO_ZONE
    BY <1>1, <1>2, <1>4, <1>5 DEF Shaped
  <2>4. ASSUME NEW i \in Slots, InThird(i) \in Q2
        PROVE  /\ InZone(ND + 1) \in Q2 /\ d2[d2[z[ND + 1]][i]] \in Block
               /\ \A j \in Slots : InBlock(i, j) \notin Q2 => d2[d2[z[ND + 1]][i]][j] = NO_ZONE
    <3>1. CASE i = q
      BY <1>2, <1>3, <1>4, <3>1, SMTT(40)
    <3>2. CASE i # q
      <4>1. InThird(i) \in Q
        BY <1>4, <2>4, <3>2
      <4>2. QED
        BY <1>1, <1>4, <1>6, <4>1 DEF Shaped
    <3>3. QED
      BY <3>1, <3>2
  <2>5. \A i, j \in Slots : InBlock(i, j) \in Q2 => InThird(i) \in Q2
    BY <1>1, <1>4 DEF Shaped
  <2>6. QED
    BY <1>1, <2>1, <2>2, <2>3, <2>4, <2>5 DEF Shaped
<1>9. Hold(d2, z, InThird(q)) = s
  <2>1. Hold(d2, z, InThird(q)) = top2[q]
    BY DEF Hold, InThird
  <2>2. QED
    BY <1>2, <2>1
<1>10. /\ \A p \in Q2 \ Q : Hold(d2, z, p) \in (u \cup {s}) \ u
       /\ \A p, r \in Q2 \ Q : Hold(d2, z, p) = Hold(d2, z, r) => p = r
       /\ \A t \in (u \cup {s}) \ u : \E p \in Q2 \ Q : Hold(d2, z, p) = t
       /\ u \cup {s} \subseteq Sectors
  BY <1>1, <1>4, <1>9
<1>11. ASSUME NEW t \in u, \A p \in Q : IsBlock(p) => Hold(d, z, p) # t PROVE d2[t] = d[t]
  BY <1>11, HoldLemma, IsBlockLemma
<1>12. QED
  BY <1>4, <1>7, <1>8, <1>10, <1>11 DEF Grown, Q2

\* Nothing has grown.
LEMMA GrownSelf ==
  ASSUME NEW u, NEW d, NEW z, NEW Q, Own(u, d, z, Q)
  PROVE  Grown(u, d, z, Q, u, d, z, Q)
BY DEF Own, Grown

----------------------------------------------------------------------------
(* The places of a file of n sectors                                        *)

\* The sector of the file that needs the place first.
Need(p) ==
  IF p[1] = 1 THEN IF p[2] <= ND THEN p[2] ELSE S2
  ELSE IF p[1] = 2 THEN ND + p[2]
  ELSE IF p[1] = 3 THEN S2 + p[2] * Z
  ELSE S2 + p[2] * Z + p[3]

Places(n) == {p \in Cells : Need(p) < n}

\* Where the number of sector k of the file is.
Cell(k) ==
  IF k < ND THEN InZone(k)
  ELSE IF k < S2 THEN InSecond(k - ND)
  ELSE InBlock((k - S2) \div Z, (k - S2) % Z)

LEMMA NeedLemma ==
  /\ \A i \in 0..ND - 1 : Need(InZone(i)) = i
  /\ Need(InZone(ND)) = ND /\ Need(InZone(ND + 1)) = S2
  /\ \A i \in Slots : Need(InSecond(i)) = ND + i
  /\ \A q \in Slots : Need(InThird(q)) = S2 + q * Z
  /\ \A q, i \in Slots : Need(InBlock(q, i)) = S2 + q * Z + i
<1>1. /\ \A i \in 0..ND - 1 : Need(InZone(i)) = i
      /\ Need(InZone(ND)) = ND /\ Need(InZone(ND + 1)) = S2
  BY ConstantsLemma DEF Need, InZone
<1>2. \A i \in Slots : Need(InSecond(i)) = ND + i
  BY DEF Need, InSecond
<1>3. \A q \in Slots : Need(InThird(q)) = S2 + q * Z
  BY DEF Need, InThird
<1>4. \A q, i \in Slots : Need(InBlock(q, i)) = S2 + q * Z + i
  BY DEF Need, InBlock
<1>5. QED
  BY <1>1, <1>2, <1>3, <1>4

\* Sector k of the third level is slot i of block q.
LEMMA ThirdLemma ==
  /\ \A q, i \in Slots : /\ q * Z \in Nat /\ q * Z + i < Z * Z
                         /\ (q * Z + i) \div Z = q /\ (q * Z + i) % Z = i
  /\ \A k \in 0..Z * Z - 1 : /\ k \div Z \in Slots /\ k % Z \in Slots
                             /\ k = (k \div Z) * Z + (k % Z)
<1>1. Z \in Nat \ {0} /\ Slots = 0..Z - 1 /\ Z * Z \in Nat
  BY ConstantsLemma DEF Slots
<1>0. /\ \A l \in Nat : l \div Z \in Nat /\ l % Z \in 0..Z - 1 /\ l = (l \div Z) * Z + (l % Z)
      /\ \A a \in Nat, k \in 0..Z - 1 : (a * Z + k) \div Z = a /\ (a * Z + k) % Z = k
  <2> DEFINE N == Z
  <2>1. N \in Nat \ {0}
    BY <1>1
  <2> HIDE DEF N
  <2>2. /\ \A l \in Nat : l \div N \in Nat /\ l % N \in 0..N - 1 /\ l = (l \div N) * N + (l % N)
        /\ \A a \in Nat, k \in 0..N - 1 : (a * N + k) \div N = a /\ (a * N + k) % N = k
    BY <2>1, DivLemma
  <2>3. QED
    BY <2>2 DEF N
<1>2. ASSUME NEW q \in Slots, NEW i \in Slots
      PROVE  /\ q * Z \in Nat /\ q * Z + i < Z * Z
             /\ (q * Z + i) \div Z = q /\ (q * Z + i) % Z = i
  <2>1. q * Z \in Nat /\ q * Z + Z <= Z * Z
    BY <1>1, ProductLemma
  <2>2. q * Z + i < Z * Z
    BY <1>1, <2>1
  <2>3. (q * Z + i) \div Z = q /\ (q * Z + i) % Z = i
    <3>1. q \in Nat /\ i \in 0..Z - 1
      BY <1>1
    <3>2. QED
      BY <1>0, <3>1, Zenon
  <2>4. QED
    BY <2>1, <2>2, <2>3
<1>3. ASSUME NEW k \in 0..Z * Z - 1
      PROVE  /\ k \div Z \in Slots /\ k % Z \in Slots
             /\ k = (k \div Z) * Z + (k % Z)
  <2>1. k \div Z \in Nat /\ k % Z \in Slots /\ k = (k \div Z) * Z + (k % Z)
    <3>1. k \in Nat
      BY <1>1
    <3>2. QED
      BY <1>0, <1>1, <3>1, Zenon
  <2>2. k \div Z < Z
    <3>1. SUFFICES ASSUME Z <= k \div Z PROVE FALSE
      BY <1>1, <2>1
    <3>2. Z * Z <= (k \div Z) * Z
      <4>1. CASE Z = k \div Z
        BY <1>1, <4>1
      <4>2. CASE Z < k \div Z
        BY <1>1, <2>1, <4>2, ProductLemma
      <4>3. QED
        BY <1>1, <2>1, <3>1, <4>1, <4>2
    <3>3. (k \div Z) * Z \in Nat
      BY <1>1, <2>1
    <3>4. QED
      BY <1>1, <2>1, <3>2, <3>3
  <2>3. QED
    BY <1>1, <2>1, <2>2
<1>4. QED
  BY <1>2, <1>3

LEMMA CellLemma ==
  /\ \A k \in 0..NR_THIRD_LEVEL_ZONE - 1 :
       /\ Cell(k) \in Cells /\ Need(Cell(k)) = k /\ ~ IsBlock(Cell(k))
  /\ \A p \in Cells :
       /\ Need(p) \in 0..NR_THIRD_LEVEL_ZONE - 1
       /\ IsBlock(p) \/ p = Cell(Need(p))
<1>1. /\ S2 = ND + Z /\ NR_THIRD_LEVEL_ZONE = S2 + Z * Z /\ Slots = 0..Z - 1
      /\ Z \in Nat \ {0} /\ ND \in Nat \ {0} /\ S2 \in Nat /\ Z * Z \in Nat
  BY ConstantsLemma DEF Slots
<1>2. ASSUME NEW k \in 0..NR_THIRD_LEVEL_ZONE - 1
      PROVE  Cell(k) \in Cells /\ Need(Cell(k)) = k /\ ~ IsBlock(Cell(k))
  <2>1. CASE k < ND
    <3>1. Cell(k) = InZone(k) /\ k \in 0..ND - 1 /\ k \in 0..ND + 1 /\ k \notin {ND, ND + 1}
      BY <1>1, <2>1 DEF Cell
    <3>2. QED
      BY <3>1, CellsLemma, NeedLemma, IsBlockLemma
  <2>2. CASE ~ (k < ND) /\ k < S2
    <3>1. Cell(k) = InSecond(k - ND) /\ k - ND \in Slots /\ ND + (k - ND) = k
      BY <1>1, <2>2 DEF Cell
    <3>2. QED
      BY <3>1, CellsLemma, NeedLemma, IsBlockLemma
  <2>3. CASE ~ (k < S2)
    <3> DEFINE j == k - S2
    <3>1. j \in 0..Z * Z - 1 /\ k = S2 + j /\ ~ (k < ND)
      BY <1>1, <2>3
    <3>2. Cell(k) = InBlock(j \div Z, j % Z)
      BY <2>3, <3>1 DEF Cell
    <3> HIDE DEF j
    <3>3. j \div Z \in Slots /\ j % Z \in Slots /\ j = (j \div Z) * Z + (j % Z)
      BY <3>1, ThirdLemma
    <3>4. Need(Cell(k)) = S2 + (j \div Z) * Z + (j % Z)
      BY <3>2, <3>3, NeedLemma
    <3>5. (j \div Z) * Z \in Nat
      BY <3>3, ThirdLemma
    <3>6. Need(Cell(k)) = k
      BY <1>1, <3>1, <3>3, <3>4, <3>5
    <3>7. QED
      BY <3>2, <3>3, <3>6, CellsLemma, IsBlockLemma
  <2>4. QED
    BY <2>1, <2>2, <2>3
<1>3. ASSUME NEW p \in Cells
      PROVE  Need(p) \in 0..NR_THIRD_LEVEL_ZONE - 1 /\ (IsBlock(p) \/ p = Cell(Need(p)))
  <2>1. CASE \E i \in 0..ND + 1 : p = InZone(i)
    <3>1. PICK i \in 0..ND + 1 : p = InZone(i)
      BY <2>1
    <3>2. CASE i \in 0..ND - 1
      <4>1. Need(p) = i /\ Cell(i) = InZone(i)
        BY <1>1, <3>1, <3>2, NeedLemma DEF Cell
      <4>2. QED
        BY <1>1, <3>1, <3>2, <4>1
    <3>3. CASE i \notin 0..ND - 1
      <4>1. i \in {ND, ND + 1}
        BY <1>1, <3>3
      <4>2. Need(p) \in {ND, S2}
        BY <3>1, <4>1, NeedLemma
      <4>3. S2 < NR_THIRD_LEVEL_ZONE
        <5>1. 0 * Z + Z <= Z * Z
          BY <1>1, ProductLemma
        <5>2. QED
          BY <1>1, <5>1
      <4>4. QED
        BY <1>1, <3>1, <4>1, <4>2, <4>3, IsBlockLemma
    <3>4. QED
      BY <3>2, <3>3
  <2>2. CASE \E i \in Slots : p = InSecond(i)
    <3>1. PICK i \in Slots : p = InSecond(i)
      BY <2>2
    <3>2. Need(p) = ND + i
      BY <3>1, NeedLemma
    <3>3. Cell(ND + i) = InSecond(i)
      <4>1. ~ (ND + i < ND) /\ ND + i < S2 /\ (ND + i) - ND = i
        BY <1>1
      <4>2. QED
        BY <4>1 DEF Cell
    <3>4. QED
      BY <1>1, <3>1, <3>2, <3>3
  <2>3. CASE \E q \in Slots : p = InThird(q)
    <3>1. PICK q \in Slots : p = InThird(q)
      BY <2>3
    <3>2. Need(p) = S2 + q * Z /\ q * Z \in Nat /\ q * Z + 0 < Z * Z
      BY <3>1, NeedLemma, ThirdLemma, IndexLemma
    <3>3. QED
      BY <1>1, <3>1, <3>2, IsBlockLemma
  <2>4. CASE \E q \in Slots, i \in Slots : p = InBlock(q, i)
    <3>1. PICK q \in Slots, i \in Slots : p = InBlock(q, i)
      BY <2>4
    <3>2. /\ Need(p) = S2 + q * Z + i /\ q * Z \in Nat /\ q * Z + i < Z * Z
          /\ (q * Z + i) \div Z = q /\ (q * Z + i) % Z = i
      BY <3>1, NeedLemma, ThirdLemma
    <3> DEFINE j == q * Z + i
    <3>3. j \in Nat /\ Need(p) = S2 + j /\ j < Z * Z /\ p = InBlock(j \div Z, j % Z)
      BY <1>1, <3>1, <3>2
    <3> HIDE DEF j
    <3>4. ~ (S2 + j < ND) /\ ~ (S2 + j < S2) /\ (S2 + j) - S2 = j
      BY <1>1, <3>3
    <3>5. Cell(S2 + j) = p
      BY <3>3, <3>4 DEF Cell
    <3>6. QED
      BY <1>1, <3>3, <3>5
  <2>5. QED
    BY <2>1, <2>2, <2>3, <2>4, CellsLemma
<1>4. QED
  BY <1>2, <1>3

\* What a file of one more sector has more.
LEMMA MorePlaces ==
  ASSUME NEW n \in Nat
  PROVE  /\ Places(n) \subseteq Cells /\ Places(n) \subseteq Places(n + 1)
         /\ \A p \in Places(n + 1) : p \in Places(n) \/ Need(p) = n
         /\ n \in ND..S2 - 1 =>
              Places(n + 1) = Places(n) \cup {InZone(ND)} \cup {InSecond(n - ND)}
         /\ n \in S2..NR_THIRD_LEVEL_ZONE - 1 =>
              /\ (n - S2) \div Z \in Slots /\ (n - S2) % Z \in Slots
              /\ Places(n + 1) = Places(n) \cup {InZone(ND + 1)} \cup {InThird((n - S2) \div Z)}
                                   \cup {InBlock((n - S2) \div Z, (n - S2) % Z)}
<1>1. /\ S2 = ND + Z /\ NR_THIRD_LEVEL_ZONE = S2 + Z * Z /\ Slots = 0..Z - 1
      /\ Z \in Nat \ {0} /\ ND \in Nat \ {0} /\ S2 \in Nat /\ Z * Z \in Nat
  BY ConstantsLemma DEF Slots
<1>2. \A p \in Cells : Need(p) \in Nat
  BY CellLemma
<1>3. \A p \in Cells : Need(p) < n + 1 <=> (Need(p) < n \/ Need(p) = n)
  BY <1>2
<1>4. Places(n) \subseteq Cells /\ Places(n) \subseteq Places(n + 1)
      /\ \A p \in Places(n + 1) : p \in Places(n) \/ Need(p) = n
  BY <1>3 DEF Places
<1>5. \A p \in Cells : Need(p) = n => p \in Places(n + 1)
  BY <1>3 DEF Places
<1>6. ASSUME n \in ND..S2 - 1
      PROVE  Places(n + 1) = Places(n) \cup {InZone(ND)} \cup {InSecond(n - ND)}
  <2>1. n - ND \in Slots /\ ND + (n - ND) = n
    BY <1>1, <1>6
  <2>2. InSecond(n - ND) \in Places(n + 1)
    BY <1>5, <2>1, CellsLemma, NeedLemma
  <2>3. InZone(ND) \in Places(n + 1)
    <3>1. InZone(ND) \in Cells /\ Need(InZone(ND)) = ND /\ ND < n + 1
      BY <1>1, <1>6, CellsLemma, NeedLemma, IndexLemma
    <3>2. QED
      BY <3>1 DEF Places
  <2>4. ASSUME NEW p \in Cells, Need(p) = n PROVE p = InZone(ND) \/ p = InSecond(n - ND)
    <3>1. CASE IsBlock(p)
      <4>1. CASE p = InZone(ND + 1)
        BY <1>1, <1>6, <2>4, <4>1, NeedLemma
      <4>2. CASE p[1] = 3
        <5>1. PICK q \in Slots : p = InThird(q)
          BY <4>2, CellsLemma DEF InZone, InSecond, InBlock
        <5>2. Need(p) = S2 + q * Z /\ q * Z \in Nat
          BY <5>1, NeedLemma, ThirdLemma, IndexLemma
        <5>3. QED
          BY <1>1, <1>6, <2>4, <5>2
      <4>3. QED
        BY <3>1, <4>1, <4>2 DEF IsBlock
    <3>2. CASE ~ IsBlock(p)
      <4>1. p = Cell(n)
        BY <2>4, <3>2, CellLemma
      <4>2. QED
        BY <1>1, <1>6, <4>1 DEF Cell
    <3>3. QED
      BY <3>1, <3>2
  <2>5. \A p \in Places(n + 1) : p \in Cells
    BY DEF Places
  <2>6. QED
    BY <1>4, <2>2, <2>3, <2>4, <2>5
<1>7. ASSUME n \in S2..NR_THIRD_LEVEL_ZONE - 1
      PROVE  /\ (n - S2) \div Z \in Slots /\ (n - S2) % Z \in Slots
             /\ Places(n + 1) = Places(n) \cup {InZone(ND + 1)} \cup {InThird((n - S2) \div Z)}
                                   \cup {InBlock((n - S2) \div Z, (n - S2) % Z)}
  <2> DEFINE q == (n - S2) \div Z
             i == (n - S2) % Z
  <2>1. q \in Slots /\ i \in Slots /\ n - S2 = q * Z + i /\ q * Z \in Nat
    <3>1. n - S2 \in 0..Z * Z - 1
      BY <1>1, <1>7
    <3>2. QED
      BY <3>1, ThirdLemma
  <2>2. ~ (n < ND) /\ ~ (n < S2)
    BY <1>1, <1>7
  <2>3. Cell(n) = InBlock(q, i)
    BY <2>2 DEF Cell
  <2> HIDE DEF q, i
  <2>4. /\ InBlock(q, i) \in Cells /\ Need(InBlock(q, i)) < n + 1
        /\ InThird(q) \in Cells /\ Need(InThird(q)) < n + 1
        /\ InZone(ND + 1) \in Cells /\ Need(InZone(ND + 1)) < n + 1
    <3>1. InBlock(q, i) \in Cells /\ InThird(q) \in Cells /\ InZone(ND + 1) \in Cells
      BY <2>1, CellsLemma, IndexLemma
    <3>2. /\ Need(InBlock(q, i)) = S2 + q * Z + i /\ Need(InThird(q)) = S2 + q * Z
          /\ Need(InZone(ND + 1)) = S2
      BY <2>1, NeedLemma
    <3>3. QED
      BY <1>1, <2>1, <3>1, <3>2
  <2>5. ASSUME NEW p \in Cells, Need(p) = n
        PROVE  p = InZone(ND + 1) \/ p = InThird(q) \/ p = InBlock(q, i)
    <3>1. CASE IsBlock(p)
      <4>1. CASE p = InZone(ND)
        BY <1>1, <1>7, <2>5, <4>1, NeedLemma
      <4>2. CASE p[1] = 3
        <5>1. PICK r \in Slots : p = InThird(r)
          BY <4>2, CellsLemma DEF InZone, InSecond, InBlock
        <5>2. Need(p) = S2 + r * Z /\ r * Z \in Nat /\ (r * Z + 0) \div Z = r
          BY <5>1, NeedLemma, ThirdLemma, IndexLemma
        <5>3. r * Z + 0 = q * Z + i /\ (q * Z + i) \div Z = q
          <6>1. (q * Z + i) \div Z = q
            BY <2>1, ThirdLemma
          <6>2. QED
            BY <1>1, <2>1, <2>5, <5>2, <6>1
        <5>4. QED
          BY <5>1, <5>2, <5>3
      <4>3. QED
        BY <3>1, <4>1, <4>2 DEF IsBlock
    <3>2. CASE ~ IsBlock(p)
      BY <2>3, <2>5, <3>2, CellLemma
    <3>3. QED
      BY <3>1, <3>2
  <2>6. Places(n + 1) = Places(n) \cup {InZone(ND + 1)} \cup {InThird(q)} \cup {InBlock(q, i)}
    <3>1. \A p \in {InZone(ND + 1), InThird(q), InBlock(q, i)} : p \in Places(n + 1)
      BY <2>4 DEF Places
    <3>2. \A p \in Places(n + 1) : p \in Cells
      BY DEF Places
    <3>3. QED
      BY <1>4, <2>5, <3>1, <3>2
  <2>7. QED
    BY <2>1, <2>6 DEF q, i
<1>8. QED
  BY <1>4, <1>6, <1>7

----------------------------------------------------------------------------
(* Allocation                                                              *)

Bytes == {Other} \cup {Byte(f, p) : f \in Files, p \in Nat}
Contents == Block \cup [0..SECTOR_SIZE - 1 -> Bytes]
Mem == [smap : SUBSET Sectors, disk : [Zones -> Contents], zone : [0..ND + 1 -> Zones],
        sect : Zones, blk : Block, top : Block, next : Nat, ok : BOOLEAN]

\* The disk once the block at hand is written to the sector in zone k.
Put(m, k) == [m.disk EXCEPT ![m.zone[k]] = m.blk]

LEMMA AllocSectLemma ==
  ASSUME NEW m \in Mem, NEW a, a = AllocSect(m)
  PROVE  /\ a \in Mem
         /\ a.disk = m.disk /\ a.zone = m.zone /\ a.blk = m.blk /\ a.top = m.top
         /\ a.next = m.next /\ (a.ok => m.ok)
         /\ a.sect \in Sectors \/ a.sect = m.sect
         /\ a.ok => a.sect \in Sectors \ m.smap /\ a.smap = m.smap \cup {a.sect}
<1>1. CASE Free(m) = {}
  <2>1. a = [m EXCEPT !.ok = FALSE]
    BY <1>1 DEF AllocSect
  <2>2. QED
    BY <2>1 DEF Mem
<1>2. CASE Free(m) # {}
  <2> DEFINE s == Min(Free(m))
  <2>1. s \in Sectors \ m.smap
    <3>1. Free(m) \in SUBSET Nat
      BY ConstantsLemma DEF Free
    <3>2. s \in Free(m)
      BY <1>2, <3>1, LeastLemma
    <3>3. QED
      BY <3>2 DEF Free
  <2>2. a = [m EXCEPT !.sect = s, !.smap = @ \cup {s}]
    BY <1>2 DEF AllocSect
  <2> HIDE DEF s
  <2>3. /\ a.sect = s /\ a.smap = m.smap \cup {s} /\ a \in Mem
        /\ a.disk = m.disk /\ a.zone = m.zone /\ a.blk = m.blk /\ a.top = m.top
        /\ a.next = m.next /\ a.ok = m.ok
    <3>1. s \in Zones /\ m.smap \cup {s} \in SUBSET Sectors /\ m \in Mem
      BY <2>1 DEF Mem, Zones
    <3>2. a \in Mem
      BY <2>2, <3>1 DEF Mem
    <3>3. QED
      BY <2>2, <3>1 DEF Mem
  <2>4. QED
    BY <2>1, <2>3
<1>3. QED
  BY <1>1, <1>2

Filled(m, i, n) ==
  /\ n \in Mem /\ (n.ok => m.ok)
  /\ n.disk = m.disk /\ n.zone = m.zone /\ n.top = m.top /\ n.next = m.next
  /\ m.blk[i] # NO_ZONE => n = m
  /\ m.blk[i] = NO_ZONE /\ n.ok =>
       /\ n.sect \in Sectors \ m.smap /\ n.smap = m.smap \cup {n.sect}
       /\ n.blk = [m.blk EXCEPT ![i] = n.sect]

LEMMA FillSlotLemma ==
  ASSUME NEW m \in Mem, NEW i \in Slots, NEW n, n = FillSlot(m, i)
  PROVE  Filled(m, i, n)
<1> USE DEF Filled
<1>1. CASE m.blk[i] # NO_ZONE
  BY <1>1 DEF FillSlot
<1>2. CASE m.blk[i] = NO_ZONE
  <2> DEFINE a == AllocSect(m)
  <2>1. n = [a EXCEPT !.blk[i] = a.sect]
    BY <1>2 DEF FillSlot
  <2>2. /\ a \in Mem
        /\ a.disk = m.disk /\ a.zone = m.zone /\ a.blk = m.blk /\ a.top = m.top
        /\ a.next = m.next /\ (a.ok => m.ok)
        /\ a.ok => a.sect \in Sectors \ m.smap /\ a.smap = m.smap \cup {a.sect}
    BY AllocSectLemma
  <2> HIDE DEF a
  <2>3. /\ n.sect = a.sect /\ n.smap = a.smap /\ n.ok = a.ok /\ n.disk = a.disk /\ n.zone = a.zone
        /\ n.top = a.top /\ n.next = a.next /\ n.blk = [a.blk EXCEPT ![i] = a.sect]
    BY <2>1, <2>2 DEF Mem
  <2>4. n \in Mem
    BY <2>1, <2>2 DEF Mem, Block
  <2>5. QED
    BY <1>2, <2>2, <2>3, <2>4
<1>3. QED
  BY <1>1, <1>2

\* One more slot of the block at hand, when that is the one of the second level.
LEMMA SecondSlot ==
  ASSUME NEW m \in Mem, NEW Q, Own(m.smap, Put(m, ND), m.zone, Q), InZone(ND) \in Q,
         NEW i \in Slots, NEW n, n = FillSlot(m, i), n.ok
  PROVE  Grown(m.smap, Put(m, ND), m.zone, Q, n.smap, Put(n, ND), n.zone, Q \cup {InSecond(i)})
<1>1. /\ n.zone = m.zone /\ n.disk = m.disk
      /\ m.blk[i] # NO_ZONE => n = m
      /\ m.blk[i] = NO_ZONE =>
              /\ n.sect \in Sectors \ m.smap /\ n.smap = m.smap \cup {n.sect}
              /\ n.blk = [m.blk EXCEPT ![i] = n.sect]
  BY FillSlotLemma DEF Filled
<1>2. m.blk \in Block /\ m.zone \in [0..ND + 1 -> Zones] /\ m.disk \in [Zones -> Contents]
  BY DEF Mem
<1>3. m.zone[ND] \in Zones
  BY <1>2, IndexLemma
<1> DEFINE t == m.zone[ND]
           d == Put(m, ND)
           d2 == Put(n, ND)
<1>4. /\ d[t] = m.blk /\ d2[t] = n.blk
      /\ \A x \in Zones : x # t => d[x] = m.disk[x] /\ d2[x] = m.disk[x]
  BY <1>1, <1>2, <1>3 DEF Put
<1>5. m.smap \subseteq Zones
  BY DEF Mem, Zones
<1>6. CASE InSecond(i) \in Q
  <2>1. Hold(d, m.zone, InSecond(i)) = m.blk[i]
    BY <1>4 DEF Hold, InSecond
  <2>2. m.blk[i] \in Sectors
    BY <1>6, <2>1 DEF Own
  <2>3. n = m
    BY <1>1, <2>2, ConstantsLemma
  <2>4. Q \cup {InSecond(i)} = Q
    BY <1>6
  <2>5. QED
    BY <2>3, <2>4, GrownSelf
<1>7. CASE InSecond(i) \notin Q
  <2>1. m.blk[i] = NO_ZONE
    BY <1>4, <1>7 DEF Own, Shaped
  <2>2. /\ n.sect \in Sectors \ m.smap /\ n.smap = m.smap \cup {n.sect}
        /\ n.blk = [m.blk EXCEPT ![i] = n.sect]
    BY <1>1, <2>1
  <2>3. n.blk \in Block /\ n.blk[i] = n.sect /\ \A j \in Slots \ {i} : n.blk[j] = m.blk[j]
    BY <1>2, <2>2 DEF Block, Zones
  <2> HIDE DEF d, d2
  <2> DEFINE b == n.blk
             u == m.smap
             u2 == n.smap
             z == m.zone
             I == {i}
  <2>4. /\ \A j \in I : InSecond(j) \notin Q
        /\ b \in Block /\ d2[z[ND]] = b
        /\ \A x \in u : x # z[ND] => d2[x] = d[x]
        /\ \A j \in Slots \ I : b[j] = d[z[ND]][j]
        /\ \A j \in I : b[j] \in Sectors \ u
        /\ \A j, k \in I : b[j] = b[k] => j = k
        /\ u2 = u \cup {b[j] : j \in I}
        /\ I \in SUBSET Slots /\ InZone(ND) \in Q /\ Own(u, d, z, Q)
    BY <1>4, <1>5, <1>7, <2>2, <2>3 DEF d
  <2> HIDE DEF b, u, u2, z, I
  <2>5. Grown(u, d, z, Q, u2, d2, z, Q \cup {InSecond(j) : j \in I})
    BY <2>4, FillSecond
  <2>6. Q \cup {InSecond(j) : j \in I} = Q \cup {InSecond(i)}
    BY DEF I
  <2>7. QED
    BY <1>1, <2>5, <2>6 DEF d, d2, u, u2, z
<1>8. QED
  BY <1>6, <1>7

\* The block of the second level or of the third is at hand.
LEMMA ZoneBlockLemma ==
  ASSUME NEW m \in Mem, NEW Q, Own(m.smap, m.disk, m.zone, Q), NEW k \in {ND, ND + 1},
         NEW n, n = ZoneBlock(m, k)
  PROVE  /\ n \in Mem /\ (n.ok => m.ok) /\ n.disk = m.disk
         /\ n.ok => Grown(m.smap, m.disk, m.zone, Q, n.smap, Put(n, k), n.zone, Q \cup {InZone(k)})
<1>1. k \in 0..ND + 1 /\ m.zone[k] \in Zones /\ m.zone \in [0..ND + 1 -> Zones]
      /\ m.disk \in [Zones -> Contents] /\ m.smap \subseteq Sectors
  BY IndexLemma DEF Mem
<1>2. CASE InZone(k) \in Q
  <2>1. Hold(m.disk, m.zone, InZone(k)) = m.zone[k]
    BY DEF Hold, InZone
  <2>2. m.zone[k] \in Sectors
    BY <1>2, <2>1 DEF Own
  <2>3. n = [m EXCEPT !.blk = m.disk[m.zone[k]]]
    BY <2>2, ConstantsLemma DEF ZoneBlock
  <2>4. m.disk[m.zone[k]] \in Block
    BY <1>2 DEF Own, Shaped
  <2>5. n \in Mem /\ n.ok = m.ok /\ n.disk = m.disk /\ n.zone = m.zone /\ n.smap = m.smap
        /\ n.blk = m.disk[m.zone[k]]
    BY <2>3, <2>4 DEF Mem
  <2>6. Put(n, k) = m.disk
    BY <1>1, <2>5 DEF Put
  <2>7. Q \cup {InZone(k)} = Q
    BY <1>2
  <2>8. QED
    BY <2>5, <2>6, <2>7, GrownSelf, SMTT(40)
<1>3. CASE InZone(k) \notin Q
  <2> DEFINE a == AllocSect(m)
  <2>1. m.zone[k] = NO_ZONE
    BY <1>3 DEF Own, Shaped
  <2>2. n = [a EXCEPT !.zone[k] = a.sect, !.blk = NoZones]
    BY <2>1 DEF ZoneBlock
  <2>3. /\ a \in Mem
        /\ a.disk = m.disk /\ a.zone = m.zone /\ (a.ok => m.ok)
        /\ a.ok => a.sect \in Sectors \ m.smap /\ a.smap = m.smap \cup {a.sect}
    BY AllocSectLemma
  <2> HIDE DEF a
  <2>4. NoZones \in Block
    BY NoZonesLemma
  <2>5. /\ n.ok = a.ok /\ n.disk = m.disk /\ n.smap = a.smap
        /\ n.zone = [m.zone EXCEPT ![k] = a.sect] /\ n.blk = NoZones
    BY <2>2, <2>3 DEF Mem
  <2>6. n \in Mem
    <3>1. a.sect \in Zones /\ a.zone \in [0..ND + 1 -> Zones]
      BY <2>3 DEF Mem
    <3>2. [a.zone EXCEPT ![k] = a.sect] \in [0..ND + 1 -> Zones]
      BY <3>1
    <3> DEFINE v == [a.zone EXCEPT ![k] = a.sect]
    <3>3. n = [a EXCEPT !.zone = v, !.blk = NoZones] /\ v \in [0..ND + 1 -> Zones]
      BY <2>2, <2>3, <3>2 DEF Mem
    <3> HIDE DEF v
    <3>4. QED
      BY <2>3, <2>4, <3>3 DEF Mem
  <2>7. ASSUME n.ok
        PROVE  Grown(m.smap, m.disk, m.zone, Q, n.smap, Put(n, k), n.zone, Q \cup {InZone(k)})
    <3> DEFINE s == a.sect
    <3>1. s \in Sectors \ m.smap /\ n.smap = m.smap \cup {s} /\ n.zone[k] = s
      BY <1>1, <2>3, <2>5, <2>7
    <3>2. Put(n, k)[s] = NoZones /\ \A t \in m.smap : Put(n, k)[t] = m.disk[t]
      BY <1>1, <2>5, <3>1 DEF Put, Zones
    <3> HIDE DEF s
    <3>3. Grown(m.smap, m.disk, m.zone, Q, m.smap \cup {s}, Put(n, k), [m.zone EXCEPT ![k] = s],
                Q \cup {InZone(k)})
      BY <1>3, <3>1, <3>2, FillZone
    <3>4. QED
      BY <2>5, <3>1, <3>3 DEF s
  <2>8. QED
    BY <2>3, <2>5, <2>6, <2>7
<1>4. QED
  BY <1>2, <1>3

----------------------------------------------------------------------------
(* Loops                                                                   *)

\* There is a function of the rounds of a loop.
Runs(f, n, D, x0, g) ==
  f \in [0..n -> D] /\ f[0] = x0 /\ \A i \in 1..n : f[i] = g[<<i, f[i - 1]>>]

LEMMA LoopExists ==
  ASSUME NEW n \in Nat, NEW D, NEW x0 \in D, NEW g \in [(1..n) \X D -> D]
  PROVE  \E f : Runs(f, n, D, x0, g)
<1> USE DEF Runs
<1> DEFINE Is(f, k) == f \in [0..k -> D] /\ f[0] = x0 /\ \A i \in 1..k : f[i] = g[<<i, f[i - 1]>>]
           bad == {k \in 0..n : ~ \E f : Is(f, k)}
<1>1. SUFFICES ASSUME bad # {} PROVE FALSE
  <2>1. bad = {} => \E f : Is(f, n)
    <3> HIDE DEF Is
    <3>1. QED
      OBVIOUS
  <2>2. QED
    BY <1>1, <2>1
<1>2. PICK k \in bad : \A y \in bad : k <= y
  <2>1. bad \in SUBSET Nat
    OBVIOUS
  <2> HIDE DEF bad
  <2>2. QED
    BY <1>1, <2>1, LeastLemma
<1>3. k # 0
  <2>1. SUFFICES ASSUME k = 0 PROVE \E f : Is(f, 0)
    BY <1>2
  <2>2. Is([i \in 0..0 |-> x0], 0)
    OBVIOUS
  <2> HIDE DEF Is
  <2>3. QED
    BY <2>2
<1>4. k \in 1..n /\ k - 1 \in 0..n /\ k - 1 \notin bad
  BY <1>2, <1>3
<1>5. PICK f : Is(f, k - 1)
  <2> HIDE DEF Is
  <2>1. QED
    BY <1>4
<1> DEFINE y == g[<<k, f[k - 1]>>]
           h == [i \in 0..k |-> IF i = k THEN y ELSE f[i]]
<1>6. y \in D
  <2>1. f[k - 1] \in D
    BY <1>4, <1>5
  <2>2. QED
    BY <1>4, <2>1
<1>7. Is(h, k)
  <2>1. h \in [0..k -> D]
    BY <1>4, <1>5, <1>6
  <2>2. h[0] = x0
    BY <1>4, <1>5
  <2>3. ASSUME NEW i \in 1..k PROVE h[i] = g[<<i, h[i - 1]>>]
    <3>1. CASE i = k
      <4>1. h[k] = y /\ h[k - 1] = f[k - 1]
        BY <1>4
      <4>2. QED
        BY <3>1, <4>1
    <3>2. CASE i # k
      <4>1. i \in 1..k - 1 /\ i \in 0..k /\ i - 1 \in 0..k /\ i - 1 # k
        BY <1>4, <3>2
      <4>2. h[i] = f[i] /\ h[i - 1] = f[i - 1] /\ f[i] = g[<<i, f[i - 1]>>]
        BY <1>5, <3>2, <4>1
      <4>3. QED
        BY <4>2
    <3>3. QED
      BY <3>1, <3>2
  <2>4. QED
    BY <2>1, <2>2, <2>3
<1>8. QED
  <2> HIDE DEF Is, h
  <2>1. \E e : Is(e, k)
    BY <1>7
  <2>2. QED
    BY <1>2, <2>1

LEMMA LoopInduction ==
  ASSUME NEW n \in Nat, NEW M, NEW f, f[0] \in M[0],
         \A i \in 1..n : f[i - 1] \in M[i - 1] => f[i] \in M[i]
  PROVE  \A i \in 0..n : f[i] \in M[i]
<1> DEFINE bad == {i \in 0..n : f[i] \notin M[i]}
<1>1. SUFFICES ASSUME bad # {} PROVE FALSE
  OBVIOUS
<1>2. PICK i \in bad : \A y \in bad : i <= y
  <2>1. bad \in SUBSET Nat
    OBVIOUS
  <2> HIDE DEF bad
  <2>2. QED
    BY <1>1, <2>1, LeastLemma
<1>3. i \in 1..n /\ i - 1 \in 0..n /\ i - 1 \notin bad
  BY <1>2
<1>4. QED
  BY <1>2, <1>3

----------------------------------------------------------------------------
(* The blocks of the second level and of the third                            *)

LEMMA AllocSecondLemma ==
  ASSUME NEW m \in Mem, NEW n \in ND..S2 - 1, NEW e \in n + 1..S2,
         Own(m.smap, m.disk, m.zone, Places(n)), NEW r, r = AllocSecond(m, n - ND, e - ND)
  PROVE  /\ r \in Mem
         /\ r.ok => m.ok /\ Grown(m.smap, m.disk, m.zone, Places(n), r.smap, r.disk, r.zone, Places(e))
<1> DEFINE first == n - ND
           last == e - ND
           L == last - first
           x0 == ZoneBlock(m, ND)
           Step(x, k) == FillSlot(x, first + k - 1)
           g == [t \in (1..L) \X Mem |-> Step(t[2], t[1])]
           G(x) == Grown(m.smap, m.disk, m.zone, Places(n), x.smap, Put(x, ND), x.zone,
                         Places(n) \cup {InZone(ND)})
           K(x, k) == x.ok => m.ok /\ Grown(m.smap, m.disk, m.zone, Places(n), x.smap, Put(x, ND),
                                            x.zone, Places(n + k) \cup {InZone(ND)})
           M == [k \in 0..L |-> {x \in Mem : K(x, k)}]
           F(h) == [k \in 0..L |-> IF k = 0 THEN x0 ELSE Step(h[k - 1], k)]
           at == CHOOSE h : h = F(h)
<1>1. /\ S2 = ND + Z /\ Slots = 0..Z - 1 /\ Z \in Nat \ {0} /\ ND \in Nat \ {0} /\ S2 \in Nat
      /\ n \in Nat /\ e \in Nat /\ L = e - n /\ L \in Nat \ {0} /\ SECOND_LEVEL_ZONE = ND
      /\ \A k \in 1..L : first + k - 1 \in Slots /\ n + (k - 1) \in ND..S2 - 1
                         /\ n + (k - 1) \in Nat
                         /\ n + (k - 1) + 1 = n + k /\ first + k - 1 = n + (k - 1) - ND
  BY ConstantsLemma DEF Slots
<1>2. r = [at[L] EXCEPT !.disk[(at[L]).zone[ND]] = (at[L]).blk]
  BY <1>1 DEF AllocSecond, SECOND_LEVEL_ZONE, ND
<1>3. x0 \in Mem /\ (x0.ok => m.ok /\ G(x0))
  <2> HIDE DEF x0
  <2>1. x0 = ZoneBlock(m, ND)
    BY DEF x0
  <2>2. QED
    BY <2>1, ZoneBlockLemma
<1>4. g \in [(1..L) \X Mem -> Mem]
  <2>1. \A x \in Mem, k \in 1..L : Step(x, k) \in Mem
    BY <1>1, FillSlotLemma DEF Filled
  <2> HIDE DEF Step
  <2>2. QED
    BY <2>1
<1> HIDE DEF L, x0, g
<1>5. PICK f : Runs(f, L, Mem, x0, g)
  BY <1>1, <1>3, <1>4, LoopExists
<1>6. \A i \in 1..L : f[i] = Step(f[i - 1], i) /\ f[i - 1] \in Mem
  <2>1. \A i \in 1..L : i - 1 \in 0..L
    BY <1>1
  <2>2. QED
    BY <1>5, <2>1 DEF g, Runs
<1> HIDE DEF Step
<1>7. f = F(f)
  <2>1. \A k \in 0..L : f[k] = IF k = 0 THEN x0 ELSE Step(f[k - 1], k)
    <3>1. \A k \in 0..L : k # 0 => k \in 1..L
      BY <1>1
    <3>2. QED
      BY <1>5, <1>6, <3>1 DEF Runs
  <2>2. f = [k \in 0..L |-> f[k]]
    BY <1>5 DEF Runs
  <2> HIDE DEF Step
  <2>3. QED
    BY <2>1, <2>2, Zenon
<1>8. at = F(at)
  BY <1>7
<1> HIDE DEF at
<1>9. at[0] = x0 /\ \A i \in 1..L : at[i] = Step(at[i - 1], i)
  BY <1>1, <1>8
<1>10. at[0] \in M[0]
  <2>1. Places(n + 0) = Places(n)
    BY <1>1
  <2>2. QED
    BY <1>1, <1>3, <1>9, <2>1
<1>11. ASSUME NEW i \in 1..L, at[i - 1] \in M[i - 1] PROVE at[i] \in M[i]
  <2> DEFINE x == at[i - 1]
             y == at[i]
             j == n + (i - 1)
             Q == Places(j) \cup {InZone(ND)}
             s == j - ND
  <2>0. i - 1 \in 0..L /\ i \in 0..L
    BY <1>1
  <2>1. x \in Mem /\ K(x, i - 1) /\ s \in Slots /\ y = FillSlot(x, s)
    <3>1. x \in Mem /\ K(x, i - 1)
      BY <1>11, <2>0
    <3>2. s \in Slots /\ first + i - 1 = s
      BY <1>1
    <3>3. y = FillSlot(x, first + i - 1)
      BY <1>9 DEF Step
    <3>4. QED
      BY <3>1, <3>2, <3>3
  <2> HIDE DEF x, y, K
  <2>2. y \in Mem /\ (y.ok => x.ok)
    <3> HIDE DEF s
    <3>1. QED
      BY <2>1, FillSlotLemma DEF Filled
  <2>3. Q \cup {InSecond(s)} = Places(n + i) \cup {InZone(ND)}
    <3>1. j \in Nat /\ j \in ND..S2 - 1 /\ j + 1 = n + i
      BY <1>1
    <3> HIDE DEF j
    <3>2. Places(j + 1) = Places(j) \cup {InZone(ND)} \cup {InSecond(j - ND)}
      BY <3>1, MorePlaces
    <3>3. QED
      BY <3>1, <3>2
  <2> USE DEF K
  <2> HIDE DEF Q, s, j
  <2>4. ASSUME y.ok PROVE K(y, i)
    <3>1. m.ok /\ Grown(m.smap, m.disk, m.zone, Places(n), x.smap, Put(x, ND), x.zone, Q)
      BY <2>1, <2>2, <2>4 DEF Q, j
    <3>2. Own(x.smap, Put(x, ND), x.zone, Q)
      BY <3>1, GrownOwn
    <3>3. Grown(x.smap, Put(x, ND), x.zone, Q, y.smap, Put(y, ND), y.zone, Q \cup {InSecond(s)})
      <4>1. InZone(ND) \in Q
        BY DEF Q
      <4>2. QED
        BY <2>1, <2>4, <3>2, <4>1, SecondSlot
    <3>4. Grown(m.smap, m.disk, m.zone, Places(n), y.smap, Put(y, ND), y.zone, Q \cup {InSecond(s)})
      BY <3>1, <3>3, GrownTwice
    <3>5. QED
      BY <2>3, <3>1, <3>4
  <2>5. y \in M[i]
    <3>1. QED
      BY <2>0, <2>2, <2>4
  <2>6. QED
    BY <2>5 DEF y
<1>12. at[L] \in M[L]
  <2> HIDE DEF M, K
  <2>1. \A i \in 0..L : at[i] \in M[i]
    BY <1>1, <1>10, <1>11, LoopInduction
  <2>2. L \in 0..L
    BY <1>1
  <2>3. QED
    BY <2>1, <2>2, Zenon
<1> DEFINE l == at[L]
<1>13. l \in Mem /\ K(l, L)
  BY <1>1, <1>12
<1>14. r = [l EXCEPT !.disk[l.zone[ND]] = l.blk]
  BY <1>2
<1> HIDE DEF l
<1>15. r \in Mem /\ r.disk = Put(l, ND) /\ r.smap = l.smap /\ r.zone = l.zone /\ r.ok = l.ok
  BY <1>13, <1>14 DEF Mem, Put, Contents
<1>16. Places(n + L) \cup {InZone(ND)} = Places(e)
  <2>1. e - 1 \in ND..S2 - 1 /\ e - 1 \in Nat /\ (e - 1) + 1 = e /\ n + L = e
    BY <1>1
  <2>2. InZone(ND) \in Places((e - 1) + 1)
    BY <2>1, MorePlaces
  <2>3. QED
    BY <2>1, <2>2
<1>17. QED
  BY <1>13, <1>15, <1>16

\* The disk once the block of blocks is written.
PutTop(m) == [m.disk EXCEPT ![m.zone[ND + 1]] = m.top]

\* A block with another number in slot i.
LEMMA SlotSet ==
  \A b \in Block, i \in Slots, s \in Zones :
    /\ [b EXCEPT ![i] = s] \in Block /\ [b EXCEPT ![i] = s][i] = s
    /\ \A j \in Slots \ {i} : [b EXCEPT ![i] = s][j] = b[j]
BY DEF Block

\* One more slot of the block at hand, when that is block q of the third level.
Enters(x, d, Q, q, t, i, n, d2) ==
  /\ Own(x.smap, d, x.zone, Q) /\ InThird(q) \in Q
  /\ t = d[x.zone[ND + 1]][q] /\ x.blk = d[t]
  /\ n = FillSlot(x, i) /\ n.ok /\ d2 = [d EXCEPT ![t] = n.blk]

LEMMA BlockSlot ==
  ASSUME NEW x \in Mem, NEW d \in [Zones -> Contents], NEW Q, NEW q \in Slots, NEW t,
         NEW i \in Slots, NEW n, NEW d2, Enters(x, d, Q, q, t, i, n, d2)
  PROVE  Grown(x.smap, d, x.zone, Q, n.smap, d2, x.zone, Q \cup {InBlock(q, i)})
<1>0. Own(x.smap, d, x.zone, Q) /\ InThird(q) \in Q
  BY Zenon DEF Enters
<1>8. t = d[x.zone[ND + 1]][q] /\ x.blk = d[t]
  BY Zenon DEF Enters
<1>9. n = FillSlot(x, i) /\ n.ok
  BY Zenon DEF Enters
<1>10. d2 = [d EXCEPT ![t] = n.blk]
  BY Zenon DEF Enters
<1>1. /\ x.blk[i] # NO_ZONE => n = x
      /\ x.blk[i] = NO_ZONE =>
              /\ n.sect \in Sectors \ x.smap /\ n.smap = x.smap \cup {n.sect}
              /\ n.blk = [x.blk EXCEPT ![i] = n.sect]
  <2>1. Filled(x, i, n)
    BY <1>9, FillSlotLemma, Zenon
  <2>2. QED
    BY <1>9, <2>1 DEF Filled
<1>2. x.blk \in Block /\ x.smap \subseteq Sectors
  BY DEF Mem
<1>3. t \in x.smap
  BY <1>0, <1>8, BlocksLemma
<1>4. d2[t] = n.blk /\ \A s \in x.smap : s # t => d2[s] = d[s]
  BY <1>2, <1>3, <1>10 DEF Zones
<1>5. CASE InBlock(q, i) \in Q
  <2>1. Hold(d, x.zone, InBlock(q, i)) = x.blk[i]
    BY <1>8 DEF Hold, InBlock
  <2>2. x.blk[i] \in Sectors
    BY <1>0, <1>5, <2>1 DEF Own
  <2>3. n = x
    BY <1>1, <2>2, ConstantsLemma
  <2>4. Q \cup {InBlock(q, i)} = Q
    BY <1>5, ZenonT(40)
  <2>5. d2 = d
    BY <1>8, <1>10, <2>3
  <2>6. QED
    BY <1>0, <2>3, <2>4, <2>5, GrownSelf, Zenon
<1>6. CASE InBlock(q, i) \notin Q
  <2>1. x.blk[i] = NO_ZONE
    <3>1. InThird(q) \in Q /\ InBlock(q, i) \notin Q => d[d[x.zone[ND + 1]][q]][i] = NO_ZONE
      BY <1>0 DEF Own, Shaped
    <3>2. QED
      BY <1>0, <1>6, <1>8, <3>1
  <2>2. /\ n.sect \in Sectors \ x.smap /\ n.smap = x.smap \cup {n.sect}
        /\ n.blk = [x.blk EXCEPT ![i] = n.sect]
    BY <1>1, <2>1
  <2>3. n.blk \in Block /\ n.blk[i] = n.sect /\ \A j \in Slots \ {i} : n.blk[j] = x.blk[j]
    <3>1. n.sect \in Zones
      BY <2>2 DEF Zones
    <3>2. QED
      BY <1>2, <2>2, <3>1, SlotSet
  <2> DEFINE b == n.blk
             u == x.smap
             u2 == n.smap
             z == x.zone
             I == {i}
  <2>4. /\ \A j \in I : InBlock(q, j) \notin Q
        /\ \A j, k \in I : b[j] = b[k] => j = k
        /\ I \in SUBSET Slots
    <3>1. \A j \in {i} : j = i
      OBVIOUS
    <3>2. \A j \in I : InBlock(q, j) \notin Q
      BY <1>6, <3>1, Zenon
    <3>3. \A j, k \in I : b[j] = b[k] => j = k
      BY <3>1, Zenon
    <3>4. QED
      BY <3>2, <3>3
  <2>8. /\ b \in Block /\ d2[t] = b /\ t = d[z[ND + 1]][q]
        /\ \A s \in u : s # t => d2[s] = d[s]
        /\ InThird(q) \in Q /\ Own(u, d, z, Q)
    <3>1. b \in Block /\ d2[t] = b
      BY <1>4, <2>3, Zenon
    <3>2. t = d[z[ND + 1]][q] /\ InThird(q) \in Q /\ Own(u, d, z, Q)
      BY <1>0, <1>8, Zenon
    <3>3. \A s \in u : s # t => d2[s] = d[s]
      BY <1>4, ZenonT(40)
    <3>4. QED
      BY <3>1, <3>2, <3>3, Zenon
  <2>9. \A j \in Slots \ I : b[j] = d[t][j]
    BY <1>8, <2>3, Zenon
  <2>10. \A j \in I : b[j] \in Sectors \ u
    BY <2>2, <2>3
  <2>11. u2 = u \cup {b[j] : j \in I}
    <3>1. {b[j] : j \in I} = {b[i]}
      OBVIOUS
    <3>2. QED
      BY <2>2, <2>3, <3>1
  <2> HIDE DEF b, u, u2, z, I
  <2>5. Grown(u, d, z, Q, u2, d2, z, Q \cup {InBlock(q, j) : j \in I})
    <3>1. BlockFills(u, d, z, Q, q, I, u2, d2, b, t)
      BY <2>4, <2>8, <2>9, <2>10, <2>11 DEF BlockFills
    <3>2. QED
      BY <3>1, FillBlock
  <2>6. Q \cup {InBlock(q, j) : j \in I} = Q \cup {InBlock(q, i)}
    BY DEF I
  <2>7. QED
    BY <2>5, <2>6 DEF u, u2, z
<1>7. QED
  BY <1>5, <1>6

Taken(x, q, a, y, d) ==
  /\ a = IF x.top[q] = NO_ZONE THEN AllocSect(x) ELSE [x EXCEPT !.sect = x.top[q]]
  /\ y = [a EXCEPT !.top[q] = a.sect,
                   !.blk = IF x.top[q] = NO_ZONE THEN NoZones ELSE a.disk[a.sect]]
  /\ d = [PutTop(y) EXCEPT ![a.sect] = y.blk]


\* The block that slot q of the third level names, taken if it names none.
LEMMA ThirdBlock ==
  ASSUME NEW x \in Mem, NEW Q, Own(x.smap, PutTop(x), x.zone, Q), InZone(ND + 1) \in Q,
         NEW q \in Slots, NEW a, NEW y, NEW d, Taken(x, q, a, y, d)
  PROVE  /\ y \in Mem /\ (y.ok => x.ok) /\ y.disk = x.disk /\ y.zone = x.zone
         /\ y.top[q] = a.sect /\ y.next = x.next
         /\ y.ok => /\ Grown(x.smap, PutTop(x), x.zone, Q, y.smap, d, x.zone, Q \cup {InThird(q)})
                    /\ a.sect = d[x.zone[ND + 1]][q] /\ d \in [Zones -> Contents]
                    /\ a.sect # x.zone[ND + 1]
<1>0. /\ a = IF x.top[q] = NO_ZONE THEN AllocSect(x) ELSE [x EXCEPT !.sect = x.top[q]]
      /\ y = [a EXCEPT !.top[q] = a.sect,
                       !.blk = IF x.top[q] = NO_ZONE THEN NoZones ELSE a.disk[a.sect]]
      /\ d = [PutTop(y) EXCEPT ![a.sect] = y.blk]
  BY DEF Taken
<1> DEFINE t == x.zone[ND + 1]
           new == x.top[q] = NO_ZONE
<1>1. /\ x.zone \in [0..ND + 1 -> Zones] /\ x.disk \in [Zones -> Contents] /\ x.top \in Block
      /\ x.smap \subseteq Sectors /\ t \in x.smap /\ t \in Zones
  <2>1. t \in x.smap
    BY BlocksLemma
  <2>2. QED
    BY <2>1 DEF Mem, Zones
<1>2. /\ PutTop(x)[t] = x.top /\ \A s \in Zones : s # t => PutTop(x)[s] = x.disk[s]
      /\ PutTop(x) \in [Zones -> Contents]
  BY <1>1 DEF PutTop, Contents
<1>3. NoZones \in Block
  BY NoZonesLemma
<1>4. CASE new
  <2>1. x.top[q] = NO_ZONE /\ a = AllocSect(x)
    BY <1>0, <1>4
  <2>2. /\ a \in Mem
        /\ a.disk = x.disk /\ a.zone = x.zone /\ a.top = x.top /\ (a.ok => x.ok)
        /\ a.next = x.next
        /\ a.sect \in Zones
        /\ a.ok => a.sect \in Sectors \ x.smap /\ a.smap = x.smap \cup {a.sect}
    BY <2>1, AllocSectLemma DEF Mem
  <2>3. y = [a EXCEPT !.top[q] = a.sect, !.blk = NoZones]
    BY <1>0, <1>4
  <2>4. /\ y \in Mem /\ y.ok = a.ok /\ y.disk = x.disk /\ y.zone = x.zone /\ y.smap = a.smap
        /\ y.next = x.next
        /\ y.top = [x.top EXCEPT ![q] = a.sect] /\ y.blk = NoZones
    <3>1. [x.top EXCEPT ![q] = a.sect] \in Block
      BY <1>1, <2>2 DEF Block
    <3>2. y = [a EXCEPT !.top = [x.top EXCEPT ![q] = a.sect], !.blk = NoZones]
      BY <2>2, <2>3
    <3>3. QED
      BY <1>3, <2>2, <3>1, <3>2 DEF Mem
  <2>5. y.top[q] = a.sect
    BY <1>1, <2>4 DEF Block
  <2>6. ASSUME y.ok
        PROVE  /\ Grown(x.smap, PutTop(x), x.zone, Q, y.smap, d, x.zone, Q \cup {InThird(q)})
               /\ a.sect = d[x.zone[ND + 1]][q] /\ d \in [Zones -> Contents]
               /\ a.sect # x.zone[ND + 1]
    <3> DEFINE s == a.sect
               u == x.smap
    <3>1. s \in Sectors \ u /\ y.smap = u \cup {s} /\ s # t
      BY <1>1, <2>2, <2>4, <2>6, SMTT(40)
    <3>2. PutTop(y) = [x.disk EXCEPT ![t] = y.top] /\ d = [PutTop(y) EXCEPT ![s] = NoZones]
      BY <1>0, <2>4 DEF PutTop
    <3>3. d \in [Zones -> Contents]
      <4>1. y.top \in Contents /\ NoZones \in Contents
        BY <1>3, <2>4 DEF Contents, Mem
      <4>2. PutTop(y) \in [Zones -> Contents]
        BY <1>1, <3>2, <4>1
      <4>3. s \in Zones /\ d = [PutTop(y) EXCEPT ![s] = NoZones]
        BY <3>1, <3>2 DEF Zones
      <4> HIDE DEF s
      <4>4. QED
        BY <4>1, <4>2, <4>3, UpdateLemma
    <3>4. /\ d[s] = NoZones /\ d[t] = y.top
          /\ \A v \in u : v # t => d[v] = x.disk[v]
      BY <1>1, <3>1, <3>2 DEF Zones
    <3>5. d[t] = [PutTop(x)[t] EXCEPT ![q] = s] /\ \A v \in u : v # t => d[v] = PutTop(x)[v]
      BY <1>1, <1>2, <2>4, <3>4 DEF Zones
    <3>6. InThird(q) \notin Q
      <4>1. SUFFICES ASSUME InThird(q) \in Q PROVE FALSE
        OBVIOUS
      <4>2. PutTop(x)[t][q] \in x.smap
        BY <4>1, BlocksLemma
      <4>3. QED
        BY <1>1, <1>2, <2>1, <4>2, ConstantsLemma
    <3> HIDE DEF s, u
    <3>7. Own(u, PutTop(x), x.zone, Q)
      BY DEF u
    <3> DEFINE e == PutTop(x)
               z == x.zone
    <3>8. /\ Own(u, e, z, Q) /\ d[z[ND + 1]] = [e[z[ND + 1]] EXCEPT ![q] = s]
          /\ \A v \in u : v # z[ND + 1] => d[v] = e[v]
      BY <3>5, <3>7
    <3> HIDE DEF e, z
    <3>9. Grown(u, e, z, Q, u \cup {s}, d, z, Q \cup {InThird(q)})
      BY <3>1, <3>4, <3>6, <3>8, FillThird
    <3>10. d[t][q] = s
      BY <2>5, <3>4 DEF s
    <3>11. QED
      BY <3>1, <3>3, <3>9, <3>10 DEF s, u, e, z
  <2>7. QED
    BY <2>2, <2>4, <2>5, <2>6
<1>5. CASE ~ new
  <2>1. x.top[q] # NO_ZONE /\ a = [x EXCEPT !.sect = x.top[q]]
    BY <1>0, <1>5
  <2>2. x.top[q] \in Zones
    BY <1>1 DEF Block
  <2>3. InThird(q) \in Q
    BY <1>2, <2>1 DEF Own, Shaped
  <2>4. a \in Mem /\ a.sect = x.top[q] /\ a.disk = x.disk /\ a.zone = x.zone /\ a.ok = x.ok
        /\ a.top = x.top /\ a.smap = x.smap /\ a.next = x.next
    BY <2>1, <2>2 DEF Mem
  <2>5. PutTop(x)[t][q] = a.sect /\ a.sect \in x.smap /\ a.sect # t /\ PutTop(x)[a.sect] \in Block
    <3>1. PutTop(x)[t][q] = a.sect
      BY <1>2, <2>4
    <3>2. PutTop(x)[t][q] \in x.smap /\ PutTop(x)[t][q] # t
      BY <2>3, BlocksLemma
    <3>3. PutTop(x)[PutTop(x)[t][q]] \in Block
      BY <2>3 DEF Own, Shaped
    <3>4. QED
      BY <3>1, <3>2, <3>3
  <2>6. x.disk[a.sect] = PutTop(x)[a.sect]
    BY <1>1, <1>2, <2>5 DEF Zones
  <2>7. y = [a EXCEPT !.top[q] = a.sect, !.blk = a.disk[a.sect]]
    BY <1>0, <1>5
  <2>8. [x.top EXCEPT ![q] = a.sect] = x.top
    BY <1>1, <2>4 DEF Block
  <2>9. /\ y \in Mem /\ y.ok = x.ok /\ y.disk = x.disk /\ y.zone = x.zone /\ y.smap = x.smap
        /\ y.top = x.top /\ y.blk = PutTop(x)[a.sect] /\ y.next = x.next
    <3>1. y = [a EXCEPT !.top = x.top, !.blk = PutTop(x)[a.sect]]
      BY <2>4, <2>6, <2>7, <2>8
    <3>2. QED
      BY <1>1, <2>4, <2>5, <3>1 DEF Mem
  <2>10. PutTop(y) = PutTop(x)
    BY <2>9 DEF PutTop
  <2>11. d = PutTop(x)
    <3>1. d = [PutTop(x) EXCEPT ![a.sect] = PutTop(x)[a.sect]]
      BY <1>0, <2>9, <2>10
    <3>2. QED
      BY <1>2, <3>1, SMTT(40)
  <2>12. Q \cup {InThird(q)} = Q
    BY <2>3
  <2>13. Grown(x.smap, PutTop(x), x.zone, Q, y.smap, d, x.zone, Q \cup {InThird(q)})
    <3>1. Grown(x.smap, PutTop(x), x.zone, Q, x.smap, PutTop(x), x.zone, Q)
      BY GrownSelf
    <3>2. QED
      BY <2>9, <2>11, <2>12, <3>1
  <2>14. d \in [Zones -> Contents] /\ a.sect = d[x.zone[ND + 1]][q] /\ a.sect # x.zone[ND + 1]
    BY <1>2, <2>5, <2>11
  <2>15. y.top[q] = a.sect
    BY <2>4, <2>9
  <2>16. QED
    BY <2>9, <2>13, <2>14, <2>15
<1>6. QED
  BY <1>4, <1>5

Rounded(x, Q, i, y) ==
  /\ y \in Mem /\ (y.ok => x.ok) /\ y.zone = x.zone
  /\ y.ok => Grown(x.smap, PutTop(x), x.zone, Q, y.smap, PutTop(y), y.zone,
                   Q \cup {InThird(i \div Z)} \cup {InBlock(i \div Z, i % Z)})

LEMMA ThirdRoundLemma ==
  ASSUME NEW x \in Mem, NEW Q, Own(x.smap, PutTop(x), x.zone, Q), InZone(ND + 1) \in Q,
         NEW first \in Nat, NEW i \in 0..Z * Z - 1, x.next = 0, NEW y, y = ThirdRound(first, x, i)
  PROVE  Rounded(x, Q, i, y)
<1> DEFINE q == i \div Z
           j == i % Z
           new == x.top[q] = NO_ZONE
           a == IF new THEN AllocSect(x) ELSE [x EXCEPT !.sect = x.top[q]]
           v == [a EXCEPT !.top[q] = a.sect, !.blk = IF new THEN NoZones ELSE a.disk[a.sect]]
           n == FillSlot(v, j)
           d == [PutTop(v) EXCEPT ![a.sect] = v.blk]
           nx == IF new THEN first + Z + 1 ELSE i + 1
<1>1. q \in Slots /\ j \in Slots
  BY ThirdLemma
<1>2. y = [n EXCEPT !.disk[a.sect] = n.blk, !.next = nx]
  <2>1. ~ (i < x.next)
    BY ConstantsLemma
  <2>2. QED
    BY <2>1 DEF ThirdRound, Z
<1>3. nx \in Nat
  BY ConstantsLemma
<1> HIDE DEF q, j, nx
<1>4. /\ v \in Mem /\ (v.ok => x.ok) /\ v.disk = x.disk /\ v.zone = x.zone
      /\ v.top[q] = a.sect /\ v.next = x.next
      /\ v.ok => /\ Grown(x.smap, PutTop(x), x.zone, Q, v.smap, d, x.zone, Q \cup {InThird(q)})
                 /\ a.sect = d[x.zone[ND + 1]][q] /\ d \in [Zones -> Contents]
                 /\ a.sect # x.zone[ND + 1]
  <2>1. Taken(x, q, a, v, d)
    BY DEF Taken
  <2> HIDE DEF new, a, v, d
  <2>2. QED
    BY <1>1, <2>1, ThirdBlock
<1> DEFINE t == a.sect
<1>5. n \in Mem /\ (n.ok => v.ok) /\ n.disk = v.disk /\ n.zone = v.zone /\ n.top = v.top
  <2>1. n = FillSlot(v, j) /\ v \in Mem /\ j \in Slots
    BY <1>1, <1>4
  <2> HIDE DEF v, n
  <2>2. Filled(v, j, n)
    BY <2>1, FillSlotLemma, Zenon
  <2>3. QED
    BY <2>2 DEF Filled
<1>6. t \in Zones
  <2>1. v.top[q] \in Zones
    BY <1>1, <1>4, Zenon DEF Mem, Block
  <2>2. QED
    BY <1>4, <2>1, Zenon
<1>7. d = [PutTop(v) EXCEPT ![t] = v.blk] /\ n = FillSlot(v, j)
      /\ y = [n EXCEPT !.disk[t] = n.blk, !.next = nx]
  BY <1>2, Zenon
<1> HIDE DEF new, a, v, n, d, t
<1>8. /\ y \in Mem /\ y.ok = n.ok /\ y.disk = [n.disk EXCEPT ![t] = n.blk] /\ y.top = n.top
      /\ y.zone = n.zone /\ y.smap = n.smap
  <2> DEFINE w == [n.disk EXCEPT ![t] = n.blk]
  <2>1. w \in [Zones -> Contents]
    BY <1>5, <1>6 DEF Mem, Contents
  <2>2. y = [n EXCEPT !.disk = w, !.next = nx]
    BY <1>5, <1>7 DEF Mem
  <2>3. w = [n.disk EXCEPT ![t] = n.blk]
    OBVIOUS
  <2> HIDE DEF w
  <2>4. QED
    BY <1>3, <1>5, <2>1, <2>2, <2>3 DEF Mem
<1>9. ASSUME y.ok
      PROVE  Grown(x.smap, PutTop(x), x.zone, Q, y.smap, PutTop(y), y.zone,
                   Q \cup {InThird(q)} \cup {InBlock(q, j)})
  <2> DEFINE Q1 == Q \cup {InThird(q)}
             d2 == [d EXCEPT ![t] = n.blk]
  <2>1. v.ok /\ n.ok
    BY <1>5, <1>8, <1>9
  <2>2. /\ Grown(x.smap, PutTop(x), x.zone, Q, v.smap, d, v.zone, Q1)
        /\ t = d[v.zone[ND + 1]][q] /\ d \in [Zones -> Contents]
        /\ t # x.zone[ND + 1]
    BY <1>4, <2>1 DEF t
  <2>3. Own(v.smap, d, v.zone, Q1)
    BY <2>2, GrownOwn
  <2>4. v.blk = d[t]
    <3>1. PutTop(v) \in [Zones -> Contents]
      BY <1>4, Zenon DEF PutTop, Mem, Contents
    <3>2. QED
      BY <1>6, <1>7, <3>1
  <2>5. Grown(v.smap, d, v.zone, Q1, n.smap, d2, v.zone, Q1 \cup {InBlock(q, j)})
    <3>1. InThird(q) \in Q1 /\ d2 = [d EXCEPT ![t] = n.blk]
      OBVIOUS
    <3> HIDE DEF Q1, d2
    <3>2. Enters(v, d, Q1, q, t, j, n, d2)
      <4>1. v.zone = x.zone /\ InThird(q) \in Q1 /\ v.blk = d[t] /\ n.ok
        BY <1>4, <2>1, <2>4, <3>1, Zenon
      <4>2. t = d[v.zone[ND + 1]][q] /\ Own(v.smap, d, v.zone, Q1)
        BY <2>2, <2>3, Zenon
      <4>3. QED
        BY <1>7, <3>1, <4>1, <4>2, Zenon DEF Enters
    <3>3. QED
      <4>1. v \in Mem /\ d \in [Zones -> Contents] /\ q \in Slots /\ j \in Slots
        BY <1>1, <1>4, <2>2, Zenon
      <4>2. QED
        BY <3>2, <4>1, BlockSlot, Zenon
  <2>6. d2 = PutTop(y)
    <3> DEFINE t3 == x.zone[ND + 1]
    <3>1. v.disk \in [Zones -> Contents] /\ t3 \in Zones
      BY <1>4, IndexLemma DEF Mem
    <3>2. PutTop(y) = [[v.disk EXCEPT ![t] = n.blk] EXCEPT ![t3] = v.top]
      BY <1>4, <1>5, <1>8 DEF PutTop
    <3>3. d2 = [[[v.disk EXCEPT ![t3] = v.top] EXCEPT ![t] = v.blk] EXCEPT ![t] = n.blk]
      BY <1>4, <1>7 DEF PutTop
    <3>4. t # t3
      BY <2>2
    <3> HIDE DEF t3, d2
    <3>5. QED
      BY <1>6, <3>1, <3>2, <3>3, <3>4
  <2>7. Grown(x.smap, PutTop(x), x.zone, Q, n.smap, d2, v.zone, Q1 \cup {InBlock(q, j)})
    <3> HIDE DEF Q1, d2
    <3>1. QED
      BY <2>2, <2>5, GrownTwice
  <2>8. QED
    BY <1>5, <1>8, <2>6, <2>7
<1>10. QED
  BY <1>4, <1>5, <1>8, <1>9 DEF q, j, Rounded

\* A failure is final, whatever the block at hand was.
IsMem(x) ==
  x = [smap |-> x.smap, disk |-> x.disk, zone |-> x.zone, sect |-> x.sect, blk |-> x.blk,
       top |-> x.top, next |-> x.next, ok |-> x.ok]

LEMMA IsMemLemma ==
  ASSUME NEW x, IsMem(x)
  PROVE  /\ \A d : IsMem([x EXCEPT !.disk = d]) /\ [x EXCEPT !.disk = d].ok = x.ok
         /\ \A b : IsMem([x EXCEPT !.blk = b]) /\ [x EXCEPT !.blk = b].ok = x.ok
         /\ \A t : IsMem([x EXCEPT !.top = t]) /\ [x EXCEPT !.top = t].ok = x.ok
         /\ \A k : IsMem([x EXCEPT !.next = k]) /\ [x EXCEPT !.next = k].ok = x.ok
         /\ \A s : IsMem([x EXCEPT !.sect = s]) /\ [x EXCEPT !.sect = s].ok = x.ok
         /\ \A u : IsMem([x EXCEPT !.smap = u]) /\ [x EXCEPT !.smap = u].ok = x.ok
         /\ \A o : IsMem([x EXCEPT !.ok = o]) /\ [x EXCEPT !.ok = o].ok = o
<1>1. \A d : IsMem([x EXCEPT !.disk = d]) /\ [x EXCEPT !.disk = d].ok = x.ok
  BY DEF IsMem
<1>2. \A b : IsMem([x EXCEPT !.blk = b]) /\ [x EXCEPT !.blk = b].ok = x.ok
  BY DEF IsMem
<1>3. \A t : IsMem([x EXCEPT !.top = t]) /\ [x EXCEPT !.top = t].ok = x.ok
  BY DEF IsMem
<1>4. \A k : IsMem([x EXCEPT !.next = k]) /\ [x EXCEPT !.next = k].ok = x.ok
  BY DEF IsMem
<1>5. \A s : IsMem([x EXCEPT !.sect = s]) /\ [x EXCEPT !.sect = s].ok = x.ok
  BY DEF IsMem
<1>6. \A u : IsMem([x EXCEPT !.smap = u]) /\ [x EXCEPT !.smap = u].ok = x.ok
  BY DEF IsMem
<1>7. \A o : IsMem([x EXCEPT !.ok = o]) /\ [x EXCEPT !.ok = o].ok = o
  BY DEF IsMem
<1>8. QED
  BY <1>1, <1>2, <1>3, <1>4, <1>5, <1>6, <1>7

LEMMA FailureStays ==
  ASSUME NEW x, IsMem(x), x.ok = FALSE
  PROVE  /\ IsMem(AllocSect(x)) /\ AllocSect(x).ok = FALSE
         /\ \A i : IsMem(FillSlot(x, i)) /\ FillSlot(x, i).ok = FALSE
<1> DEFINE s == Min(Free(x))
           a == AllocSect(x)
<1>1. IsMem(a) /\ a.ok = FALSE
  <2>1. CASE Free(x) = {}
    BY <2>1, IsMemLemma DEF AllocSect
  <2>2. CASE Free(x) # {}
    <3>1. a = [x EXCEPT !.sect = s, !.smap = @ \cup {s}]
      BY <2>2 DEF AllocSect
    <3> HIDE DEF a, s
    <3>2. QED
      BY <3>1 DEF IsMem
  <2>3. QED
    BY <2>1, <2>2
<1>2. ASSUME NEW i PROVE IsMem(FillSlot(x, i)) /\ FillSlot(x, i).ok = FALSE
  <2> DEFINE b == [a.blk EXCEPT ![i] = a.sect]
  <2>1. FillSlot(x, i) = x \/ FillSlot(x, i) = [a EXCEPT !.blk = b]
    BY DEF FillSlot
  <2> HIDE DEF a, b
  <2>2. IsMem([a EXCEPT !.blk = b]) /\ [a EXCEPT !.blk = b].ok = a.ok
    BY <1>1, IsMemLemma
  <2>3. CASE FillSlot(x, i) = x
    BY <2>3
  <2>4. CASE FillSlot(x, i) = [a EXCEPT !.blk = b]
    BY <1>1, <2>2, <2>4, Zenon
  <2>5. QED
    BY <2>1, <2>3, <2>4
<1>3. QED
  BY <1>1, <1>2

LEMMA ThirdRoundFails ==
  ASSUME NEW x, IsMem(x), x.ok = FALSE, NEW first, NEW i
  PROVE  IsMem(ThirdRound(first, x, i)) /\ ThirdRound(first, x, i).ok = FALSE
<1> DEFINE q == i \div Z
           new == x.top[q] = NO_ZONE
           a == IF new THEN AllocSect(x) ELSE [x EXCEPT !.sect = x.top[q]]
           t == [a.top EXCEPT ![q] = a.sect]
           b == IF new THEN NoZones ELSE a.disk[a.sect]
           v == [a EXCEPT !.top = t, !.blk = b]
           n == FillSlot(v, i % Z)
           d == [n.disk EXCEPT ![a.sect] = n.blk]
           nx == IF new THEN first + Z + 1 ELSE i + 1
           y == [n EXCEPT !.disk = d, !.next = nx]
<1>1. IsMem(a) /\ a.ok = FALSE
  <2>1. IsMem(AllocSect(x)) /\ AllocSect(x).ok = FALSE
    BY FailureStays
  <2>2. IsMem([x EXCEPT !.sect = x.top[q]]) /\ [x EXCEPT !.sect = x.top[q]].ok = x.ok
    BY IsMemLemma
  <2>3. CASE new
    BY <2>1, <2>3
  <2>4. CASE ~ new
    BY <2>2, <2>4
  <2>5. QED
    BY <2>3, <2>4
<1>2. IsMem(v) /\ v.ok = FALSE
  <2> DEFINE w == [a EXCEPT !.top = t]
  <2>1. v = [w EXCEPT !.blk = b]
    BY <1>1 DEF IsMem
  <2> HIDE DEF a, t, b, v
  <2>2. IsMem(w) /\ w.ok = a.ok
    BY <1>1, IsMemLemma
  <2> HIDE DEF w
  <2>3. IsMem(v) /\ v.ok = w.ok
    BY <2>1, <2>2, IsMemLemma
  <2>4. QED
    BY <1>1, <2>2, <2>3
<1>3. IsMem(n) /\ n.ok = FALSE
  <2> HIDE DEF v
  <2>1. QED
    BY <1>2, FailureStays
<1>4. IsMem(y) /\ y.ok = FALSE
  <2> DEFINE w == [n EXCEPT !.disk = d]
  <2> HIDE DEF n, d, nx
  <2>1. y = [w EXCEPT !.next = nx]
    BY <1>3 DEF IsMem
  <2> HIDE DEF y
  <2>2. IsMem(w) /\ w.ok = n.ok
    BY <1>3, IsMemLemma
  <2> HIDE DEF w
  <2>3. IsMem(y) /\ y.ok = w.ok
    BY <2>1, <2>2, IsMemLemma, ZenonT(40)
  <2>4. QED
    BY <1>3, <2>2, <2>3
<1>5. ThirdRound(first, x, i) = x \/ ThirdRound(first, x, i) = y
  BY DEF ThirdRound, Z
<1>6. QED
  BY <1>4, <1>5, Zenon

ThirdLoop(x0, first, L) ==
  CHOOSE h : h = [k \in 0..L |-> IF k = 0 THEN x0 ELSE ThirdRound(first, h[k - 1], first + k - 1)]

\* A sector of the third level.
LEMMA AllocThirdLemma ==
  ASSUME NEW m \in Mem, NEW n \in S2..NR_THIRD_LEVEL_ZONE - 1, m.next = 0,
         Own(m.smap, m.disk, m.zone, Places(n)), NEW i, i = n - S2, NEW last, last = n + 1 - S2,
         NEW r, r = AllocThird(m, i, last)
  PROVE  r.ok => /\ r \in Mem /\ m.ok
                 /\ Grown(m.smap, m.disk, m.zone, Places(n), r.smap, r.disk, r.zone,
                          Places(n + 1))
<1> DEFINE L == last - i
           a == ZoneBlock(m, ND + 1)
           x0 == [a EXCEPT !.top = a.blk]
           y == ThirdRound(i, x0, i)
           F(h) == [k \in 0..L |-> IF k = 0 THEN x0 ELSE ThirdRound(i, h[k - 1], i + k - 1)]
           at == ThirdLoop(x0, i, L)
           Q == Places(n) \cup {InZone(ND + 1)}
<1>1. /\ i \in 0..Z * Z - 1 /\ i \in Nat /\ L = 1 /\ n \in Nat
      /\ i + 1 - 1 = i /\ THIRD_LEVEL_ZONE = ND + 1
  BY ConstantsLemma
<1>2. r = [at[1] EXCEPT !.disk[(at[1]).zone[ND + 1]] = (at[1]).top]
  <2>1. r = [at[L] EXCEPT !.disk[(at[L]).zone[ND + 1]] = (at[L]).top]
    BY DEF AllocThird, ThirdLoop, ND, THIRD_LEVEL_ZONE
  <2> HIDE DEF L, at
  <2>2. QED
    BY <1>1, <2>1
<1> HIDE DEF L
<1>3. at[1] = y
  <2> DEFINE f == [k \in 0..L |-> IF k = 0 THEN x0 ELSE y]
  <2> HIDE DEF x0
  <2>1. f = F(f)
    BY <1>1
  <2>2. at = F(at)
    BY <2>1 DEF ThirdLoop
  <2> HIDE DEF at
  <2>3. at[0] = x0 /\ at[1] = ThirdRound(i, at[0], i)
    BY <1>1, <2>2
  <2>4. QED
    BY <2>3
<1> HIDE DEF at
<1>4. /\ a \in Mem /\ (a.ok => m.ok) /\ a.next = 0
      /\ a.ok => Grown(m.smap, m.disk, m.zone, Places(n), a.smap, Put(a, ND + 1), a.zone, Q)
  <2>1. a = ZoneBlock(m, ND + 1)
    OBVIOUS
  <2>2. a.next = 0
    <3>1. (AllocSect(m)).next = m.next
      BY AllocSectLemma
    <3>2. QED
      <4> DEFINE b == AllocSect(m)
      <4>1. b \in Mem
        BY AllocSectLemma
      <4>2. a = [m EXCEPT !.blk = m.disk[m.zone[ND + 1]]]
            \/ a = [b EXCEPT !.zone[ND + 1] = b.sect, !.blk = NoZones]
        BY DEF ZoneBlock
      <4> HIDE DEF a, b
      <4>3. QED
        BY <3>1, <4>1, <4>2 DEF Mem, b
  <2> HIDE DEF a
  <2>3. QED
    BY <2>1, <2>2, ZoneBlockLemma, ZenonT(40)
<1> HIDE DEF a
<1>5. /\ x0 \in Mem /\ x0.ok = a.ok /\ x0.next = 0 /\ x0.smap = a.smap /\ x0.zone = a.zone
      /\ PutTop(x0) = Put(a, ND + 1)
  BY <1>4 DEF Mem, PutTop, Put
<1> HIDE DEF x0
<1>6. CASE a.ok = FALSE
  <2>1. IsMem(x0)
    BY <1>5 DEF Mem, IsMem
  <2>2. IsMem(y) /\ y.ok = FALSE
    <3>1. QED
      BY <1>5, <1>6, <2>1, ThirdRoundFails
  <2> DEFINE d == [y.disk EXCEPT ![y.zone[ND + 1]] = y.top]
  <2>3. r = [y EXCEPT !.disk = d]
    BY <1>2, <1>3
  <2> HIDE DEF y, d
  <2>4. r.ok = FALSE
    <3>1. [y EXCEPT !.disk = d].ok = y.ok
      BY <2>2, IsMemLemma
    <3>2. QED
      BY <2>2, <2>3, <3>1
  <2>5. QED
    BY <2>4
<1>7. CASE a.ok
  <2> DEFINE q == i \div Z
             j == i % Z
             Q2 == Q \cup {InThird(q)} \cup {InBlock(q, j)}
  <2>1. /\ m.ok /\ Grown(m.smap, m.disk, m.zone, Places(n), x0.smap, PutTop(x0), x0.zone, Q)
    BY <1>4, <1>5, <1>7
  <2>2. Own(x0.smap, PutTop(x0), x0.zone, Q)
    BY <2>1, GrownOwn
  <2>3. InZone(ND + 1) \in Q
    OBVIOUS
  <2>4. y = ThirdRound(i, x0, i)
    OBVIOUS
  <2> HIDE DEF y, Q
  <2>5. /\ y \in Mem /\ y.zone = x0.zone
        /\ y.ok => Grown(x0.smap, PutTop(x0), x0.zone, Q, y.smap, PutTop(y), y.zone, Q2)
    <3>1. /\ x0 \in Mem /\ Own(x0.smap, PutTop(x0), x0.zone, Q) /\ InZone(ND + 1) \in Q
          /\ i \in Nat /\ i \in 0..Z * Z - 1 /\ x0.next = 0 /\ y = ThirdRound(i, x0, i)
      BY <1>1, <1>5, <2>2, <2>3, <2>4
    <3>2. Rounded(x0, Q, i, y)
      BY <3>1, ThirdRoundLemma
    <3>3. QED
      BY <3>2 DEF Rounded
  <2>6. y.ok => Grown(m.smap, m.disk, m.zone, Places(n), y.smap, PutTop(y), y.zone, Q2)
    <3> HIDE DEF Q2
    <3>1. QED
      BY <2>1, <2>5, GrownTwice
  <2>7. Q2 = Places(n + 1)
    BY <1>1, MorePlaces DEF Q
  <2> DEFINE d == PutTop(y)
  <2>8. d \in [Zones -> Contents]
    BY <2>5 DEF PutTop, Mem, Contents
  <2>9. r = [y EXCEPT !.disk = d]
    BY <1>2, <1>3 DEF PutTop
  <2> HIDE DEF d
  <2>10. r \in Mem /\ r.disk = d /\ r.smap = y.smap /\ r.zone = y.zone /\ r.ok = y.ok
    BY <2>5, <2>8, <2>9 DEF Mem
  <2>11. QED
    BY <2>1, <2>6, <2>7, <2>10 DEF d
<1>8. a.ok \in BOOLEAN
  BY <1>4 DEF Mem
<1>9. QED
  BY <1>6, <1>7, <1>8

\* alloc_zone: more of the second level, or a sector of the third.
AllocGrows(m, n, e, r) ==
  r.ok => /\ r \in Mem /\ m.ok /\ e <= NR_THIRD_LEVEL_ZONE
          /\ Grown(m.smap, m.disk, m.zone, Places(n), r.smap, r.disk, r.zone, Places(e))

LEMMA AllocZoneLemma ==
  ASSUME NEW m \in Mem, m.next = 0, NEW n \in ND..NR_THIRD_LEVEL_ZONE, NEW e \in Nat, n < e,
         e > Max({n, S2}) => e = n + 1,
         Own(m.smap, m.disk, m.zone, Places(n)), NEW r, r = AllocZone(m, n, e)
  PROVE  AllocGrows(m, n, e, r)
<1>1. /\ S2 \in Nat /\ ND \in Nat /\ n \in Nat /\ NR_THIRD_LEVEL_ZONE \in Nat
      /\ S2 <= NR_THIRD_LEVEL_ZONE /\ ND <= S2
  BY ConstantsLemma
<1>2. /\ Max({n, S2}) = IF n <= S2 THEN S2 ELSE n
      /\ Min({e, S2}) = IF e <= S2 THEN e ELSE S2
  BY <1>1, MinMaxLemma
<1>3. CASE n < S2
  <2>1. e \in n + 1..S2 /\ n \in ND..S2 - 1 /\ Min({e, S2}) = e /\ ~ (n >= S2) /\ e <= S2
        /\ e <= NR_THIRD_LEVEL_ZONE
    BY <1>1, <1>2, <1>3
  <2>2. r = AllocSecond(m, n - ND, e - ND)
    BY <2>1 DEF AllocZone, S2, ND
  <2>3. r.ok => r \in Mem /\ m.ok
                /\ Grown(m.smap, m.disk, m.zone, Places(n), r.smap, r.disk, r.zone, Places(e))
    BY <2>1, <2>2, AllocSecondLemma
  <2>4. QED
    BY <2>1, <2>3 DEF AllocGrows
<1>4. CASE n >= S2
  <2>1. e = n + 1 /\ ~ (e <= S2) /\ Max({n, S2}) = n
    BY <1>1, <1>2, <1>4
  <2>2. CASE e > NR_THIRD_LEVEL_ZONE
    <3>1. r = [m EXCEPT !.ok = FALSE]
      BY <1>4, <2>1, <2>2 DEF AllocZone, S2
    <3>2. r.ok = FALSE
      BY <3>1 DEF Mem
    <3>3. QED
      BY <3>2 DEF AllocGrows
  <2>3. CASE ~ (e > NR_THIRD_LEVEL_ZONE)
    <3> DEFINE i == n - S2
               last == e - S2
    <3>1. r = AllocThird(m, i, last)
      BY <1>4, <2>1, <2>3 DEF AllocZone, S2
    <3>2. i = n - S2 /\ last = n + 1 - S2 /\ n \in S2..NR_THIRD_LEVEL_ZONE - 1
          /\ e <= NR_THIRD_LEVEL_ZONE
      BY <1>1, <1>4, <2>1, <2>3
    <3> HIDE DEF i, last
    <3>3. r.ok => /\ r \in Mem /\ m.ok
                  /\ Grown(m.smap, m.disk, m.zone, Places(n), r.smap, r.disk, r.zone, Places(n + 1))
      BY <3>1, <3>2, AllocThirdLemma
    <3>4. QED
      BY <2>1, <3>2, <3>3 DEF AllocGrows
  <2>4. QED
    BY <2>2, <2>3
<1>5. QED
  BY <1>1, <1>3, <1>4

----------------------------------------------------------------------------
(* The files together                                                      *)

\* The blocks of a file are as they were.
Framed(d, z, Q, d2) == \A p \in Q : IsBlock(p) => d2[Hold(d, z, p)] = d[Hold(d, z, p)]

LEMMA FrameLemma ==
  ASSUME NEW u, NEW d, NEW z, NEW Q, Own(u, d, z, Q), NEW d2, Framed(d, z, Q, d2)
  PROVE  /\ Shaped(d2, z, Q)
         /\ \A p \in Q : Hold(d2, z, p) = Hold(d, z, p)
<1>1. Shaped(d, z, Q) /\ u \subseteq Sectors
  BY DEF Own
<1>2. InZone(ND) \in Q => d2[z[ND]] = d[z[ND]]
  BY HoldLemma, IsBlockLemma DEF Framed
<1>3. InZone(ND + 1) \in Q => d2[z[ND + 1]] = d[z[ND + 1]]
  BY HoldLemma, IsBlockLemma DEF Framed
<1>4. ASSUME NEW q \in Slots, InThird(q) \in Q
      PROVE  d2[d2[z[ND + 1]][q]] = d[d[z[ND + 1]][q]] /\ InZone(ND + 1) \in Q
  <2>1. InZone(ND + 1) \in Q
    BY <1>1, <1>4 DEF Shaped
  <2>2. Hold(d, z, InThird(q)) = d[z[ND + 1]][q] /\ IsBlock(InThird(q))
    BY HoldLemma, IsBlockLemma
  <2>3. QED
    BY <1>3, <1>4, <2>1, <2>2 DEF Framed
<1>5. Same(d, z, Q, d2, z)
  <2>1. \A i \in Slots : InSecond(i) \in Q => d2[z[ND]][i] = d[z[ND]][i]
    BY <1>1, <1>2 DEF Shaped
  <2>2. \A q \in Slots : InThird(q) \in Q => d2[z[ND + 1]][q] = d[z[ND + 1]][q]
    BY <1>3, <1>4
  <2>3. \A q, i \in Slots : InBlock(q, i) \in Q =>
           d2[d2[z[ND + 1]][q]][i] = d[d[z[ND + 1]][q]][i]
    BY <1>1, <1>4 DEF Shaped
  <2>4. QED
    BY <2>1, <2>2, <2>3 DEF Same
<1>6. \A p \in Q : Hold(d2, z, p) = Hold(d, z, p)
  BY <1>1, <1>5, SameHold DEF Shaped
<1>7. Shaped(d2, z, Q)
  BY <1>1, <1>2, <1>3, <1>4 DEF Shaped
<1>8. QED
  BY <1>6, <1>7

\* The files with inodes I own the sectors u, and the root directory has its own.
Spots(I, f) == Places(I[f].nr_sects)
Held(d, I, f, p) == Hold(d, I[f].zone, p)

Owners(u, d, I) ==
  /\ \A f \in Files : Own(u, d, I[f].zone, Spots(I, f))
  /\ \A f, g \in Files : f # g =>
       \A p \in Spots(I, f), q \in Spots(I, g) : Held(d, I, f, p) # Held(d, I, g, q)
  /\ RootSects \subseteq u
  /\ \A f \in Files : \A p \in Spots(I, f) : Held(d, I, f, p) \notin RootSects
  /\ \A s \in u \ RootSects : \E f \in Files : \E p \in Spots(I, f) : Held(d, I, f, p) = s

\* File f has grown, and the other inodes are as they were.
Grows(u, d, I, f, u2, d2, I2) ==
  /\ Owners(u, d, I) /\ f \in Files
  /\ Grown(u, d, I[f].zone, Spots(I, f), u2, d2, I2[f].zone, Spots(I2, f))
  /\ \A g \in Files : g # f => I2[g] = I[g]

LEMMA GrownOwners ==
  ASSUME NEW u, NEW d, NEW I, NEW f, NEW u2, NEW d2, NEW I2, Grows(u, d, I, f, u2, d2, I2)
  PROVE  /\ Owners(u2, d2, I2)
         /\ \A g \in Files : g # f => \A p \in Spots(I, g) :
              Held(d2, I2, g, p) = Held(d, I, g, p) /\ Held(d, I, g, p) \in u
<1> DEFINE Q == Spots(I, f)
           Q2 == Spots(I2, f)
           z == I[f].zone
           z2 == I2[f].zone
<1>0. /\ Owners(u, d, I) /\ f \in Files /\ Grown(u, d, z, Q, u2, d2, z2, Q2)
      /\ \A g \in Files : g # f => I2[g] = I[g]
  BY DEF Grows
<1> USE <1>0
<1>1. Own(u, d, z, Q) /\ Grown(u, d, z, Q, u2, d2, z2, Q2)
  BY DEF Owners
<1>2. Own(u2, d2, z2, Q2)
  <2> HIDE DEF Q, Q2, z, z2
  <2>1. QED
    BY <1>1, GrownOwn
<1>3. u \subseteq u2 /\ u2 \subseteq Sectors /\ Q \subseteq Q2
  BY <1>1 DEF Grown
<1>4. ASSUME NEW g \in Files, g # f
      PROVE  /\ Spots(I2, g) = Spots(I, g) /\ I2[g] = I[g]
             /\ Own(u2, d2, I2[g].zone, Spots(I2, g))
             /\ \A p \in Spots(I, g) :
                  Held(d2, I2, g, p) = Held(d, I, g, p) /\ Held(d, I, g, p) \in u
  <2> DEFINE y == I[g].zone
             P == Spots(I, g)
  <2>1. I2[g] = I[g] /\ Spots(I2, g) = P
    BY <1>4 DEF Spots
  <2>2. Own(u, d, y, P)
    BY DEF Owners
  <2>3. \A p \in P : Hold(d, y, p) \in u
    BY <2>2 DEF Own
  <2>4. ASSUME NEW p \in P PROVE d2[Hold(d, y, p)] = d[Hold(d, y, p)]
    <3>1. \A q \in Q : Hold(d, z, q) # Hold(d, y, p)
      BY <1>4 DEF Owners, Held
    <3>2. QED
      BY <1>1, <2>3, <3>1 DEF Grown
  <2>5. Framed(d, y, P, d2)
    BY <2>4 DEF Framed
  <2> HIDE DEF y, P
  <2>6. Shaped(d2, y, P) /\ \A p \in P : Hold(d2, y, p) = Hold(d, y, p)
    BY <2>2, <2>5, FrameLemma
  <2>7. Own(u2, d2, y, P)
    BY <1>3, <2>2, <2>6 DEF Own
  <2>8. QED
    BY <2>1, <2>3, <2>6, <2>7 DEF y, P, Held
<1>5. \A p \in Q : Held(d2, I2, f, p) = Held(d, I, f, p)
  BY <1>1 DEF Grown, Held
<1>6. \A p \in Q2 \ Q : Held(d2, I2, f, p) \in u2 \ u
  BY <1>1 DEF Grown, Held
<1> HIDE DEF Q, Q2, z, z2
<1>7. ASSUME NEW g \in Files, g # f
      PROVE  \A p \in Q2, q \in Spots(I2, g) : Held(d2, I2, f, p) # Held(d2, I2, g, q)
  <2>1. SUFFICES ASSUME NEW p \in Q2, NEW q \in Spots(I, g)
                 PROVE  Held(d2, I2, f, p) # Held(d2, I2, g, q)
    BY <1>4, <1>7
  <2>2. Held(d2, I2, g, q) = Held(d, I, g, q) /\ Held(d, I, g, q) \in u
    BY <1>4, <1>7
  <2>3. CASE p \in Q
    <3>1. Held(d, I, f, p) # Held(d, I, g, q)
      BY <1>7, <2>3 DEF Owners, Q
    <3>2. QED
      BY <1>5, <2>2, <2>3, <3>1
  <2>4. CASE p \notin Q
    BY <1>6, <2>2, <2>4
  <2>5. QED
    BY <2>3, <2>4
<1>8. \A g, h \in Files : g # h =>
        \A p \in Spots(I2, g), q \in Spots(I2, h) : Held(d2, I2, g, p) # Held(d2, I2, h, q)
  <2>1. SUFFICES ASSUME NEW g \in Files, NEW h \in Files, g # h,
                        NEW p \in Spots(I2, g), NEW q \in Spots(I2, h)
                 PROVE  Held(d2, I2, g, p) # Held(d2, I2, h, q)
    OBVIOUS
  <2>2. CASE g = f
    BY <1>7, <2>1, <2>2 DEF Q2
  <2>3. CASE h = f
    BY <1>7, <2>1, <2>3 DEF Q2
  <2>4. CASE g # f /\ h # f
    <3>1. p \in Spots(I, g) /\ q \in Spots(I, h)
      BY <1>4, <2>4
    <3>2. Held(d, I, g, p) # Held(d, I, h, q)
      BY <2>1, <3>1 DEF Owners
    <3>3. QED
      BY <1>4, <2>4, <3>1, <3>2
  <2>5. QED
    BY <2>2, <2>3, <2>4
<1>9. ASSUME NEW g \in Files, NEW p \in Spots(I2, g) PROVE Held(d2, I2, g, p) \notin RootSects
  <2>1. CASE g # f
    <3>1. Held(d, I, g, p) \notin RootSects /\ p \in Spots(I, g)
      BY <1>4, <2>1 DEF Owners
    <3>2. QED
      BY <1>4, <2>1, <3>1
  <2>2. CASE g = f /\ p \in Q
    <3>1. Held(d, I, f, p) \notin RootSects
      BY <2>2 DEF Owners, Q
    <3>2. QED
      BY <1>5, <2>2, <3>1
  <2>3. CASE g = f /\ p \notin Q
    <3>1. Held(d2, I2, f, p) \in u2 \ u /\ RootSects \subseteq u
      BY <1>6, <2>3 DEF Owners, Q2
    <3>2. QED
      BY <2>3, <3>1
  <2>4. QED
    BY <2>1, <2>2, <2>3
<1>10. ASSUME NEW s \in u2 \ RootSects
       PROVE  \E g \in Files : \E p \in Spots(I2, g) : Held(d2, I2, g, p) = s
  <2>1. CASE s \in u
    <3>1. PICK g \in Files : \E p \in Spots(I, g) : Held(d, I, g, p) = s
      BY <1>10, <2>1 DEF Owners
    <3>2. PICK p \in Spots(I, g) : Held(d, I, g, p) = s
      BY <3>1
    <3>3. CASE g = f
      BY <1>3, <1>5, <3>2, <3>3 DEF Q, Q2
    <3>4. CASE g # f
      BY <1>4, <3>2, <3>4
    <3>5. QED
      BY <3>3, <3>4
  <2>2. CASE s \notin u
    <3>1. PICK p \in Q2 \ Q : Hold(d2, z2, p) = s
      BY <1>1, <1>10, <2>2 DEF Grown
    <3>2. QED
      BY <3>1 DEF Held, z2, Q2
  <2>3. QED
    BY <2>1, <2>2
<1>11. \A g \in Files : Own(u2, d2, I2[g].zone, Spots(I2, g))
  BY <1>2, <1>4 DEF z2, Q2
<1>12. RootSects \subseteq u2
  BY <1>3 DEF Owners
<1>13. Owners(u2, d2, I2)
  BY <1>8, <1>9, <1>10, <1>11, <1>12 DEF Owners
<1>14. QED
  BY <1>4, <1>13

\* The blocks of all the files are as they were.
LEMMA FramedOwners ==
  ASSUME NEW u, NEW d, NEW I, Owners(u, d, I), NEW d2,
         \A f \in Files : Framed(d, I[f].zone, Spots(I, f), d2)
  PROVE  /\ Owners(u, d2, I)
         /\ \A f \in Files : \A p \in Spots(I, f) : Held(d2, I, f, p) = Held(d, I, f, p)
<1>1. ASSUME NEW f \in Files
      PROVE  /\ Own(u, d2, I[f].zone, Spots(I, f))
             /\ \A p \in Spots(I, f) : Held(d2, I, f, p) = Held(d, I, f, p)
  <2>1. Own(u, d, I[f].zone, Spots(I, f)) /\ Framed(d, I[f].zone, Spots(I, f), d2)
    BY DEF Owners
  <2>2. /\ Shaped(d2, I[f].zone, Spots(I, f))
        /\ \A p \in Spots(I, f) : Hold(d2, I[f].zone, p) = Hold(d, I[f].zone, p)
    BY <2>1, FrameLemma
  <2>3. QED
    BY <2>1, <2>2 DEF Own, Held
<1>2. QED
  BY <1>1 DEF Owners

\* Only the zones and the number of sectors of an inode count.
LEMMA SameOwners ==
  ASSUME NEW u, NEW d, NEW I, Owners(u, d, I), NEW I2,
         \A f \in Files : I2[f].zone = I[f].zone /\ I2[f].nr_sects = I[f].nr_sects
  PROVE  Owners(u, d, I2)
<1>1. \A f \in Files : /\ Spots(I2, f) = Spots(I, f) /\ I2[f].zone = I[f].zone
                       /\ \A p : Held(d, I2, f, p) = Held(d, I, f, p)
  BY DEF Spots, Held
<1>2. QED
  BY <1>1 DEF Owners

\* File f has given back all it had.
LEMMA LessOwners ==
  ASSUME NEW u, NEW d, NEW I, Owners(u, d, I), NEW f \in Files, NEW u2, NEW I2,
         u2 = u \ {Held(d, I, f, p) : p \in Spots(I, f)},
         Shaped(d, I2[f].zone, Spots(I2, f)), Spots(I2, f) = {},
         \A g \in Files : g # f => I2[g] = I[g]
  PROVE  Owners(u2, d, I2)
<1>1. \A g \in Files : g # f => /\ Spots(I2, g) = Spots(I, g) /\ I2[g] = I[g]
                                /\ \A p : Held(d, I2, g, p) = Held(d, I, g, p)
  BY DEF Spots, Held
<1>2. u2 \subseteq u
  OBVIOUS
<1>3. ASSUME NEW g \in Files PROVE Own(u2, d, I2[g].zone, Spots(I2, g))
  <2>1. CASE g = f
    BY <2>1, <1>2 DEF Owners, Own
  <2>2. CASE g # f
    <3>1. Own(u, d, I[g].zone, Spots(I, g))
      BY DEF Owners
    <3>2. ASSUME NEW p \in Spots(I, g) PROVE Hold(d, I[g].zone, p) \in u2
      <4>1. Hold(d, I[g].zone, p) \in u
        BY <3>1 DEF Own
      <4>2. \A q \in Spots(I, f) : Held(d, I, f, q) # Held(d, I, g, p)
        BY <2>2 DEF Owners
      <4>3. QED
        BY <4>1, <4>2 DEF Held
    <3>3. Own(u2, d, I[g].zone, Spots(I, g))
      BY <1>2, <3>1, <3>2 DEF Own
    <3>4. QED
      BY <1>1, <2>2, <3>3
  <2>3. QED
    BY <2>1, <2>2
<1>4. \A g, h \in Files : g # h =>
        \A p \in Spots(I2, g), q \in Spots(I2, h) : Held(d, I2, g, p) # Held(d, I2, h, q)
  BY <1>1 DEF Owners
<1>5. \A g \in Files : \A p \in Spots(I2, g) : Held(d, I2, g, p) \notin RootSects
  BY <1>1 DEF Owners
<1>6. RootSects \subseteq u2
  <2>1. RootSects \subseteq u /\ \A p \in Spots(I, f) : Held(d, I, f, p) \notin RootSects
    BY DEF Owners
  <2>2. QED
    BY <2>1
<1>7. ASSUME NEW s \in u2 \ RootSects
      PROVE  \E g \in Files : \E p \in Spots(I2, g) : Held(d, I2, g, p) = s
  <2>1. PICK g \in Files : \E p \in Spots(I, g) : Held(d, I, g, p) = s
    BY <1>2, <1>7 DEF Owners
  <2>2. g # f
    BY <2>1, <1>7
  <2>3. QED
    BY <1>1, <2>1, <2>2
<1>8. QED
  BY <1>3, <1>4, <1>5, <1>6, <1>7 DEF Owners

----------------------------------------------------------------------------
(* Reading and writing                                                     *)

\* A file of N sectors has its n-th one where Cell(n) says.
LEMMA SectorLemma ==
  ASSUME NEW m, NEW n \in 0..NR_THIRD_LEVEL_ZONE - 1
  PROVE  Sector(m, n) = Hold(m.disk, m.zone, Cell(n))
<1>1. CASE n < ND
  BY <1>1 DEF Sector, Hold, Cell, InZone, ND
<1>2. CASE ~ (n < ND) /\ n < S2
  BY <1>2 DEF Sector, Hold, Cell, InSecond, ND, S2, SECOND_LEVEL_ZONE
<1>3. CASE ~ (n < ND) /\ ~ (n < S2)
  BY <1>3 DEF Sector, Hold, Cell, InBlock, ND, S2, Z, THIRD_LEVEL_ZONE
<1>4. QED
  BY <1>1, <1>2, <1>3

LEMMA DataLemma ==
  ASSUME NEW N \in 0..NR_THIRD_LEVEL_ZONE
  PROVE  /\ \A n \in 0..N - 1 : /\ n \in 0..NR_THIRD_LEVEL_ZONE - 1
                                /\ Cell(n) \in Places(N) /\ ~ IsBlock(Cell(n))
         /\ \A n, k \in 0..N - 1 : Cell(n) = Cell(k) => n = k
         /\ \A p \in Places(N) : ~ IsBlock(p) => \E n \in 0..N - 1 : p = Cell(n)
<1>1. /\ N \in Nat /\ NR_THIRD_LEVEL_ZONE \in Nat
      /\ \A n \in 0..N - 1 : n < N /\ n \in 0..NR_THIRD_LEVEL_ZONE - 1
  BY ConstantsLemma
<1>2. \A n \in 0..N - 1 : Cell(n) \in Cells /\ Need(Cell(n)) = n /\ ~ IsBlock(Cell(n))
  BY <1>1, CellLemma
<1>3. ASSUME NEW p \in Places(N), ~ IsBlock(p) PROVE \E n \in 0..N - 1 : p = Cell(n)
  <2>1. p \in Cells /\ Need(p) < N
    BY DEF Places
  <2>2. Need(p) \in Nat /\ p = Cell(Need(p))
    BY <1>3, <2>1, CellLemma
  <2>3. Need(p) \in 0..N - 1
    BY <1>1, <2>1, <2>2
  <2>4. QED
    BY <2>2, <2>3
<1>4. QED
  BY <1>1, <1>2, <1>3 DEF Places

\* A sector of the file is the buffer's, and the file has the sectors it had.
WriteLoop(f, pos, len, m, L) ==
  CHOOSE h : h = [k \in 0..L |-> IF k = 0 THEN m ELSE WriteSect(f, pos, len, h[k - 1], k - 1)]

DataAt(m, n) == Hold(m.disk, m.zone, Cell(n))

\* The first k sectors of the buffer are in the sectors of the file from c on.
Loaded(f, pos, len, m, c, k, w) ==
  /\ w \in Mem /\ w.smap = m.smap /\ w.zone = m.zone /\ w.ok = m.ok
  /\ \A j \in 0..k - 1 : w.disk[DataAt(m, c + j)] = Buffer(f, pos, len, j)
  /\ \A s \in Zones : (\A j \in 0..k - 1 : s # DataAt(m, c + j)) => w.disk[s] = m.disk[s]

LEMMA BufferLemma ==
  ASSUME NEW f \in Files, NEW pos \in Nat, NEW len \in Nat, NEW k \in Nat
  PROVE  Buffer(f, pos, len, k) \in Contents
<1>1. \A o \in 0..SECTOR_SIZE - 1 : k * SECTOR_SIZE + o \in Nat /\ pos + (k * SECTOR_SIZE + o) \in Nat
  BY ConstantsLemma
<1>2. \A b \in Nat : pos + b \in Nat => Byte(f, pos + b) \in Bytes
  BY DEF Bytes
<1>3. Other \in Bytes
  BY DEF Bytes
<1>4. \A o \in 0..SECTOR_SIZE - 1 :
        (LET b == k * SECTOR_SIZE + o IN IF b < len THEN Byte(f, pos + b) ELSE Other) \in Bytes
  BY <1>1, <1>2, <1>3
<1>5. QED
  BY <1>4 DEF Buffer, Contents

LEMMA WriteRound ==
  ASSUME NEW m \in Mem, NEW N \in 0..NR_THIRD_LEVEL_ZONE,
         Own(m.smap, m.disk, m.zone, Places(N)),
         NEW f \in Files, NEW pos \in Nat, NEW len \in Nat, NEW c \in Nat, c = FirstSect(pos),
         NEW k \in Nat, c + k < N, NEW x, Loaded(f, pos, len, m, c, k, x),
         NEW y, y = WriteSect(f, pos, len, x, k)
  PROVE  Loaded(f, pos, len, m, c, k + 1, y)
<1> DEFINE P == Places(N)
           t == DataAt(m, c + k)
           B == Buffer(f, pos, len, k)
<1>1. /\ c + k \in 0..N - 1 /\ c + k \in 0..NR_THIRD_LEVEL_ZONE - 1
      /\ \A j \in 0..k - 1 : c + j \in 0..N - 1 /\ c + j # c + k
  BY ConstantsLemma
<1>2. /\ \A n \in 0..N - 1 : Cell(n) \in P /\ ~ IsBlock(Cell(n)) /\ DataAt(m, n) \in Zones
      /\ \A n, l \in 0..N - 1 : n # l => DataAt(m, n) # DataAt(m, l)
      /\ \A n \in 0..N - 1 : \A p \in P : IsBlock(p) => Hold(m.disk, m.zone, p) # DataAt(m, n)
  <2>1. /\ \A n \in 0..N - 1 : Cell(n) \in P /\ ~ IsBlock(Cell(n))
        /\ \A n, l \in 0..N - 1 : Cell(n) = Cell(l) => n = l
    BY DataLemma
  <2>2. /\ \A p \in P : Hold(m.disk, m.zone, p) \in Zones
        /\ \A p, q \in P : Hold(m.disk, m.zone, p) = Hold(m.disk, m.zone, q) => p = q
    BY DEF Own, Zones
  <2> HIDE DEF P
  <2>3. QED
    BY <2>1, <2>2 DEF DataAt
<1>3. Framed(m.disk, m.zone, P, x.disk)
  <2>1. SUFFICES ASSUME NEW p \in P, IsBlock(p)
                 PROVE  x.disk[Hold(m.disk, m.zone, p)] = m.disk[Hold(m.disk, m.zone, p)]
    BY DEF Framed
  <2>2. Hold(m.disk, m.zone, p) \in Zones
    BY DEF Own, Zones
  <2>3. \A j \in 0..k - 1 : Hold(m.disk, m.zone, p) # DataAt(m, c + j)
    BY <1>1, <1>2, <2>1
  <2>4. QED
    BY <2>2, <2>3 DEF Loaded
<1>4. Sector(x, c + k) = t
  <2>1. Hold(x.disk, m.zone, Cell(c + k)) = Hold(m.disk, m.zone, Cell(c + k))
    <3>1. Cell(c + k) \in P
      BY <1>1, <1>2
    <3>2. \A p \in P : Hold(x.disk, m.zone, p) = Hold(m.disk, m.zone, p)
      <4> HIDE DEF P
      <4>1. Own(m.smap, m.disk, m.zone, P)
        BY DEF P
      <4>2. QED
        BY <1>3, <4>1, FrameLemma
    <3>3. QED
      BY <3>1, <3>2
  <2>2. Sector(x, c + k) = Hold(x.disk, x.zone, Cell(c + k))
    BY <1>1, SectorLemma
  <2>3. QED
    BY <2>1, <2>2 DEF Loaded, DataAt
<1>5. y = [x EXCEPT !.disk[t] = B]
  BY <1>4 DEF WriteSect
<1>6. B \in Contents /\ t \in Zones
  BY <1>1, <1>2, BufferLemma
<1> HIDE DEF t, B, P
<1>7. /\ x \in Mem /\ x.smap = m.smap /\ x.zone = m.zone /\ x.ok = m.ok
      /\ \A j \in 0..k - 1 : x.disk[DataAt(m, c + j)] = Buffer(f, pos, len, j)
      /\ \A s \in Zones : (\A j \in 0..k - 1 : s # DataAt(m, c + j)) => x.disk[s] = m.disk[s]
  BY DEF Loaded
<1>8. y \in Mem /\ y.smap = x.smap /\ y.zone = x.zone /\ y.ok = x.ok
      /\ y.disk[t] = B /\ \A s \in Zones : s # t => y.disk[s] = x.disk[s]
  <2> DEFINE w == [x.disk EXCEPT ![t] = B]
  <2>1. w \in [Zones -> Contents] /\ w[t] = B /\ \A s \in Zones : s # t => w[s] = x.disk[s]
    BY <1>6, <1>7 DEF Mem
  <2>2. y = [x EXCEPT !.disk = w]
    BY <1>5, <1>7 DEF Mem
  <2> HIDE DEF w
  <2>3. y \in Mem /\ y.smap = x.smap /\ y.zone = x.zone /\ y.ok = x.ok /\ y.disk = w
    BY <1>7, <2>1, <2>2 DEF Mem
  <2>4. QED
    BY <2>1, <2>3
<1>9. ASSUME NEW j \in 0..(k + 1) - 1
      PROVE  y.disk[DataAt(m, c + j)] = Buffer(f, pos, len, j)
  <2>1. CASE j = k
    BY <1>8, <2>1 DEF t, B
  <2>2. CASE j # k
    <3>1. j \in 0..k - 1
      BY <2>2
    <3>2. DataAt(m, c + j) # t /\ DataAt(m, c + j) \in Zones
      BY <1>1, <1>2, <3>1 DEF t
    <3>3. QED
      BY <1>7, <1>8, <3>1, <3>2
  <2>3. QED
    BY <2>1, <2>2
<1>10. ASSUME NEW s \in Zones, \A j \in 0..(k + 1) - 1 : s # DataAt(m, c + j)
       PROVE  y.disk[s] = m.disk[s]
  <2>1. k \in 0..(k + 1) - 1 /\ \A j \in 0..k - 1 : j \in 0..(k + 1) - 1
    OBVIOUS
  <2>2. s # t /\ \A j \in 0..k - 1 : s # DataAt(m, c + j)
    BY <1>10, <2>1 DEF t
  <2>3. QED
    BY <1>7, <1>8, <2>2
<1>11. QED
  BY <1>7, <1>8, <1>9, <1>10 DEF Loaded

LEMMA WriteLoopLemma ==
  ASSUME NEW m \in Mem, NEW N \in 0..NR_THIRD_LEVEL_ZONE,
         Own(m.smap, m.disk, m.zone, Places(N)),
         NEW f \in Files, NEW pos \in Nat, NEW len \in Nat, NEW c \in Nat, c = FirstSect(pos),
         NEW L \in Nat, c + L <= N, NEW w, w = WriteLoop(f, pos, len, m, L)[L]
  PROVE  Loaded(f, pos, len, m, c, L, w)
<1> DEFINE Step(x, k) == WriteSect(f, pos, len, x, k - 1)
           g == [t \in (1..L) \X Mem |-> Step(t[2], t[1])]
           M == [k \in 0..L |-> {x \in Mem : Loaded(f, pos, len, m, c, k, x)}]
           F(h) == [k \in 0..L |-> IF k = 0 THEN m ELSE Step(h[k - 1], k)]
           at == WriteLoop(f, pos, len, m, L)
<1>1. \A k \in 1..L : k - 1 \in Nat /\ k - 1 \in 0..L /\ k \in 0..L /\ c + (k - 1) < N
                      /\ (k - 1) + 1 = k
  BY ConstantsLemma
<1>2. 0 \in 0..L /\ L \in 0..L
  OBVIOUS
<1>3. g \in [(1..L) \X Mem -> Mem]
  <2>1. ASSUME NEW x \in Mem, NEW k \in 1..L PROVE Step(x, k) \in Mem
    <3> DEFINE t == Sector(x, FirstSect(pos) + (k - 1))
               B == Buffer(f, pos, len, k - 1)
               d == [x.disk EXCEPT ![t] = B]
    <3>1. B \in Contents
      BY <1>1, BufferLemma
    <3> HIDE DEF t, B
    <3>2. d \in [Zones -> Contents]
      BY <3>1 DEF Mem
    <3>3. Step(x, k) = [x EXCEPT !.disk = d]
      BY DEF WriteSect, t, B
    <3> HIDE DEF d, Step
    <3>4. QED
      BY <3>2, <3>3 DEF Mem
  <2> HIDE DEF Step
  <2>2. QED
    BY <2>1
<1> HIDE DEF g
<1>4. PICK e : Runs(e, L, Mem, m, g)
  BY <1>3, LoopExists
<1>5. \A i \in 1..L : e[i] = Step(e[i - 1], i) /\ e[i - 1] \in Mem
  BY <1>1, <1>4 DEF g, Runs
<1> HIDE DEF Step
<1>6. e = F(e)
  <2>1. e = [i \in 0..L |-> e[i]] /\ e[0] = m
    BY <1>4 DEF Runs
  <2>2. ASSUME NEW i \in 0..L PROVE e[i] = IF i = 0 THEN m ELSE Step(e[i - 1], i)
    <3>1. i = 0 \/ i \in 1..L
      OBVIOUS
    <3>2. QED
      BY <1>5, <2>1, <3>1
  <2>3. QED
    BY <2>1, <2>2
<1>7. at = F(at)
  BY <1>6 DEF WriteLoop, Step
<1> HIDE DEF at
<1>8. at[0] = m /\ \A i \in 1..L : at[i] = Step(at[i - 1], i)
  BY <1>1, <1>2, <1>7
<1>9. at[0] \in M[0]
  <2>1. Loaded(f, pos, len, m, c, 0, m)
    BY DEF Loaded
  <2>2. QED
    BY <1>2, <1>8, <2>1
<1>10. ASSUME NEW i \in 1..L, at[i - 1] \in M[i - 1] PROVE at[i] \in M[i]
  <2> DEFINE x == at[i - 1]
             y == at[i]
             k == i - 1
  <2>1. Loaded(f, pos, len, m, c, k, x)
    BY <1>1, <1>10
  <2>2. y = WriteSect(f, pos, len, x, k)
    BY <1>8 DEF Step
  <2>3. k \in Nat /\ c + k < N /\ k + 1 = i
    BY <1>1
  <2> HIDE DEF x, y, k
  <2>4. Loaded(f, pos, len, m, c, k + 1, y)
    BY <2>1, <2>2, <2>3, WriteRound
  <2>5. y \in Mem
    BY <2>4 DEF Loaded
  <2>6. y \in M[i]
    BY <1>1, <2>3, <2>4, <2>5
  <2>7. QED
    BY <2>6 DEF y
<1>11. at[L] \in M[L]
  <2> HIDE DEF M
  <2>1. \A i \in 0..L : at[i] \in M[i]
    BY <1>9, <1>10, LoopInduction
  <2>2. QED
    BY <1>2, <2>1, Zenon
<1>12. QED
  BY <1>2, <1>11 DEF at

\* What a transfer from the start of a sector covers.
Covers(pos, len, c, L, e) ==
  /\ c \in Nat /\ L \in Nat /\ c + L = e /\ e \in Nat /\ pos = c * SECTOR_SIZE
  /\ pos + len <= e * SECTOR_SIZE
  /\ (pos + len) % SECTOR_SIZE = 0 => pos + len = e * SECTOR_SIZE
  /\ \A p \in pos..pos + len - 1 : p \div SECTOR_SIZE \in c..e - 1
  /\ \A p \in Nat : p \div SECTOR_SIZE \in c..e - 1 =>
       LET j == p \div SECTOR_SIZE - c
           b == j * SECTOR_SIZE + (p % SECTOR_SIZE)
       IN j \in 0..L - 1 /\ b \in Nat /\ pos + b = p
  /\ \A n \in Nat : pos + len <= n * SECTOR_SIZE => e <= n

LEMMA CoverLemma ==
  ASSUME NEW pos \in Nat, pos % SECTOR_SIZE = 0, NEW len \in Nat,
         NEW c, c = FirstSect(pos), NEW L, L = NrSects(pos, len)
  PROVE  Covers(pos, len, c, L, EndSect(pos, len))
<1> DEFINE N == SECTOR_SIZE
           q == len \div N
           r == len % N
           e == c + L
<1>1. N \in Nat \ {0}
  BY ConstantsLemma
<1>2. /\ \A l \in Nat : l \div N \in Nat /\ l % N \in 0..N - 1 /\ l = (l \div N) * N + (l % N)
      /\ \A a \in Nat, k \in 0..N - 1 : (a * N + k) \div N = a /\ (a * N + k) % N = k
  <2> HIDE DEF N
  <2>1. QED
    BY <1>1, DivLemma
<1>3. \A x, y \in Nat : x < y => x * N + N <= y * N
  <2> HIDE DEF N
  <2>1. QED
    BY <1>1, ProductLemma
<1>4. \A x \in Nat : x * N \in Nat
  BY <1>1
<1>5. c \in Nat /\ pos = c * N
  <2>1. c = pos \div N
    BY DEF FirstSect
  <2>2. pos \div N \in Nat /\ pos = (pos \div N) * N + (pos % N)
    BY <1>2
  <2> HIDE DEF N
  <2>3. pos % N = 0
    BY DEF N
  <2>4. (pos \div N) * N \in Nat
    BY <1>4, <2>2
  <2>5. QED
    BY <2>1, <2>2, <2>3, <2>4
<1>6. q \in Nat /\ r \in 0..N - 1 /\ len = q * N + r /\ q * N \in Nat
  BY <1>2, <1>4
<1>7. (c + q) * N = pos + q * N /\ pos + len = (c + q) * N + r
  <2> HIDE DEF N, q, r
  <2>1. QED
    BY <1>1, <1>5, <1>6
<1>8. (pos + len) % N = r
  <2> HIDE DEF N, q, r
  <2>1. c + q \in Nat
    BY <1>5, <1>6
  <2>2. ((c + q) * N + r) % N = r
    BY <1>2, <1>6, <2>1, Zenon
  <2>3. QED
    BY <1>7, <2>2
<1>9. L = IF r > 0 THEN q + 1 ELSE q
  <2>1. L = q + IF (pos + len) % N > 0 THEN 1 ELSE 0
    BY DEF NrSects
  <2> HIDE DEF N, q, r
  <2>2. QED
    BY <1>6, <1>8, <2>1
<1> HIDE DEF N, q, r
<1>10. L \in Nat /\ e \in Nat /\ e * N \in Nat
  BY <1>1, <1>4, <1>5, <1>6, <1>9
<1>11. pos + len <= e * N /\ (r = 0 => pos + len = e * N)
  <2>1. CASE r = 0
    <3>1. e = c + q
      BY <1>9, <2>1
    <3>2. QED
      BY <1>6, <1>7, <1>10, <2>1, <3>1
  <2>2. CASE r # 0
    <3>1. e = (c + q) + 1 /\ c + q \in Nat
      BY <1>5, <1>6, <1>9, <2>2
    <3>2. (c + q) * N + N <= e * N
      <4>1. c + q < e
        BY <3>1
      <4>2. QED
        BY <1>3, <1>10, <3>1, <4>1
    <3>3. (c + q) * N \in Nat
      BY <1>4, <3>1
    <3>4. QED
      BY <1>1, <1>6, <1>7, <1>10, <2>2, <3>2, <3>3
  <2>3. QED
    BY <2>1, <2>2
<1>12. ASSUME NEW p \in pos..pos + len - 1 PROVE p \div N \in c..e - 1
  <2> DEFINE k == p \div N
             o == p % N
  <2>1. p \in Nat /\ pos <= p /\ p < pos + len
    BY <1>5
  <2>2. k \in Nat /\ o \in 0..N - 1 /\ p = k * N + o /\ k * N \in Nat
    BY <1>2, <1>4, <2>1
  <2> HIDE DEF k, o
  <2>3. ~ (k < c)
    <3>1. SUFFICES ASSUME k < c PROVE FALSE
      OBVIOUS
    <3>2. k * N + N <= c * N
      BY <1>3, <1>5, <2>2, <3>1
    <3>3. QED
      BY <1>1, <1>5, <2>1, <2>2, <3>2
  <2>4. k < e
    <3>1. SUFFICES ASSUME ~ (k < e) PROVE FALSE
      OBVIOUS
    <3>2. e * N <= k * N
      <4>1. CASE e = k
        BY <1>10, <4>1
      <4>2. CASE e < k
        <5>1. e * N + N <= k * N
          BY <1>3, <1>10, <2>2, <4>2
        <5>2. QED
          BY <1>1, <1>10, <2>2, <5>1
      <4>3. QED
        BY <1>10, <2>2, <3>1, <4>1, <4>2
    <3>3. QED
      BY <1>1, <1>10, <1>11, <2>1, <2>2, <3>2
  <2>5. QED
    BY <1>5, <1>10, <2>2, <2>3, <2>4 DEF k
<1>13. ASSUME NEW p \in Nat, p \div N \in c..e - 1
       PROVE  LET j == p \div N - c
                  b == j * N + (p % N)
              IN j \in 0..L - 1 /\ b \in Nat /\ pos + b = p
  <2> DEFINE k == p \div N
             o == p % N
             j == k - c
  <2>1. k \in Nat /\ o \in 0..N - 1 /\ p = k * N + o /\ k * N \in Nat /\ k \in c..e - 1
    BY <1>2, <1>4, <1>13
  <2> HIDE DEF k, o
  <2>2. j \in Nat /\ j \in 0..L - 1 /\ k = c + j
    BY <1>5, <1>10, <2>1
  <2> HIDE DEF j
  <2>3. j * N \in Nat /\ k * N = c * N + j * N
    <3>1. (c + j) * N = c * N + j * N
      <4>1. c \in Nat /\ j \in Nat /\ N \in Nat
        BY <1>1, <1>5, <2>2
      <4>2. QED
        BY <4>1
    <3>2. QED
      BY <1>4, <2>2, <3>1
  <2>4. j * N + o \in Nat /\ pos + (j * N + o) = p
    <3>1. /\ j * N \in Nat /\ c * N \in Nat /\ o \in Nat /\ pos = c * N
          /\ p = c * N + j * N + o
      BY <1>1, <1>4, <1>5, <2>1, <2>3
    <3>2. QED
      BY <3>1
  <2>5. QED
    BY <2>2, <2>4 DEF j, k, o
<1>14. ASSUME NEW n \in Nat, pos + len <= n * N PROVE e <= n
  <2>1. SUFFICES ASSUME n < e PROVE FALSE
    BY <1>10
  <2>2. n * N \in Nat
    BY <1>4
  <2>3. CASE r = 0
    <3>1. n * N + N <= e * N
      BY <1>3, <1>10, <2>1
    <3>2. QED
      BY <1>1, <1>10, <1>11, <1>14, <2>2, <2>3, <3>1
  <2>4. CASE r # 0
    <3>1. e = (c + q) + 1 /\ c + q \in Nat
      BY <1>5, <1>6, <1>9, <2>4
    <3>2. n * N <= (c + q) * N
      <4>1. CASE n = c + q
        BY <2>2, <4>1
      <4>2. CASE n < c + q
        <5>1. n * N + N <= (c + q) * N /\ (c + q) * N \in Nat
          BY <1>3, <1>4, <3>1, <4>2
        <5>2. QED
          BY <1>1, <2>2, <5>1
      <4>3. QED
        BY <2>1, <3>1, <4>1, <4>2
    <3>3. (c + q) * N \in Nat
      BY <1>4, <3>1
    <3>4. QED
      BY <1>6, <1>7, <1>14, <2>2, <2>4, <3>2, <3>3
  <2>5. QED
    BY <2>3, <2>4
<1>15. c + L = EndSect(pos, len)
  BY DEF EndSect
<1>16. QED
  BY <1>5, <1>8, <1>10, <1>11, <1>12, <1>13, <1>14, <1>15 DEF N, Covers

----------------------------------------------------------------------------
(* The invariant                                                           *)

Inodes == [zone : [0..ND + 1 -> Zones], nr_sects : Nat, size : Nat]

\* What has been written is there.
Kept(d, I, w) ==
  \A f \in Files : \A p \in w[f] :
    d[Held(d, I, f, Cell(p \div SECTOR_SIZE))][p % SECTOR_SIZE] = Byte(f, p)

FileOK(I, w, f) ==
  /\ I[f].nr_sects \in {0} \cup ND..NR_THIRD_LEVEL_ZONE
  /\ I[f].size <= I[f].nr_sects * SECTOR_SIZE
  /\ w[f] \subseteq 0..I[f].size - 1
  /\ I[f].nr_sects > 0 => \A i \in 0..ND - 1 : I[f].zone[i] = I[f].zone[0] + i
  /\ f = CmdTar => I[f].nr_sects > ND

\* An open file: its inode is the one on the disk.
OpenOK(f) ==
  f \in opened => /\ inode[f] = dinode[f] /\ dinode[f].nr_sects > 0
                  /\ fd_pos[f] <= dinode[f].size

Typed ==
  /\ disk \in [Zones -> Contents] /\ dinode \in [Files -> Inodes] /\ inode \in [Files -> Inodes]
  /\ opened \subseteq Files /\ fd_pos \in [Files -> Nat] /\ written \in [Files -> SUBSET Nat]

FilesOK == \A f \in Files : FileOK(dinode, written, f) /\ OpenOK(f)

Inv ==
  /\ Typed
  /\ Owners(smap, disk, dinode)
  /\ Kept(disk, dinode, written)
  /\ FilesOK

\* The sector of a byte of a file of n sectors.
LEMMA ByteLemma ==
  ASSUME NEW n \in Nat, NEW p \in Nat, p < n * SECTOR_SIZE
  PROVE  p \div SECTOR_SIZE \in 0..n - 1 /\ p % SECTOR_SIZE \in 0..SECTOR_SIZE - 1
<1> DEFINE N == SECTOR_SIZE
           k == p \div N
           o == p % N
<1>1. N \in Nat \ {0}
  BY ConstantsLemma
<1> HIDE DEF N
<1>2. k \in Nat /\ o \in 0..N - 1 /\ p = k * N + o
  BY <1>1, DivLemma
<1>3. \A x, y \in Nat : x < y => x * N + N <= y * N /\ x * N \in Nat /\ y * N \in Nat
  BY <1>1, ProductLemma
<1>4. p < n * N
  BY DEF N
<1> HIDE DEF k, o
<1>5. k < n
  <2>1. SUFFICES ASSUME ~ (k < n) PROVE FALSE
    OBVIOUS
  <2>2. n * N \in Nat /\ k * N \in Nat
    BY <1>1, <1>2
  <2>3. CASE n = k
    BY <1>2, <1>4, <2>2, <2>3
  <2>4. CASE n < k
    BY <1>1, <1>2, <1>3, <1>4, <2>2, <2>4
  <2>5. QED
    BY <1>2, <2>1, <2>3, <2>4
<1>6. QED
  BY <1>2, <1>5 DEF N, k, o

\* A sector of bytes stays as it is while a file grows.
LEMMA DataKept ==
  ASSUME NEW u, NEW d, NEW I, NEW f, NEW u2, NEW d2, NEW I2, Grows(u, d, I, f, u2, d2, I2),
         NEW g \in Files, NEW q \in Spots(I, g), ~ IsBlock(q)
  PROVE  d2[Held(d, I, g, q)] = d[Held(d, I, g, q)] /\ Held(d, I, g, q) \in u
<1>0. /\ Owners(u, d, I) /\ f \in Files
      /\ Grown(u, d, I[f].zone, Spots(I, f), u2, d2, I2[f].zone, Spots(I2, f))
  BY DEF Grows
<1> USE <1>0
<1>1. Own(u, d, I[g].zone, Spots(I, g)) /\ Own(u, d, I[f].zone, Spots(I, f))
  BY DEF Owners
<1>2. Held(d, I, g, q) \in u
  BY <1>1 DEF Own, Held
<1>3. ASSUME NEW p \in Spots(I, f), IsBlock(p) PROVE Hold(d, I[f].zone, p) # Held(d, I, g, q)
  <2>1. CASE f = g
    BY <1>1, <1>3, <2>1 DEF Own, Held
  <2>2. CASE f # g
    BY <1>3, <2>2 DEF Owners, Held
  <2>3. QED
    BY <2>1, <2>2
<1>4. QED
  BY <1>2, <1>3 DEF Grown

LEMMA StartLemma ==
  ASSUME Typed, Owners(smap, disk, dinode), NEW ino \in Inodes
  PROVE  /\ Start(ino) \in Mem /\ Start(ino).smap = smap /\ Start(ino).disk = disk
         /\ Start(ino).zone = ino.zone /\ Start(ino).next = 0 /\ Start(ino).ok
         /\ smap \subseteq Sectors
<1>1. smap \subseteq Sectors
  BY FsSectAssumption DEF Owners, Own
<1>2. NoZones \in Block
  BY NoZonesLemma
<1>3. ino.zone \in [0..ND + 1 -> Zones] /\ disk \in [Zones -> Contents] /\ NO_ZONE \in Zones
  BY DEF Inodes, Typed, Zones
<1>4. QED
  BY <1>1, <1>2, <1>3 DEF Start, Mem

\* What a write leaves: m, by way of a.
WrittenBy(f, pos, len, ino, n2, a, m) ==
  /\ a \in Mem /\ n2 \in ND..NR_THIRD_LEVEL_ZONE /\ EndSect(pos, len) <= n2
  /\ n2 = Max({ino.nr_sects, EndSect(pos, len)})
  /\ Grown(smap, disk, ino.zone, Places(ino.nr_sects), a.smap, a.disk, a.zone, Places(n2))
  /\ Loaded(f, pos, len, a, FirstSect(pos), NrSects(pos, len), m)
  /\ EndSect(pos, len) <= ino.nr_sects => a.zone = ino.zone

LEMMA WrittenLemma ==
  ASSUME Inv, NEW f \in opened, NEW pos, pos = fd_pos[f], NEW len \in Nat, Fits(f, pos, len),
         NEW m, m = Written(f, pos, len), m.ok,
         NEW ino, ino = dinode[f]
  PROVE  \E a, n2 : WrittenBy(f, pos, len, ino, n2, a, m)
<1> DEFINE nr == ino.nr_sects
           e == EndSect(pos, len)
           L == NrSects(pos, len)
           c == FirstSect(pos)
           x == Start(ino)
           a == IF e > nr THEN AllocZone(x, nr, e) ELSE x
           n2 == IF e > nr THEN e ELSE nr
<1>1. /\ f \in Files /\ inode[f] = ino /\ ino \in Inodes /\ nr \in ND..NR_THIRD_LEVEL_ZONE
      /\ pos \in Nat /\ pos % SECTOR_SIZE = 0
      /\ e > Max({nr, S2}) => e = nr + 1
  <2>1. f \in Files /\ inode[f] = ino /\ ino \in Inodes /\ nr > 0 /\ pos \in Nat
        /\ nr \in {0} \cup ND..NR_THIRD_LEVEL_ZONE
    BY DEF Inv, Typed, FilesOK, FileOK, OpenOK
  <2>2. QED
    BY <2>1 DEF Fits, S2
<1>2. c \in Nat /\ L \in Nat /\ e = c + L
  <2> HIDE DEF c, L, e
  <2>1. c = FirstSect(pos) /\ L = NrSects(pos, len) /\ e = EndSect(pos, len)
    BY DEF c, L, e
  <2>2. Covers(pos, len, c, L, e)
    BY <1>1, <2>1, CoverLemma
  <2>3. QED
    BY <2>2 DEF Covers
<1>3. /\ x \in Mem /\ x.smap = smap /\ x.disk = disk /\ x.zone = ino.zone /\ x.next = 0 /\ x.ok
  BY <1>1, StartLemma DEF Inv
<1>4. Own(smap, disk, ino.zone, Places(nr))
  BY <1>1 DEF Inv, Owners, Spots
<1>5. m = IF a.ok THEN WriteLoop(f, pos, len, a, L)[L] ELSE a
  <2>1. m = LET i == inode[f]
                b == IF e > i.nr_sects THEN AllocZone(Start(i), i.nr_sects, e) ELSE Start(i)
            IN IF b.ok THEN WriteLoop(f, pos, len, b, L)[L] ELSE b
    BY DEF Written, WriteLoop
  <2>2. QED
    BY <1>1, <2>1
<1> HIDE DEF x, c, L, e
<1>6. a.ok /\ m = WriteLoop(f, pos, len, a, L)[L]
  <2> HIDE DEF a
  <2>1. CASE a.ok
    BY <1>5, <2>1
  <2>2. CASE ~ a.ok
    BY <1>5, <2>2
  <2>3. QED
    BY <2>1, <2>2
<1>7. /\ a \in Mem /\ n2 \in ND..NR_THIRD_LEVEL_ZONE /\ e <= n2
      /\ Grown(smap, disk, ino.zone, Places(nr), a.smap, a.disk, a.zone, Places(n2))
      /\ e <= nr => a.zone = ino.zone
  <2>1. CASE e > nr
    <3>1. a = AllocZone(x, nr, e) /\ n2 = e /\ e \in Nat /\ nr < e
      BY <1>1, <1>2, <2>1
    <3> HIDE DEF a, n2
    <3>2. Own(x.smap, x.disk, x.zone, Places(nr))
      BY <1>3, <1>4
    <3>3. AllocGrows(x, nr, e, a)
      <4> HIDE DEF nr
      <4>1. QED
        BY <1>1, <1>3, <3>1, <3>2, AllocZoneLemma
    <3>4. /\ a \in Mem /\ e <= NR_THIRD_LEVEL_ZONE
          /\ Grown(x.smap, x.disk, x.zone, Places(nr), a.smap, a.disk, a.zone, Places(e))
      BY <1>6, <3>3 DEF AllocGrows
    <3>5. n2 \in ND..NR_THIRD_LEVEL_ZONE /\ ~ (e <= nr) /\ e <= n2
      BY <1>1, <3>1, <3>4, ConstantsLemma
    <3>6. QED
      BY <1>3, <3>1, <3>4, <3>5
  <2>2. CASE ~ (e > nr)
    <3>1. a = x /\ n2 = nr /\ e <= n2
      BY <1>1, <1>2, <2>2, ConstantsLemma
    <3>2. Grown(smap, disk, ino.zone, Places(nr), smap, disk, ino.zone, Places(nr))
      BY <1>4, GrownSelf
    <3>3. QED
      BY <1>1, <1>3, <3>1, <3>2
  <2>3. QED
    BY <2>1, <2>2
<1>8. n2 = Max({nr, e})
  <2>1. nr \in Nat /\ e \in Nat
    BY <1>1, <1>2, ConstantsLemma
  <2>2. QED
    BY <2>1, MinMaxLemma
<1> HIDE DEF a, n2
<1>9. Loaded(f, pos, len, a, c, L, m)
  <2>1. Own(a.smap, a.disk, a.zone, Places(n2))
    BY <1>4, <1>7, GrownOwn
  <2>2. n2 \in 0..NR_THIRD_LEVEL_ZONE /\ c + L <= n2 /\ c = FirstSect(pos)
    BY <1>2, <1>7, ConstantsLemma DEF c
  <2>3. QED
    BY <1>1, <1>2, <1>6, <1>7, <2>1, <2>2, WriteLoopLemma
<1>10. WrittenBy(f, pos, len, ino, n2, a, m)
  BY <1>7, <1>8, <1>9 DEF WrittenBy, c, L, e
<1>11. QED
  BY <1>10

\* A write preserves what the invariant says of files, in the inodes I2.
Longer(f, pos, len, ino, m) ==
  [zone |-> m.zone, nr_sects |-> Max({ino.nr_sects, EndSect(pos, len)}),
   size |-> Max({ino.size, pos + len})]

Became(I, f, i, I2) == I2 = [I EXCEPT ![f] = i]

WriteDone(f, pos, len, m, ino, I2) ==
  /\ Owners(m.smap, m.disk, I2)
  /\ \A g \in Files : g # f => I2[g] = dinode[g]
  /\ \A n \in 0..ino.nr_sects - 1 :
       Held(m.disk, I2, f, Cell(n)) = Held(disk, dinode, f, Cell(n))
  /\ \A g \in Files : g # f => \A p \in Spots(dinode, g) :
       Held(m.disk, I2, g, p) = Held(disk, dinode, g, p)
  /\ \A g \in Files : \A n \in 0..dinode[g].nr_sects - 1 :
       g # f \/ n \notin FirstSect(pos)..EndSect(pos, len) - 1 =>
          m.disk[Held(disk, dinode, g, Cell(n))] = disk[Held(disk, dinode, g, Cell(n))]
  /\ \A j \in 0..NrSects(pos, len) - 1 :
       m.disk[Held(m.disk, I2, f, Cell(FirstSect(pos) + j))] = Buffer(f, pos, len, j)

LEMMA WriteOwners ==
  ASSUME Inv, NEW f \in opened, NEW pos \in Nat, NEW len \in Nat, pos % SECTOR_SIZE = 0,
         NEW a, NEW n2, NEW m, NEW ino, ino = dinode[f], WrittenBy(f, pos, len, ino, n2, a, m),
         NEW I2, Became(dinode, f, Longer(f, pos, len, ino, m), I2)
  PROVE  WriteDone(f, pos, len, m, ino, I2)
<1> DEFINE nr == ino.nr_sects
           e == EndSect(pos, len)
           L == NrSects(pos, len)
           c == FirstSect(pos)
<1>1. /\ f \in Files /\ dinode \in [Files -> Inodes] /\ Owners(smap, disk, dinode)
      /\ \A g \in Files : dinode[g].nr_sects \in 0..NR_THIRD_LEVEL_ZONE
  BY ConstantsLemma DEF Inv, Typed, FilesOK, FileOK
<1>2. /\ a \in Mem /\ n2 \in 0..NR_THIRD_LEVEL_ZONE /\ e <= n2 /\ n2 \in Nat
      /\ Grown(smap, disk, ino.zone, Places(nr), a.smap, a.disk, a.zone, Places(n2))
      /\ Loaded(f, pos, len, a, c, L, m)
  BY ConstantsLemma DEF WrittenBy
<1>3. /\ I2[f].zone = m.zone /\ I2[f].nr_sects = n2 /\ m.zone = a.zone /\ m.smap = a.smap
      /\ Spots(I2, f) = Places(n2) /\ Spots(dinode, f) = Places(nr)
      /\ \A g \in Files : g # f => I2[g] = dinode[g] /\ Spots(I2, g) = Spots(dinode, g)
  <2>1. I2[f] = Longer(f, pos, len, ino, m) /\ \A g \in Files : g # f => I2[g] = dinode[g]
    BY <1>1 DEF Became
  <2>2. I2[f].zone = m.zone /\ I2[f].nr_sects = n2
    BY <2>1 DEF Longer, WrittenBy
  <2>3. m.zone = a.zone /\ m.smap = a.smap
    BY <1>2 DEF Loaded
  <2>4. QED
    BY <2>1, <2>2, <2>3 DEF Spots
<1>4. c \in Nat /\ L \in Nat /\ e = c + L /\ e \in Nat
  <2> HIDE DEF c, L, e
  <2>1. c = FirstSect(pos) /\ L = NrSects(pos, len) /\ e = EndSect(pos, len)
    BY DEF c, L, e
  <2>2. Covers(pos, len, c, L, e)
    BY <2>1, CoverLemma
  <2>3. QED
    BY <2>2 DEF Covers
<1>5. Grows(smap, disk, dinode, f, a.smap, a.disk, I2)
  BY <1>1, <1>2, <1>3 DEF Grows
<1>6. /\ Owners(a.smap, a.disk, I2)
      /\ \A g \in Files : g # f => \A p \in Spots(dinode, g) :
           Held(a.disk, I2, g, p) = Held(disk, dinode, g, p)
  BY <1>5, GrownOwners
<1>17. /\ \A g \in Files : Own(a.smap, a.disk, I2[g].zone, Spots(I2, g))
       /\ \A g, h \in Files : g # h =>
            \A p \in Spots(I2, g), q \in Spots(I2, h) : Held(a.disk, I2, g, p) # Held(a.disk, I2, h, q)
  BY <1>6 DEF Owners
<1> HIDE DEF nr, e, L, c
<1>7. /\ \A n \in 0..n2 - 1 : Cell(n) \in Spots(I2, f) /\ ~ IsBlock(Cell(n))
      /\ \A n, k \in 0..n2 - 1 : Cell(n) = Cell(k) => n = k
  BY <1>2, <1>3, DataLemma
<1>8. \A n : DataAt(a, n) = Held(a.disk, I2, f, Cell(n))
  BY <1>3 DEF DataAt, Held
<1>9. \A j \in 0..L - 1 : c + j \in 0..n2 - 1 /\ c + j \in c..e - 1
  BY <1>2, <1>4
\* What is not one of the sectors written is as it was.
<1>10. ASSUME NEW g \in Files, NEW p \in Spots(I2, g),
              g # f \/ \A j \in 0..L - 1 : p # Cell(c + j)
       PROVE  m.disk[Held(a.disk, I2, g, p)] = a.disk[Held(a.disk, I2, g, p)]
  <2> DEFINE s == Held(a.disk, I2, g, p)
  <2>1. s \in Zones
    BY <1>6 DEF Owners, Own, Held, Zones
  <2>2. ASSUME NEW j \in 0..L - 1 PROVE s # DataAt(a, c + j)
    <3>1. Cell(c + j) \in Spots(I2, f)
      BY <1>7, <1>9
    <3>2. CASE g # f
      BY <1>1, <1>8, <1>17, <3>1, <3>2
    <3>3. CASE g = f
      <4>1. p # Cell(c + j) /\ p \in Spots(I2, f)
        BY <1>10, <3>3
      <4>2. Hold(a.disk, I2[f].zone, p) # Hold(a.disk, I2[f].zone, Cell(c + j))
        BY <1>1, <1>17, <3>1, <4>1 DEF Own
      <4>3. QED
        BY <1>8, <3>3, <4>2 DEF Held
    <3>4. QED
      BY <3>2, <3>3
  <2> HIDE DEF s
  <2>3. m.disk[s] = a.disk[s]
    BY <1>2, <2>1, <2>2 DEF Loaded
  <2>4. QED
    BY <2>3 DEF s
<1>11. /\ Owners(m.smap, m.disk, I2)
       /\ \A g \in Files : \A p \in Spots(I2, g) : Held(m.disk, I2, g, p) = Held(a.disk, I2, g, p)
  <2>1. ASSUME NEW g \in Files, NEW p \in Spots(I2, g), IsBlock(p)
        PROVE  m.disk[Held(a.disk, I2, g, p)] = a.disk[Held(a.disk, I2, g, p)]
    BY <1>7, <1>9, <1>10, <2>1
  <2>2. \A g \in Files : Framed(a.disk, I2[g].zone, Spots(I2, g), m.disk)
    BY <2>1 DEF Framed, Held
  <2>3. QED
    BY <1>3, <1>6, <2>2, FramedOwners
<1>12. ASSUME NEW n \in 0..nr - 1
       PROVE  /\ Held(m.disk, I2, f, Cell(n)) = Held(disk, dinode, f, Cell(n))
              /\ Held(a.disk, I2, f, Cell(n)) = Held(disk, dinode, f, Cell(n))
  <2>1. nr \in 0..NR_THIRD_LEVEL_ZONE
    BY <1>1 DEF nr
  <2>2. Cell(n) \in Places(nr)
    BY <2>1, DataLemma
  <2>3. Hold(a.disk, a.zone, Cell(n)) = Hold(disk, ino.zone, Cell(n)) /\ Cell(n) \in Places(n2)
    BY <1>2, <2>2 DEF Grown, nr
  <2>4. QED
    BY <1>1, <1>3, <1>11, <2>3 DEF Held
<1>13. ASSUME NEW g \in Files, NEW p \in Spots(dinode, g), g # f
       PROVE  Held(m.disk, I2, g, p) = Held(disk, dinode, g, p)
  BY <1>3, <1>6, <1>11, <1>13
<1>14. ASSUME NEW g \in Files, NEW n \in 0..dinode[g].nr_sects - 1,
              g # f \/ n \notin c..e - 1
       PROVE  m.disk[Held(disk, dinode, g, Cell(n))] = disk[Held(disk, dinode, g, Cell(n))]
  <2> DEFINE p == Cell(n)
             s == Held(disk, dinode, g, p)
  <2>1. p \in Spots(dinode, g) /\ ~ IsBlock(p)
    BY <1>1, DataLemma DEF Spots
  <2>2. a.disk[s] = disk[s]
    <3> HIDE DEF p
    <3>1. QED
      BY <1>5, <2>1, DataKept
  <2>3. Held(a.disk, I2, g, p) = s /\ p \in Spots(I2, g)
    <3>1. CASE g = f
      <4>1. Spots(dinode, f) \subseteq Spots(I2, f)
        BY <1>2, <1>3 DEF Grown, nr
      <4>2. QED
        BY <1>12, <2>1, <3>1, <4>1 DEF nr
    <3>2. CASE g # f
      BY <1>3, <1>6, <2>1, <3>2
    <3>3. QED
      BY <3>1, <3>2
  <2>4. g # f \/ \A j \in 0..L - 1 : p # Cell(c + j)
    <3>1. SUFFICES ASSUME g = f, NEW j \in 0..L - 1, p = Cell(c + j) PROVE FALSE
      OBVIOUS
    <3>2. n \in 0..n2 - 1
      <4>1. nr <= n2 /\ nr \in Nat
        <5>1. nr \in Nat
          BY <1>1, ConstantsLemma DEF nr
        <5>2. n2 = IF nr <= e THEN e ELSE nr
          BY <1>4, <5>1, MinMaxLemma DEF WrittenBy, nr, e
        <5>3. QED
          BY <1>4, <5>1, <5>2
      <4>2. QED
        BY <1>2, <3>1, <4>1 DEF nr
    <3>3. n = c + j
      BY <1>7, <1>9, <3>1, <3>2
    <3>4. QED
      BY <1>9, <1>14, <3>1, <3>3
  <2> HIDE DEF p, s
  <2>5. m.disk[s] = a.disk[s]
    BY <1>10, <2>3, <2>4
  <2>6. QED
    BY <2>2, <2>5 DEF p, s
<1>15. ASSUME NEW j \in 0..L - 1
       PROVE  m.disk[Held(m.disk, I2, f, Cell(c + j))] = Buffer(f, pos, len, j)
  <2>1. Held(m.disk, I2, f, Cell(c + j)) = DataAt(a, c + j)
    BY <1>1, <1>7, <1>8, <1>9, <1>11
  <2>2. QED
    BY <1>2, <2>1 DEF Loaded
<1>16. QED
  BY <1>3, <1>11, <1>12, <1>13, <1>14, <1>15 DEF nr, e, L, c, WriteDone

LEMMA FilesLemma ==
  ASSUME Inv, NEW g \in Files
  PROVE  /\ dinode[g] \in Inodes
         /\ dinode[g].nr_sects \in Nat /\ dinode[g].size \in Nat
         /\ dinode[g].size <= dinode[g].nr_sects * SECTOR_SIZE
         /\ written[g] \subseteq 0..dinode[g].size - 1
         /\ dinode[g].nr_sects \in 0..NR_THIRD_LEVEL_ZONE
         /\ dinode[g].nr_sects > 0 => dinode[g].nr_sects \in ND..NR_THIRD_LEVEL_ZONE
<1>1. dinode[g] \in Inodes
  BY DEF Inv, Typed
<1>2. FileOK(dinode, written, g)
  BY DEF Inv, FilesOK
<1>3. dinode[g].nr_sects \in Nat /\ dinode[g].size \in Nat
  BY <1>1 DEF Inodes
<1>4. /\ dinode[g].size <= dinode[g].nr_sects * SECTOR_SIZE
      /\ written[g] \subseteq 0..dinode[g].size - 1
      /\ dinode[g].nr_sects = 0 \/ dinode[g].nr_sects \in ND..NR_THIRD_LEVEL_ZONE
  BY <1>2 DEF FileOK
<1>5. dinode[g].nr_sects \in 0..NR_THIRD_LEVEL_ZONE
  BY <1>3, <1>4, ConstantsLemma
<1>6. QED
  BY <1>1, <1>3, <1>4, <1>5

LEMMA WriteKept ==
  ASSUME Inv, NEW f \in opened, NEW pos \in Nat, NEW len \in Nat, pos % SECTOR_SIZE = 0,
         AtEnd(f, pos + len),
         NEW a, NEW n2, NEW m, NEW ino, ino = dinode[f], WrittenBy(f, pos, len, ino, n2, a, m),
         NEW I2, Became(dinode, f, Longer(f, pos, len, ino, m), I2),
         NEW w2, Became(written, f, written[f] \cup (pos..pos + len - 1), w2)
  PROVE  Kept(m.disk, I2, w2)
<1> DEFINE e == EndSect(pos, len)
           L == NrSects(pos, len)
           c == FirstSect(pos)
<1>1. /\ f \in Files /\ dinode \in [Files -> Inodes] /\ Kept(disk, dinode, written)
      /\ written \in [Files -> SUBSET Nat] /\ inode[f] = dinode[f]
      /\ \A g \in Files : /\ dinode[g].nr_sects \in Nat /\ dinode[g].size \in Nat
                          /\ dinode[g].size <= dinode[g].nr_sects * SECTOR_SIZE
                          /\ written[g] \subseteq 0..dinode[g].size - 1
                          /\ dinode[g].nr_sects \in 0..NR_THIRD_LEVEL_ZONE
  <2>1. /\ f \in Files /\ dinode \in [Files -> Inodes] /\ Kept(disk, dinode, written)
        /\ written \in [Files -> SUBSET Nat] /\ inode[f] = dinode[f]
    BY DEF Inv, Typed, FilesOK, OpenOK
  <2>2. ASSUME NEW g \in Files
        PROVE  /\ dinode[g].nr_sects \in Nat /\ dinode[g].size \in Nat
               /\ dinode[g].size <= dinode[g].nr_sects * SECTOR_SIZE
               /\ written[g] \subseteq 0..dinode[g].size - 1
               /\ dinode[g].nr_sects \in 0..NR_THIRD_LEVEL_ZONE
    BY FilesLemma
  <2>3. QED
    BY <2>1, <2>2
<1>2. /\ w2[f] = written[f] \cup (pos..pos + len - 1)
      /\ \A g \in Files : g # f => w2[g] = written[g]
  BY <1>1 DEF Became
<1>3. /\ \A n \in 0..ino.nr_sects - 1 :
              Held(m.disk, I2, f, Cell(n)) = Held(disk, dinode, f, Cell(n))
      /\ \A g \in Files : g # f => \A p \in Spots(dinode, g) :
              Held(m.disk, I2, g, p) = Held(disk, dinode, g, p)
      /\ \A g \in Files : \A n \in 0..dinode[g].nr_sects - 1 :
              g # f \/ n \notin c..e - 1 =>
                 m.disk[Held(disk, dinode, g, Cell(n))] = disk[Held(disk, dinode, g, Cell(n))]
      /\ \A j \in 0..L - 1 : m.disk[Held(m.disk, I2, f, Cell(c + j))] = Buffer(f, pos, len, j)
  <2>1. WriteDone(f, pos, len, m, ino, I2)
    BY WriteOwners
  <2>2. QED
    BY <2>1 DEF WriteDone
<1> HIDE DEF e, L, c
<1>4. /\ c \in Nat /\ L \in Nat /\ c + L = e /\ e \in Nat
      /\ (pos + len) % SECTOR_SIZE = 0 => pos + len = e * SECTOR_SIZE
      /\ \A p \in pos..pos + len - 1 : p \div SECTOR_SIZE \in c..e - 1
      /\ \A p \in Nat : p \div SECTOR_SIZE \in c..e - 1 =>
              LET j == p \div SECTOR_SIZE - c
                  b == j * SECTOR_SIZE + (p % SECTOR_SIZE)
              IN j \in 0..L - 1 /\ b \in Nat /\ pos + b = p
  <2>1. c = FirstSect(pos) /\ L = NrSects(pos, len) /\ e = EndSect(pos, len)
    BY DEF c, L, e
  <2>2. Covers(pos, len, c, L, e)
    BY <2>1, CoverLemma
  <2>3. QED
    BY <2>2 DEF Covers
<1>5. ASSUME NEW g \in Files, NEW p \in written[g]
      PROVE  /\ p \in Nat /\ p < dinode[g].size
             /\ p \div SECTOR_SIZE \in 0..dinode[g].nr_sects - 1
             /\ p % SECTOR_SIZE \in 0..SECTOR_SIZE - 1
  <2>1. p \in Nat /\ p < dinode[g].size /\ dinode[g].size <= dinode[g].nr_sects * SECTOR_SIZE
        /\ dinode[g].size \in Nat /\ dinode[g].nr_sects \in Nat
    BY <1>1
  <2>2. p < dinode[g].nr_sects * SECTOR_SIZE
    <3>1. dinode[g].nr_sects * SECTOR_SIZE \in Nat
      BY <2>1, ConstantsLemma
    <3>2. QED
      BY <2>1, <3>1
  <2>3. QED
    BY <2>1, <2>2, ByteLemma
<1>6. SUFFICES ASSUME NEW g \in Files, NEW p \in w2[g]
               PROVE  m.disk[Held(m.disk, I2, g, Cell(p \div SECTOR_SIZE))][p % SECTOR_SIZE]
                        = Byte(g, p)
  BY DEF Kept
<1> DEFINE n == p \div SECTOR_SIZE
           o == p % SECTOR_SIZE
\* What was written before, and is in none of the sectors written now.
<1>7. ASSUME p \in written[g], g # f \/ n \notin c..e - 1
      PROVE  m.disk[Held(m.disk, I2, g, Cell(n))][o] = Byte(g, p)
  <2>1. n \in 0..dinode[g].nr_sects - 1
    BY <1>5, <1>7
  <2>2. disk[Held(disk, dinode, g, Cell(n))][o] = Byte(g, p)
    BY <1>1, <1>7 DEF Kept
  <2> HIDE DEF n, o
  <2>3. m.disk[Held(disk, dinode, g, Cell(n))] = disk[Held(disk, dinode, g, Cell(n))]
    BY <1>3, <1>7, <2>1
  <2>4. Held(m.disk, I2, g, Cell(n)) = Held(disk, dinode, g, Cell(n))
    <3>1. CASE g = f
      BY <1>3, <2>1, <3>1
    <3>2. CASE g # f
      <4>1. Cell(n) \in Spots(dinode, g)
        BY <1>1, <2>1, DataLemma DEF Spots
      <4>2. QED
        BY <1>3, <3>2, <4>1
    <3>3. QED
      BY <3>1, <3>2
  <2>5. QED
    BY <2>2, <2>3, <2>4
<1>8. ASSUME g = f, n \in c..e - 1
      PROVE  m.disk[Held(m.disk, I2, g, Cell(n))][o] = Byte(g, p)
  <2> DEFINE j == n - c
             b == j * SECTOR_SIZE + o
  <2>1. p \in Nat
    BY <1>2, <1>5, <1>8
  <2>2. j \in 0..L - 1 /\ b \in Nat /\ pos + b = p /\ c + j = n
    BY <1>4, <1>8, <2>1
  <2>3. o \in 0..SECTOR_SIZE - 1
    BY <2>1, ConstantsLemma, DivLemma
  <2>4. b < len
    <3>1. CASE p \in pos..pos + len - 1
      <4> HIDE DEF b
      <4>1. QED
        BY <2>2, <3>1
    <3>2. CASE p \notin pos..pos + len - 1
      <4>1. p \in written[f]
        BY <1>2, <1>8, <3>2
      <4>2. p < dinode[f].size /\ dinode[f].size \in Nat
        BY <1>1, <1>5, <4>1
      <4>3. SUFFICES ASSUME ~ (b < len) PROVE FALSE
        OBVIOUS
      <4>4. pos + len <= p
        <5> HIDE DEF b
        <5>1. QED
          BY <2>1, <2>2, <4>3
      <4>5. (pos + len) % SECTOR_SIZE = 0
        <5>1. ~ (pos + len >= inode[f].size)
          BY <1>1, <2>1, <4>2, <4>4
        <5>2. QED
          BY <5>1 DEF AtEnd
      <4>6. e * SECTOR_SIZE <= p
        BY <1>4, <4>4, <4>5
      <4>7. n < e /\ n \in Nat
        BY <1>4, <1>8
      <4>8. p = n * SECTOR_SIZE + o
        BY <2>1, ConstantsLemma, DivLemma
      <4>9. n * SECTOR_SIZE + SECTOR_SIZE <= e * SECTOR_SIZE /\ n * SECTOR_SIZE \in Nat
            /\ e * SECTOR_SIZE \in Nat
        <5> HIDE DEF n
        <5>1. SECTOR_SIZE \in Nat
          BY ConstantsLemma
        <5>2. QED
          BY <1>4, <4>7, <5>1, ProductLemma
      <4> HIDE DEF n, o
      <4>10. QED
        BY <2>1, <2>3, <4>6, <4>8, <4>9, ConstantsLemma
    <3>3. QED
      BY <3>1, <3>2
  <2>5. Buffer(f, pos, len, j)[o] = Byte(f, pos + b)
    BY <2>3, <2>4 DEF Buffer
  <2>6. m.disk[Held(m.disk, I2, f, Cell(c + j))] = Buffer(f, pos, len, j)
    BY <1>3, <2>2
  <2> HIDE DEF b, j, n, o
  <2>7. QED
    BY <1>8, <2>2, <2>5, <2>6
<1>9. CASE g = f /\ n \in c..e - 1
  BY <1>8, <1>9
<1>10. CASE g # f \/ n \notin c..e - 1
  <2>1. p \in written[g]
    BY <1>2, <1>4, <1>10
  <2>2. QED
    BY <1>7, <1>10, <2>1
<1>11. QED
  BY <1>9, <1>10

\* A write preserves what the invariant says of each inode.
Rewritten(f, pos, len, m, ino, I2, w2) ==
  /\ I2[f] = Longer(f, pos, len, ino, m) /\ I2[f] \in Inodes /\ I2[f].nr_sects > 0
  /\ pos + len <= I2[f].size
  /\ ~ (pos + len > ino.size) => I2[f] = ino
  /\ \A g \in Files : FileOK(I2, w2, g)

LEMMA WriteFiles ==
  ASSUME Inv, NEW f \in opened, NEW pos \in Nat, NEW len \in Nat, pos % SECTOR_SIZE = 0,
         f # CmdTar,
         NEW a, NEW n2, NEW m, NEW ino, ino = dinode[f], WrittenBy(f, pos, len, ino, n2, a, m),
         NEW I2, Became(dinode, f, Longer(f, pos, len, ino, m), I2),
         NEW w2, Became(written, f, written[f] \cup (pos..pos + len - 1), w2)
  PROVE  Rewritten(f, pos, len, m, ino, I2, w2)
<1> DEFINE e == EndSect(pos, len)
           nr == ino.nr_sects
           N == SECTOR_SIZE
           i2 == Longer(f, pos, len, ino, m)
<1>1. f \in Files /\ dinode \in [Files -> Inodes] /\ written \in [Files -> SUBSET Nat]
  BY DEF Inv, Typed
<1>2. /\ I2[f] = i2 /\ w2[f] = written[f] \cup (pos..pos + len - 1)
      /\ \A g \in Files : g # f => I2[g] = dinode[g] /\ w2[g] = written[g]
  BY <1>1 DEF Became
<1>3. /\ nr \in Nat /\ ino.size \in Nat /\ ino.size <= nr * N /\ nr > 0
      /\ written[f] \subseteq 0..ino.size - 1
      /\ nr \in ND..NR_THIRD_LEVEL_ZONE
      /\ \A i \in 0..ND - 1 : ino.zone[i] = ino.zone[0] + i
      /\ ino \in Inodes
  <2>1. FileOK(dinode, written, f) /\ nr > 0
    BY <1>1 DEF Inv, FilesOK, OpenOK
  <2>2. QED
    BY <1>1, <2>1, FilesLemma DEF FileOK
<1>4. /\ a \in Mem /\ n2 \in ND..NR_THIRD_LEVEL_ZONE /\ e <= n2 /\ n2 = Max({nr, e})
      /\ m \in Mem /\ m.zone = a.zone /\ (e <= nr => a.zone = ino.zone)
  BY DEF WrittenBy, Loaded
<1>5. /\ e \in Nat /\ pos + len <= e * N /\ \A n \in Nat : pos + len <= n * N => e <= n
  <2> HIDE DEF e
  <2>1. NrSects(pos, len) = NrSects(pos, len) /\ FirstSect(pos) = FirstSect(pos) /\ e = EndSect(pos, len)
    BY DEF e
  <2>2. Covers(pos, len, FirstSect(pos), NrSects(pos, len), e)
    BY <2>1, CoverLemma
  <2>3. QED
    BY <2>2 DEF Covers
<1>6. i2.zone = m.zone /\ i2.nr_sects = n2 /\ i2.size = Max({ino.size, pos + len})
  BY <1>4 DEF Longer
<1> HIDE DEF i2, e, nr
<1>7. /\ n2 = IF nr <= e THEN e ELSE nr
      /\ i2.size = IF ino.size <= pos + len THEN pos + len ELSE ino.size
      /\ n2 \in Nat /\ n2 > 0 /\ nr <= n2 /\ i2.size \in Nat
  <2>1. n2 = IF nr <= e THEN e ELSE nr
    BY <1>3, <1>4, <1>5, MinMaxLemma
  <2>2. i2.size = IF ino.size <= pos + len THEN pos + len ELSE ino.size
    <3>1. pos + len \in Nat
      OBVIOUS
    <3>2. QED
      BY <1>3, <1>6, <3>1, MinMaxLemma
  <2>3. QED
    BY <1>3, <1>5, <2>1, <2>2
<1>8. \A x, y \in Nat : x <= y => x * N <= y * N /\ x * N \in Nat /\ y * N \in Nat
  <2>1. N \in Nat
    BY ConstantsLemma
  <2> HIDE DEF N
  <2>2. SUFFICES ASSUME NEW x \in Nat, NEW y \in Nat, x <= y
                 PROVE  x * N <= y * N /\ x * N \in Nat /\ y * N \in Nat
    OBVIOUS
  <2>3. CASE x = y
    BY <2>1, <2>3
  <2>4. CASE x < y
    <3>1. x * N \in Nat /\ y * N \in Nat /\ x * N + N <= y * N
      BY <2>1, <2>4, ProductLemma
    <3>2. QED
      BY <2>1, <3>1
  <2>5. QED
    BY <2>2, <2>3, <2>4
<1>9. i2.size <= n2 * N
  <2>1. e * N <= n2 * N /\ nr * N <= n2 * N /\ e * N \in Nat /\ nr * N \in Nat /\ n2 * N \in Nat
    <3>1. e <= n2 /\ nr <= n2
      BY <1>4, <1>7
    <3>2. QED
      BY <1>3, <1>5, <1>7, <1>8, <3>1
  <2>2. QED
    BY <1>3, <1>5, <1>7, <2>1
<1>10. ~ (pos + len > ino.size) => i2 = ino
  <2>1. SUFFICES ASSUME pos + len <= ino.size PROVE i2 = ino
    BY <1>3
  <2>2. e <= nr
    <3>1. pos + len <= nr * N
      <4>1. nr * N \in Nat
        BY <1>3, <1>8
      <4>2. QED
        BY <1>3, <2>1, <4>1
    <3>2. QED
      BY <1>3, <1>5, <3>1
  <2>3. m.zone = ino.zone /\ n2 = nr /\ i2.size = ino.size
    BY <1>3, <1>4, <1>5, <1>7, <2>1, <2>2
  <2>4. i2 = [zone |-> ino.zone, nr_sects |-> nr, size |-> ino.size]
    <3>1. i2 = [zone |-> i2.zone, nr_sects |-> i2.nr_sects, size |-> i2.size]
      BY DEF i2, Longer
    <3>2. QED
      BY <1>6, <2>3, <3>1
  <2>5. ino = [zone |-> ino.zone, nr_sects |-> ino.nr_sects, size |-> ino.size]
    BY <1>3 DEF Inodes
  <2>6. QED
    BY <2>4, <2>5 DEF nr
<1>11. i2 \in Inodes
  <2>1. i2 = [zone |-> i2.zone, nr_sects |-> i2.nr_sects, size |-> i2.size]
    BY DEF i2, Longer
  <2>2. m.zone \in [0..ND + 1 -> Zones]
    BY <1>4 DEF Mem
  <2>3. QED
    BY <1>6, <1>7, <2>1, <2>2 DEF Inodes
<1>12. ASSUME NEW i \in 0..ND - 1 PROVE m.zone[i] = ino.zone[i]
  <2>1. i \in 0..nr - 1 /\ i < ND /\ ND \in Nat
    BY <1>3, ConstantsLemma
  <2>2. WriteDone(f, pos, len, m, ino, I2)
    BY WriteOwners
  <2>3. Held(m.disk, I2, f, Cell(i)) = Held(disk, dinode, f, Cell(i))
    BY <2>1, <2>2 DEF WriteDone, nr
  <2>4. Cell(i) = InZone(i)
    BY <2>1 DEF Cell
  <2>5. QED
    BY <1>2, <1>6, <2>3, <2>4, HoldLemma DEF Held
<1>13. FileOK(I2, w2, f)
  <2>1. w2[f] \subseteq 0..i2.size - 1
    <3>1. SUFFICES ASSUME NEW p \in w2[f] PROVE p \in 0..i2.size - 1
      OBVIOUS
    <3>2. CASE p \in written[f]
      <4>1. p \in Nat /\ p < ino.size
        BY <1>3, <3>2
      <4>2. QED
        BY <1>3, <1>7, <4>1
    <3>3. CASE p \in pos..pos + len - 1
      BY <1>3, <1>7, <3>3
    <3>4. QED
      BY <1>2, <3>1, <3>2, <3>3
  <2>2. \A i \in 0..ND - 1 : i2.zone[i] = i2.zone[0] + i
    <3>1. 0 \in 0..ND - 1
      BY ConstantsLemma
    <3>2. QED
      BY <1>3, <1>6, <1>12, <3>1
  <2>3. QED
    BY <1>2, <1>4, <1>6, <1>9, <2>1, <2>2 DEF FileOK
<1>14. ASSUME NEW g \in Files PROVE FileOK(I2, w2, g)
  <2>1. CASE g = f
    BY <1>13, <2>1
  <2>2. CASE g # f
    <3>1. FileOK(dinode, written, g)
      BY DEF Inv, FilesOK
    <3>2. QED
      BY <1>2, <2>2, <3>1 DEF FileOK
  <2>3. QED
    BY <2>1, <2>2
<1>15. pos + len <= i2.size
  BY <1>3, <1>7
<1>16. QED
  BY <1>2, <1>6, <1>7, <1>10, <1>11, <1>14, <1>15 DEF Rewritten, i2

----------------------------------------------------------------------------
(* The steps                                                               *)

LEMMA HaltStep == ASSUME Inv, NEW w, Halt(w) PROVE Inv'
BY DEF Inv, Typed, FilesOK, OpenOK, Halt

LEMMA WriteStep ==
  ASSUME Inv, Careful, NEW f \in Files, NEW len \in Lens, Write(f, len)
  PROVE  Inv'
<1> DEFINE pos == fd_pos[f]
           m == Written(f, pos, len)
           ino == dinode[f]
           i2 == Longer(f, pos, len, ino, m)
           I2 == [dinode EXCEPT ![f] = i2]
           w2 == [written EXCEPT ![f] = written[f] \cup (pos..pos + len - 1)]
<1>1. /\ f \in opened /\ inode[f] = ino /\ pos \in Nat /\ len \in Nat /\ Fits(f, pos, len)
      /\ dinode \in [Files -> Inodes] /\ inode \in [Files -> Inodes]
      /\ written \in [Files -> SUBSET Nat] /\ fd_pos \in [Files -> Nat] /\ opened \subseteq Files
      /\ disk \in [Zones -> Contents]
  BY FsSectAssumption DEF Inv, Typed, FilesOK, OpenOK, Write, WriteWith
<1>2. CASE ~ m.ok
  <2>1. Halt("alloc_zone")
    BY <1>2 DEF Write, WriteWith
  <2>2. QED
    BY <2>1, HaltStep
<1>3. CASE m.ok
  <2>1. /\ smap' = m.smap /\ disk' = m.disk /\ opened' = opened
        /\ inode' = [inode EXCEPT ![f] = i2]
        /\ dinode' = IF pos + len > inode[f].size THEN [dinode EXCEPT ![f] = inode'[f]] ELSE dinode
        /\ fd_pos' = [fd_pos EXCEPT ![f] = pos + len]
        /\ written' = w2
    BY <1>1, <1>3 DEF Write, WriteWith, Longer
  <2>2. Became(dinode, f, i2, I2) /\ Became(written, f, written[f] \cup (pos..pos + len - 1), w2)
    BY DEF Became
  <2>3. PICK a, n2 : WrittenBy(f, pos, len, ino, n2, a, m)
    <3> HIDE DEF pos, m, ino
    <3>1. pos = fd_pos[f] /\ m = Written(f, pos, len) /\ ino = dinode[f]
      BY DEF pos, m, ino
    <3>2. QED
      BY <1>1, <1>3, <3>1, WrittenLemma
  <2>4. pos % SECTOR_SIZE = 0 /\ f # CmdTar /\ AtEnd(f, pos + len)
    BY <1>1 DEF Fits
  <2> HIDE DEF m, ino, I2, w2, i2, pos
  <2>5. ino = dinode[f] /\ pos = fd_pos[f] /\ i2 = Longer(f, pos, len, ino, m)
    BY DEF ino, pos, i2
  <2>6. /\ WriteDone(f, pos, len, m, ino, I2)
        /\ Kept(m.disk, I2, w2)
        /\ Rewritten(f, pos, len, m, ino, I2, w2)
    BY <1>1, <2>2, <2>3, <2>4, <2>5, WriteOwners, WriteKept, WriteFiles
  <2>7. I2[f] = i2 /\ i2 \in Inodes /\ i2.nr_sects > 0 /\ pos + len <= i2.size
        /\ (~ (pos + len > ino.size) => i2 = ino)
        /\ \A g \in Files : FileOK(I2, w2, g)
    BY <2>5, <2>6 DEF Rewritten
  <2>8. dinode' = I2
    <3>1. inode'[f] = i2
      BY <1>1, <2>1
    <3>2. CASE pos + len > ino.size
      BY <1>1, <2>1, <3>1, <3>2 DEF I2
    <3>3. CASE ~ (pos + len > ino.size)
      <4>1. i2 = dinode[f] /\ dinode' = dinode
        BY <1>1, <2>1, <2>5, <2>7, <3>3
      <4>2. QED
        BY <1>1, <4>1 DEF I2
    <3>4. QED
      BY <3>2, <3>3
  <2>9. Typed'
    <3>1. m \in Mem
      BY <2>3 DEF WrittenBy, Loaded
    <3>2. m.disk \in [Zones -> Contents]
      BY <3>1 DEF Mem
    <3>3. I2 \in [Files -> Inodes] /\ inode' \in [Files -> Inodes]
      BY <1>1, <2>1, <2>7 DEF I2
    <3>4. w2 \in [Files -> SUBSET Nat] /\ fd_pos' \in [Files -> Nat]
      <4>1. pos + len \in Nat /\ pos..pos + len - 1 \subseteq Nat
        BY <1>1
      <4>2. QED
        BY <1>1, <2>1, <4>1 DEF w2
    <3>5. QED
      BY <1>1, <2>1, <2>8, <3>2, <3>3, <3>4 DEF Typed
  <2>10. Owners(smap, disk, dinode)'
    BY <2>1, <2>6, <2>8 DEF WriteDone
  <2>11. Kept(disk, dinode, written)'
    BY <2>1, <2>6, <2>8
  <2>12. ASSUME NEW g \in Files PROVE FileOK(dinode, written, g)' /\ OpenOK(g)'
    <3>1. FileOK(dinode, written, g)'
      BY <2>1, <2>7, <2>8
    <3>2. OpenOK(g)'
      <4>1. CASE g = f
        BY <1>1, <2>1, <2>7, <2>8, <4>1 DEF OpenOK
      <4>2. CASE g # f
        <5>1. OpenOK(g)
          BY DEF Inv, FilesOK
        <5>2. inode'[g] = inode[g] /\ dinode'[g] = dinode[g] /\ fd_pos'[g] = fd_pos[g]
          BY <1>1, <2>1, <2>8, <4>2 DEF I2
        <5>3. QED
          BY <2>1, <5>1, <5>2 DEF OpenOK
      <4>3. QED
        BY <4>1, <4>2
    <3>3. QED
      BY <3>1, <3>2
  <2>13. QED
    BY <2>9, <2>10, <2>11, <2>12 DEF Inv, FilesOK
<1>4. QED
  BY <1>2, <1>3

LEMMA CloseStep ==
  ASSUME Inv, NEW f \in Files, Close(f)
  PROVE  Inv'
<1>1. FreeInode \in Inodes
  BY ConstantsLemma DEF FreeInode, Inodes, Zones
<1>2. Typed'
  BY <1>1 DEF Inv, Typed, Close
<1>3. Owners(smap, disk, dinode)' /\ Kept(disk, dinode, written)'
  BY DEF Inv, Close
<1>4. ASSUME NEW g \in Files PROVE FileOK(dinode, written, g)' /\ OpenOK(g)'
  BY DEF Inv, Typed, FilesOK, OpenOK, Close
<1>5. QED
  BY <1>2, <1>3, <1>4 DEF Inv, FilesOK

LEMMA LseekStep ==
  ASSUME Inv, NEW f \in Files, NEW pos \in 0..inode[f].size, Lseek(f, pos)
  PROVE  Inv'
<1>1. f \in opened /\ inode[f] = dinode[f] /\ inode[f].size \in Nat
  BY DEF Inv, Typed, FilesOK, OpenOK, Lseek, Inodes
<1>2. pos \in Nat /\ pos <= dinode[f].size
  BY <1>1
<1>3. Typed'
  BY <1>2 DEF Inv, Typed, Lseek
<1>4. Owners(smap, disk, dinode)' /\ Kept(disk, dinode, written)'
  BY DEF Inv, Lseek
<1>5. ASSUME NEW g \in Files PROVE FileOK(dinode, written, g)' /\ OpenOK(g)'
  BY <1>2 DEF Inv, Typed, FilesOK, OpenOK, Lseek
<1>6. QED
  BY <1>3, <1>4, <1>5 DEF Inv, FilesOK

LEMMA ReadStep ==
  ASSUME Inv, NEW f \in Files, NEW len \in Lens, Read(f, len)
  PROVE  Inv'
<1> DEFINE pos == fd_pos[f]
           n == Readable(f, pos, len)
<1>1. f \in opened /\ inode[f] = dinode[f] /\ inode[f].size \in Nat /\ pos \in Nat /\ len \in Nat
      /\ pos <= dinode[f].size
  BY FsSectAssumption DEF Inv, Typed, FilesOK, OpenOK, Read, Inodes
<1>2. n \in Nat /\ pos + n <= dinode[f].size
  <2>1. CASE pos > inode[f].size
    BY <1>1, <2>1
  <2>2. CASE ~ (pos > inode[f].size)
    <3>1. n = Min({len, inode[f].size - pos})
      BY <2>2 DEF Readable
    <3>2. inode[f].size - pos \in Nat
      BY <1>1, <2>2
    <3>3. n \in Nat /\ n <= inode[f].size - pos
      BY <1>1, <3>1, <3>2, MinMaxLemma
    <3>4. QED
      BY <1>1, <3>3
  <2>3. QED
    BY <2>1, <2>2
<1>3. CASE EndSect(pos, n) > inode[f].nr_sects
  <2>1. Halt("rdwt_zones")
    BY <1>3 DEF Read
  <2>2. QED
    BY <2>1, HaltStep
<1>4. CASE ~ (EndSect(pos, n) > inode[f].nr_sects)
  <2>1. /\ fd_pos' = [fd_pos EXCEPT ![f] = pos + n]
        /\ UNCHANGED <<smap, disk, dinode, inode, opened, written, halted>>
    BY <1>4 DEF Read
  <2> HIDE DEF pos, n
  <2>2. pos + n \in Nat
    BY <1>1, <1>2
  <2>3. Typed'
    BY <2>1, <2>2 DEF Inv, Typed
  <2>4. Owners(smap, disk, dinode)' /\ Kept(disk, dinode, written)'
    BY <2>1 DEF Inv
  <2>5. ASSUME NEW g \in Files PROVE FileOK(dinode, written, g)' /\ OpenOK(g)'
    BY <1>2, <2>1, <2>2 DEF Inv, Typed, FilesOK, OpenOK
  <2>6. QED
    BY <2>3, <2>4, <2>5 DEF Inv, FilesOK
<1>5. QED
  BY <1>3, <1>4

\* A file has no places, or to begin with the direct zones.
LEMMA FirstPlaces ==
  Places(0) = {} /\ Places(ND) = {InZone(i) : i \in 0..ND - 1}
<1>1. \A p \in Cells : Need(p) \in Nat
  BY CellLemma, ConstantsLemma
<1>2. Places(0) = {}
  BY <1>1 DEF Places
<1>3. ASSUME NEW p \in Places(ND) PROVE \E i \in 0..ND - 1 : p = InZone(i)
  <2>1. p \in Cells /\ Need(p) < ND
    BY DEF Places
  <2>2. CASE \E i \in 0..ND + 1 : p = InZone(i)
    <3>1. PICK i \in 0..ND + 1 : p = InZone(i)
      BY <2>2
    <3>2. i # ND /\ i # ND + 1
      BY <2>1, <3>1, NeedLemma, ConstantsLemma
    <3>3. i \in 0..ND - 1
      BY <3>2, ConstantsLemma
    <3>4. QED
      BY <3>1, <3>3
  <2>3. CASE \E i \in Slots : p = InSecond(i) \/ p = InThird(i)
    <3>1. PICK i \in Slots : p = InSecond(i) \/ p = InThird(i)
      BY <2>3
    <3>2. Need(p) = ND + i \/ Need(p) = S2 + i * Z
      BY <3>1, NeedLemma
    <3>3. i \in Nat /\ i * Z \in Nat /\ S2 \in Nat /\ ND <= S2 /\ ND \in Nat
      BY ConstantsLemma, ThirdLemma, IndexLemma
    <3>4. QED
      BY <2>1, <3>2, <3>3
  <2>4. CASE \E q \in Slots, i \in Slots : p = InBlock(q, i)
    <3>1. PICK q \in Slots, i \in Slots : p = InBlock(q, i)
      BY <2>4
    <3>2. Need(p) = S2 + q * Z + i
      BY <3>1, NeedLemma
    <3>3. i \in Nat /\ q * Z \in Nat /\ S2 \in Nat /\ ND <= S2 /\ ND \in Nat
      BY ConstantsLemma, ThirdLemma, IndexLemma
    <3>4. QED
      BY <2>1, <3>2, <3>3
  <2>5. QED
    BY <2>1, <2>2, <2>3, <2>4, CellsLemma
<1>4. ASSUME NEW i \in 0..ND - 1 PROVE InZone(i) \in Places(ND)
  <2>1. i \in 0..ND + 1 /\ i < ND
    BY ConstantsLemma
  <2>2. InZone(i) \in Cells /\ Need(InZone(i)) = i
    BY <2>1, CellsLemma, NeedLemma
  <2>3. QED
    BY <2>1, <2>2 DEF Places
<1>5. QED
  BY <1>2, <1>3, <1>4

LEMMA ConnectStep ==
  ASSUME Inv, NEW f \in Files, NEW ino \in Inodes, NEW trunc \in BOOLEAN,
         Connect(f, ino, trunc), NEW J, Became(dinode, f, ino, J),
         Owners(smap', disk, J), Kept(disk, J, written), FileOK(J, written, f), ino.nr_sects > 0
  PROVE  Inv'
<1> DEFINE i == IF trunc THEN [ino EXCEPT !.size = 0] ELSE ino
<1>1. /\ dinode \in [Files -> Inodes] /\ inode \in [Files -> Inodes]
      /\ written \in [Files -> SUBSET Nat] /\ fd_pos \in [Files -> Nat] /\ opened \subseteq Files
      /\ disk \in [Zones -> Contents]
  BY DEF Inv, Typed
<1>2. /\ inode' = [inode EXCEPT ![f] = i] /\ dinode' = [dinode EXCEPT ![f] = i]
      /\ opened' = opened \cup {f} /\ fd_pos' = [fd_pos EXCEPT ![f] = 0] /\ disk' = disk
  BY DEF Connect
<1>3. written' = [written EXCEPT ![f] = written'[f]] /\ written'[f] \in SUBSET Nat
      /\ written'[f] \subseteq written[f] /\ (trunc => written'[f] = {})
  <2>1. CASE trunc
    BY <1>1, <2>1 DEF Connect
  <2>2. CASE ~ trunc
    BY <1>1, <2>2 DEF Connect
  <2>3. QED
    BY <2>1, <2>2
<1>4. /\ i \in Inodes /\ i.zone = ino.zone /\ i.nr_sects = ino.nr_sects
      /\ i.size = IF trunc THEN 0 ELSE ino.size
  <2>1. CASE trunc
    BY <2>1 DEF Inodes
  <2>2. CASE ~ trunc
    BY <2>2
  <2>3. QED
    BY <2>1, <2>2
<1>5. J[f] = ino /\ \A g \in Files : g # f => J[g] = dinode[g]
  BY <1>1 DEF Became
<1> HIDE DEF i
<1>6. \A g \in Files : dinode'[g].zone = J[g].zone /\ dinode'[g].nr_sects = J[g].nr_sects
  BY <1>1, <1>2, <1>4, <1>5
<1>7. Typed'
  BY <1>1, <1>2, <1>3, <1>4 DEF Typed
<1>8. Owners(smap, disk, dinode)'
  BY <1>2, <1>6, SameOwners
<1>9. \A g \in Files : written'[g] \subseteq written[g]
  BY <1>1, <1>3
<1>10. Kept(disk, dinode, written)'
  BY <1>2, <1>6, <1>9 DEF Kept, Held
<1>11. ASSUME NEW g \in Files PROVE FileOK(dinode, written, g)' /\ OpenOK(g)'
  <2>1. CASE g = f
    <3>1. dinode'[f] = i /\ inode'[f] = i /\ fd_pos'[f] = 0
      BY <1>1, <1>2
    <3>2. /\ ino.nr_sects \in {0} \cup ND..NR_THIRD_LEVEL_ZONE
          /\ ino.size <= ino.nr_sects * SECTOR_SIZE
          /\ written[f] \subseteq 0..ino.size - 1
          /\ ino.nr_sects > 0 => \A k \in 0..ND - 1 : ino.zone[k] = ino.zone[0] + k
          /\ f = CmdTar => ino.nr_sects > ND
      BY <1>5 DEF FileOK
    <3>3. ino.size \in Nat /\ ino.nr_sects \in Nat
      BY DEF Inodes
    <3>4. i.size <= ino.nr_sects * SECTOR_SIZE /\ i.size \in Nat
      <4>1. ino.nr_sects * SECTOR_SIZE \in Nat
        BY <3>3, ConstantsLemma
      <4>2. QED
        BY <1>4, <3>2, <3>3, <4>1
    <3>5. written'[f] \subseteq 0..i.size - 1
      <4>1. CASE trunc
        BY <1>3, <4>1
      <4>2. CASE ~ trunc
        BY <1>3, <1>4, <3>2, <4>2
      <4>3. QED
        BY <4>1, <4>2
    <3>6. FileOK(dinode, written, f)'
      BY <1>4, <3>1, <3>2, <3>4, <3>5 DEF FileOK
    <3>7. OpenOK(f)'
      BY <1>4, <3>1, <3>4 DEF OpenOK
    <3>8. QED
      BY <2>1, <3>6, <3>7
  <2>2. CASE g # f
    <3>1. FileOK(dinode, written, g) /\ OpenOK(g)
      BY DEF Inv, FilesOK
    <3>2. /\ dinode'[g] = dinode[g] /\ inode'[g] = inode[g] /\ fd_pos'[g] = fd_pos[g]
          /\ written'[g] = written[g] /\ (g \in opened' <=> g \in opened)
      BY <1>1, <1>2, <1>3, <2>2
    <3>3. QED
      BY <3>1, <3>2 DEF FileOK, OpenOK
  <2>3. QED
    BY <2>1, <2>2
<1>12. QED
  BY <1>7, <1>8, <1>10, <1>11 DEF Inv, FilesOK

LEMMA OpenStep ==
  ASSUME Inv, NEW f \in Files, NEW trunc \in BOOLEAN, Open(f, trunc)
  PROVE  Inv'
<1>1. CASE NoFreeDescriptor
  <2>1. Halt("do_open")
    BY <1>1 DEF Open
  <2>2. QED
    BY <2>1, HaltStep
<1>2. CASE ~ NoFreeDescriptor
  <2> DEFINE ino == dinode[f]
             J == dinode
  <2>1. Connect(f, ino, trunc) /\ smap' = smap /\ ino.nr_sects > 0
    BY <1>2 DEF Open, Exists
  <2>2. ino \in Inodes /\ dinode \in [Files -> Inodes] /\ FileOK(dinode, written, f)
        /\ Owners(smap, disk, dinode) /\ Kept(disk, dinode, written)
    BY DEF Inv, Typed, FilesOK
  <2> HIDE DEF ino
  <2>3. Became(dinode, f, ino, J)
    BY <2>2 DEF Became, ino
  <2> HIDE DEF J
  <2>4. Owners(smap', disk, J) /\ Kept(disk, J, written) /\ FileOK(J, written, f)
    BY <2>1, <2>2 DEF J
  <2>5. QED
    BY <2>1, <2>2, <2>3, <2>4, ConnectStep
<1>3. QED
  BY <1>1, <1>2

\* A file that is made takes a run of sectors that were free.
RunZones(f, first) ==
  [z \in 0..ND + 1 |-> IF z < ND THEN first + z ELSE dinode[f].zone[z]]

LEMMA RunOwners ==
  ASSUME Inv, NEW f \in Files, dinode[f].nr_sects = 0,
         NEW first \in Nat, NEW run, run = first..first + ND - 1, run \subseteq Sectors \ smap,
         NEW ino \in Inodes, ino.zone = RunZones(f, first), ino.nr_sects = ND,
         NEW J, Became(dinode, f, ino, J), NEW u, u = smap \cup run
  PROVE  Owners(u, disk, J) /\ Kept(disk, J, written)
<1> DEFINE z1 == dinode[f].zone
           z2 == J[f].zone
<1>1. /\ dinode \in [Files -> Inodes] /\ Owners(smap, disk, dinode) /\ Kept(disk, dinode, written)
      /\ written[f] \subseteq 0..dinode[f].size - 1
      /\ dinode[f].size <= 0 * SECTOR_SIZE
  BY DEF Inv, Typed, FilesOK, FileOK
<1>2. J[f] = ino /\ \A g \in Files : g # f => J[g] = dinode[g]
  BY <1>1 DEF Became
<1>3. Spots(dinode, f) = {} /\ Spots(J, f) = {InZone(i) : i \in 0..ND - 1}
  BY <1>2, FirstPlaces DEF Spots
<1>4. smap \subseteq Sectors /\ Shaped(disk, z1, {})
  <2>1. Own(smap, disk, z1, Spots(dinode, f))
    BY <1>1 DEF Owners
  <2>2. Own(smap, disk, z1, {})
    BY <1>3, <2>1, Zenon
  <2> HIDE DEF z1
  <2>3. QED
    BY <2>2 DEF Own
<1>5. /\ z2 \in [0..ND + 1 -> Zones]
      /\ \A i \in 0..ND - 1 : z2[i] = first + i
      /\ z2[ND] = NO_ZONE /\ z2[ND + 1] = NO_ZONE
  <2>1. z2 = RunZones(f, first)
    BY <1>2
  <2>2. z2 \in [0..ND + 1 -> Zones]
    BY <1>2 DEF Inodes
  <2>3. z1[ND] = NO_ZONE /\ z1[ND + 1] = NO_ZONE
    BY <1>4 DEF Shaped
  <2>4. \A i \in 0..ND - 1 : i \in 0..ND + 1 /\ i < ND
    BY ConstantsLemma
  <2>5. ~ (ND < ND) /\ ~ (ND + 1 < ND)
    BY ConstantsLemma
  <2>6. QED
    BY <2>1, <2>2, <2>3, <2>4, <2>5, IndexLemma, Zenon DEF RunZones
<1> HIDE DEF z1, z2
<1>6. ASSUME NEW p \in Spots(J, f)
      PROVE  \E i \in 0..ND - 1 : p = InZone(i) /\ Hold(disk, z2, p) = first + i
  <2>1. PICK i \in 0..ND - 1 : p = InZone(i)
    BY <1>3
  <2>2. Hold(disk, z2, InZone(i)) = z2[i]
    BY DEF Hold, InZone
  <2>3. Hold(disk, z2, p) = first + i
    BY <1>5, <2>1, <2>2
  <2>4. QED
    BY <2>1, <2>3
<1>7. Grown(smap, disk, z1, {}, u, disk, z2, Spots(J, f))
  <2> DEFINE Q == Spots(J, f)
  <2>1. Q \subseteq Cells
    BY DEF Spots, Places
  <2>2. /\ InZone(ND) \notin Q /\ InZone(ND + 1) \notin Q
        /\ \A i : InSecond(i) \notin Q /\ InThird(i) \notin Q
        /\ \A i, j : InBlock(i, j) \notin Q
    <3>1. ND \notin 0..ND - 1 /\ ND + 1 \notin 0..ND - 1
      BY ConstantsLemma
    <3>2. \A q \in Q : \E i \in 0..ND - 1 : q = <<1, i, 0>>
      BY <1>3 DEF InZone
    <3> HIDE DEF Q
    <3>3. QED
      BY <3>1, <3>2 DEF InZone, InSecond, InThird, InBlock
  <2>3. Shaped(disk, z2, Q)
    BY <1>5, <2>1, <2>2 DEF Shaped
  <2>4. \A p \in Q : Hold(disk, z2, p) \in u \ smap
    <3>1. \A i \in 0..ND - 1 : first + i \in run
      BY ConstantsLemma
    <3>2. QED
      BY <1>6, <3>1
  <2>5. ASSUME NEW p \in Q, NEW q \in Q, Hold(disk, z2, p) = Hold(disk, z2, q) PROVE p = q
    <3>1. PICK i \in 0..ND - 1 : p = InZone(i) /\ Hold(disk, z2, p) = first + i
      BY <1>6
    <3>2. PICK j \in 0..ND - 1 : q = InZone(j) /\ Hold(disk, z2, q) = first + j
      BY <1>6
    <3>3. i = j
      BY <2>5, <3>1, <3>2
    <3>4. QED
      BY <3>1, <3>2, <3>3
  <2>6. ASSUME NEW s \in u \ smap PROVE \E p \in Q : Hold(disk, z2, p) = s
    <3>1. s \in first..first + ND - 1
      OBVIOUS
    <3> DEFINE i == s - first
    <3>2. i \in 0..ND - 1 /\ s = first + i
      BY <3>1, ConstantsLemma, SMTT(40)
    <3> HIDE DEF i
    <3>3. InZone(i) \in Q
      BY <1>3, <3>2
    <3>4. Hold(disk, z2, InZone(i)) = z2[i]
      BY DEF Hold, InZone
    <3>5. QED
      BY <1>5, <3>2, <3>3, <3>4
  <2> HIDE DEF Q
  <2>7. u \subseteq Sectors /\ smap \subseteq u
    BY <1>4
  <2>8. QED
    BY <2>3, <2>4, <2>5, <2>6, <2>7 DEF Grown, Q
<1>8. Grows(smap, disk, dinode, f, u, disk, J)
  BY <1>1, <1>2, <1>3, <1>7 DEF Grows, z1, z2
<1>9. Owners(u, disk, J)
  BY <1>8, GrownOwners
<1>10. written[f] = {}
  <2>1. 0 * SECTOR_SIZE = 0 /\ dinode[f].size \in Nat
    BY <1>1, ConstantsLemma DEF Inodes
  <2>2. QED
    BY <1>1, <2>1
<1>11. Kept(disk, J, written)
  BY <1>1, <1>2, <1>10 DEF Kept, Held
<1>12. QED
  BY <1>9, <1>11

LEMMA CreateStep ==
  ASSUME Inv, NEW f \in Files, NEW trunc \in BOOLEAN, Create(f, trunc)
  PROVE  Inv'
<1> DEFINE first == Min(Sectors \ smap)
           run == first..first + ND - 1
           ino == [zone |-> RunZones(f, first), nr_sects |-> ND, size |-> ND * SECTOR_SIZE]
           J == [dinode EXCEPT ![f] = ino]
<1>1. CASE NoFreeDescriptor
  <2>1. Halt("do_open")
    BY <1>1 DEF Create
  <2>2. QED
    BY <2>1, HaltStep
<1>2. CASE ~ NoFreeDescriptor /\ (smap = Sectors \/ ~ (run \subseteq Sectors \ smap))
  <2>1. Halt("alloc_smap_bit")
    BY <1>2 DEF Create, ND
  <2>2. QED
    BY <2>1, HaltStep
<1>3. CASE ~ NoFreeDescriptor /\ smap # Sectors /\ run \subseteq Sectors \ smap
  <2>1. smap' = smap \cup run /\ Connect(f, ino, trunc) /\ f # CmdTar /\ ~ Exists(f)
    BY <1>3 DEF Create, RunZones, ND, THIRD_LEVEL_ZONE
  <2>2. /\ dinode \in [Files -> Inodes] /\ smap \subseteq Sectors
        /\ dinode[f].nr_sects = 0
        /\ written[f] \subseteq 0..dinode[f].size - 1 /\ dinode[f].size \in Nat
        /\ dinode[f].size <= 0 * SECTOR_SIZE /\ dinode[f].zone \in [0..ND + 1 -> Zones]
    <3>1. dinode \in [Files -> Inodes] /\ FileOK(dinode, written, f) /\ smap \subseteq Sectors
      BY DEF Inv, Typed, FilesOK, Owners, Own
    <3>2. dinode[f].nr_sects \in Nat /\ ~ (dinode[f].nr_sects > 0)
      BY <2>1, <3>1 DEF Exists, Inodes
    <3>3. dinode[f].nr_sects = 0
      BY <3>2
    <3>4. QED
      BY <3>1, <3>3 DEF FileOK, Inodes
  <2>3. first \in Sectors /\ first \in Nat
    <3>1. Sectors \ smap # {} /\ Sectors \ smap \in SUBSET Nat
      BY <1>3, <2>2, ConstantsLemma
    <3>2. QED
      BY <3>1, LeastLemma
  <2> HIDE DEF first
  <2>4. ND * SECTOR_SIZE \in Nat /\ ND \in Nat \ {0}
    BY ConstantsLemma
  <2>5. ino \in Inodes
    <3>1. \A z \in 0..ND + 1 : IF z < ND THEN first + z \in Zones ELSE dinode[f].zone[z] \in Zones
      <4>1. \A z \in 0..ND + 1 : z < ND => first + z \in run
        BY <2>3, <2>4
      <4>2. run \subseteq Zones
        BY <1>3 DEF Zones
      <4>3. QED
        BY <2>2, <4>1, <4>2
    <3>2. RunZones(f, first) \in [0..ND + 1 -> Zones]
      BY <3>1 DEF RunZones
    <3>3. QED
      BY <2>4, <3>2 DEF Inodes
  <2>6. ino.zone = RunZones(f, first) /\ ino.nr_sects = ND /\ ino.size = ND * SECTOR_SIZE
    OBVIOUS
  <2> HIDE DEF ino
  <2>7. Became(dinode, f, ino, J)
    BY DEF Became
  <2>8. J[f] = ino
    BY <2>2
  <2> HIDE DEF J
  <2>9. Owners(smap', disk, J) /\ Kept(disk, J, written)
    <3>1. run = first..first + ND - 1 /\ run \subseteq Sectors \ smap
      BY <1>3
    <3> HIDE DEF run
    <3>2. QED
      BY <2>1, <2>2, <2>3, <2>5, <2>6, <2>7, <3>1, RunOwners
  <2>10. FileOK(J, written, f)
    <3>1. written[f] \subseteq 0..ino.size - 1
      <4>1. 0 * SECTOR_SIZE = 0
        BY ConstantsLemma
      <4>2. written[f] = {}
        BY <2>2, <4>1
      <4>3. QED
        BY <4>2
    <3>2. \A i \in 0..ND - 1 : RunZones(f, first)[i] = RunZones(f, first)[0] + i
      <4>1. \A i \in 0..ND - 1 : i \in 0..ND + 1 /\ i < ND
        BY <2>4
      <4>2. 0 \in 0..ND - 1
        BY <2>4
      <4>3. \A i \in 0..ND - 1 : RunZones(f, first)[i] = first + i
        BY <4>1 DEF RunZones
      <4>4. first + 0 = first
        BY <2>3
      <4>5. QED
        BY <4>2, <4>3, <4>4
    <3>3. ND \in ND..NR_THIRD_LEVEL_ZONE
      BY ConstantsLemma
    <3>4. ino.size <= ino.nr_sects * SECTOR_SIZE
      BY <2>4, <2>6
    <3>5. QED
      BY <2>1, <2>6, <2>8, <3>1, <3>2, <3>3, <3>4 DEF FileOK
  <2>11. ino.nr_sects > 0
    BY <2>4, <2>6
  <2>12. QED
    BY <2>1, <2>5, <2>7, <2>9, <2>10, <2>11, ConnectStep
<1>4. QED
  BY <1>1, <1>2, <1>3

LEMMA UnlinkStep ==
  ASSUME Inv, Careful, NEW f \in Files, Unlink(f)
  PROVE  Inv'
<1> DEFINE first == dinode[f].zone[0]
           run == first..first + dinode[f].nr_sects - 1
           J == [dinode EXCEPT ![f] = FreeInode]
<1>1. CASE ~ (run \subseteq smap)
  <2>1. Halt("do_unlink")
    BY <1>1 DEF Unlink
  <2>2. QED
    BY <2>1, HaltStep
<1>2. CASE run \subseteq smap
  <2>1. /\ dinode[f].nr_sects = ND /\ f \notin opened
        /\ smap' = smap \ run /\ dinode' = J /\ written' = [written EXCEPT ![f] = {}]
        /\ UNCHANGED <<disk, inode, opened, fd_pos, halted>>
    BY <1>2 DEF Unlink, ND
  <2>2. /\ Typed /\ Owners(smap, disk, dinode) /\ Kept(disk, dinode, written)
        /\ FileOK(dinode, written, f)
    BY DEF Inv, FilesOK
  <2>3. J[f] = FreeInode /\ \A g \in Files : g # f => J[g] = dinode[g]
    BY <2>2 DEF Typed
  <2>4. FreeInode \in Inodes /\ FreeInode.nr_sects = 0 /\ FreeInode.size = 0
        /\ \A z \in 0..ND + 1 : FreeInode.zone[z] = NO_ZONE
    BY ConstantsLemma DEF FreeInode, Inodes, Zones
  <2>5. Spots(dinode, f) = {InZone(i) : i \in 0..ND - 1} /\ Spots(J, f) = {}
    BY <2>1, <2>3, <2>4, FirstPlaces DEF Spots
  <2>6. \A i \in 0..ND - 1 : dinode[f].zone[i] = first + i
    BY <2>1, <2>2, ConstantsLemma DEF FileOK
  <2>7. first \in Nat
    <3>1. 0 \in 0..ND + 1
      BY ConstantsLemma
    <3>2. dinode[f] \in Inodes
      BY <2>2 DEF Typed
    <3>3. dinode[f].zone[0] \in Zones
      BY <3>1, <3>2 DEF Inodes
    <3> HIDE DEF first
    <3>4. first \in Zones
      BY <3>3 DEF first
    <3>5. QED
      BY <3>4, ConstantsLemma
  <2> HIDE DEF first
  <2>8. run = {Held(disk, dinode, f, p) : p \in Spots(dinode, f)}
    <3>1. \A i \in 0..ND - 1 : Held(disk, dinode, f, InZone(i)) = first + i
      BY <2>6, HoldLemma DEF Held
    <3>2. ASSUME NEW s \in run PROVE \E p \in Spots(dinode, f) : Held(disk, dinode, f, p) = s
      <4> DEFINE i == s - first
      <4>1. i \in 0..ND - 1 /\ first + i = s
        BY <2>1, <2>7, ConstantsLemma
      <4> HIDE DEF i
      <4>2. QED
        BY <2>5, <3>1, <4>1
    <3>3. ASSUME NEW p \in Spots(dinode, f) PROVE Held(disk, dinode, f, p) \in run
      <4>1. PICK i \in 0..ND - 1 : p = InZone(i)
        BY <2>5
      <4>2. first + i \in run
        BY <2>1, <2>7, ConstantsLemma, SMTT(40)
      <4>3. QED
        BY <3>1, <4>1, <4>2
    <3> HIDE DEF run
    <3>4. QED
      BY <3>2, <3>3
  <2>9. Shaped(disk, J[f].zone, Spots(J, f))
    BY <2>3, <2>4, <2>5, IndexLemma DEF Shaped, Inodes
  <2> HIDE DEF run, J
  <2>10. Owners(smap', disk, J)
    <3>1. smap' = smap \ {Held(disk, dinode, f, p) : p \in Spots(dinode, f)}
      BY <2>1, <2>8
    <3>2. Owners(smap, disk, dinode) /\ Spots(J, f) = {}
      BY <2>2, <2>5
    <3>3. QED
      BY <2>3, <2>9, <3>1, <3>2, LessOwners
  <2>11. written'[f] = {} /\ \A g \in Files : g # f => written'[g] = written[g]
    BY <2>1, <2>2 DEF Typed
  <2>12. Typed'
    BY <2>1, <2>2, <2>4 DEF Typed, J
  <2>13. Kept(disk, dinode, written)'
    BY <2>1, <2>2, <2>3, <2>11 DEF Kept, Held
  <2>14. ASSUME NEW g \in Files PROVE FileOK(dinode, written, g)' /\ OpenOK(g)'
    <3>1. FileOK(dinode, written, g) /\ OpenOK(g)
      BY DEF Inv, FilesOK
    <3>2. CASE g = f
      <4>1. f # CmdTar
        BY <2>1, <2>2, ConstantsLemma DEF FileOK
      <4>2. dinode'[f] = FreeInode /\ f \notin opened'
        BY <2>1, <2>3
      <4>3. 0 <= 0 * SECTOR_SIZE
        BY ConstantsLemma
      <4>4. QED
        BY <2>4, <2>11, <3>2, <4>1, <4>2, <4>3 DEF FileOK, OpenOK
    <3>3. CASE g # f
      BY <2>1, <2>3, <2>11, <3>1, <3>3 DEF FileOK, OpenOK
    <3>4. QED
      BY <3>2, <3>3
  <2>15. QED
    BY <2>1, <2>10, <2>12, <2>13, <2>14 DEF Inv, FilesOK
<1>3. QED
  BY <1>1, <1>2

LEMMA NextStep == Inv /\ Careful /\ [Next]_vars => Inv'
<1>1. SUFFICES ASSUME Inv, Careful, [Next]_vars PROVE Inv'
  OBVIOUS
<1>2. CASE UNCHANGED vars
  BY <1>1, <1>2 DEF vars, Inv, Typed, FilesOK, OpenOK
<1>3. CASE Next
  <2>1. PICK f \in Files :
          \/ \E trunc \in BOOLEAN : Open(f, trunc) \/ Create(f, trunc)
          \/ Close(f) \/ Unlink(f)
          \/ \E pos \in 0..inode[f].size : Lseek(f, pos)
          \/ \E len \in Lens : Read(f, len) \/ Write(f, len)
    BY <1>3 DEF Next
  <2>2. CASE \E trunc \in BOOLEAN : Open(f, trunc) \/ Create(f, trunc)
    BY <1>1, <2>2, OpenStep, CreateStep
  <2>3. CASE Close(f)
    BY <1>1, <2>3, CloseStep
  <2>4. CASE Unlink(f)
    BY <1>1, <2>4, UnlinkStep
  <2>5. CASE \E pos \in 0..inode[f].size : Lseek(f, pos)
    BY <1>1, <2>5, LseekStep
  <2>6. CASE \E len \in Lens : Read(f, len) \/ Write(f, len)
    BY <1>1, <2>6, ReadStep, WriteStep
  <2>7. QED
    BY <2>1, <2>2, <2>3, <2>4, <2>5, <2>6
<1>4. QED
  BY <1>1, <1>2, <1>3

----------------------------------------------------------------------------
(* The file that mkfs makes                                                *)

Left == TarSize - S2
NrTar == (Left + Z - 1) \div Z
Used == RootSects \cup TarSects

LEMMA TarLemma ==
  /\ TarStart \in Nat /\ TarSize \in Nat /\ Left \in Nat /\ Left > 0 /\ Left <= Z * Z
  /\ TarSize = S2 + Left /\ TarSize \in 0..NR_THIRD_LEVEL_ZONE
  /\ TarSize \in ND..NR_THIRD_LEVEL_ZONE /\ TarSize > ND /\ TarStart > ND
  /\ TarSects \subseteq Sectors /\ RootSects \subseteq Sectors /\ Used \subseteq Sectors
  /\ \A s \in TarSects : s \notin RootSects
  /\ \A n \in 0..TarSize - 1 : TarStart + n \in TarSects
  /\ \A s \in TarSects : s - TarStart \in 0..TarSize - 1 /\ s = TarStart + (s - TarStart)
  /\ NrTar \in 1..Z
  /\ \A q \in Slots : q < NrTar <=> q * Z < Left
<1>1. /\ {TarStart, TarSize} \subseteq Nat /\ TarStart > ND /\ TarStart + TarSize - 1 <= NrBits
      /\ TarSize \in S2 + 1..NR_THIRD_LEVEL_ZONE
  BY FsSectAssumption DEF ND, S2
<1>2. /\ Z \in Nat \ {0} /\ ND \in Nat \ {0} /\ NrBits \in Nat \ {0}
      /\ S2 = ND + Z /\ S2 \in Nat /\ NR_THIRD_LEVEL_ZONE = S2 + Z * Z /\ Z * Z \in Nat
      /\ NR_THIRD_LEVEL_ZONE \in Nat
  BY ConstantsLemma
<1>3. /\ Left \in Nat /\ Left > 0 /\ Left <= Z * Z /\ TarSize = S2 + Left
      /\ TarSize \in Nat /\ TarStart \in Nat
  BY <1>1, <1>2 DEF Left
<1>4. /\ TarSize \in 0..NR_THIRD_LEVEL_ZONE /\ TarSize \in ND..NR_THIRD_LEVEL_ZONE /\ TarSize > ND
  BY <1>1, <1>2, <1>3
<1>5. TarSects \subseteq Sectors /\ RootSects \subseteq Sectors /\ \A s \in TarSects : s \notin RootSects
  BY <1>1, <1>2, <1>3 DEF TarSects, RootSects, Sectors, ND
<1>6. /\ \A n \in 0..TarSize - 1 : TarStart + n \in TarSects
      /\ \A s \in TarSects : s - TarStart \in 0..TarSize - 1 /\ s = TarStart + (s - TarStart)
  BY <1>3 DEF TarSects
<1> DEFINE w == Left + Z - 1
           B == w \div Z
           r == w % Z
<1>7. w \in Nat /\ B = NrTar
  BY <1>2, <1>3 DEF NrTar
<1> HIDE DEF w
<1>8. B \in Nat /\ r \in 0..Z - 1 /\ w = B * Z + r /\ B * Z \in Nat
  <2> HIDE DEF B, r
  <2>1. B = w \div Z /\ r = w % Z
    BY DEF B, r
  <2>2. B \in Nat /\ r \in 0..Z - 1 /\ w = B * Z + r
    BY <1>2, <1>7, <2>1, DivLemma
  <2>3. QED
    BY <1>2, <2>2
<1> HIDE DEF B, r
<1>9. w = Left + Z - 1
  BY DEF w
<1>10. \A x, y \in Nat : x < y => x * Z \in Nat /\ y * Z \in Nat /\ x * Z + Z <= y * Z
  BY <1>2, ProductLemma
<1>11. B >= 1
  <2>1. SUFFICES ASSUME B = 0 PROVE FALSE
    BY <1>8
  <2>2. B * Z = 0
    BY <1>2, <2>1
  <2>3. QED
    BY <1>2, <1>3, <1>8, <1>9, <2>2
<1>12. B <= Z
  <2>1. SUFFICES ASSUME Z < B PROVE FALSE
    BY <1>2, <1>8
  <2>2. Z * Z + Z <= B * Z
    BY <1>2, <1>8, <1>10, <2>1
  <2>3. QED
    BY <1>2, <1>3, <1>8, <1>9, <2>2
<1>13. ASSUME NEW q \in Slots PROVE q < B <=> q * Z < Left
  <2>1. q \in Nat /\ q * Z \in Nat
    BY <1>2, IndexLemma
  <2>2. CASE q < B
    <3>1. q * Z + Z <= B * Z
      BY <1>8, <1>10, <2>1, <2>2
    <3>2. QED
      BY <1>2, <1>3, <1>8, <1>9, <2>1, <2>2, <3>1
  <2>3. CASE q = B
    BY <1>2, <1>3, <1>8, <1>9, <2>1, <2>3
  <2>4. CASE B < q
    <3>1. B * Z + Z <= q * Z
      BY <1>8, <1>10, <2>1, <2>4
    <3>2. QED
      BY <1>2, <1>3, <1>8, <1>9, <2>1, <2>4, <3>1
  <2>5. QED
    BY <1>8, <2>1, <2>2, <2>3, <2>4
<1>14. QED
  BY <1>1, <1>3, <1>4, <1>5, <1>6, <1>7, <1>8, <1>11, <1>12, <1>13 DEF Used

LEMMA EnteredLemma ==
  /\ Entered(TarStart + ND, Z) \in Block
  /\ \A i \in Slots : Entered(TarStart + ND, Z)[i] = TarStart + (ND + i)
  /\ \A q \in Slots : q < NrTar =>
       /\ Entered(TarStart + S2 + q * Z, Left - q * Z) \in Block
       /\ \A i \in Slots : Entered(TarStart + S2 + q * Z, Left - q * Z)[i] =
            IF q * Z + i < Left THEN TarStart + (S2 + q * Z + i) ELSE NO_ZONE
<1>1. /\ Z \in Nat \ {0} /\ ND \in Nat \ {0} /\ S2 = ND + Z /\ S2 \in Nat
      /\ TarStart \in Nat /\ TarSize \in Nat /\ Left \in Nat /\ TarSize = S2 + Left
      /\ Slots = 0..Z - 1 /\ NO_ZONE = 0 /\ 0 \in Zones
      /\ \A n \in 0..TarSize - 1 : TarStart + n \in Zones
  BY ConstantsLemma, TarLemma DEF Slots, Zones
<1>2. \A s, n : Entered(s, n) = [i \in Slots |-> IF i < n THEN s + i ELSE NO_ZONE]
  BY DEF Entered, Slots, Z
<1>3. ASSUME NEW i \in Slots
      PROVE  Entered(TarStart + ND, Z)[i] = TarStart + (ND + i) /\ TarStart + (ND + i) \in Zones
  BY <1>1, <1>2, SMTT(40)
<1>4. Entered(TarStart + ND, Z) \in Block
  <2>1. \A i \in Slots : (IF i < Z THEN TarStart + ND + i ELSE NO_ZONE) \in Zones
    BY <1>2, <1>3
  <2>2. QED
    BY <1>2, <2>1 DEF Block
<1>5. ASSUME NEW q \in Slots, q < NrTar
      PROVE  /\ Entered(TarStart + S2 + q * Z, Left - q * Z) \in Block
             /\ \A i \in Slots : Entered(TarStart + S2 + q * Z, Left - q * Z)[i] =
                  IF q * Z + i < Left THEN TarStart + (S2 + q * Z + i) ELSE NO_ZONE
  <2> DEFINE h == q * Z
             e == Entered(TarStart + S2 + h, Left - h)
  <2>1. h \in Nat
    BY <1>1
  <2> HIDE DEF h
  <2>2. e = [i \in Slots |-> IF i < Left - h THEN TarStart + S2 + h + i ELSE NO_ZONE]
    BY <1>2
  <2> HIDE DEF e
  <2>3. ASSUME NEW i \in Slots
        PROVE  /\ e[i] = IF h + i < Left THEN TarStart + (S2 + h + i) ELSE NO_ZONE
               /\ e[i] \in Zones
    <3>1. i \in Nat
      BY <1>1
    <3>2. CASE h + i < Left
      <4>1. S2 + h + i \in 0..TarSize - 1 /\ i < Left - h
            /\ TarStart + S2 + h + i = TarStart + (S2 + h + i)
        BY <1>1, <2>1, <3>1, <3>2
      <4>2. QED
        BY <1>1, <2>2, <3>2, <4>1
    <3>3. CASE ~ (h + i < Left)
      <4>1. ~ (i < Left - h)
        BY <1>1, <2>1, <3>1, <3>3
      <4>2. QED
        BY <1>1, <2>2, <3>3, <4>1
    <3>4. QED
      BY <3>2, <3>3
  <2>4. e \in Block
    <3>1. \A i \in Slots : e[i] \in Zones
      BY <2>3
    <3>2. e = [i \in Slots |-> e[i]]
      BY <2>2
    <3>3. QED
      BY <3>1, <3>2 DEF Block
  <2>5. QED
    BY <2>3, <2>4 DEF e, h
<1>6. QED
  BY <1>3, <1>4, <1>5

\* A block for a zone that names none.
LEMMA FreshBlock ==
  ASSUME NEW m \in Mem, NEW k \in {ND, ND + 1}, m.zone[k] = NO_ZONE, NEW n, n = ZoneBlock(m, k)
  PROVE  /\ n \in Mem /\ (n.ok => m.ok) /\ n.disk = m.disk /\ n.blk = NoZones
         /\ n.zone = [m.zone EXCEPT ![k] = n.sect]
         /\ n.ok => n.sect \in Sectors \ m.smap /\ n.smap = m.smap \cup {n.sect}
<1> DEFINE a == AllocSect(m)
           z == [a.zone EXCEPT ![k] = a.sect]
<1>1. n = [a EXCEPT !.zone = z, !.blk = NoZones]
  BY DEF ZoneBlock
<1>2. /\ a \in Mem /\ a.disk = m.disk /\ a.zone = m.zone /\ (a.ok => m.ok)
      /\ a.ok => a.sect \in Sectors \ m.smap /\ a.smap = m.smap \cup {a.sect}
  <2> HIDE DEF a
  <2>1. a = AllocSect(m)
    BY DEF a
  <2>2. QED
    BY <2>1, AllocSectLemma
<1> HIDE DEF a
<1>3. NoZones \in Block
  BY NoZonesLemma
<1>4. z \in [0..ND + 1 -> Zones] /\ z = [m.zone EXCEPT ![k] = a.sect]
  BY <1>2 DEF Mem
<1> HIDE DEF z
<1>5. n \in Mem /\ n.zone = z /\ n.blk = NoZones /\ n.disk = a.disk /\ n.sect = a.sect
      /\ n.smap = a.smap /\ n.ok = a.ok
  BY <1>1, <1>2, <1>3, <1>4 DEF Mem
<1>6. QED
  BY <1>2, <1>4, <1>5

\* After q rounds, the block at hand names q blocks with the numbers of sectors.
TarTaken(y, x, q) ==
  /\ \A i \in Slots :
       IF i < q
       THEN /\ x.blk[i] \in Sectors \ y.smap /\ x.blk[i] \in x.smap
            /\ x.disk[x.blk[i]] = Entered(TarStart + S2 + i * Z, Left - i * Z)
       ELSE x.blk[i] = NO_ZONE
  /\ \A i, j \in Slots : i < q /\ j < q /\ x.blk[i] = x.blk[j] => i = j
  /\ \A s \in x.smap \ y.smap : \E i \in Slots : i < q /\ x.blk[i] = s
  /\ y.smap \subseteq x.smap
  /\ \A s \in y.smap : x.disk[s] = y.disk[s]

TarAt(y, x, q) ==
  /\ x \in Mem /\ (x.ok => y.ok) /\ x.zone = y.zone
  /\ x.ok => TarTaken(y, x, q)

LEMMA TarRoundLemma ==
  ASSUME NEW y, NEW x, NEW q \in Slots, q < NrTar, TarAt(y, x, q),
         NEW w, w = TarRound(Left, x, q)
  PROVE  TarAt(y, w, q + 1)
<1> DEFINE a == FillSlot(x, q)
           B == Entered(TarStart + S2 + q * Z, Left - q * Z)
           d == [a.disk EXCEPT ![a.blk[q]] = B]
<1>1. w = [a EXCEPT !.disk = d]
  BY DEF TarRound, Z, S2
<1>2. Filled(x, q, a)
  <2> HIDE DEF a
  <2>1. a = FillSlot(x, q)
    BY DEF a
  <2>2. QED
    BY <2>1, FillSlotLemma DEF TarAt
<1> HIDE DEF a
<1>3. B \in Block /\ B \in Contents
  <2> HIDE DEF B
  <2>1. B = Entered(TarStart + S2 + q * Z, Left - q * Z)
    BY DEF B
  <2>2. B \in Block
    BY <2>1, EnteredLemma
  <2>3. QED
    BY <2>2 DEF Contents
<1> HIDE DEF B
<1>4. a \in Mem /\ (a.ok => x.ok) /\ a.zone = x.zone /\ a.disk = x.disk
  BY <1>2 DEF Filled
<1>5. d \in [Zones -> Contents] /\ d = [x.disk EXCEPT ![a.blk[q]] = B]
  BY <1>3, <1>4 DEF Mem
<1> HIDE DEF d
<1>6. w \in Mem /\ w.ok = a.ok /\ w.zone = a.zone /\ w.blk = a.blk /\ w.smap = a.smap /\ w.disk = d
  BY <1>1, <1>4, <1>5 DEF Mem
<1>7. ASSUME w.ok PROVE TarTaken(y, w, q + 1)
  <2>1. x.ok /\ TarTaken(y, x, q) /\ x \in Mem
    BY <1>4, <1>6, <1>7 DEF TarAt
  <2>2. q \in Nat /\ Slots \subseteq Nat
    BY IndexLemma
  <2>3. x.blk[q] = NO_ZONE
    BY <2>1, <2>2 DEF TarTaken
  <2> DEFINE s == a.sect
  <2>4. s \in Sectors \ x.smap /\ a.smap = x.smap \cup {s} /\ a.blk = [x.blk EXCEPT ![q] = s]
    BY <1>2, <1>6, <1>7, <2>3 DEF Filled
  <2> HIDE DEF s
  <2>5. /\ w.blk[q] = s /\ \A i \in Slots : i # q => w.blk[i] = x.blk[i]
        /\ w.smap = x.smap \cup {s}
    BY <1>6, <2>1, <2>4 DEF Mem, Block
  <2>6. w.disk[s] = B /\ \A t \in Zones : t # s => w.disk[t] = x.disk[t]
    <3>1. a.blk[q] = s /\ s \in Zones /\ x.disk \in [Zones -> Contents]
      BY <1>6, <2>1, <2>4, <2>5 DEF Mem, Zones
    <3>2. QED
      BY <1>5, <1>6, <3>1
  <2>7. y.smap \subseteq x.smap /\ s \notin y.smap /\ x.smap \subseteq Sectors
    BY <2>1, <2>4 DEF TarTaken, Mem
  <2>8. ASSUME NEW i \in Slots
        PROVE  IF i < q + 1
               THEN /\ w.blk[i] \in Sectors \ y.smap /\ w.blk[i] \in w.smap
                    /\ w.disk[w.blk[i]] = Entered(TarStart + S2 + i * Z, Left - i * Z)
               ELSE w.blk[i] = NO_ZONE
    <3>1. CASE i = q
      BY <2>2, <2>4, <2>5, <2>6, <2>7, <3>1 DEF B
    <3>2. CASE i # q
      <4>1. (i < q + 1 <=> i < q) /\ w.blk[i] = x.blk[i]
        BY <2>2, <2>5, <3>2
      <4>2. CASE i < q
        <5>1. /\ x.blk[i] \in Sectors \ y.smap /\ x.blk[i] \in x.smap
              /\ x.disk[x.blk[i]] = Entered(TarStart + S2 + i * Z, Left - i * Z)
          BY <2>1, <4>2 DEF TarTaken
        <5>2. x.blk[i] # s /\ x.blk[i] \in Zones
          BY <2>4, <5>1 DEF Zones
        <5>3. QED
          BY <2>5, <2>6, <4>1, <4>2, <5>1, <5>2
      <4>3. CASE ~ (i < q)
        BY <2>1, <4>1, <4>3 DEF TarTaken
      <4>4. QED
        BY <4>2, <4>3
    <3>3. QED
      BY <3>1, <3>2
  <2>9. ASSUME NEW i \in Slots, NEW j \in Slots, i < q + 1, j < q + 1, w.blk[i] = w.blk[j]
        PROVE  i = j
    <3>1. ASSUME NEW k \in Slots, k < q + 1, k # q
          PROVE  k < q /\ w.blk[k] = x.blk[k] /\ x.blk[k] \in x.smap
      <4>1. k < q /\ w.blk[k] = x.blk[k]
        BY <2>2, <2>5, <3>1
      <4>2. QED
        BY <2>1, <4>1 DEF TarTaken
    <3>2. CASE i = q /\ j # q
      BY <2>4, <2>5, <2>9, <3>1, <3>2
    <3>3. CASE i # q /\ j = q
      BY <2>4, <2>5, <2>9, <3>1, <3>3
    <3>4. CASE i # q /\ j # q
      BY <2>1, <2>9, <3>1, <3>4 DEF TarTaken
    <3>5. QED
      BY <3>2, <3>3, <3>4
  <2>10. ASSUME NEW t \in w.smap \ y.smap PROVE \E i \in Slots : i < q + 1 /\ w.blk[i] = t
    <3>1. CASE t = s
      BY <2>2, <2>5, <3>1
    <3>2. CASE t # s
      <4>1. PICK i \in Slots : i < q /\ x.blk[i] = t
        BY <2>1, <2>5, <3>2 DEF TarTaken
      <4>2. i \in Nat /\ i < q
        BY <2>2, <4>1, Zenon
      <4>3. i < q + 1 /\ i # q
        BY <2>2, <4>2
      <4>4. QED
        BY <2>5, <4>1, <4>3
    <3>3. QED
      BY <3>1, <3>2
  <2>11. \A t \in y.smap : w.disk[t] = y.disk[t]
    <3>1. \A t \in y.smap : t \in Zones /\ t # s /\ x.disk[t] = y.disk[t]
      BY <2>1, <2>7 DEF TarTaken, Zones
    <3>2. QED
      BY <2>6, <3>1
  <2>12. y.smap \subseteq w.smap
    BY <2>5, <2>7
  <2>13. QED
    BY <2>8, <2>9, <2>10, <2>11, <2>12 DEF TarTaken
<1>8. (w.ok => y.ok) /\ w.zone = y.zone
  BY <1>4, <1>6 DEF TarAt
<1>9. QED
  BY <1>6, <1>7, <1>8 DEF TarAt

TarLoop(x0, L) ==
  CHOOSE h : h = [q \in 0..L |-> IF q = 0 THEN x0 ELSE TarRound(Left, h[q - 1], q - 1)]

LEMMA TarLoopLemma ==
  ASSUME NEW y \in Mem, y.blk = NoZones, NEW w, w = TarLoop(y, NrTar)[NrTar]
  PROVE  TarAt(y, w, NrTar)
<1> DEFINE L == NrTar
           Step(x, q) == TarRound(Left, x, q - 1)
           g == [t \in (1..L) \X Mem |-> Step(t[2], t[1])]
           M == [q \in 0..L |-> {x \in Mem : TarAt(y, x, q)}]
           F(h) == [q \in 0..L |-> IF q = 0 THEN y ELSE Step(h[q - 1], q)]
           at == TarLoop(y, L)
<1>1. /\ L \in Nat /\ 0 \in 0..L /\ L \in 0..L
      /\ \A q \in 1..L : q - 1 \in 0..L /\ q \in 0..L /\ q - 1 \in Slots /\ q - 1 < NrTar
                         /\ (q - 1) + 1 = q
  <2>1. NrTar \in 1..Z /\ Slots = 0..Z - 1 /\ Z \in Nat
    BY TarLemma, ConstantsLemma DEF Slots
  <2>2. QED
    BY <2>1
<1> HIDE DEF L
<1>2. g \in [(1..L) \X Mem -> Mem]
  <2>1. ASSUME NEW x \in Mem, NEW k \in 1..L PROVE Step(x, k) \in Mem
    <3> DEFINE q == k - 1
    <3>0. q \in Slots /\ q < NrTar
      BY <1>1
    <3> HIDE DEF q
    <3> DEFINE a == FillSlot(x, q)
               B == Entered(TarStart + S2 + q * Z, Left - q * Z)
               d == [a.disk EXCEPT ![a.blk[q]] = B]
    <3>1. a \in Mem
      BY <3>0, FillSlotLemma DEF Filled
    <3>2. B \in Contents
      BY <3>0, EnteredLemma DEF Contents
    <3> HIDE DEF a, B
    <3>3. d \in [Zones -> Contents]
      BY <3>1, <3>2 DEF Mem
    <3>4. Step(x, k) = [a EXCEPT !.disk = d]
      BY DEF TarRound, a, B, q, Z, S2
    <3> HIDE DEF d, Step
    <3>5. QED
      BY <3>1, <3>3, <3>4 DEF Mem
  <2> HIDE DEF Step
  <2>2. QED
    BY <2>1
<1> HIDE DEF g
<1>4. PICK e : Runs(e, L, Mem, y, g)
  BY <1>1, <1>2, LoopExists
<1>5. \A i \in 1..L : e[i] = Step(e[i - 1], i) /\ e[i - 1] \in Mem
  BY <1>1, <1>4 DEF g, Runs
<1> HIDE DEF Step
<1>6. e = F(e)
  <2>1. e = [i \in 0..L |-> e[i]] /\ e[0] = y
    BY <1>4 DEF Runs
  <2>2. ASSUME NEW i \in 0..L PROVE e[i] = IF i = 0 THEN y ELSE Step(e[i - 1], i)
    <3>1. i = 0 \/ i \in 1..L
      BY <1>1
    <3>2. QED
      BY <1>5, <2>1, <3>1
  <2>3. QED
    BY <2>1, <2>2
<1>7. at = F(at)
  BY <1>6 DEF TarLoop, Step
<1> HIDE DEF at
<1>8. at[0] = y /\ \A i \in 1..L : at[i] = Step(at[i - 1], i)
  BY <1>1, <1>7
<1>9. at[0] \in M[0]
  <2>1. \A i \in Slots : ~ (i < 0) /\ y.blk[i] = NO_ZONE
    BY IndexLemma DEF NoZones, Slots, Z
  <2>2. TarTaken(y, y, 0)
    BY <2>1 DEF TarTaken
  <2>3. TarAt(y, y, 0)
    BY <2>2 DEF TarAt
  <2>4. QED
    BY <1>1, <1>8, <2>3
<1>10. ASSUME NEW i \in 1..L, at[i - 1] \in M[i - 1] PROVE at[i] \in M[i]
  <2> DEFINE x == at[i - 1]
             v == at[i]
             q == i - 1
  <2>1. TarAt(y, x, q)
    BY <1>1, <1>10
  <2>2. v = TarRound(Left, x, q) /\ q \in Slots /\ q < NrTar /\ q + 1 = i
    BY <1>1, <1>8 DEF Step
  <2> HIDE DEF x, v, q
  <2>3. TarAt(y, v, q + 1)
    BY <2>1, <2>2, TarRoundLemma
  <2>4. v \in Mem
    BY <2>3 DEF TarAt
  <2>5. v \in M[i]
    BY <1>1, <2>2, <2>3, <2>4
  <2>6. QED
    BY <2>5 DEF v
<1>11. at[L] \in M[L]
  <2> HIDE DEF M
  <2>1. \A i \in 0..L : at[i] \in M[i]
    BY <1>1, <1>9, <1>10, LoopInduction
  <2>2. QED
    BY <1>1, <2>1, Zenon
<1>12. QED
  BY <1>1, <1>11 DEF at, L

TarDirect == [z \in 0..THIRD_LEVEL_ZONE |-> IF z < NR_DIRECT_ZONE THEN TarStart + z ELSE NO_ZONE]
Image ==
  [s \in Zones |->
     IF s \in TarSects
     THEN [o \in 0..SECTOR_SIZE - 1 |-> Byte(CmdTar, (s - TarStart) * SECTOR_SIZE + o)]
     ELSE Garbage]
Fresh == [smap |-> Used, disk |-> Image, zone |-> FreeInode.zone, sect |-> NO_ZONE,
          blk |-> NoZones, top |-> NoZones, next |-> 0, ok |-> TRUE]

\* What mkfs leaves: the blocks of zones of cmd.tar, in sectors that were not in use.
MadeTar(m) ==
  /\ m \in Mem
  /\ \A i \in 0..ND - 1 : m.zone[i] = TarStart + i
  /\ {m.zone[ND], m.zone[ND + 1]} \subseteq Sectors \ Used /\ m.zone[ND] # m.zone[ND + 1]
  /\ m.disk[m.zone[ND]] = Entered(TarStart + ND, Z)
  /\ m.disk[m.zone[ND + 1]] \in Block
  /\ \A i \in Slots :
       IF i < NrTar
       THEN /\ m.disk[m.zone[ND + 1]][i] \in Sectors \ (Used \cup {m.zone[ND], m.zone[ND + 1]})
            /\ m.disk[m.zone[ND + 1]][i] \in m.smap
            /\ m.disk[m.disk[m.zone[ND + 1]][i]] = Entered(TarStart + S2 + i * Z, Left - i * Z)
       ELSE m.disk[m.zone[ND + 1]][i] = NO_ZONE
  /\ \A i, j \in Slots : i < NrTar /\ j < NrTar /\
       m.disk[m.zone[ND + 1]][i] = m.disk[m.zone[ND + 1]][j] => i = j
  /\ Used \cup {m.zone[ND], m.zone[ND + 1]} \subseteq m.smap
  /\ \A s \in m.smap : \/ s \in Used \cup {m.zone[ND], m.zone[ND + 1]}
                       \/ \E i \in Slots : i < NrTar /\ m.disk[m.zone[ND + 1]][i] = s
  /\ \A s \in TarSects : m.disk[s] = Image[s]

LEMMA FreshLemma == Fresh \in Mem /\ [Fresh EXCEPT !.zone = TarDirect] \in Mem
<1>1. Used \subseteq Sectors
  BY TarLemma
<1>2. NoZones \in Block
  BY NoZonesLemma
<1>3. FreeInode.zone \in [0..ND + 1 -> Zones] /\ NO_ZONE \in Zones
  BY ConstantsLemma DEF FreeInode, Zones
<1>4. Image \in [Zones -> Contents]
  <2>1. ASSUME NEW s \in TarSects
        PROVE  [o \in 0..SECTOR_SIZE - 1 |-> Byte(CmdTar, (s - TarStart) * SECTOR_SIZE + o)]
                 \in [0..SECTOR_SIZE - 1 -> Bytes]
    <3>1. s - TarStart \in Nat /\ SECTOR_SIZE \in Nat
      <4>1. s - TarStart \in 0..TarSize - 1
        BY TarLemma
      <4> DEFINE k == s - TarStart
      <4>2. k \in 0..TarSize - 1
        BY <4>1
      <4> HIDE DEF k
      <4>3. k \in Nat
        BY <4>2, TarLemma
      <4>4. QED
        BY <4>3, ConstantsLemma DEF k
    <3> DEFINE k == s - TarStart
    <3>2. k \in Nat
      BY <3>1
    <3> HIDE DEF k
    <3>3. k * SECTOR_SIZE \in Nat
      BY <3>1, <3>2
    <3> DEFINE h == k * SECTOR_SIZE
    <3>4. h \in Nat
      BY <3>3
    <3> HIDE DEF h
    <3>5. \A o \in 0..SECTOR_SIZE - 1 : h + o \in Nat
      BY <3>1, <3>4
    <3>6. \A o \in 0..SECTOR_SIZE - 1 : Byte(CmdTar, h + o) \in Bytes
      BY <3>5, FsSectAssumption DEF Bytes
    <3>7. [o \in 0..SECTOR_SIZE - 1 |-> Byte(CmdTar, h + o)] \in [0..SECTOR_SIZE - 1 -> Bytes]
      BY <3>6
    <3>8. QED
      BY <3>7 DEF h, k
  <2>2. Garbage \in [0..SECTOR_SIZE - 1 -> Bytes]
    BY DEF Garbage, Bytes
  <2>3. \A s \in Zones : (IF s \in TarSects
           THEN [o \in 0..SECTOR_SIZE - 1 |-> Byte(CmdTar, (s - TarStart) * SECTOR_SIZE + o)]
           ELSE Garbage) \in Contents
    BY <2>1, <2>2 DEF Contents
  <2>4. QED
    BY <2>3 DEF Image
<1>5. TarDirect \in [0..ND + 1 -> Zones]
  <2>1. \A z \in 0..ND + 1 : z < ND => TarStart + z \in Zones
    <3>1. \A z \in 0..ND + 1 : z < ND => z \in 0..TarSize - 1
      BY ConstantsLemma, TarLemma
    <3>2. \A n \in 0..TarSize - 1 : TarStart + n \in Zones
      BY TarLemma DEF Zones
    <3>3. QED
      BY <3>1, <3>2
  <2>2. \A z \in 0..ND + 1 : (IF z < ND THEN TarStart + z ELSE NO_ZONE) \in Zones
    BY <1>3, <2>1
  <2>3. TarDirect = [z \in 0..ND + 1 |-> IF z < ND THEN TarStart + z ELSE NO_ZONE]
    BY ConstantsLemma DEF TarDirect, ND
  <2>4. QED
    BY <2>2, <2>3
<1>6. Fresh \in Mem
  BY <1>1, <1>2, <1>3, <1>4 DEF Fresh, Mem
<1>7. QED
  BY <1>5, <1>6 DEF Mem

LEMMA MkfsLemma == ASSUME Mkfs.ok PROVE MadeTar(Mkfs)
<1> DEFINE m1 == [Fresh EXCEPT !.zone = TarDirect]
           v == ZoneBlock(m1, ND)
           m2 == [v EXCEPT !.disk[v.zone[ND]] = Entered(TarStart + ND, Z)]
           y == ZoneBlock(m2, ND + 1)
           n == TarLoop(y, NrTar)[NrTar]
           K == Mkfs
<1>1. K = [n EXCEPT !.disk[n.zone[ND + 1]] = n.blk]
  BY DEF Mkfs, TarZone, TarLoop, Fresh, Image, Used, TarDirect, Left, NrTar, Z, S2, ND,
     SECOND_LEVEL_ZONE, THIRD_LEVEL_ZONE
<1>2. /\ ND \in Nat \ {0} /\ 0..ND - 1 \subseteq 0..ND + 1 /\ ND \in 0..ND + 1 /\ ND + 1 \in 0..ND + 1
      /\ ND # ND + 1 /\ \A i \in 0..ND - 1 : i < ND /\ i # ND /\ i # ND + 1
      /\ ~ (ND < ND) /\ ~ (ND + 1 < ND) /\ Used \subseteq Sectors /\ NO_ZONE \notin Sectors
      /\ TarSects \subseteq Used
  BY ConstantsLemma, TarLemma DEF Used
<1>3. /\ m1 \in Mem /\ m1.smap = Used /\ m1.disk = Image /\ m1.zone = TarDirect /\ m1.ok
      /\ \A i \in 0..ND - 1 : m1.zone[i] = TarStart + i
      /\ m1.zone[ND] = NO_ZONE /\ m1.zone[ND + 1] = NO_ZONE
  <2>1. m1 \in Mem /\ m1.smap = Used /\ m1.disk = Image /\ m1.zone = TarDirect /\ m1.ok
    BY FreshLemma DEF Fresh
  <2>2. TarDirect = [z \in 0..ND + 1 |-> IF z < ND THEN TarStart + z ELSE NO_ZONE]
    BY ConstantsLemma DEF TarDirect, ND
  <2>3. QED
    BY <1>2, <2>1, <2>2
<1> HIDE DEF m1
<1>4. /\ v \in Mem /\ v.disk = Image /\ v.zone = [m1.zone EXCEPT ![ND] = v.sect]
      /\ v.ok => v.sect \in Sectors \ Used /\ v.smap = Used \cup {v.sect}
  <2> HIDE DEF v
  <2>1. v = ZoneBlock(m1, ND)
    BY DEF v
  <2>2. QED
    BY <1>3, <2>1, FreshBlock
<1> HIDE DEF v
<1>5. /\ v.zone[ND] = v.sect /\ v.zone[ND + 1] = NO_ZONE
      /\ \A i \in 0..ND - 1 : v.zone[i] = TarStart + i
  BY <1>2, <1>3, <1>4 DEF Mem
<1>6. /\ m2 \in Mem /\ m2.smap = v.smap /\ m2.zone = v.zone /\ m2.ok = v.ok
      /\ m2.disk = [Image EXCEPT ![v.sect] = Entered(TarStart + ND, Z)]
  <2> DEFINE B == Entered(TarStart + ND, Z)
             d == [v.disk EXCEPT ![v.zone[ND]] = B]
  <2>1. B \in Contents
    BY EnteredLemma DEF Contents
  <2> HIDE DEF B
  <2>2. d \in [Zones -> Contents] /\ d = [Image EXCEPT ![v.sect] = B]
    BY <1>4, <1>5, <2>1 DEF Mem
  <2>3. m2 = [v EXCEPT !.disk = d]
    BY DEF B
  <2> HIDE DEF d, m2
  <2>4. QED
    BY <1>4, <2>2, <2>3 DEF Mem, B
<1> HIDE DEF m2
<1>7. /\ y \in Mem /\ (y.ok => v.ok) /\ y.disk = m2.disk /\ y.blk = NoZones
      /\ y.zone = [v.zone EXCEPT ![ND + 1] = y.sect]
      /\ y.ok => y.sect \in Sectors \ v.smap /\ y.smap = v.smap \cup {y.sect}
  <2> HIDE DEF y
  <2>1. y = ZoneBlock(m2, ND + 1)
    BY DEF y
  <2>2. QED
    BY <1>5, <1>6, <2>1, FreshBlock
<1> HIDE DEF y
<1>8. /\ y.zone[ND] = v.sect /\ y.zone[ND + 1] = y.sect
      /\ \A i \in 0..ND - 1 : y.zone[i] = TarStart + i
  BY <1>2, <1>4, <1>5, <1>7 DEF Mem
<1>9. TarAt(y, n, NrTar)
  <2> HIDE DEF n
  <2>1. n = TarLoop(y, NrTar)[NrTar]
    BY DEF n
  <2>2. QED
    BY <1>7, <2>1, TarLoopLemma
<1> HIDE DEF n
<1>10. n \in Mem /\ n.zone = y.zone /\ (n.ok => y.ok /\ TarTaken(y, n, NrTar))
  BY <1>9 DEF TarAt
<1> HIDE DEF K
<1>11. K \in Mem /\ K.disk = [n.disk EXCEPT ![y.sect] = n.blk] /\ K.zone = y.zone /\ K.ok = n.ok
       /\ K.smap = n.smap
  <2> DEFINE d == [n.disk EXCEPT ![n.zone[ND + 1]] = n.blk]
  <2>1. d \in [Zones -> Contents] /\ d = [n.disk EXCEPT ![y.sect] = n.blk]
    BY <1>8, <1>10 DEF Mem, Contents
  <2>2. K = [n EXCEPT !.disk = d]
    BY <1>1
  <2> HIDE DEF d
  <2>3. QED
    BY <1>10, <2>1, <2>2 DEF Mem
<1> DEFINE s2 == v.sect
           s3 == y.sect
           t == n.blk
<1>12. /\ TarTaken(y, n, NrTar) /\ y.smap = Used \cup {s2} \cup {s3}
       /\ s2 \in Sectors \ Used /\ s3 \in Sectors \ Used /\ s2 # s3
  <2>1. n.ok
    BY <1>11 DEF K
  <2>2. QED
    BY <1>4, <1>7, <1>10, <2>1
<1> HIDE DEF s2, s3, t
<1>13. /\ t \in Block /\ K.disk[s3] = t /\ \A s \in Zones : s # s3 => K.disk[s] = n.disk[s]
  BY <1>10, <1>11, <1>12 DEF Mem, s3, t, Zones
<1>14. /\ \A i \in Slots :
            IF i < NrTar
            THEN /\ t[i] \in Sectors \ (Used \cup {s2, s3}) /\ t[i] \in K.smap
                 /\ n.disk[t[i]] = Entered(TarStart + S2 + i * Z, Left - i * Z)
            ELSE t[i] = NO_ZONE
       /\ \A i, j \in Slots : i < NrTar /\ j < NrTar /\ t[i] = t[j] => i = j
       /\ \A s \in K.smap : s \in Used \cup {s2, s3} \/ \E i \in Slots : i < NrTar /\ t[i] = s
       /\ Used \cup {s2, s3} \subseteq K.smap
       /\ \A s \in Used \cup {s2, s3} : n.disk[s] = y.disk[s]
  <2>1. y.smap = Used \cup {s2, s3}
    BY <1>12
  <2>2. QED
    BY <1>11, <1>12, <2>1 DEF TarTaken, t
<1>15. \A i \in Slots : i < NrTar => K.disk[t[i]] = Entered(TarStart + S2 + i * Z, Left - i * Z)
  BY <1>13, <1>14 DEF Zones
<1>16. K.zone[ND] = s2 /\ K.zone[ND + 1] = s3 /\ \A i \in 0..ND - 1 : K.zone[i] = TarStart + i
  BY <1>8, <1>11 DEF s2, s3
<1>17. K.disk[s2] = Entered(TarStart + ND, Z)
  <2>1. s2 \in Zones /\ Image \in [Zones -> Contents]
    BY <1>4, <1>12 DEF Zones, Mem
  <2>2. y.disk[s2] = Entered(TarStart + ND, Z)
    BY <1>6, <1>7, <2>1 DEF s2
  <2>3. QED
    BY <1>12, <1>13, <1>14, <2>1, <2>2
<1>18. ASSUME NEW s \in TarSects PROVE K.disk[s] = Image[s]
  <2>1. s \in Used /\ s \in Zones /\ s # s2 /\ s # s3 /\ Image \in [Zones -> Contents]
    BY <1>2, <1>4, <1>12 DEF Zones, Mem
  <2>2. y.disk[s] = Image[s]
    BY <1>6, <1>7, <2>1 DEF s2
  <2>3. QED
    BY <1>13, <1>14, <2>1, <2>2
<1>19. MadeTar(K)
  <2>1. {K.zone[ND], K.zone[ND + 1]} = {s2, s3} /\ K.disk[K.zone[ND + 1]] = t
    BY <1>13, <1>16
  <2>2. QED
    BY <1>11, <1>12, <1>13, <1>14, <1>15, <1>16, <1>17, <1>18, <2>1 DEF MadeTar
<1>20. QED
  BY <1>19, ZenonT(40) DEF K

\* cmd.tar owns its sectors and those of its blocks.
TarOwns(m) ==
  /\ Own(m.smap, m.disk, m.zone, Places(TarSize))
  /\ \A n \in 0..TarSize - 1 : Hold(m.disk, m.zone, Cell(n)) = TarStart + n
  /\ \A p \in Places(TarSize) : Hold(m.disk, m.zone, p) \notin RootSects
  /\ \A s \in m.smap \ RootSects : \E p \in Places(TarSize) : Hold(m.disk, m.zone, p) = s
  /\ RootSects \subseteq m.smap

LEMMA TarOwnsLemma == ASSUME NEW m, MadeTar(m) PROVE TarOwns(m)
<1> DEFINE d == m.disk
           z == m.zone
           t == d[z[ND + 1]]
           Q == Places(TarSize)
<1>0. /\ ND \in Nat \ {0} /\ Z \in Nat \ {0} /\ S2 = ND + Z /\ S2 \in Nat /\ TarSize = S2 + Left
      /\ Left \in Nat /\ Left > 0 /\ TarSize \in 0..NR_THIRD_LEVEL_ZONE /\ TarSize \in Nat
      /\ Slots = 0..Z - 1 /\ NR_THIRD_LEVEL_ZONE \in Nat
      /\ TarSects \subseteq Used /\ Used = RootSects \cup TarSects /\ Used \subseteq Sectors
      /\ \A s \in TarSects : s \notin RootSects
      /\ \A q \in Slots : q < NrTar <=> q * Z < Left
      /\ \A q, i \in Slots : q * Z \in Nat
      /\ 0 \notin Sectors
  BY ConstantsLemma, TarLemma, SMTT(40) DEF Slots, Used
<1>1. /\ m \in Mem /\ \A i \in 0..ND - 1 : z[i] = TarStart + i
      /\ z[ND] \in Sectors \ Used /\ z[ND + 1] \in Sectors \ Used /\ z[ND] # z[ND + 1]
      /\ d[z[ND]] = Entered(TarStart + ND, Z) /\ t \in Block
      /\ \A i \in Slots : IF i < NrTar
            THEN /\ t[i] \in Sectors \ Used /\ t[i] # z[ND] /\ t[i] # z[ND + 1] /\ t[i] \in m.smap
                 /\ d[t[i]] = Entered(TarStart + S2 + i * Z, Left - i * Z)
            ELSE t[i] = NO_ZONE
      /\ \A i, j \in Slots : i < NrTar /\ j < NrTar /\ t[i] = t[j] => i = j
      /\ Used \subseteq m.smap /\ z[ND] \in m.smap /\ z[ND + 1] \in m.smap
      /\ \A s \in m.smap : s \in Used \/ s = z[ND] \/ s = z[ND + 1]
                           \/ \E i \in Slots : i < NrTar /\ t[i] = s
  BY DEF MadeTar
<1> HIDE DEF t
<1>2. z \in [0..ND + 1 -> Zones] /\ d \in [Zones -> Contents] /\ m.smap \subseteq Sectors
  BY <1>1 DEF Mem
<1>3. \A p : p \in Q <=> p \in Cells /\ Need(p) < TarSize
  BY DEF Places
<1> HIDE DEF Q
\* The places of cmd.tar.
<1>4. /\ InZone(ND) \in Q /\ InZone(ND + 1) \in Q
      /\ \A i \in 0..ND - 1 : InZone(i) \in Q
      /\ \A i \in Slots : InSecond(i) \in Q
      /\ \A q \in Slots : InThird(q) \in Q <=> q < NrTar
      /\ \A q, i \in Slots : InBlock(q, i) \in Q <=> q * Z + i < Left
  <2>1. \A i \in 0..ND - 1 : i \in 0..ND + 1 /\ i < TarSize
    BY <1>0
  <2>2. \A i \in 0..ND - 1 : InZone(i) \in Q
    BY <1>3, <2>1, CellsLemma, NeedLemma
  <2>3. InZone(ND) \in Q /\ InZone(ND + 1) \in Q
    <3>1. ND < TarSize /\ S2 < TarSize /\ ND \in 0..ND + 1 /\ ND + 1 \in 0..ND + 1
      BY <1>0
    <3>2. InZone(ND) \in Cells /\ InZone(ND + 1) \in Cells
      BY <3>1, CellsLemma
    <3>3. QED
      BY <1>3, <3>1, <3>2, NeedLemma
  <2>4. ASSUME NEW i \in Slots PROVE InSecond(i) \in Q
    <3>1. ND + i < TarSize
      BY <1>0
    <3>2. QED
      BY <1>3, <3>1, CellsLemma, NeedLemma
  <2>5. ASSUME NEW q \in Slots PROVE InThird(q) \in Q <=> q < NrTar
    <3>1. InThird(q) \in Cells /\ Need(InThird(q)) = S2 + q * Z /\ (q < NrTar <=> q * Z < Left)
          /\ q * Z \in Nat
      BY <1>0, CellsLemma, NeedLemma
    <3> DEFINE h == q * Z
    <3>2. h \in Nat /\ Need(InThird(q)) = S2 + h /\ (q < NrTar <=> h < Left)
      BY <3>1
    <3> HIDE DEF h
    <3>3. S2 + h < TarSize <=> h < Left
      BY <1>0, <3>2, SMTT(40)
    <3>4. QED
      BY <1>3, <3>1, <3>2, <3>3
  <2>6. ASSUME NEW q \in Slots, NEW i \in Slots PROVE InBlock(q, i) \in Q <=> q * Z + i < Left
    <3>1. InBlock(q, i) \in Cells /\ Need(InBlock(q, i)) = S2 + q * Z + i /\ q * Z \in Nat
      BY <1>0, CellsLemma, NeedLemma
    <3> DEFINE h == q * Z
    <3>2. h \in Nat /\ Need(InBlock(q, i)) = S2 + h + i /\ i \in Nat
      BY <1>0, <3>1
    <3>3. S2 + h + i < TarSize <=> h + i < Left
      <4>1. TarSize = S2 + Left /\ S2 \in Nat /\ Left \in Nat
        BY <1>0
      <4> HIDE DEF h
      <4>2. QED
        BY <3>2, <4>1
    <3>4. QED
      BY <1>3, <3>1, <3>2, <3>3
  <2>7. QED
    BY <2>2, <2>3, <2>4, <2>5, <2>6
<1>5. ASSUME NEW q \in Slots, NEW i \in Slots, q * Z + i < Left PROVE q < NrTar
  <2>1. q * Z \in Nat /\ i \in Nat
    BY <1>0
  <2> DEFINE h == q * Z
  <2>2. h \in Nat /\ h + i < Left
    BY <1>5, <2>1
  <2> HIDE DEF h
  <2>3. h < Left
    BY <1>0, <2>1, <2>2, SMTT(40)
  <2>4. QED
    BY <1>0, <2>3 DEF h
\* What they hold.
<1>6. /\ \A i \in 0..ND - 1 : Hold(d, z, InZone(i)) = TarStart + Need(InZone(i))
      /\ Hold(d, z, InZone(ND)) = z[ND] /\ Hold(d, z, InZone(ND + 1)) = z[ND + 1]
      /\ \A i \in Slots : Hold(d, z, InSecond(i)) = TarStart + Need(InSecond(i))
      /\ \A q \in Slots : Hold(d, z, InThird(q)) = t[q]
      /\ \A q, i \in Slots : q * Z + i < Left =>
           Hold(d, z, InBlock(q, i)) = TarStart + Need(InBlock(q, i))
  <2>1. \A i : Hold(d, z, InZone(i)) = z[i]
    BY DEF Hold, InZone
  <2>2. \A i : Hold(d, z, InSecond(i)) = d[z[ND]][i]
    BY DEF Hold, InSecond
  <2>3. \A i : Hold(d, z, InThird(i)) = t[i]
    BY DEF Hold, InThird, t
  <2>4. \A q, i : Hold(d, z, InBlock(q, i)) = d[t[q]][i]
    BY DEF Hold, InBlock, t
  <2>5. ASSUME NEW i \in 0..ND - 1 PROVE Hold(d, z, InZone(i)) = TarStart + Need(InZone(i))
    BY <1>1, <2>1, NeedLemma
  <2>6. ASSUME NEW i \in Slots PROVE Hold(d, z, InSecond(i)) = TarStart + Need(InSecond(i))
    BY <1>1, <2>2, NeedLemma, EnteredLemma
  <2>7. ASSUME NEW q \in Slots, NEW i \in Slots, q * Z + i < Left
        PROVE  Hold(d, z, InBlock(q, i)) = TarStart + Need(InBlock(q, i))
    <3>1. q < NrTar
      BY <1>5, <2>7
    <3>2. d[t[q]] = Entered(TarStart + S2 + q * Z, Left - q * Z)
      BY <1>1, <3>1
    <3>3. d[t[q]][i] = TarStart + (S2 + q * Z + i)
      BY <2>7, <3>1, <3>2, EnteredLemma
    <3>4. QED
      BY <2>4, <3>3, NeedLemma
  <2> HIDE DEF d, z
  <2>8. QED
    BY <2>1, <2>3, <2>5, <2>6, <2>7
<1>7. ASSUME NEW p \in Q
      PROVE  \/ /\ ~ IsBlock(p) /\ Need(p) \in 0..TarSize - 1 /\ p = Cell(Need(p))
                /\ Hold(d, z, p) = TarStart + Need(p) /\ Hold(d, z, p) \in TarSects
             \/ p = InZone(ND) /\ Hold(d, z, p) = z[ND]
             \/ p = InZone(ND + 1) /\ Hold(d, z, p) = z[ND + 1]
             \/ \E q \in Slots : p = InThird(q) /\ q < NrTar /\ Hold(d, z, p) = t[q]
  <2>1. p \in Cells /\ Need(p) < TarSize /\ Need(p) \in 0..TarSize - 1
    <3>1. p \in Cells /\ Need(p) < TarSize /\ Need(p) \in 0..NR_THIRD_LEVEL_ZONE - 1
      BY <1>3, CellLemma
    <3>2. QED
      BY <1>0, <3>1
  <2>2. ASSUME ~ IsBlock(p), Hold(d, z, p) = TarStart + Need(p)
        PROVE  p = Cell(Need(p)) /\ Hold(d, z, p) \in TarSects
    BY <2>1, <2>2, CellLemma, TarLemma
  <2>3. CASE \E i \in 0..ND + 1 : p = InZone(i)
    <3>1. PICK i \in 0..ND + 1 : p = InZone(i)
      BY <2>3
    <3>2. i = ND \/ i = ND + 1 \/ i \in 0..ND - 1
      BY <1>0
    <3>3. CASE i \in 0..ND - 1
      <4>1. ~ IsBlock(p)
        <5>1. i # ND /\ i # ND + 1
          BY <1>0, <3>3
        <5>2. QED
          BY <3>1, <5>1, IsBlockLemma
      <4>2. QED
        BY <1>6, <2>1, <2>2, <3>1, <3>3, <4>1
    <3>4. QED
      BY <1>6, <3>1, <3>2, <3>3
  <2>4. CASE \E i \in Slots : p = InSecond(i) \/ p = InThird(i)
    <3>1. PICK i \in Slots : p = InSecond(i) \/ p = InThird(i)
      BY <2>4
    <3>2. CASE p = InSecond(i)
      BY <1>6, <2>1, <2>2, <3>2, IsBlockLemma
    <3>3. CASE p = InThird(i)
      BY <1>4, <1>6, <3>3
    <3>4. QED
      BY <3>1, <3>2, <3>3
  <2>5. CASE \E q \in Slots, i \in Slots : p = InBlock(q, i)
    <3>1. PICK q \in Slots, i \in Slots : p = InBlock(q, i)
      BY <2>5
    <3>2. q * Z + i < Left
      BY <1>4, <3>1
    <3>3. QED
      BY <1>6, <2>1, <2>2, <3>1, <3>2, IsBlockLemma
  <2>6. QED
    BY <2>1, <2>3, <2>4, <2>5, CellsLemma
<1>8. ASSUME NEW n \in 0..TarSize - 1
      PROVE  Cell(n) \in Q /\ Hold(d, z, Cell(n)) = TarStart + n
  <2>1. n \in 0..NR_THIRD_LEVEL_ZONE - 1 /\ n < TarSize
    BY <1>0, SMTT(40)
  <2>2. Cell(n) \in Cells /\ Need(Cell(n)) = n /\ ~ IsBlock(Cell(n))
    BY <2>1, CellLemma
  <2>3. Cell(n) \in Q
    BY <1>3, <2>1, <2>2
  <2>4. QED
    BY <1>7, <2>2, <2>3, IsBlockLemma
<1>9. \A p \in Q : Hold(d, z, p) \in m.smap /\ Hold(d, z, p) \notin RootSects
  BY <1>0, <1>1, <1>7, SMTT(40)
<1>10. ASSUME NEW p \in Q, NEW q \in Q, Hold(d, z, p) = Hold(d, z, q) PROVE p = q
  <2> DEFINE h == Hold(d, z, p)
  <2>1. CASE h \in TarSects
    <3>1. Hold(d, z, p) \in Used /\ Hold(d, z, q) \in Used
      BY <1>0, <1>10, <2>1
    <3>2. /\ Need(p) \in 0..TarSize - 1 /\ p = Cell(Need(p)) /\ Hold(d, z, p) = TarStart + Need(p)
      BY <1>1, <1>7, <3>1
    <3>3. /\ Need(q) \in 0..TarSize - 1 /\ q = Cell(Need(q)) /\ Hold(d, z, q) = TarStart + Need(q)
      BY <1>1, <1>7, <3>1
    <3>4. Need(p) = Need(q)
      <4> DEFINE j == Need(p)
                 k == Need(q)
      <4>1. j \in 0..TarSize - 1 /\ k \in 0..TarSize - 1
        BY <3>2, <3>3
      <4>2. TarStart + j = TarStart + k
        BY <1>10, <3>2, <3>3
      <4>3. TarStart \in Nat /\ TarSize \in Nat
        BY TarLemma
      <4> HIDE DEF j, k
      <4>4. j = k
        BY <4>1, <4>2, <4>3
      <4>5. QED
        BY <4>4 DEF j, k
    <3>5. QED
      BY <3>2, <3>3, <3>4
  <2>2. CASE h \notin TarSects
    <3>1. \/ p = InZone(ND) /\ h = z[ND]
          \/ p = InZone(ND + 1) /\ h = z[ND + 1]
          \/ \E k \in Slots : p = InThird(k) /\ k < NrTar /\ h = t[k]
      BY <1>7, <2>2
    <3>2. \/ q = InZone(ND) /\ h = z[ND]
          \/ q = InZone(ND + 1) /\ h = z[ND + 1]
          \/ \E k \in Slots : q = InThird(k) /\ k < NrTar /\ h = t[k]
      BY <1>7, <1>10, <2>2
    <3> HIDE DEF h, z
    <3>3. QED
      BY <1>1, <3>1, <3>2
  <2>3. QED
    BY <2>1, <2>2
<1>11. ASSUME NEW s \in m.smap \ RootSects PROVE \E p \in Q : Hold(d, z, p) = s
  <2>1. CASE s \in TarSects
    <3>1. s - TarStart \in 0..TarSize - 1 /\ s = TarStart + (s - TarStart)
      BY <2>1, TarLemma
    <3>2. QED
      BY <1>8, <3>1
  <2>2. CASE s = z[ND] \/ s = z[ND + 1] \/ \E i \in Slots : i < NrTar /\ t[i] = s
    BY <1>4, <1>6, <2>2, ZenonT(40)
  <2>3. QED
    BY <1>0, <1>1, <2>1, <2>2
<1>12. Shaped(d, z, Q)
  <2>1. Q \subseteq Cells
    BY <1>3
  <2>2. d[z[ND]] \in Block
    BY <1>1, EnteredLemma
  <2>3. ASSUME NEW i \in Slots
        PROVE  /\ InThird(i) \in Q => d[t[i]] \in Block
               /\ InThird(i) \notin Q => t[i] = NO_ZONE
    <3>1. CASE i < NrTar
      BY <1>1, <1>4, <3>1, EnteredLemma
    <3>2. CASE ~ (i < NrTar)
      BY <1>1, <1>4, <3>2
    <3>3. QED
      BY <3>1, <3>2
  <2>4. ASSUME NEW i \in Slots, NEW j \in Slots
        PROVE  /\ InBlock(i, j) \in Q => InThird(i) \in Q
               /\ InThird(i) \in Q /\ InBlock(i, j) \notin Q => d[t[i]][j] = NO_ZONE
    <3>1. InBlock(i, j) \in Q => InThird(i) \in Q
      BY <1>4, <1>5
    <3>2. ASSUME InThird(i) \in Q, InBlock(i, j) \notin Q PROVE d[t[i]][j] = NO_ZONE
      <4>1. i < NrTar /\ ~ (i * Z + j < Left)
        BY <1>4, <3>2
      <4>2. d[t[i]] = Entered(TarStart + S2 + i * Z, Left - i * Z)
        BY <1>1, <4>1
      <4>3. QED
        BY <4>1, <4>2, EnteredLemma
    <3>3. QED
      BY <3>1, <3>2
  <2>5. QED
    BY <1>1, <1>2, <1>4, <2>1, <2>2, <2>3, <2>4, ZenonT(40) DEF Shaped, t
<1>13. Own(m.smap, d, z, Q)
  BY <1>2, <1>9, <1>10, <1>12 DEF Own
<1>14. RootSects \subseteq m.smap
  BY <1>0, <1>1
<1>15. QED
  BY <1>8, <1>9, <1>11, <1>13, <1>14 DEF TarOwns, Q

\* On a blank disk the inodes are those of files that have been removed.
LEMMA BlankLemma == ASSUME BlankDisk, NEW f \in Files PROVE OldInode(f) = FreeInode
<1> DEFINE z0 == [z \in 0..THIRD_LEVEL_ZONE |-> NO_ZONE]
           z1 == [z \in 0..THIRD_LEVEL_ZONE |->
                    IF z < NR_DIRECT_ZONE THEN NO_ZONE ELSE OldZones[f][z]]
<1>1. ASSUME NEW z \in 0..THIRD_LEVEL_ZONE, ~ (z < NR_DIRECT_ZONE)
      PROVE  OldZones[f][z] = NO_ZONE
  <2>1. z \in SECOND_LEVEL_ZONE..THIRD_LEVEL_ZONE
    BY <1>1, ConstantsLemma DEF ND
  <2>2. QED
    BY <2>1 DEF BlankDisk
<1>2. z1 = z0
  BY <1>1
<1>3. OldInode(f) = [FreeInode EXCEPT !.zone = z1]
  BY DEF OldInode
<1> HIDE DEF z1
<1>4. QED
  BY <1>2, <1>3 DEF FreeInode

LEMMA InitLemma == BlankDisk /\ Init => Inv
<1> DEFINE m == Mkfs
           T == dinode[CmdTar]
<1>1. SUFFICES ASSUME BlankDisk, Init PROVE Inv
  OBVIOUS
<1>2. MadeTar(m)
  BY <1>1, MkfsLemma DEF Init
<1>3. /\ smap = m.smap /\ disk = m.disk
      /\ dinode = [f \in Files |-> IF f = CmdTar
                     THEN [zone |-> m.zone, nr_sects |-> TarSize, size |-> TarSize * SECTOR_SIZE]
                     ELSE OldInode(f)]
      /\ inode = [f \in Files |-> FreeInode] /\ opened = {} /\ fd_pos = [f \in Files |-> 0]
      /\ written = [f \in Files |-> IF f = CmdTar THEN 0..TarSize * SECTOR_SIZE - 1 ELSE {}]
  BY <1>1, ZenonT(40) DEF Init
<1> HIDE DEF m
<1>4. TarOwns(m) /\ m \in Mem /\ \A s \in TarSects : m.disk[s] = Image[s]
  BY <1>2, TarOwnsLemma DEF MadeTar
<1>5. /\ CmdTar \in Files /\ TarSize \in Nat /\ SECTOR_SIZE \in Nat /\ TarSize * SECTOR_SIZE \in Nat
      /\ TarSize \in ND..NR_THIRD_LEVEL_ZONE /\ TarSize > ND /\ 0 * SECTOR_SIZE = 0
      /\ ND \in Nat \ {0} /\ TarStart \in Nat
  BY FsSectAssumption, ConstantsLemma, TarLemma
<1>6. /\ T.zone = m.zone /\ T.nr_sects = TarSize /\ T.size = TarSize * SECTOR_SIZE /\ T \in Inodes
      /\ \A f \in Files : f # CmdTar => dinode[f] = FreeInode
  <2>1. /\ T.zone = m.zone /\ T.nr_sects = TarSize /\ T.size = TarSize * SECTOR_SIZE
        /\ T \in Inodes
    BY <1>3, <1>4, <1>5 DEF Mem, Inodes
  <2>2. \A f \in Files : f # CmdTar => dinode[f] = OldInode(f)
    BY <1>3
  <2>3. QED
    BY <1>1, <2>1, <2>2, BlankLemma
<1>7. FreeInode \in Inodes /\ FreeInode.nr_sects = 0 /\ FreeInode.size = 0
      /\ \A z \in 0..ND + 1 : FreeInode.zone[z] = NO_ZONE
  BY ConstantsLemma DEF FreeInode, Inodes, Zones
<1> HIDE DEF T
<1>8. Typed
  <2>1. disk \in [Zones -> Contents]
    BY <1>3, <1>4 DEF Mem
  <2>2. dinode \in [Files -> Inodes]
    <3>1. \A f \in Files : dinode[f] \in Inodes
      BY <1>6, <1>7 DEF T
    <3>2. dinode = [f \in Files |-> dinode[f]]
      BY <1>3
    <3>3. QED
      BY <3>1, <3>2
  <2>3. written \in [Files -> SUBSET Nat]
    BY <1>3, <1>5
  <2>4. QED
    BY <1>3, <1>7, <2>1, <2>2, <2>3 DEF Typed
<1>9. Owners(smap, disk, dinode)
  <2>1. Spots(dinode, CmdTar) = Places(TarSize)
    BY <1>6 DEF Spots, T
  <2>2. \A f \in Files : f # CmdTar => Spots(dinode, f) = {}
    BY <1>6, <1>7, FirstPlaces DEF Spots
  <2>3. m.smap \subseteq Sectors
    BY <1>4 DEF Mem
  <2>4. ASSUME NEW f \in Files PROVE Own(smap, disk, dinode[f].zone, Spots(dinode, f))
    <3>1. CASE f = CmdTar
      BY <1>3, <1>4, <1>6, <2>1, <3>1 DEF TarOwns, T
    <3>2. CASE f # CmdTar
      <4>1. dinode[f] = FreeInode /\ Spots(dinode, f) = {}
        BY <1>6, <2>2, <3>2
      <4>2. Shaped(disk, FreeInode.zone, {})
        BY <1>7, IndexLemma DEF Shaped, Inodes
      <4>3. QED
        BY <1>3, <2>3, <4>1, <4>2 DEF Own
    <3>3. QED
      BY <3>1, <3>2
  <2>5. \A p : Held(disk, dinode, CmdTar, p) = Hold(m.disk, m.zone, p)
    BY <1>3, <1>6 DEF Held, T
  <2>6. ASSUME NEW s \in smap \ RootSects
        PROVE  \E f \in Files : \E p \in Spots(dinode, f) : Held(disk, dinode, f, p) = s
    <3>1. PICK p \in Places(TarSize) : Hold(m.disk, m.zone, p) = s
      BY <1>3, <1>4, <2>6 DEF TarOwns
    <3>2. QED
      BY <1>5, <2>1, <2>5, <3>1
  <2>7. \A f \in Files : \A p \in Spots(dinode, f) : Held(disk, dinode, f, p) \notin RootSects
    BY <1>4, <2>1, <2>2, <2>5 DEF TarOwns
  <2>8. \A f, g \in Files : f # g =>
          \A p \in Spots(dinode, f), q \in Spots(dinode, g) :
             Held(disk, dinode, f, p) # Held(disk, dinode, g, q)
    BY <2>2
  <2>9. RootSects \subseteq smap
    BY <1>3, <1>4 DEF TarOwns
  <2>10. QED
    BY <2>4, <2>6, <2>7, <2>8, <2>9 DEF Owners
<1>10. ASSUME NEW f \in Files, NEW p \in written[f]
       PROVE  disk[Held(disk, dinode, f, Cell(p \div SECTOR_SIZE))][p % SECTOR_SIZE] = Byte(f, p)
  <2>1. f = CmdTar /\ p \in 0..TarSize * SECTOR_SIZE - 1
    <3>1. f = CmdTar
      BY <1>3, <1>10
    <3>2. QED
      BY <1>3, <1>10, <3>1
  <2> DEFINE k == p \div SECTOR_SIZE
             o == p % SECTOR_SIZE
  <2>2. p \in Nat /\ p < TarSize * SECTOR_SIZE
    BY <1>5, <2>1
  <2>3. k \in 0..TarSize - 1 /\ o \in 0..SECTOR_SIZE - 1
    BY <1>5, <2>2, ByteLemma
  <2>4. p = k * SECTOR_SIZE + o
    BY <2>2, ConstantsLemma, DivLemma
  <2> HIDE DEF k, o
  <2>5. Held(disk, dinode, f, Cell(k)) = TarStart + k
    BY <1>3, <1>4, <1>6, <2>1, <2>3 DEF TarOwns, Held, T
  <2>6. TarStart + k \in TarSects /\ (TarStart + k) - TarStart = k
    BY <1>5, <2>3, TarLemma
  <2>7. TarStart + k \in Zones
    BY <2>6, TarLemma DEF Zones
  <2>8. disk[TarStart + k] = [i \in 0..SECTOR_SIZE - 1 |-> Byte(CmdTar, k * SECTOR_SIZE + i)]
    BY <1>3, <1>4, <2>6, <2>7 DEF Image
  <2>9. disk[TarStart + k][o] = Byte(CmdTar, p)
    BY <2>3, <2>4, <2>8
  <2>10. QED
    BY <2>1, <2>5, <2>9 DEF k, o
<1>11. Kept(disk, dinode, written)
  BY <1>10 DEF Kept
<1>12. ASSUME NEW f \in Files PROVE FileOK(dinode, written, f) /\ OpenOK(f)
  <2>1. OpenOK(f)
    BY <1>3 DEF OpenOK
  <2>2. CASE f = CmdTar
    <3>1. /\ dinode[f].nr_sects = TarSize /\ dinode[f].size = TarSize * SECTOR_SIZE
          /\ dinode[f].zone = m.zone /\ written[f] = 0..TarSize * SECTOR_SIZE - 1
      BY <1>3, <1>5, <1>6, <2>2 DEF T
    <3>2. \A i \in 0..ND - 1 : m.zone[i] = m.zone[0] + i
      <4>1. \A i \in 0..ND - 1 : m.zone[i] = TarStart + i
        BY <1>2 DEF MadeTar
      <4>2. 0 \in 0..ND - 1 /\ TarStart + 0 = TarStart
        BY <1>5
      <4>3. QED
        BY <4>1, <4>2
    <3>3. QED
      BY <1>5, <2>1, <3>1, <3>2 DEF FileOK
  <2>3. CASE f # CmdTar
    <3>1. dinode[f] = FreeInode /\ written[f] = {}
      BY <1>3, <1>6, <2>3
    <3>2. QED
      BY <1>5, <1>7, <2>1, <2>3, <3>1 DEF FileOK
  <2>4. QED
    BY <2>2, <2>3
<1>13. QED
  BY <1>8, <1>9, <1>11, <1>12 DEF Inv, FilesOK

----------------------------------------------------------------------------
(* What the invariant implies                                              *)

\* For careful programs on a disk that was blank before mkfs, the inductive invariant
\* holds of every state.
THEOREM FsSectInvariant == ASSUME Careful, BlankDisk PROVE Spec => []Inv
<1>1. Init => Inv
  BY InitLemma
<1>2. Inv /\ [Next]_vars => Inv'
  BY NextStep
<1>3. QED
  BY <1>1, <1>2, PTL DEF Spec

LEMMA ReadLemma ==
  ASSUME Inv, NEW f \in opened, NEW pos \in Nat, pos % SECTOR_SIZE = 0, NEW len \in Nat,
         NEW n, n = Readable(f, pos, len), NEW b \in 0..n - 1, pos + b \in written[f]
  PROVE  BufferByte(f, pos, n, b) = Byte(f, pos + b)
<1> DEFINE ino == dinode[f]
           p == pos + b
           c == FirstSect(pos)
           L == NrSects(pos, n)
           e == EndSect(pos, n)
           j == p \div SECTOR_SIZE - c
           o == p % SECTOR_SIZE
<1>1. /\ f \in Files /\ inode[f] = ino /\ ino.size \in Nat /\ ino.nr_sects \in Nat
      /\ ino.size <= ino.nr_sects * SECTOR_SIZE /\ ino.nr_sects \in 0..NR_THIRD_LEVEL_ZONE
      /\ written[f] \subseteq 0..ino.size - 1
  <2>1. f \in Files /\ inode[f] = ino
    BY DEF Inv, Typed, FilesOK, OpenOK
  <2>2. QED
    BY <2>1, FilesLemma
<1>2. n \in Nat
  <2>1. CASE pos > inode[f].size
    BY <2>1 DEF Readable
  <2>2. CASE ~ (pos > inode[f].size)
    <3>1. n = Min({len, inode[f].size - pos})
      BY <2>2 DEF Readable
    <3>2. inode[f].size - pos \in Nat
      BY <1>1, <2>2
    <3>3. QED
      BY <3>1, <3>2, MinNat, Zenon
  <2>3. QED
    BY <2>1, <2>2
<1>3. b \in Nat /\ b < n /\ p \in Nat /\ p < ino.size
  BY <1>1, <1>2
<1>4. p \div SECTOR_SIZE \in 0..ino.nr_sects - 1 /\ o \in 0..SECTOR_SIZE - 1
  <2>1. p < ino.nr_sects * SECTOR_SIZE
    <3>1. ino.nr_sects * SECTOR_SIZE \in Nat
      BY <1>1, ConstantsLemma
    <3> HIDE DEF p, ino
    <3>2. QED
      BY <1>1, <1>3, <3>1
  <2> HIDE DEF p, ino
  <2>2. QED
    BY <1>1, <1>3, <2>1, ByteLemma DEF o
<1> HIDE DEF ino
<1>5. /\ c \in Nat /\ L \in Nat /\ c + L = e
      /\ p \div SECTOR_SIZE \in c..e - 1
      /\ j \in 0..L - 1 /\ pos + (j * SECTOR_SIZE + o) = p
  <2> HIDE DEF c, L, e
  <2>1. c = FirstSect(pos) /\ L = NrSects(pos, n) /\ e = EndSect(pos, n)
    BY DEF c, L, e
  <2>2. Covers(pos, n, c, L, e)
    BY <1>2, <2>1, CoverLemma
  <2>3. p \in pos..pos + n - 1
    BY <1>2, <1>3
  <2> HIDE DEF p
  <2>4. p \div SECTOR_SIZE \in c..e - 1
    BY <2>2, <2>3 DEF Covers
  <2>5. QED
    BY <1>3, <2>2, <2>4 DEF Covers
<1> HIDE DEF c, L, e
<1>6. b = j * SECTOR_SIZE + o /\ j \in Nat /\ c + j = p \div SECTOR_SIZE
  <2>1. j \in Nat /\ SECTOR_SIZE \in Nat
    BY <1>5, ConstantsLemma
  <2>2. c + j = p \div SECTOR_SIZE
    BY <1>4, <1>5
  <2> HIDE DEF j, o
  <2>3. j * SECTOR_SIZE + o \in Nat
    BY <1>4, <2>1
  <2>4. b = j * SECTOR_SIZE + o
    BY <1>3, <1>5, <2>3
  <2>5. QED
    BY <2>1, <2>2, <2>4
<1>7. b \div SECTOR_SIZE = j /\ b % SECTOR_SIZE = o
  <2>1. \A a \in Nat, k \in 0..SECTOR_SIZE - 1 :
          (a * SECTOR_SIZE + k) \div SECTOR_SIZE = a /\ (a * SECTOR_SIZE + k) % SECTOR_SIZE = k
    BY ConstantsLemma, DivLemma
  <2> HIDE DEF j, o
  <2>2. (j * SECTOR_SIZE + o) \div SECTOR_SIZE = j /\ (j * SECTOR_SIZE + o) % SECTOR_SIZE = o
    BY <1>4, <1>6, <2>1, Zenon
  <2>3. QED
    BY <1>6, <2>2, Zenon
<1>8. Sector(Start(inode[f]), c + j) = Held(disk, dinode, f, Cell(p \div SECTOR_SIZE))
  <2>1. c + j \in 0..NR_THIRD_LEVEL_ZONE - 1
    BY <1>1, <1>4, <1>6, ConstantsLemma
  <2> HIDE DEF j
  <2>2. Start(inode[f]).disk = disk /\ Start(inode[f]).zone = dinode[f].zone
    BY <1>1 DEF Start, ino
  <2>3. QED
    BY <1>6, <2>1, <2>2, SectorLemma DEF Held
<1>9. disk[Held(disk, dinode, f, Cell(p \div SECTOR_SIZE))][o] = Byte(f, p)
  BY <1>1 DEF Inv, Kept
<1>10. BufferByte(f, pos, n, b) =
         LET k == b \div SECTOR_SIZE
         IN IF k < L THEN disk[Sector(Start(inode[f]), c + k)][b % SECTOR_SIZE] ELSE Other
  BY DEF BufferByte, L, c
<1> HIDE DEF j, o, p
<1>11. j < L
  BY <1>5
<1>12. BufferByte(f, pos, n, b) = Byte(f, p)
  BY <1>7, <1>8, <1>9, <1>10, <1>11
<1>13. QED
  BY <1>12 DEF p

\* lib/write.c:36: what a program reads from the start of a sector is what was written there.
THEOREM ReadsComeBack == ASSUME Careful, BlankDisk PROVE Spec => []ReadsBack
<1>1. ASSUME Inv PROVE ReadsBack
  <2>1. ASSUME NEW f \in opened, NEW k \in 0..inode[f].size \div SECTOR_SIZE, NEW len \in Lens,
               NEW b \in 0..Readable(f, k * SECTOR_SIZE, len) - 1,
               k * SECTOR_SIZE + b \in written[f]
        PROVE  BufferByte(f, k * SECTOR_SIZE, Readable(f, k * SECTOR_SIZE, len), b)
                 = Byte(f, k * SECTOR_SIZE + b)
    <3> DEFINE pos == k * SECTOR_SIZE
               n == Readable(f, pos, len)
    <3>1. len \in Nat
      BY FsSectAssumption
    <3>2. k \in Nat
      <4>1. f \in Files /\ inode[f].size \in Nat
        BY <1>1 DEF Inv, Typed, Inodes
      <4> DEFINE q == inode[f].size \div SECTOR_SIZE
      <4>2. q \in Nat
        BY <4>1, ConstantsLemma, DivLemma
      <4> HIDE DEF q
      <4>3. k \in 0..q
        BY DEF q
      <4>4. QED
        BY <4>2, <4>3
    <3>3. pos \in Nat /\ pos % SECTOR_SIZE = 0
      <4>1. SECTOR_SIZE \in Nat \ {0} /\ 0 \in 0..SECTOR_SIZE - 1
        BY ConstantsLemma
      <4>2. k * SECTOR_SIZE \in Nat
        BY <3>2, <4>1
      <4>3. (k * SECTOR_SIZE + 0) % SECTOR_SIZE = 0
        BY <3>2, <4>1, DivLemma
      <4>4. k * SECTOR_SIZE + 0 = k * SECTOR_SIZE
        BY <4>2
      <4>5. QED
        BY <4>2, <4>3, <4>4
    <3> HIDE DEF pos
    <3>4. n = Readable(f, pos, len) /\ b \in 0..n - 1 /\ pos + b \in written[f]
      BY <2>1 DEF pos
    <3> HIDE DEF n
    <3>5. BufferByte(f, pos, n, b) = Byte(f, pos + b)
      BY <1>1, <3>1, <3>3, <3>4, ReadLemma
    <3>6. QED
      BY <3>5 DEF pos, n
  <2>2. QED
    BY <2>1 DEF ReadsBack
<1>2. QED
  BY <1>1, FsSectInvariant, PTL

----------------------------------------------------------------------------
(* How many sectors a file owns                                             *)

LEMMA ImageSize ==
  ASSUME NEW S, IsFiniteSet(S), NEW f, \A x, y \in S : f[x] = f[y] => x = y
  PROVE  IsFiniteSet({f[x] : x \in S}) /\ Cardinality({f[x] : x \in S}) = Cardinality(S)
<1> DEFINE T == {f[x] : x \in S}
           g == [x \in S |-> f[x]]
<1>1. g \in Surjection(S, T)
  BY DEF Surjection
<1>2. g \in Injection(S, T)
  <2>1. g \in [S -> T] /\ \A x \in S : g[x] = f[x]
    OBVIOUS
  <2> HIDE DEF g, T
  <2>2. QED
    BY <2>1 DEF Injection, IsInjective
<1> HIDE DEF g, T
<1>3. IsFiniteSet(T) /\ Cardinality(T) = Cardinality(S)
  BY <1>1, <1>2, FS_Surjection
<1>4. QED
  BY <1>3 DEF T

\* The places of a file of n sectors that name blocks, and how many they are.
BlockSpots(n) == {p \in Places(n) : IsBlock(p)}
Last(n) == (n - S2 - 1) \div Z
NrB(n) ==
  IF n <= ND THEN 0 ELSE IF n <= S2 THEN 1 ELSE 2 + (n - S2 + Z - 1) \div Z

LEMMA LastLemma ==
  ASSUME NEW n \in S2 + 1..NR_THIRD_LEVEL_ZONE
  PROVE  /\ Last(n) \in Slots /\ (n - S2 + Z - 1) \div Z = Last(n) + 1
         /\ \A q \in Slots : S2 + q * Z < n <=> q \in 0..Last(n)
<1> DEFINE v == n - S2 - 1
           k == v \div Z
           r == v % Z
<1>1. /\ Z \in Nat \ {0} /\ S2 \in Nat /\ NR_THIRD_LEVEL_ZONE = S2 + Z * Z /\ Z * Z \in Nat
      /\ NR_THIRD_LEVEL_ZONE \in Nat
  BY ConstantsLemma
<1>2. v \in 0..Z * Z - 1 /\ n = S2 + v + 1 /\ v \in Nat /\ n \in Nat
  BY <1>1
<1>3. k \in Slots /\ r \in Slots /\ v = k * Z + r /\ k = Last(n)
  <2> HIDE DEF v
  <2>1. k \in Slots /\ r \in Slots /\ v = k * Z + r
    BY <1>2, ThirdLemma
  <2>2. QED
    BY <2>1 DEF v, Last
<1>4. n - S2 + Z - 1 = v + Z
  BY <1>1, <1>2
<1> HIDE DEF v, k, r
<1>5. k \in Nat /\ k * Z \in Nat /\ r \in 0..Z - 1
  BY <1>1, <1>3, IndexLemma DEF Slots
<1>6. v + Z = (k + 1) * Z + r
  <2>1. (k + 1) * Z = k * Z + Z
    BY <1>1, <1>5
  <2> DEFINE h == k * Z
             i == (k + 1) * Z
  <2>2. h \in Nat /\ i = h + Z /\ v = h + r
    BY <1>3, <1>5, <2>1
  <2> HIDE DEF h, i
  <2>3. v + Z = i + r
    BY <1>1, <1>5, <2>2
  <2>4. QED
    BY <2>3 DEF i
<1>7. (n - S2 + Z - 1) \div Z = k + 1
  <2>1. \A a \in Nat, b \in 0..Z - 1 : (a * Z + b) \div Z = a
    BY <1>1, DivLemma
  <2>2. k + 1 \in Nat
    BY <1>5
  <2> DEFINE a == k + 1
  <2>3. (a * Z + r) \div Z = a
    <3>1. a \in Nat
      BY <2>2
    <3> HIDE DEF a
    <3>2. QED
      BY <1>5, <2>1, <3>1
  <2>4. QED
    BY <1>4, <1>6, <2>3
<1>8. ASSUME NEW q \in Slots PROVE S2 + q * Z < n <=> q \in 0..k
  <2>1. q \in Nat /\ q * Z \in Nat
    BY <1>1, IndexLemma
  <2> DEFINE h == q * Z
             i == k * Z
  <2>2. h \in Nat /\ i \in Nat /\ v = i + r
    BY <1>3, <1>5, <2>1
  <2>3. \A x, y \in Nat : x < y => x * Z + Z <= y * Z
    BY <1>1, ProductLemma
  <2>4. (q < k => h + Z <= i) /\ (k < q => i + Z <= h) /\ (q = k => h = i)
    BY <1>5, <2>1, <2>3
  <2> HIDE DEF h, i
  <2>5. h <= v <=> q <= k
    BY <1>1, <1>5, <2>1, <2>2, <2>4
  <2>6. S2 + h < n <=> h <= v
    BY <1>1, <1>2, <2>2
  <2>7. QED
    BY <1>5, <2>1, <2>5, <2>6 DEF h
<1>9. QED
  BY <1>3, <1>7, <1>8

LEMMA BlockSpotsLemma ==
  ASSUME NEW n \in 0..NR_THIRD_LEVEL_ZONE
  PROVE  BlockSpots(n) =
           IF n <= ND THEN {}
           ELSE {InZone(ND)} \cup
                IF n <= S2 THEN {}
                ELSE {InZone(ND + 1)} \cup {InThird(q) : q \in 0..Last(n)}
<1>1. /\ Z \in Nat \ {0} /\ ND \in Nat \ {0} /\ S2 = ND + Z /\ S2 \in Nat /\ n \in Nat
      /\ NR_THIRD_LEVEL_ZONE \in Nat
  BY ConstantsLemma
<1>2. ASSUME NEW p \in Cells, IsBlock(p)
      PROVE  p = InZone(ND) \/ p = InZone(ND + 1) \/ \E q \in Slots : p = InThird(q)
  <2>1. CASE \E i \in 0..ND + 1 : p = InZone(i)
    BY <1>2, <2>1, IsBlockLemma
  <2>2. CASE \E i \in Slots : p = InSecond(i) \/ p = InThird(i)
    BY <1>2, <2>2, IsBlockLemma
  <2>3. CASE \E q \in Slots, i \in Slots : p = InBlock(q, i)
    BY <1>2, <2>3, IsBlockLemma
  <2>4. QED
    BY <2>1, <2>2, <2>3, CellsLemma
<1>3. /\ InZone(ND) \in Cells /\ InZone(ND + 1) \in Cells /\ \A q \in Slots : InThird(q) \in Cells
      /\ Need(InZone(ND)) = ND /\ Need(InZone(ND + 1)) = S2
      /\ \A q \in Slots : Need(InThird(q)) = S2 + q * Z
      /\ IsBlock(InZone(ND)) /\ IsBlock(InZone(ND + 1)) /\ \A q \in Slots : IsBlock(InThird(q))
  BY CellsLemma, NeedLemma, IsBlockLemma, IndexLemma
<1>4. \A p : p \in BlockSpots(n) <=>
        \/ p = InZone(ND) /\ ND < n
        \/ p = InZone(ND + 1) /\ S2 < n
        \/ \E q \in Slots : p = InThird(q) /\ S2 + q * Z < n
  BY <1>2, <1>3 DEF BlockSpots, Places
<1>5. \A q \in Slots : q * Z \in Nat
  BY <1>1, IndexLemma
<1>6. CASE n <= S2
  <2>1. ASSUME NEW q \in Slots PROVE ~ (S2 + q * Z < n)
    <3> DEFINE h == q * Z
    <3>1. h \in Nat
      BY <1>5
    <3> HIDE DEF h
    <3>2. ~ (S2 + h < n)
      BY <1>1, <1>6, <3>1
    <3>3. QED
      BY <3>2 DEF h
  <2>2. CASE n <= ND
    <3>1. ~ (ND < n) /\ ~ (S2 < n)
      BY <1>1, <2>2
    <3>2. BlockSpots(n) = {}
      BY <1>4, <2>1, <3>1
    <3>3. QED
      BY <2>2, <3>2
  <2>3. CASE ~ (n <= ND)
    <3>1. ND < n /\ ~ (S2 < n)
      BY <1>1, <1>6, <2>3
    <3>2. BlockSpots(n) = {InZone(ND)}
      BY <1>4, <2>1, <3>1
    <3>3. QED
      BY <1>6, <2>3, <3>2
  <2>4. QED
    BY <2>2, <2>3
<1>7. CASE ~ (n <= S2)
  <2>1. ND < n /\ S2 < n /\ ~ (n <= ND) /\ n \in S2 + 1..NR_THIRD_LEVEL_ZONE
    BY <1>1, <1>7
  <2>2. Last(n) \in Slots /\ \A q \in Slots : S2 + q * Z < n <=> q \in 0..Last(n)
    BY <2>1, LastLemma
  <2>3. \A q \in 0..Last(n) : q \in Slots
    <3> DEFINE k == Last(n)
    <3>1. k \in 0..Z - 1
      BY <2>2 DEF Slots
    <3> HIDE DEF k
    <3>2. \A q \in 0..k : q \in 0..Z - 1
      BY <1>1, <3>1
    <3>3. QED
      BY <3>2 DEF k, Slots
  <2> DEFINE W == {InThird(q) : q \in 0..Last(n)}
  <2>4. \A p : (\E q \in Slots : p = InThird(q) /\ S2 + q * Z < n) <=> p \in W
    BY <2>2, <2>3
  <2> HIDE DEF W
  <2>5. BlockSpots(n) = {InZone(ND)} \cup ({InZone(ND + 1)} \cup W)
    BY <1>4, <2>1, <2>4
  <2>6. QED
    BY <1>7, <2>1, <2>5 DEF W
<1>8. QED
  BY <1>6, <1>7

LEMMA PlacesSize ==
  ASSUME NEW n \in 0..NR_THIRD_LEVEL_ZONE
  PROVE  IsFiniteSet(Places(n)) /\ Cardinality(Places(n)) = n + NrB(n)
<1> DEFINE B == BlockSpots(n)
           D == {Cell(k) : k \in 0..n - 1}
<1>1. n \in Nat /\ ND \in Nat /\ S2 \in Nat /\ ND <= S2 /\ NR_THIRD_LEVEL_ZONE \in Nat
  BY ConstantsLemma
<1>2. IsFiniteSet(D) /\ Cardinality(D) = n
  <2> DEFINE f == [k \in 0..n - 1 |-> Cell(k)]
  <2>1. \A x, y \in 0..n - 1 : f[x] = f[y] => x = y
    BY DataLemma
  <2>2. IsFiniteSet(0..n - 1) /\ Cardinality(0..n - 1) = n
    <3>1. 0 \in Int /\ n - 1 \in Int
      BY <1>1
    <3>2. IsFiniteSet(0..n - 1) /\ Cardinality(0..n - 1) = IF 0 > n - 1 THEN 0 ELSE (n - 1) - 0 + 1
      BY <3>1, FS_Interval
    <3>3. QED
      BY <1>1, <3>2
  <2>3. D = {f[x] : x \in 0..n - 1}
    OBVIOUS
  <2> HIDE DEF f, D
  <2>4. QED
    BY <2>1, <2>2, <2>3, ImageSize
<1>3. IsFiniteSet(B) /\ Cardinality(B) = NrB(n)
  <2>1. CASE n <= ND
    <3>1. B = {} /\ NrB(n) = 0
      BY <2>1, BlockSpotsLemma DEF NrB
    <3>2. QED
      BY <3>1, FS_EmptySet
  <2>2. CASE ~ (n <= ND) /\ n <= S2
    <3>1. B = {InZone(ND)} /\ NrB(n) = 1
      BY <2>2, BlockSpotsLemma DEF NrB
    <3>2. QED
      BY <3>1, FS_Singleton
  <2>3. CASE ~ (n <= S2)
    <3> DEFINE k == Last(n)
               f == [q \in 0..k |-> InThird(q)]
               W == {InThird(q) : q \in 0..k}
    <3>1. n \in S2 + 1..NR_THIRD_LEVEL_ZONE /\ ~ (n <= ND)
      BY <1>1, <2>3
    <3>2. k \in Nat /\ NrB(n) = 2 + (k + 1)
      <4>1. k \in Slots /\ (n - S2 + Z - 1) \div Z = k + 1
        BY <3>1, LastLemma
      <4>2. NrB(n) = 2 + (n - S2 + Z - 1) \div Z
        BY <2>3, <3>1 DEF NrB
      <4>3. QED
        BY <4>1, <4>2, IndexLemma
    <3>3. B = ({InZone(ND)} \cup {InZone(ND + 1)}) \cup W
      BY <2>3, <3>1, BlockSpotsLemma
    <3> HIDE DEF k
    <3>4. IsFiniteSet(W) /\ Cardinality(W) = k + 1
      <4>1. \A x, y \in 0..k : f[x] = f[y] => x = y
        BY CellsLemma
      <4>2. IsFiniteSet(0..k) /\ Cardinality(0..k) = k + 1
        <5>1. IsFiniteSet(0..k) /\ Cardinality(0..k) = IF 0 > k THEN 0 ELSE k - 0 + 1
          <6>1. 0 \in Int /\ k \in Int
            BY <3>2
          <6>2. QED
            BY <6>1, FS_Interval
        <5>2. QED
          BY <3>2, <5>1
      <4>3. W = {f[x] : x \in 0..k}
        OBVIOUS
      <4> HIDE DEF f, W
      <4>4. QED
        BY <4>1, <4>2, <4>3, ImageSize, ZenonT(40)
    <3>5. IsFiniteSet({InZone(ND)} \cup {InZone(ND + 1)})
          /\ Cardinality({InZone(ND)} \cup {InZone(ND + 1)}) = 2
      <4>1. IsFiniteSet({InZone(ND)}) /\ Cardinality({InZone(ND)}) = 1
        BY FS_Singleton
      <4>2. InZone(ND + 1) \notin {InZone(ND)}
        BY CellsLemma, IndexLemma
      <4>3. QED
        BY <4>1, <4>2, FS_AddElement, SMTT(40)
    <3>6. ({InZone(ND)} \cup {InZone(ND + 1)}) \cap W = {}
      <4>1. \A q, i : InThird(q) # InZone(i)
        BY DEF InThird, InZone
      <4>2. QED
        BY <4>1
    <3> DEFINE V == {InZone(ND)} \cup {InZone(ND + 1)}
    <3> HIDE DEF W, V, B
    <3>7. IsFiniteSet(V \cup W) /\ Cardinality(V \cup W) = 2 + (k + 1) - Cardinality({})
      BY <3>4, <3>5, <3>6, FS_Union DEF V
    <3>8. QED
      BY <3>2, <3>3, <3>7, FS_EmptySet DEF V
  <2>4. QED
    BY <1>1, <2>1, <2>2, <2>3
<1>4. Places(n) = B \cup D /\ B \cap D = {}
  <2>1. \A p \in Places(n) : ~ IsBlock(p) => p \in D
    BY DataLemma
  <2>2. \A p \in D : p \in Places(n) /\ ~ IsBlock(p)
    BY DataLemma
  <2> HIDE DEF D
  <2>3. QED
    BY <2>1, <2>2 DEF BlockSpots
<1> HIDE DEF B, D
<1>5. IsFiniteSet(B \cup D) /\ Cardinality(B \cup D) = Cardinality(B) + Cardinality(D) - Cardinality({})
  BY <1>2, <1>3, <1>4, FS_Union
<1>6. NrB(n) \in Nat
  BY <1>3, FS_CardinalityType
<1>7. QED
  BY <1>1, <1>2, <1>3, <1>4, <1>5, <1>6, FS_EmptySet

----------------------------------------------------------------------------
(* Sums over files                                                         *)

\* A set of subsets of a finite set has a least one.
LEMMA LeastSubset ==
  ASSUME NEW S, IsFiniteSet(S), NEW Bad \in SUBSET SUBSET S, Bad # {}
  PROVE  \E U \in Bad : \A V \in Bad : V \subseteq U => V = U
<1>1. IsWellFoundedOn(StrictSubsetOrdering(S), FiniteSubsetsOf(S))
  BY FS_StrictSubsetOrderingWellFounded
<1>2. IsWellFoundedOn(StrictSubsetOrdering(S), SUBSET S)
  BY <1>1, FS_FiniteSubsetsOfFinite
<1> DEFINE R == StrictSubsetOrdering(S)
<1>3. PICK U \in Bad : \A V \in Bad : ~ (<<V, U>> \in R)
  <2> HIDE DEF R
  <2>1. QED
    BY <1>2, WFMin DEF R
<1>4. \A V \in Bad : V \subseteq U /\ V # U => <<V, U>> \in R
  BY DEF StrictSubsetOrdering
<1> HIDE DEF R
<1>5. \A V \in Bad : V \subseteq U => V = U
  BY <1>3, <1>4
<1>6. QED
  BY <1>5

\* What a file has of the map, by its inode, and what the files of S have.
Cost(f) == Inode(f).nr_sects + NrBlocks(f)
Total(S) == MapThenSumSet(LAMBDA f : Inode(f).nr_sects + NrBlocks(f), S)

\* The recursion that MapThenSumSet runs on the subsets of S.
IsSum(g, S) ==
  g = [s \in SUBSET S |-> IF s = {} THEN 0
                          ELSE Cost(CHOOSE x \in s : TRUE) + g[s \ {CHOOSE x \in s : TRUE}]]

LEMMA SumDef ==
  ASSUME NEW S
  PROVE  Total(S) = (CHOOSE g : IsSum(g, S))[S]
BY DEF Total, Cost, MapThenSumSet, MapThenFoldSet, IsSum

LEMMA SumValue ==
  ASSUME NEW S, NEW g, IsSum(g, S), NEW s \in SUBSET S
  PROVE  /\ s = {} => g[s] = 0
         /\ s # {} => \E x \in s : /\ x = CHOOSE y \in s : TRUE
                                   /\ g[s] = Cost(x) + g[s \ {x}]
<1> DEFINE c == CHOOSE y \in s : TRUE
<1>1. s # {} => c \in s
  OBVIOUS
<1>2. g[s] = IF s = {} THEN 0 ELSE Cost(c) + g[s \ {c}]
  BY DEF IsSum
<1> HIDE DEF c
<1>3. QED
  BY <1>1, <1>2 DEF c

\* Two of them agree where both are defined.
LEMMA SumsAgree ==
  ASSUME NEW S, IsFiniteSet(S), NEW T, NEW g, IsSum(g, S), NEW h, IsSum(h, T)
  PROVE  \A s \in SUBSET S : s \in SUBSET T => g[s] = h[s]
<1> DEFINE Bad == {s \in SUBSET S : s \in SUBSET T /\ g[s] # h[s]}
<1>1. SUFFICES ASSUME Bad # {} PROVE FALSE
  OBVIOUS
<1>2. PICK U \in Bad : \A V \in Bad : V \subseteq U => V = U
  <2>1. Bad \in SUBSET SUBSET S
    OBVIOUS
  <2> HIDE DEF Bad
  <2>2. QED
    BY <1>1, <2>1, LeastSubset
<1>3. U # {}
  BY <1>2, SumValue
<1>4. PICK x \in U : x = (CHOOSE y \in U : TRUE) /\ g[U] = Cost(x) + g[U \ {x}]
  BY <1>2, <1>3, SumValue
<1>5. h[U] = Cost(x) + h[U \ {x}]
  <2>1. PICK z \in U : z = (CHOOSE y \in U : TRUE) /\ h[U] = Cost(z) + h[U \ {z}]
    BY <1>2, <1>3, SumValue
  <2>2. QED
    BY <1>4, <2>1
<1>6. U \ {x} \notin Bad
  BY <1>2, <1>4
<1>7. QED
  BY <1>2, <1>4, <1>5, <1>6

LEMMA SumExists ==
  ASSUME NEW S, IsFiniteSet(S)
  PROVE  IsSum(CHOOSE g : IsSum(g, S), S)
<1> DEFINE G(U) == CHOOSE g : IsSum(g, U)
           Bad == {U \in SUBSET S : ~ \E g : IsSum(g, U)}
<1>1. SUFFICES ASSUME Bad # {} PROVE FALSE
  OBVIOUS
<1>2. PICK U \in Bad : \A V \in Bad : V \subseteq U => V = U
  <2>1. Bad \in SUBSET SUBSET S
    OBVIOUS
  <2> HIDE DEF Bad
  <2>2. QED
    BY <1>1, <2>1, LeastSubset
<1>3. \A V \in SUBSET U : IsFiniteSet(V) /\ (V # U => IsSum(G(V), V))
  BY <1>2, FS_Subset
<1> HIDE DEF G
<1> DEFINE c(s) == CHOOSE x \in s : TRUE
           less(s) == G(s \ {c(s)})[s \ {c(s)}]
           h == [s \in SUBSET U |-> IF s = {} THEN 0 ELSE Cost(c(s)) + less(s)]
<1>4. ASSUME NEW s \in SUBSET U, s # {} PROVE h[s \ {c(s)}] = less(s)
  <2> DEFINE r == s \ {c(s)}
  <2>1. c(s) \in s
    BY <1>4
  <2>2. r \in SUBSET U /\ r # U
    BY <2>1
  <2> HIDE DEF r, c
  <2>3. IsSum(G(r), r) /\ r \in SUBSET r
    BY <1>3, <2>2
  <2>4. CASE r = {}
    BY <2>2, <2>3, <2>4, SumValue DEF r
  <2>5. CASE r # {}
    <3>1. PICK x \in r : x = (CHOOSE y \in r : TRUE) /\ G(r)[r] = Cost(x) + G(r)[r \ {x}]
      BY <2>3, <2>5, SumValue
    <3>2. x = c(r)
      BY <3>1 DEF c
    <3>3. r \ {x} \in SUBSET U /\ r \ {x} # U /\ r \ {x} \in SUBSET r
      BY <2>2, <3>1
    <3>4. IsSum(G(r \ {x}), r \ {x}) /\ IsFiniteSet(r)
      BY <1>3, <2>2, <3>3
    <3>5. G(r)[r \ {x}] = G(r \ {x})[r \ {x}]
      BY <2>3, <3>3, <3>4, SumsAgree
    <3>6. h[r] = Cost(x) + G(r \ {x})[r \ {x}]
      BY <2>2, <2>5, <3>2
    <3>7. QED
      BY <3>1, <3>5, <3>6 DEF r
  <2>6. QED
    BY <2>4, <2>5
<1>5. IsSum(h, U)
  <2>1. h = [s \in SUBSET U |-> IF s = {} THEN 0 ELSE Cost(c(s)) + h[s \ {c(s)}]]
    <3>1. \A s \in SUBSET U : s # {} => h[s \ {c(s)}] = less(s)
      BY <1>4
    <3> HIDE DEF c, less
    <3>2. QED
      BY <3>1
  <2> HIDE DEF h
  <2>2. QED
    BY <2>1 DEF IsSum
<1>6. QED
  BY <1>2, <1>5

\* The sum of a finite set is that of any of its elements and of the others.
LEMMA SumRest ==
  ASSUME NEW S, IsFiniteSet(S)
  PROVE  /\ S = {} => Total(S) = 0
         /\ S # {} => \E x \in S : Total(S) = Cost(x) + Total(S \ {x})
<1> DEFINE g == CHOOSE h : IsSum(h, S)
<1>1. IsSum(g, S) /\ Total(S) = g[S]
  BY SumExists, SumDef
<1> HIDE DEF g
<1>2. CASE S = {}
  BY <1>1, <1>2, SumValue
<1>3. CASE S # {}
  <2>1. PICK x \in S : g[S] = Cost(x) + g[S \ {x}]
    BY <1>1, <1>3, SumValue
  <2> DEFINE h == CHOOSE k : IsSum(k, S \ {x})
  <2>2. IsSum(h, S \ {x}) /\ Total(S \ {x}) = h[S \ {x}]
    BY SumExists, SumDef, FS_Subset
  <2> HIDE DEF h
  <2>3. g[S \ {x}] = h[S \ {x}]
    BY <1>1, <2>2, SumsAgree
  <2>4. QED
    BY <1>1, <2>1, <2>2, <2>3
<1>4. QED
  BY <1>2, <1>3

LEMMA OwnedLemma ==
  ASSUME Inv, NEW f \in Files
  PROVE  /\ Inode(f) = dinode[f]
         /\ Owned(f) = {Held(disk, dinode, f, p) : p \in Spots(dinode, f)}
         /\ Cost(f) \in Nat /\ IsFiniteSet(Owned(f)) /\ Cardinality(Owned(f)) = Cost(f)
<1> DEFINE ino == dinode[f]
           z == ino.zone
           n == ino.nr_sects
           m == Start(ino)
           Q == Spots(dinode, f)
           H == [p \in Q |-> Held(disk, dinode, f, p)]
<1>1. Inode(f) = ino
  BY DEF Inode, Inv, FilesOK, OpenOK
<1>2. n \in 0..NR_THIRD_LEVEL_ZONE /\ Q = Places(n)
  BY FilesLemma DEF Spots
<1>3. Own(smap, disk, z, Q)
  BY DEF Inv, Owners
<1>4. Cost(f) = n + NrB(n)
  BY <1>1 DEF Cost, NrBlocks, NrB, ND, S2, Z
<1>5. Blocks(f) = {Held(disk, dinode, f, p) : p \in BlockSpots(n)}
  <2>1. Blocks(f) =
          IF n <= ND THEN {}
          ELSE {z[ND]} \cup
               IF n <= S2 THEN {}
               ELSE {z[ND + 1]} \cup {disk[z[ND + 1]][q] : q \in 0..Last(n)}
    BY <1>1 DEF Blocks, Last, ND, S2, Z, SECOND_LEVEL_ZONE, THIRD_LEVEL_ZONE
  <2>2. /\ \A i : Held(disk, dinode, f, InZone(i)) = z[i]
        /\ \A q : Held(disk, dinode, f, InThird(q)) = disk[z[ND + 1]][q]
    BY DEF Held, Hold, InZone, InThird
  <2>3. BlockSpots(n) =
           IF n <= ND THEN {}
           ELSE {InZone(ND)} \cup
                IF n <= S2 THEN {}
                ELSE {InZone(ND + 1)} \cup {InThird(q) : q \in 0..Last(n)}
    BY <1>2, BlockSpotsLemma
  <2> HIDE DEF z, n
  <2>4. CASE n <= ND
    BY <2>1, <2>3, <2>4
  <2>5. CASE ~ (n <= ND) /\ n <= S2
    BY <2>1, <2>2, <2>3, <2>5
  <2>6. CASE ~ (n <= ND) /\ ~ (n <= S2)
    <3>1. BlockSpots(n) = {InZone(ND)} \cup {InZone(ND + 1)} \cup {InThird(q) : q \in 0..Last(n)}
      BY <2>3, <2>6
    <3>2. Blocks(f) = {z[ND]} \cup {z[ND + 1]} \cup {disk[z[ND + 1]][q] : q \in 0..Last(n)}
      BY <2>1, <2>6
    <3>3. QED
      BY <2>2, <3>1, <3>2
  <2>7. QED
    BY <2>4, <2>5, <2>6
<1>6. {Sector(m, k) : k \in 0..n - 1} = {Held(disk, dinode, f, Cell(k)) : k \in 0..n - 1}
  <2>1. \A k \in 0..n - 1 : k \in 0..NR_THIRD_LEVEL_ZONE - 1
    BY <1>2, ConstantsLemma
  <2>2. m.disk = disk /\ m.zone = z
    BY DEF Start
  <2> HIDE DEF m, n
  <2>3. \A k \in 0..n - 1 : Sector(m, k) = Held(disk, dinode, f, Cell(k))
    BY <2>1, <2>2, SectorLemma DEF Held
  <2>4. QED
    BY <2>3
<1>7. Owned(f) = {Held(disk, dinode, f, p) : p \in Q}
  <2>1. Owned(f) = Blocks(f) \cup {Sector(m, k) : k \in 0..n - 1}
    BY <1>1 DEF Owned
  <2>2. \A p : p \in Q <=> p \in BlockSpots(n) \/ \E k \in 0..n - 1 : p = Cell(k)
    <3>1. \A k \in 0..n - 1 : Cell(k) \in Q
      BY <1>2, DataLemma
    <3>2. \A p \in Q : ~ IsBlock(p) => \E k \in 0..n - 1 : p = Cell(k)
      BY <1>2, DataLemma
    <3> HIDE DEF n, Q
    <3>3. QED
      BY <1>2, <3>1, <3>2 DEF BlockSpots
  <2> HIDE DEF m, n, Q
  <2>3. QED
    BY <1>5, <1>6, <2>1, <2>2
<1>8. \A p, q \in Q : H[p] = H[q] => p = q
  BY <1>3 DEF Own, Held
<1>9. IsFiniteSet(Q) /\ Cardinality(Q) = n + NrB(n)
  <2> HIDE DEF n, Q
  <2>1. QED
    BY <1>2, PlacesSize
<1>10. Owned(f) = {H[p] : p \in Q}
  BY <1>7
<1> HIDE DEF H, Q, n
<1>11. IsFiniteSet(Owned(f)) /\ Cardinality(Owned(f)) = n + NrB(n)
  BY <1>8, <1>9, <1>10, ImageSize
<1>12. Cost(f) \in Nat
  BY <1>4, <1>11, FS_CardinalityType
<1>13. QED
  BY <1>1, <1>4, <1>7, <1>11, <1>12 DEF Q

LEMMA TotalLemma ==
  ASSUME Inv
  PROVE  \A S \in SUBSET Files :
           /\ IsFiniteSet(UNION {Owned(f) : f \in S}) /\ Total(S) \in Nat
           /\ Cardinality(UNION {Owned(f) : f \in S}) = Total(S)
<1> DEFINE V(S) == UNION {Owned(f) : f \in S}
           Good(S) == IsFiniteSet(V(S)) /\ Total(S) \in Nat /\ Cardinality(V(S)) = Total(S)
           Bad == {S \in SUBSET Files : ~ Good(S)}
<1>1. SUFFICES ASSUME Bad # {} PROVE FALSE
  OBVIOUS
<1>2. IsFiniteSet(Files)
  BY FsSectAssumption
<1>3. PICK U \in Bad : \A W \in Bad : W \subseteq U => W = U
  <2>1. Bad \in SUBSET SUBSET Files
    OBVIOUS
  <2> HIDE DEF Bad
  <2>2. QED
    BY <1>1, <1>2, <2>1, LeastSubset
<1>4. U \in SUBSET Files /\ ~ Good(U) /\ IsFiniteSet(U)
  BY <1>2, <1>3, FS_Subset
<1>5. CASE U = {}
  <2>1. V(U) = {} /\ Total(U) = 0
    BY <1>4, <1>5, SumRest
  <2>2. QED
    BY <1>4, <2>1, FS_EmptySet
<1>6. CASE U # {}
  <2>1. PICK x \in U : Total(U) = Cost(x) + Total(U \ {x})
    BY <1>4, <1>6, SumRest
  <2> DEFINE R == U \ {x}
  <2>2. R \in SUBSET Files /\ R # U /\ R \subseteq U /\ x \in Files
    BY <1>4, <2>1
  <2> HIDE DEF Good, R
  <2>3. Good(R)
    BY <1>3, <2>2
  <2>4. V(U) = Owned(x) \cup V(R)
    BY <2>1 DEF R
  <2>5. Owned(x) \cap V(R) = {}
    <3>1. SUFFICES ASSUME NEW s \in Owned(x), NEW g \in R, s \in Owned(g) PROVE FALSE
      OBVIOUS
    <3>2. g \in Files /\ g # x
      BY <2>2 DEF R
    <3>3. PICK p \in Spots(dinode, x) : s = Held(disk, dinode, x, p)
      BY <2>2, OwnedLemma
    <3>4. PICK q \in Spots(dinode, g) : s = Held(disk, dinode, g, q)
      BY <3>1, <3>2, OwnedLemma
    <3>5. \A a, b \in Files : a # b =>
            \A r \in Spots(dinode, a), t \in Spots(dinode, b) :
              Held(disk, dinode, a, r) # Held(disk, dinode, b, t)
      BY Zenon DEF Inv, Owners
    <3>6. \A r \in Spots(dinode, x), t \in Spots(dinode, g) :
            Held(disk, dinode, x, r) # Held(disk, dinode, g, t)
      BY <2>2, <3>2, <3>5, Zenon
    <3>7. QED
      BY <3>3, <3>4, <3>6, Zenon
  <2>6. Cost(x) \in Nat /\ IsFiniteSet(Owned(x)) /\ Cardinality(Owned(x)) = Cost(x)
    BY <2>2, OwnedLemma
  <2>7. IsFiniteSet(V(R)) /\ Total(R) \in Nat /\ Cardinality(V(R)) = Total(R)
    BY <2>3 DEF Good
  <2> HIDE DEF V
  <2>8. IsFiniteSet(V(U)) /\ Cardinality(V(U)) = Cost(x) + Total(R) - Cardinality({})
    BY <2>4, <2>5, <2>6, <2>7, FS_Union
  <2>9. Total(U) = Cost(x) + Total(R) /\ Cardinality({}) = 0
    BY <2>1, FS_EmptySet DEF R
  <2>10. Good(U)
    BY <2>6, <2>7, <2>8, <2>9 DEF Good
  <2>11. QED
    BY <1>4, <2>10
<1>7. QED
  BY <1>5, <1>6

LEMMA OwnerLemma == ASSUME Inv PROVE SectorsHaveOneOwner
<1> DEFINE V == UNION {Owned(f) : f \in Files}
<1>1. \A f \in Files : Inode(f) = dinode[f] /\ dinode[f] \in Inodes
                       /\ Owned(f) = {Held(disk, dinode, f, p) : p \in Spots(dinode, f)}
  BY OwnedLemma, FilesLemma
<1>2. smap = RootSects \cup V /\ RootSects \cap V = {}
  <2>1. \A s \in V : \E f \in Files : \E p \in Spots(dinode, f) : s = Held(disk, dinode, f, p)
    BY <1>1
  <2>2. \A f \in Files : \A p \in Spots(dinode, f) : Held(disk, dinode, f, p) \in V
    BY <1>1
  <2>3. /\ \A f \in Files : \A p \in Spots(dinode, f) :
              Held(disk, dinode, f, p) \in smap \ RootSects
        /\ RootSects \subseteq smap
        /\ \A s \in smap \ RootSects : \E f \in Files : \E p \in Spots(dinode, f) :
              Held(disk, dinode, f, p) = s
    BY DEF Inv, Owners, Own, Held
  <2> HIDE DEF V
  <2>4. QED
    BY <2>1, <2>2, <2>3
<1>3. IsFiniteSet(V) /\ Cardinality(V) = Total(Files) /\ Total(Files) \in Nat
  BY TotalLemma
<1>4. IsFiniteSet(RootSects) /\ Cardinality(RootSects) = ND
  <2>1. 1 \in Int /\ ND \in Int /\ ND \in Nat \ {0} /\ RootSects = 1..ND
    BY ConstantsLemma DEF RootSects, ND
  <2>2. IsFiniteSet(1..ND) /\ Cardinality(1..ND) = IF 1 > ND THEN 0 ELSE ND - 1 + 1
    BY <2>1, FS_Interval
  <2>3. QED
    BY <2>1, <2>2
<1> HIDE DEF V
<1>5. Cardinality(smap) = ND + Total(Files)
  <2>1. Cardinality(RootSects \cup V) = ND + Total(Files) - Cardinality({})
    BY <1>2, <1>3, <1>4, FS_Union
  <2>2. QED
    BY <1>2, <1>3, <2>1, FS_EmptySet, ConstantsLemma
<1>6. TypeOK
  <2>1. smap \subseteq Sectors /\ opened \subseteq Files /\ DOMAIN disk = Zones
    BY FsSectAssumption DEF Inv, Owners, Own, Typed
  <2>2. ASSUME NEW f \in Files
        PROVE  /\ Inode(f).zone \in [0..THIRD_LEVEL_ZONE -> Zones]
               /\ Inode(f).nr_sects \in {0} \cup NR_DIRECT_ZONE..NR_THIRD_LEVEL_ZONE
               /\ Inode(f).size <= Inode(f).nr_sects * SECTOR_SIZE
               /\ written[f] \subseteq 0..Inode(f).size - 1
    <3>1. Inode(f) = dinode[f] /\ dinode[f] \in Inodes /\ FileOK(dinode, written, f)
      BY <1>1 DEF Inv, FilesOK
    <3>2. QED
      BY <3>1, ConstantsLemma DEF FileOK, Inodes, ND
  <2>3. QED
    BY <2>1, <2>2 DEF TypeOK
<1>7. QED
  BY <1>2, <1>5, <1>6 DEF SectorsHaveOneOwner, V, Total, ND

\* read_write.c:246: the map has the sectors of the files, and each has one owner: a place
\* of one file, whose number of places follows from its number of sectors.
THEOREM OneOwner == ASSUME Careful, BlankDisk PROVE Spec => []SectorsHaveOneOwner
<1>1. Inv => SectorsHaveOneOwner
  BY OwnerLemma
<1>2. QED
  BY <1>1, FsSectInvariant, PTL

----------------------------------------------------------------------------
(* A close loses nothing, whatever zones mkfs has left on the disk            *)

Sized(i) ==
  /\ i = [zone |-> i.zone, nr_sects |-> i.nr_sects, size |-> i.size]
  /\ i.nr_sects \in Nat /\ i.size \in Nat /\ i.size <= i.nr_sects * SECTOR_SIZE

\* Every inode has room for its bytes: a write that does not make the file longer
\* changes no zone of its inode.
SyncInv ==
  /\ dinode = [f \in Files |-> dinode[f]] /\ inode = [f \in Files |-> inode[f]]
  /\ opened \subseteq Files /\ fd_pos \in [Files -> Nat]
  /\ \A f \in Files : Sized(dinode[f])
  /\ \A f \in opened : inode[f] = dinode[f]

\* A write within the sectors of the file leaves the zones of its inode.
LEMMA ZonesStay ==
  ASSUME NEW f, NEW pos, NEW len, NEW e, e = EndSect(pos, len), ~ (e > inode[f].nr_sects),
         NEW L \in Nat, L = NrSects(pos, len), NEW m, m = Written(f, pos, len)
  PROVE  m.zone = inode[f].zone
<1> DEFINE x0 == Start(inode[f])
           V == {disk[s] : s \in DOMAIN disk} \cup {Buffer(f, pos, len, k) : k \in Nat}
           W == [DOMAIN disk -> V]
           D == {x0} \cup {[x0 EXCEPT !.disk = d] : d \in W}
           Step(x, k) == WriteSect(f, pos, len, x, k - 1)
           g == [t \in (1..L) \X D |-> Step(t[2], t[1])]
           M == [k \in 0..L |-> D]
           F(h) == [k \in 0..L |-> IF k = 0 THEN x0 ELSE Step(h[k - 1], k)]
           at == WriteLoop(f, pos, len, x0, L)
<1>1. /\ x0.disk = disk /\ x0.zone = inode[f].zone
      /\ \A d : [x0 EXCEPT !.disk = d].zone = inode[f].zone /\ [x0 EXCEPT !.disk = d].disk = d
      /\ \A c1, c2 : [[x0 EXCEPT !.disk = c1] EXCEPT !.disk = c2] = [x0 EXCEPT !.disk = c2]
  BY DEF Start
<1>2. m = IF x0.ok THEN at[L] ELSE x0
  <2>1. m = LET i == inode[f]
                b == IF e > i.nr_sects THEN AllocZone(Start(i), i.nr_sects, e) ELSE Start(i)
            IN IF b.ok THEN WriteLoop(f, pos, len, b, L)[L] ELSE b
    BY DEF Written, WriteLoop
  <2>2. QED
    BY <2>1
<1> HIDE DEF x0
<1>3. ASSUME NEW x \in D PROVE x.zone = inode[f].zone
  <2>1. CASE x = x0
    BY <1>1, <2>1
  <2>2. CASE x # x0
    <3>1. PICK d : x = [x0 EXCEPT !.disk = d]
      BY <2>2
    <3>2. QED
      BY <1>1, <3>1
  <2>3. QED
    BY <2>1, <2>2
<1>4. ASSUME NEW x \in D, NEW k \in 1..L PROVE Step(x, k) \in D
  <2> DEFINE t == Sector(x, FirstSect(pos) + (k - 1))
             B == Buffer(f, pos, len, k - 1)
             c == [x.disk EXCEPT ![t] = B]
  <2>1. k - 1 \in Nat
    OBVIOUS
  <2>2. B \in V
    BY <2>1
  <2>3. Step(x, k) = [x EXCEPT !.disk = c]
    BY DEF WriteSect
  <2> HIDE DEF t, B, Step
  <2>4. CASE x = x0
    <3>1. c = [s \in DOMAIN disk |-> IF s = t THEN B ELSE disk[s]]
      BY <1>1, <2>4
    <3>2. \A s \in DOMAIN disk : disk[s] \in V
      OBVIOUS
    <3> HIDE DEF V
    <3>3. c \in W
      BY <2>2, <3>1, <3>2
    <3> HIDE DEF c, W
    <3>4. QED
      BY <2>3, <2>4, <3>3
  <2>5. ASSUME NEW d \in W, x = [x0 EXCEPT !.disk = d] PROVE Step(x, k) \in D
    <3>1. x.disk = d
      BY <1>1, <2>5
    <3>2. c \in W
      <4> HIDE DEF V
      <4>1. QED
        BY <2>2, <3>1
    <3> HIDE DEF c, W
    <3>3. Step(x, k) = [x0 EXCEPT !.disk = c]
      BY <1>1, <2>3, <2>5
    <3>4. QED
      BY <3>2, <3>3
  <2>6. QED
    BY <2>4, <2>5
<1> HIDE DEF Step, D
<1>5. g \in [(1..L) \X D -> D] /\ x0 \in D
  BY <1>4 DEF D
<1> HIDE DEF g
<1>6. PICK h : Runs(h, L, D, x0, g)
  BY <1>5, LoopExists
<1>7. \A i \in 1..L : i - 1 \in 0..L /\ i \in 0..L
  OBVIOUS
<1>8. \A i \in 1..L : h[i] = Step(h[i - 1], i)
  BY <1>6, <1>7 DEF g, Runs
<1>9. h = F(h)
  <2>1. h = [i \in 0..L |-> h[i]] /\ h[0] = x0
    BY <1>6 DEF Runs
  <2>2. ASSUME NEW i \in 0..L PROVE h[i] = IF i = 0 THEN x0 ELSE Step(h[i - 1], i)
    <3>1. i = 0 \/ i \in 1..L
      OBVIOUS
    <3>2. QED
      BY <1>8, <2>1, <3>1
  <2>3. QED
    BY <2>1, <2>2
<1>10. at = F(at)
  BY <1>9 DEF WriteLoop, Step
<1> HIDE DEF at
<1>11. at[0] = x0 /\ \A i \in 1..L : at[i] = Step(at[i - 1], i)
  BY <1>7, <1>10
<1>12. at[0] \in M[0]
  BY <1>5, <1>11
<1>13. ASSUME NEW i \in 1..L, at[i - 1] \in M[i - 1] PROVE at[i] \in M[i]
  BY <1>4, <1>7, <1>11, <1>13
<1>14. \A i \in 0..L : M[i] = D
  OBVIOUS
<1>15. at[L] \in D
  <2> HIDE DEF M
  <2>1. \A i \in 0..L : at[i] \in M[i]
    BY <1>12, <1>13, LoopInduction
  <2>2. QED
    BY <1>14, <2>1
<1>16. QED
  BY <1>2, <1>3, <1>5, <1>15

LEMMA WriteSyncs ==
  ASSUME Careful, SyncInv, NEW f \in Files, NEW len \in Lens, Write(f, len)
  PROVE  SyncInv'
<1> DEFINE pos == fd_pos[f]
           m == Written(f, pos, len)
           ino == inode[f]
           e == EndSect(pos, len)
           L == NrSects(pos, len)
           i2 == Longer(f, pos, len, ino, m)
<1>1. /\ f \in opened /\ ino = dinode[f] /\ Sized(ino) /\ pos \in Nat /\ len \in Nat
      /\ pos % SECTOR_SIZE = 0
      /\ dinode = [x \in Files |-> dinode[x]] /\ inode = [x \in Files |-> inode[x]]
      /\ opened \subseteq Files /\ fd_pos \in [Files -> Nat]
  BY FsSectAssumption DEF SyncInv, Write, WriteWith, Fits
<1>2. CASE ~ m.ok
  <2>1. UNCHANGED <<dinode, inode, opened, fd_pos>>
    BY <1>2 DEF Write, WriteWith, Halt
  <2>2. QED
    BY <2>1 DEF SyncInv
<1>3. CASE m.ok
  <2>1. /\ opened' = opened /\ inode' = [inode EXCEPT ![f] = i2]
        /\ dinode' = IF pos + len > ino.size THEN [dinode EXCEPT ![f] = inode'[f]] ELSE dinode
        /\ fd_pos' = [fd_pos EXCEPT ![f] = pos + len]
    BY <1>1, <1>3 DEF Write, WriteWith, Longer
  <2> HIDE DEF e, L
  <2>2. /\ L \in Nat /\ e \in Nat /\ pos + len <= e * SECTOR_SIZE
        /\ \A n \in Nat : pos + len <= n * SECTOR_SIZE => e <= n
    <3> HIDE DEF pos
    <3>1. L = NrSects(pos, len) /\ FirstSect(pos) = FirstSect(pos) /\ e = EndSect(pos, len)
      BY DEF e, L
    <3>2. Covers(pos, len, FirstSect(pos), L, e)
      BY <1>1, <3>1, CoverLemma
    <3>3. QED
      BY <3>2 DEF Covers
  <2>3. /\ i2 = [zone |-> m.zone, nr_sects |-> i2.nr_sects, size |-> i2.size]
        /\ i2.nr_sects = Max({ino.nr_sects, e}) /\ i2.size = Max({ino.size, pos + len})
    BY DEF Longer, e
  <2>4. i2.zone = m.zone
    BY DEF Longer
  <2> HIDE DEF i2
  <2>5. ino.nr_sects \in Nat /\ ino.size \in Nat /\ ino.size <= ino.nr_sects * SECTOR_SIZE
        /\ pos + len \in Nat
    BY <1>1 DEF Sized
  <2> HIDE DEF pos
  <2>6. /\ i2.nr_sects = IF ino.nr_sects <= e THEN e ELSE ino.nr_sects
        /\ i2.size = IF ino.size <= pos + len THEN pos + len ELSE ino.size
    <3> HIDE DEF ino
    <3>1. Max({ino.nr_sects, e}) = IF ino.nr_sects <= e THEN e ELSE ino.nr_sects
      BY <2>2, <2>5, MinMaxLemma
    <3>2. Max({ino.size, pos + len}) = IF ino.size <= pos + len THEN pos + len ELSE ino.size
      BY <2>5, MinMaxLemma
    <3>3. QED
      BY <2>3, <3>1, <3>2
  <2>7. Sized(i2)
    <3>1. i2.nr_sects \in Nat /\ i2.size \in Nat
      BY <2>2, <2>5, <2>6
    <3>2. \A x \in Nat : x * SECTOR_SIZE \in Nat
      BY ConstantsLemma
    <3>3. ASSUME NEW x \in Nat, NEW y \in Nat, x <= y PROVE x * SECTOR_SIZE <= y * SECTOR_SIZE
      <4>1. CASE x = y
        BY <3>2, <4>1
      <4>2. CASE x < y
        <5>1. x * SECTOR_SIZE + SECTOR_SIZE <= y * SECTOR_SIZE
          BY <4>2, ConstantsLemma, ProductLemma
        <5>2. QED
          BY <3>2, <5>1, ConstantsLemma
      <4>3. QED
        BY <3>3, <4>1, <4>2
    <3>4. /\ ino.nr_sects * SECTOR_SIZE <= i2.nr_sects * SECTOR_SIZE
          /\ e * SECTOR_SIZE <= i2.nr_sects * SECTOR_SIZE
      BY <2>2, <2>5, <2>6, <3>1, <3>3
    <3>5. /\ ino.nr_sects * SECTOR_SIZE \in Nat /\ e * SECTOR_SIZE \in Nat
          /\ i2.nr_sects * SECTOR_SIZE \in Nat
      BY <2>2, <2>5, <3>1, <3>2
    <3>6. i2.size <= i2.nr_sects * SECTOR_SIZE
      BY <2>2, <2>5, <2>6, <3>4, <3>5
    <3>7. QED
      BY <2>3, <2>4, <3>1, <3>6 DEF Sized
  <2>8. ~ (pos + len > ino.size) => i2 = ino
    <3>1. SUFFICES ASSUME pos + len <= ino.size PROVE i2 = ino
      BY <2>5
    <3>2. e <= ino.nr_sects
      <4>1. ino.nr_sects * SECTOR_SIZE \in Nat
        BY <2>5, ConstantsLemma
      <4>2. pos + len <= ino.nr_sects * SECTOR_SIZE
        BY <2>5, <3>1, <4>1
      <4>3. QED
        BY <2>2, <2>5, <4>2
    <3>3. m.zone = ino.zone
      <4>1. e = EndSect(pos, len) /\ L = NrSects(pos, len) /\ m = Written(f, pos, len)
        BY DEF e, L
      <4>2. ~ (e > inode[f].nr_sects)
        BY <2>2, <2>5, <3>2
      <4> HIDE DEF m
      <4>3. m.zone = inode[f].zone
        BY <2>2, <4>1, <4>2, ZonesStay
      <4>4. QED
        BY <4>3
    <3>4. i2.nr_sects = ino.nr_sects /\ i2.size = ino.size
      BY <2>2, <2>5, <2>6, <3>1, <3>2
    <3>5. ino = [zone |-> ino.zone, nr_sects |-> ino.nr_sects, size |-> ino.size]
      BY <1>1 DEF Sized
    <3> HIDE DEF ino, m
    <3>6. QED
      BY <2>3, <3>3, <3>4, <3>5
  <2>9. /\ \A x \in Files : inode'[x] = IF x = f THEN i2 ELSE inode[x]
        /\ \A x \in Files : dinode'[x] = IF x = f THEN i2 ELSE dinode[x]
        /\ dinode' = [x \in Files |-> dinode'[x]] /\ inode' = [x \in Files |-> inode'[x]]
    <3>1. /\ inode' = [x \in Files |-> IF x = f THEN i2 ELSE inode[x]]
      BY <1>1, <2>1
    <3>2. inode'[f] = i2
      BY <3>1
    <3>3. dinode' = [x \in Files |-> IF x = f THEN i2 ELSE dinode[x]]
      <4>1. CASE pos + len > ino.size
        <5>1. dinode' = [dinode EXCEPT ![f] = i2]
          BY <2>1, <3>2, <4>1
        <5>2. QED
          BY <1>1, <5>1
      <4>2. CASE ~ (pos + len > ino.size)
        <5>1. dinode' = dinode /\ i2 = dinode[f]
          BY <1>1, <2>1, <2>8, <4>2
        <5>2. QED
          BY <1>1, <5>1
      <4>3. QED
        BY <4>1, <4>2
    <3>4. QED
      BY <3>1, <3>3
  <2>10. fd_pos' \in [Files -> Nat]
    BY <1>1, <2>1, <2>5
  <2>11. \A x \in Files : Sized(dinode[x]) /\ \A y \in opened : inode[y] = dinode[y]
    BY DEF SyncInv
  <2> HIDE DEF ino
  <2>12. QED
    BY <1>1, <2>1, <2>7, <2>9, <2>10, <2>11 DEF SyncInv
<1>4. QED
  BY <1>2, <1>3

LEMMA ConnectSyncs ==
  ASSUME SyncInv, NEW f \in Files, NEW ino, Sized(ino), NEW trunc \in BOOLEAN,
         Connect(f, ino, trunc)
  PROVE  SyncInv'
<1> DEFINE i == IF trunc THEN [ino EXCEPT !.size = 0] ELSE ino
<1>1. /\ inode' = [inode EXCEPT ![f] = i] /\ dinode' = [dinode EXCEPT ![f] = i]
      /\ opened' = opened \cup {f} /\ fd_pos' = [fd_pos EXCEPT ![f] = 0]
  BY DEF Connect
<1>2. Sized(i)
  <2>1. CASE trunc
    <3>1. i = [zone |-> ino.zone, nr_sects |-> ino.nr_sects, size |-> 0]
      BY <2>1 DEF Sized
    <3>2. ino.nr_sects \in Nat /\ ino.nr_sects * SECTOR_SIZE \in Nat
      BY ConstantsLemma DEF Sized
    <3>3. QED
      BY <3>1, <3>2 DEF Sized
  <2>2. CASE ~ trunc
    BY <2>2
  <2>3. QED
    BY <2>1, <2>2
<1> HIDE DEF i
<1>3. QED
  BY <1>1, <1>2 DEF SyncInv

LEMMA FirstSyncs == Init => SyncInv
<1>1. SUFFICES ASSUME Init PROVE SyncInv
  OBVIOUS
<1>2. /\ dinode = [f \in Files |-> IF f = CmdTar
                     THEN [zone |-> Mkfs.zone, nr_sects |-> TarSize, size |-> TarSize * SECTOR_SIZE]
                     ELSE OldInode(f)]
      /\ inode = [f \in Files |-> FreeInode] /\ opened = {} /\ fd_pos = [f \in Files |-> 0]
  BY <1>1, ZenonT(40) DEF Init
<1>3. TarSize \in Nat /\ TarSize * SECTOR_SIZE \in Nat /\ 0 <= 0 * SECTOR_SIZE
  BY FsSectAssumption, ConstantsLemma
<1>4. \A z : Sized([zone |-> z, nr_sects |-> TarSize, size |-> TarSize * SECTOR_SIZE])
  BY <1>3 DEF Sized
<1>5. ASSUME NEW f PROVE Sized(OldInode(f))
  <2> DEFINE z1 == [z \in 0..THIRD_LEVEL_ZONE |->
                      IF z < NR_DIRECT_ZONE THEN NO_ZONE ELSE OldZones[f][z]]
  <2>1. OldInode(f) = [FreeInode EXCEPT !.zone = z1]
    BY DEF OldInode
  <2> HIDE DEF z1
  <2>2. OldInode(f) = [zone |-> z1, nr_sects |-> 0, size |-> 0]
    BY <2>1 DEF FreeInode
  <2>3. QED
    BY <1>3, <2>2 DEF Sized
<1>6. ASSUME NEW f \in Files PROVE Sized(dinode[f])
  <2>1. CASE f = CmdTar
    BY <1>2, <1>4, <2>1
  <2>2. CASE f # CmdTar
    BY <1>2, <1>5, <2>2
  <2>3. QED
    BY <2>1, <2>2
<1>7. QED
  BY <1>2, <1>6 DEF SyncInv

LEMMA StepSyncs == SyncInv /\ Careful /\ [Next]_vars => SyncInv'
<1>1. SUFFICES ASSUME SyncInv, Careful, [Next]_vars PROVE SyncInv'
  OBVIOUS
<1>2. ASSUME UNCHANGED <<dinode, inode, opened, fd_pos>> PROVE SyncInv'
  BY <1>1, <1>2 DEF SyncInv
<1>3. CASE UNCHANGED vars
  BY <1>2, <1>3 DEF vars
<1>4. CASE Next
  <2>1. PICK f \in Files :
          \/ \E trunc \in BOOLEAN : Open(f, trunc) \/ Create(f, trunc)
          \/ Close(f) \/ Unlink(f)
          \/ \E pos \in 0..inode[f].size : Lseek(f, pos)
          \/ \E len \in Lens : Read(f, len) \/ Write(f, len)
    BY <1>4 DEF Next
  <2>2. ASSUME NEW w, Halt(w) PROVE SyncInv'
    BY <1>2, <2>2 DEF Halt
  <2>3. ASSUME NEW trunc \in BOOLEAN, Open(f, trunc) PROVE SyncInv'
    <3>1. Halt("do_open") \/ Connect(f, dinode[f], trunc)
      BY <2>3 DEF Open
    <3>2. Sized(dinode[f])
      BY <1>1 DEF SyncInv
    <3>3. QED
      BY <1>1, <2>2, <3>1, <3>2, ConnectSyncs
  <2>4. ASSUME NEW trunc \in BOOLEAN, Create(f, trunc) PROVE SyncInv'
    <3> DEFINE first == Min(Sectors \ smap)
               z1 == [z \in 0..THIRD_LEVEL_ZONE |->
                        IF z < NR_DIRECT_ZONE THEN first + z ELSE dinode[f].zone[z]]
               ino == [zone |-> z1, nr_sects |-> NR_DIRECT_ZONE,
                       size |-> NR_DIRECT_ZONE * SECTOR_SIZE]
    <3>1. Halt("do_open") \/ Halt("alloc_smap_bit") \/ Connect(f, ino, trunc)
      BY <2>4 DEF Create
    <3> HIDE DEF z1
    <3>2. NR_DIRECT_ZONE \in Nat /\ NR_DIRECT_ZONE * SECTOR_SIZE \in Nat
      BY ConstantsLemma DEF ND
    <3>3. Sized(ino)
      BY <3>2 DEF Sized
    <3> HIDE DEF ino
    <3>4. QED
      BY <1>1, <2>2, <3>1, <3>3, ConnectSyncs
  <2>5. ASSUME Close(f) PROVE SyncInv'
    <3>1. /\ opened' = opened \ {f} /\ inode' = [inode EXCEPT ![f] = FreeInode]
          /\ fd_pos' = [fd_pos EXCEPT ![f] = 0] /\ dinode' = dinode
      BY <2>5 DEF Close
    <3>2. QED
      BY <1>1, <3>1 DEF SyncInv
  <2>6. ASSUME Unlink(f) PROVE SyncInv'
    <3>1. CASE \E w : Halt(w)
      BY <2>2, <3>1
    <3>2. CASE ~ \E w : Halt(w)
      <4>1. /\ f \notin opened /\ dinode' = [dinode EXCEPT ![f] = FreeInode]
            /\ UNCHANGED <<inode, opened, fd_pos>>
        BY <2>6, <3>2 DEF Unlink
      <4>2. Sized(FreeInode)
        <5>1. 0 <= 0 * SECTOR_SIZE
          BY ConstantsLemma
        <5>2. QED
          BY <5>1 DEF Sized, FreeInode
      <4>3. QED
        BY <1>1, <4>1, <4>2 DEF SyncInv
    <3>3. QED
      BY <3>1, <3>2
  <2>7. ASSUME NEW pos \in 0..inode[f].size, Lseek(f, pos) PROVE SyncInv'
    <3>1. f \in opened /\ fd_pos' = [fd_pos EXCEPT ![f] = pos] /\ UNCHANGED <<dinode, inode, opened>>
      BY <2>7 DEF Lseek
    <3>2. inode[f].size \in Nat
      BY <1>1, <3>1 DEF SyncInv, Sized
    <3>3. pos \in Nat
      BY <3>2
    <3>4. QED
      BY <1>1, <3>1, <3>3 DEF SyncInv
  <2>8. ASSUME NEW len \in Lens, Read(f, len) PROVE SyncInv'
    <3> DEFINE n == Readable(f, fd_pos[f], len)
    <3>1. Halt("rdwt_zones") \/ /\ fd_pos' = [fd_pos EXCEPT ![f] = fd_pos[f] + n]
                                /\ UNCHANGED <<dinode, inode, opened>>
      BY <2>8 DEF Read
    <3>2. f \in opened /\ fd_pos \in [Files -> Nat] /\ inode[f].size \in Nat /\ len \in Nat
      BY <1>1, <2>8, FsSectAssumption DEF SyncInv, Sized, Read
    <3>3. n \in Nat
      <4>1. CASE fd_pos[f] > inode[f].size
        BY <4>1 DEF Readable
      <4>2. CASE ~ (fd_pos[f] > inode[f].size)
        <5>1. n = Min({len, inode[f].size - fd_pos[f]})
          BY <4>2 DEF Readable
        <5>2. inode[f].size - fd_pos[f] \in Nat
          BY <3>2, <4>2
        <5>3. QED
          BY <3>2, <5>1, <5>2, MinNat, Zenon
      <4>3. QED
        BY <4>1, <4>2
    <3> HIDE DEF n
    <3>4. fd_pos[f] + n \in Nat
      BY <3>2, <3>3
    <3>5. CASE Halt("rdwt_zones")
      BY <2>2, <3>5
    <3>6. CASE fd_pos' = [fd_pos EXCEPT ![f] = fd_pos[f] + n] /\ UNCHANGED <<dinode, inode, opened>>
      BY <1>1, <3>2, <3>4, <3>6 DEF SyncInv
    <3>7. QED
      BY <3>1, <3>5, <3>6
  <2>9. ASSUME NEW len \in Lens, Write(f, len) PROVE SyncInv'
    BY <1>1, <2>9, WriteSyncs
  <2>10. QED
    BY <2>1, <2>3, <2>4, <2>5, <2>6, <2>7, <2>8, <2>9
<1>5. QED
  BY <1>1, <1>3, <1>4

\* main.c:572: closing a file loses nothing: the inode on the disk is the open one.
THEOREM InodesAreSynced == ASSUME Careful PROVE Spec => []InodeIsSynced
<1>1. Init => SyncInv
  BY FirstSyncs
<1>2. SyncInv /\ [Next]_vars => SyncInv'
  BY StepSyncs
<1>3. SyncInv => InodeIsSynced
  BY DEF SyncInv, InodeIsSynced
<1>4. QED
  BY <1>1, <1>2, <1>3, PTL DEF Spec
=============================================================================
