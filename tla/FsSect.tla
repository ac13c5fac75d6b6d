------------------------------- MODULE FsSect -------------------------------
(***************************************************************************)
(* The sectors of regular files: TASK FS takes them from the sector map       *)
(* (alloc_smap_bit, alloc_bit), enters them in the zones of an inode and in    *)
(* blocks of zones on the disk (alloc_zone), reads and writes files through    *)
(* them (rdwt_zones), and gives them back (do_unlink).                       *)
(*                                                                         *)
(* A sector is named by its bit in the map; bit 0 is reserved, and NO_ZONE,   *)
(* which is 0, is the boot sector.  FS serves one request at a time: a request *)
(* is a step.  A failed assertion or a panic ends the task: halted.          *)
(* Names and inode numbers are module FsDir's.  An inode is read from the     *)
(* disk when a file is opened, and what is not written back by the time it is  *)
(* closed is lost.                                                          *)
(***************************************************************************)
EXTENDS Integers, FiniteSets, FiniteSetsExt

CONSTANTS
  Files,           \* the inodes of regular files
  CmdTar,          \* the one mkfs makes
  TarStart,        \* its first sector in the map, and how many there are
  TarSize,         \* (config.h, INSTALL_START_SECT and INSTALL_NR_SECTS)
  SECTOR_SIZE,     \* bytes of a sector (512)
  NR_DIRECT_ZONE,  \* zones in the inode (8)
  NR_ZONE_PER_SECT,\* zones in a block of zones (128)
  NrBits,          \* the bits of the sector map
  NR_FILE_DESC,    \* the descriptors of the system (64)
  Lens,            \* the counts passed to read() and write()
  OldZones,        \* zones past the direct ones that mkfs leaves in the inodes
  Careful          \* the programs keep to what the code handles (Fits, Unlink)

\* The sectors a file reaches with its block, and with its block of blocks.
NR_SECOND_LEVEL_ZONE == NR_DIRECT_ZONE + NR_ZONE_PER_SECT
NR_THIRD_LEVEL_ZONE ==
  NR_SECOND_LEVEL_ZONE + NR_ZONE_PER_SECT * NR_ZONE_PER_SECT

ASSUME FsSectAssumption ==
  /\ {SECTOR_SIZE, NR_DIRECT_ZONE, NR_ZONE_PER_SECT, NrBits, NR_FILE_DESC}
       \subseteq Nat \ {0}
  /\ Lens \subseteq Nat /\ Careful \in BOOLEAN
  /\ IsFiniteSet(Files) /\ CmdTar \in Files
  \* config.h: cmd.tar is past the root directory, and fills the direct zones and
  \* the first block, and not the last block of the others
  /\ {TarStart, TarSize} \subseteq Nat
  /\ TarStart > NR_DIRECT_ZONE /\ TarStart + TarSize - 1 <= NrBits
  /\ TarSize \in NR_SECOND_LEVEL_ZONE + 1..NR_THIRD_LEVEL_ZONE
  /\ (TarSize - NR_SECOND_LEVEL_ZONE) % NR_ZONE_PER_SECT # 0

NO_ZONE == 0
SECOND_LEVEL_ZONE == NR_DIRECT_ZONE
THIRD_LEVEL_ZONE == NR_DIRECT_ZONE + 1
Sectors == 1..NrBits
RootSects == 1..NR_DIRECT_ZONE
Zones == {NO_ZONE} \cup Sectors
NoZones == [i \in 0..NR_ZONE_PER_SECT - 1 |-> NO_ZONE]

\* mkfs writes one sector of inodes: the others have what the disk had, of which
\* new_inode keeps the zones past the direct ones.
ASSUME OldZonesAssumption ==
  OldZones \in [Files -> [SECOND_LEVEL_ZONE..THIRD_LEVEL_ZONE -> Zones]]
BlankDisk == \A f \in Files : \A z \in SECOND_LEVEL_ZONE..THIRD_LEVEL_ZONE :
               OldZones[f][z] = NO_ZONE

\* A byte is known by the file and the position a program wrote it for.
Other == <<"other">>
Byte(f, p) == <<f, p>>
Garbage == [o \in 0..SECTOR_SIZE - 1 |-> Other]

VARIABLES
  smap,      \* the sectors whose bit is set
  disk,      \* the contents of the sectors: bytes, or zones
  dinode,    \* the inodes on the disk
  inode,     \* the inodes in inode_table, of the files that are open
  opened,    \* those files; each by one descriptor
  fd_pos,    \* the position of that descriptor
  written,   \* ghost: the positions of a file that have been written
  halted     \* a check of the code has failed

vars == <<smap, disk, dinode, inode, opened, fd_pos, written, halted>>

FreeInode == [zone |-> [z \in 0..THIRD_LEVEL_ZONE |-> NO_ZONE],
              nr_sects |-> 0, size |-> 0]
OldInode(f) ==
  [FreeInode EXCEPT !.zone = [z \in 0..THIRD_LEVEL_ZONE |->
                                IF z < NR_DIRECT_ZONE THEN NO_ZONE ELSE OldZones[f][z]]]
Exists(f) == dinode[f].nr_sects > 0

----------------------------------------------------------------------------
(* Allocation, from m to m: the map, the disk, the zones of the inode, the   *)
(* last sector taken, the block at hand, the block of blocks, and the next    *)
(* sector that a loop visits.                                              *)

Start(ino) ==
  [smap |-> smap, disk |-> disk, zone |-> ino.zone, sect |-> NO_ZONE,
   blk |-> NoZones, top |-> NoZones, next |-> 0, ok |-> TRUE]

Free(m) == Sectors \ m.smap

\* alloc_sect: the first free sector.  alloc_bit asserts that there is one.
AllocSectUnmarked(m) ==
  IF Free(m) = {} THEN [m EXCEPT !.ok = FALSE]
  ELSE [m EXCEPT !.sect = Min(Free(m))]
AllocSect(m) ==
  IF Free(m) = {} THEN [m EXCEPT !.ok = FALSE]
  ELSE [m EXCEPT !.sect = Min(Free(m)), !.smap = @ \cup {Min(Free(m))}]

\* A slot of the block at hand.
FillSlot(m, i) ==
  IF m.blk[i] # NO_ZONE THEN m
  ELSE LET a == AllocSect(m) IN [a EXCEPT !.blk[i] = a.sect]

\* The block that zone z of the inode names, allocated and cleared if it names none.
ZoneBlockCleared(m, z) ==
  IF m.zone[z] # NO_ZONE THEN [m EXCEPT !.blk = NoZones]
  ELSE LET a == AllocSect(m) IN [a EXCEPT !.zone[z] = a.sect, !.blk = NoZones]
ZoneBlock(m, z) ==
  IF m.zone[z] # NO_ZONE THEN [m EXCEPT !.blk = m.disk[m.zone[z]]]
  ELSE LET a == AllocSect(m) IN [a EXCEPT !.zone[z] = a.sect, !.blk = NoZones]

\* Slots first..last-1 of the block of the inode, and the block written back.
\* A loop is a function of its rounds.
AllocSecond(m, first, last) ==
  LET at[k \in 0..last - first] ==
        IF k = 0 THEN ZoneBlock(m, SECOND_LEVEL_ZONE) ELSE FillSlot(at[k - 1], first + k - 1)
      n == at[last - first]
  IN [n EXCEPT !.disk[n.zone[SECOND_LEVEL_ZONE]] = n.blk]

\* One round of the loop over the third level.  A block that is new is cleared
\* with the variable of the loop, which then goes on after the block's length.
ThirdRound(first, m, i) ==
  IF i < m.next THEN m
  ELSE LET q == i \div NR_ZONE_PER_SECT
           new == m.top[q] = NO_ZONE
           a == IF new THEN AllocSect(m) ELSE [m EXCEPT !.sect = m.top[q]]
           b == a.sect
           n == FillSlot([a EXCEPT !.top[q] = b,
                                   !.blk = IF new THEN NoZones ELSE a.disk[b]],
                         i % NR_ZONE_PER_SECT)
       IN [n EXCEPT !.disk[b] = n.blk,
                    !.next = IF new THEN first + NR_ZONE_PER_SECT + 1 ELSE i + 1]

AllocThird(m, first, last) ==
  LET a == ZoneBlock(m, THIRD_LEVEL_ZONE)
      at[k \in 0..last - first] ==
        IF k = 0 THEN [a EXCEPT !.top = a.blk] ELSE ThirdRound(first, at[k - 1], first + k - 1)
      n == at[last - first]
  IN [n EXCEPT !.disk[n.zone[THIRD_LEVEL_ZONE]] = n.top]

\* alloc_zone, for the sectors start..end-1 of a file.  A file has its direct
\* zones from the start (TypeOK), so that the loop over them never runs.
AllocZone(m, start, end) ==
  LET S == NR_SECOND_LEVEL_ZONE
      n == IF start >= S THEN m
           ELSE AllocSecond(m, start - NR_DIRECT_ZONE, Min({end, S}) - NR_DIRECT_ZONE)
  IN IF end <= S THEN n
     ELSE IF end > NR_THIRD_LEVEL_ZONE THEN [n EXCEPT !.ok = FALSE]
     ELSE AllocThird(n, Max({start, S}) - S, end - S)

\* The sector that holds sector n of the file.
Sector(m, n) ==
  LET i == n - NR_SECOND_LEVEL_ZONE
  IN IF n < NR_DIRECT_ZONE THEN m.zone[n]
     ELSE IF n < NR_SECOND_LEVEL_ZONE
     THEN m.disk[m.zone[SECOND_LEVEL_ZONE]][n - NR_DIRECT_ZONE]
     ELSE m.disk[m.disk[m.zone[THIRD_LEVEL_ZONE]][i \div NR_ZONE_PER_SECT]]
                [i % NR_ZONE_PER_SECT]

----------------------------------------------------------------------------
(* rdwt_zones                                                              *)

\* The sectors it transfers: whole ones, from the one pos is in.
FirstSect(pos) == pos \div SECTOR_SIZE
NrSects(pos, len) ==
  len \div SECTOR_SIZE + IF (pos + len) % SECTOR_SIZE > 0 THEN 1 ELSE 0
EndSect(pos, len) == FirstSect(pos) + NrSects(pos, len)

\* What the k-th sector of the buffer holds: past its end, what else is there.
Buffer(f, pos, len, k) ==
  [o \in 0..SECTOR_SIZE - 1 |->
     LET b == k * SECTOR_SIZE + o IN IF b < len THEN Byte(f, pos + b) ELSE Other]

WriteSect(f, pos, len, m, k) ==
  [m EXCEPT !.disk[Sector(m, FirstSect(pos) + k)] = Buffer(f, pos, len, k)]

Written(f, pos, len) ==
  LET ino == inode[f]
      end == EndSect(pos, len)
      m == IF end > ino.nr_sects THEN AllocZone(Start(ino), ino.nr_sects, end)
           ELSE Start(ino)
      at[k \in 0..NrSects(pos, len)] ==
        IF k = 0 THEN m ELSE WriteSect(f, pos, len, at[k - 1], k - 1)
  IN IF m.ok THEN at[NrSects(pos, len)] ELSE m

\* A read ends at the end of the file.
Readable(f, pos, len) ==
  IF pos > inode[f].size THEN 0 ELSE Min({len, inode[f].size - pos})

\* The byte a read from pos leaves at place b of its buffer; Other is none.
BufferByte(f, pos, len, b) ==
  LET k == b \div SECTOR_SIZE
  IN IF k < NrSects(pos, len)
     THEN disk[Sector(Start(inode[f]), FirstSect(pos) + k)][b % SECTOR_SIZE]
     ELSE Other

----------------------------------------------------------------------------
(* The requests                                                            *)

Halt(where) ==
  /\ halted' = where
  /\ UNCHANGED <<smap, disk, dinode, inode, opened, fd_pos, written>>

NoFreeDescriptor == Cardinality(opened) = NR_FILE_DESC

\* What do_open does with the inode it has found or made.
Connect(f, ino, trunc) ==
  LET i == IF trunc THEN [ino EXCEPT !.size = 0] ELSE ino
  IN /\ inode' = [inode EXCEPT ![f] = i]
     /\ dinode' = [dinode EXCEPT ![f] = i]
     /\ opened' = opened \cup {f}
     /\ fd_pos' = [fd_pos EXCEPT ![f] = 0]
     /\ written' = IF trunc THEN [written EXCEPT ![f] = {}] ELSE written
     /\ UNCHANGED <<disk, halted>>

Open(f, trunc) ==
  /\ Exists(f) /\ f \notin opened
  /\ Careful /\ f = CmdTar => ~trunc
  /\ IF NoFreeDescriptor THEN Halt("do_open")
     ELSE Connect(f, dinode[f], trunc) /\ UNCHANGED smap

\* create_file: alloc_smap_bit takes the first free sector and asserts that the
\* next ones are free; new_inode leaves the other zones as they are on the disk.
Create(f, trunc) ==
  /\ ~Exists(f) /\ f # CmdTar
  /\ LET first == Min(Sectors \ smap)
         run == first..first + NR_DIRECT_ZONE - 1
     IN IF NoFreeDescriptor THEN Halt("do_open")
        ELSE IF smap = Sectors \/ ~(run \subseteq Sectors \ smap)
        THEN Halt("alloc_smap_bit")
        ELSE /\ smap' = smap \cup run
             /\ Connect(f, [zone |-> [z \in 0..THIRD_LEVEL_ZONE |->
                                        IF z < NR_DIRECT_ZONE THEN first + z
                                        ELSE dinode[f].zone[z]],
                            nr_sects |-> NR_DIRECT_ZONE,
                            size |-> NR_DIRECT_ZONE * SECTOR_SIZE], trunc)

Close(f) ==
  /\ f \in opened
  /\ opened' = opened \ {f}
  /\ inode' = [inode EXCEPT ![f] = FreeInode]
  /\ fd_pos' = [fd_pos EXCEPT ![f] = 0]
  /\ UNCHANGED <<smap, disk, dinode, written, halted>>

Lseek(f, pos) ==
  /\ f \in opened /\ pos \in 0..inode[f].size
  /\ Careful => pos % SECTOR_SIZE = 0
  /\ fd_pos' = [fd_pos EXCEPT ![f] = pos]
  /\ UNCHANGED <<smap, disk, dinode, inode, opened, written, halted>>

\* Where the reads and writes of a careful program end.
AtEnd(f, pos) == pos % SECTOR_SIZE = 0 \/ pos >= inode[f].size

Read(f, len) ==
  /\ f \in opened
  /\ LET pos == fd_pos[f]
         n == Readable(f, pos, len)
     IN /\ Careful => AtEnd(f, pos + n)
        /\ IF EndSect(pos, n) > inode[f].nr_sects THEN Halt("rdwt_zones")
           ELSE /\ fd_pos' = [fd_pos EXCEPT ![f] = pos + n]
                /\ UNCHANGED <<smap, disk, dinode, inode, opened, written, halted>>

\* The programs of a careful system leave cmd.tar as it is; seek to, read and write
\* from starts of sectors, to the end of one or of the file; and grow the third
\* level by a sector at a time, since ThirdRound skips the others.
Fits(f, pos, len) ==
  LET end == EndSect(pos, len)
  IN /\ f # CmdTar
     /\ pos % SECTOR_SIZE = 0
     /\ AtEnd(f, pos + len)
     /\ end > Max({inode[f].nr_sects, NR_SECOND_LEVEL_ZONE}) =>
          end = inode[f].nr_sects + 1

\* do_rdwt: the inode is written back when the file has become longer.
WriteWith(f, len, sync) ==
  /\ f \in opened
  /\ Careful => Fits(f, fd_pos[f], len)
  /\ LET pos == fd_pos[f]
         m == Written(f, pos, len)
     IN IF ~m.ok THEN Halt("alloc_zone")
        ELSE /\ smap' = m.smap /\ disk' = m.disk
             /\ inode' = [inode EXCEPT
                  ![f] = [zone |-> m.zone,
                          nr_sects |-> Max({@.nr_sects, EndSect(pos, len)}),
                          size |-> Max({@.size, pos + len})]]
             /\ dinode' = IF sync THEN [dinode EXCEPT ![f] = inode'[f]] ELSE dinode
             /\ fd_pos' = [fd_pos EXCEPT ![f] = pos + len]
             /\ written' = [written EXCEPT ![f] = @ \cup pos..pos + len - 1]
             /\ UNCHANGED <<opened, halted>>

WriteComparesFirst(f, len) == WriteWith(f, len, fd_pos[f] > inode[f].size)
Write(f, len) == WriteWith(f, len, fd_pos[f] + len > inode[f].size)

\* do_unlink clears as many bits as the file has sectors, from its first one.
Unlink(f) ==
  /\ Exists(f) /\ f \notin opened
  /\ Careful => dinode[f].nr_sects = NR_DIRECT_ZONE
  /\ LET first == dinode[f].zone[0]
         run == first..first + dinode[f].nr_sects - 1
     IN IF ~(run \subseteq smap) THEN Halt("do_unlink")
        ELSE /\ smap' = smap \ run
             /\ dinode' = [dinode EXCEPT ![f] = FreeInode]
             /\ written' = [written EXCEPT ![f] = {}]
             /\ UNCHANGED <<disk, inode, opened, fd_pos, halted>>

----------------------------------------------------------------------------
(* mkfs                                                                    *)

TarSects == TarStart..TarStart + TarSize - 1

\* A block with the numbers of n sectors from s on, as far as they fit.
Entered(s, n) == [i \in 0..NR_ZONE_PER_SECT - 1 |-> IF i < n THEN s + i ELSE NO_ZONE]

\* One block of the third level, for sectors q * NR_ZONE_PER_SECT on of the left ones.
TarRound(left, m, q) ==
  LET i == q * NR_ZONE_PER_SECT
      a == FillSlot(m, q)
  IN [a EXCEPT !.disk[a.blk[q]] = Entered(TarStart + NR_SECOND_LEVEL_ZONE + i, left - i)]

\* alloc_zone_for_cmd_tar: cmd.tar's sectors are entered in the zones, for
\* which it takes blocks.
TarZone(m) ==
  LET Z == NR_ZONE_PER_SECT
      left == TarSize - NR_SECOND_LEVEL_ZONE
      blocks == (left + Z - 1) \div Z
      second == ZoneBlock([m EXCEPT !.zone = [z \in 0..THIRD_LEVEL_ZONE |->
                    IF z < NR_DIRECT_ZONE THEN TarStart + z ELSE NO_ZONE]],
                  SECOND_LEVEL_ZONE)
      third == ZoneBlock([second EXCEPT
                 !.disk[second.zone[SECOND_LEVEL_ZONE]]
                    = Entered(TarStart + NR_DIRECT_ZONE, Z)], THIRD_LEVEL_ZONE)
      at[q \in 0..blocks] == IF q = 0 THEN third ELSE TarRound(left, at[q - 1], q - 1)
      n == at[blocks]
  IN [n EXCEPT !.disk[n.zone[THIRD_LEVEL_ZONE]] = n.blk]

\* The image has cmd.tar's bytes in its sectors.
Mkfs ==
  TarZone([smap |-> RootSects \cup TarSects,
           disk |-> [s \in Zones |->
             IF s \in TarSects
             THEN [o \in 0..SECTOR_SIZE - 1 |->
                     Byte(CmdTar, (s - TarStart) * SECTOR_SIZE + o)]
             ELSE Garbage],
           zone |-> FreeInode.zone, sect |-> NO_ZONE, blk |-> NoZones,
           top |-> NoZones, next |-> 0, ok |-> TRUE])

\* alloc_bit's assertion held: else the machine has stopped.
Init ==
  /\ Mkfs.ok /\ smap = Mkfs.smap /\ disk = Mkfs.disk
  /\ dinode = [f \in Files |->
       IF f = CmdTar
       THEN [zone |-> Mkfs.zone, nr_sects |-> TarSize,
             size |-> TarSize * SECTOR_SIZE]
       ELSE OldInode(f)]
  /\ inode = [f \in Files |-> FreeInode]
  /\ opened = {} /\ fd_pos = [f \in Files |-> 0]
  /\ written = [f \in Files |->
       IF f = CmdTar THEN 0..TarSize * SECTOR_SIZE - 1 ELSE {}]
  /\ halted = "no"

Next ==
  /\ halted = "no"
  /\ \E f \in Files :
       \/ \E trunc \in BOOLEAN : Open(f, trunc) \/ Create(f, trunc)
       \/ Close(f) \/ Unlink(f)
       \/ \E pos \in 0..inode[f].size : Lseek(f, pos)
       \/ \E len \in Lens : Read(f, len) \/ Write(f, len)

Spec == Init /\ [][Next]_vars

----------------------------------------------------------------------------
(* Properties                                                              *)

\* The current inode of a file.
Inode(f) == IF f \in opened THEN inode[f] ELSE dinode[f]

\* A file has its direct zones from the start, and room for its bytes.
TypeOK ==
  /\ smap \subseteq Sectors /\ opened \subseteq Files
  /\ DOMAIN disk = Zones
  /\ \A f \in Files :
       /\ Inode(f).zone \in [0..THIRD_LEVEL_ZONE -> Zones]
       /\ Inode(f).nr_sects \in {0} \cup NR_DIRECT_ZONE..NR_THIRD_LEVEL_ZONE
       /\ Inode(f).size <= Inode(f).nr_sects * SECTOR_SIZE
       /\ written[f] \subseteq 0..Inode(f).size - 1

\* The blocks of zones of a file, and the sectors of its bytes.
Blocks(f) ==
  LET ino == Inode(f)
      Z == NR_ZONE_PER_SECT
      left == ino.nr_sects - NR_SECOND_LEVEL_ZONE
  IN IF ino.nr_sects <= NR_DIRECT_ZONE THEN {}
     ELSE {ino.zone[SECOND_LEVEL_ZONE]} \cup
          IF ino.nr_sects <= NR_SECOND_LEVEL_ZONE THEN {}
          ELSE {ino.zone[THIRD_LEVEL_ZONE]} \cup
               {disk[ino.zone[THIRD_LEVEL_ZONE]][q] : q \in 0..(left - 1) \div Z}
NrBlocks(f) ==
  LET n == Inode(f).nr_sects
      left == n - NR_SECOND_LEVEL_ZONE
  IN IF n <= NR_DIRECT_ZONE THEN 0
     ELSE IF n <= NR_SECOND_LEVEL_ZONE THEN 1
     ELSE 2 + (left + NR_ZONE_PER_SECT - 1) \div NR_ZONE_PER_SECT
Owned(f) ==
  LET m == Start(Inode(f))
  IN Blocks(f) \cup {Sector(m, n) : n \in 0..Inode(f).nr_sects - 1}

\* read_write.c:246: "the sectors for the file have been allocated and the bits
\* are set".  The map has the root directory's sectors and those of the files, and
\* as many as the files have places, for bytes or for zones: alloc_sect gives a
\* sector to one place of one file, and do_unlink gives back what a file had.
SectorsHaveOneOwner ==
  /\ TypeOK
  /\ smap = RootSects \cup UNION {Owned(f) : f \in Files}
  /\ Cardinality(smap) =
       NR_DIRECT_ZONE + MapThenSumSet(LAMBDA f : Inode(f).nr_sects + NrBlocks(f), Files)

\* main.c:572: sync_inode is "commonly invoked as soon as the inode is changed":
\* closing a file loses nothing.
InodeIsSynced == \A f \in opened : dinode[f] = inode[f]

\* lib/write.c:36: "the number of bytes written are returned".  Whatever a
\* program reads from the start of a sector is what was written there.
ReadsBack ==
  \A f \in opened :
    \A k \in 0..inode[f].size \div SECTOR_SIZE, len \in Lens :
      LET pos == k * SECTOR_SIZE
          n == Readable(f, pos, len)
      IN \A b \in 0..n - 1 :
           pos + b \in written[f] => BufferByte(f, pos, n, b) = Byte(f, pos + b)
=============================================================================
