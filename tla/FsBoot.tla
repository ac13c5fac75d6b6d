------------------------------- MODULE FsBoot -------------------------------
(***************************************************************************)
(* TASK FS and the disk: init_fs opens the device, looks for a super block,    *)
(* and makes a file system when there is none (mkfs, fs/main.c); after that,  *)
(* FS reads and writes sectors.  The power may fail at any step: the sectors   *)
(* on the disk stay, everything else starts anew.  A sector is the set of    *)
(* what is in it.                                                          *)
(***************************************************************************)
EXTENDS HdDriver

CONSTANTS
  ROOT_DEV,     \* the minor number of the root device
  Files,        \* what FS asks after init_fs: requests
  MaxFiles,     \* bound: how often
  MaxCrashes    \* bound: power failures

\* rw_sector asks for whole sectors, at least one, of a device that is there, and
\* for no more than the buffer of FS holds.
ASSUME BootAssumption ==
  /\ MaxFiles \in Nat /\ MaxCrashes \in Nat
  /\ IsDevice(ROOT_DEV) /\ 0 \in Slots
  /\ \A r \in Files : /\ r.type \in {"DEV_OPEN", "DEV_IOCTL", "DEV_READ", "DEV_WRITE"}
                      /\ r.type \in {"DEV_READ", "DEV_WRITE"} => r.cnt # 0
                      /\ IsDevice(r.dev) /\ r.pos \in Nat
                      /\ r.cnt \in Nat /\ 0 .. r.cnt - 1 \subseteq Slots

VARIABLES
  stage,      \* of init_fs: probe, format, mkfs, load, root; or up
  todo,       \* the requests left of the stage or the call, and what is written
  super_block, \* the slot of the root device: what the sector held, or nothing
  asked,      \* requests after init_fs so far
  crashes,    \* power failures so far
  torn        \* ghost: the power failed in mkfs, after it had written the super block

bootVars == <<stage, todo, super_block, asked, crashes, torn>>

----------------------------------------------------------------------------
(* The sectors of a file system of one sector-map sector: boot, super block, *)
(* maps, inodes, root directory, and the sector of cmd.tar's zones.          *)

SUPER == 1
IMAP == 2
SMAP == 3
INODES == 4
ROOT == 5
ZONES == 6

Rd(pos) == [type |-> "DEV_READ", dev |-> ROOT_DEV, pos |-> pos, cnt |-> 1, data |-> {}]
Wr(pos, v) == [type |-> "DEV_WRITE", dev |-> ROOT_DEV, pos |-> pos, cnt |-> 1, data |-> v]
Op(type) == [type |-> type, dev |-> ROOT_DEV, pos |-> 0, cnt |-> 0, data |-> {}]

Super == {<<"super">>}

\* mkfs writes the super block, and reads it back into super_block.
Format == <<Op("DEV_IOCTL"), Wr(SUPER, Super), Rd(SUPER)>>

\* cmd.tar is entered in the sector map after the rest of the map is written, and a
\* sector is allocated for its zones; the directory starts with size 0 here.
Mkfs == <<Wr(IMAP, {<<"imap">>}), Wr(SMAP, {<<"smap">>}),
          Rd(SMAP), Wr(SMAP, {<<"smap">>, <<"tar">>}),
          Rd(SMAP), Wr(SMAP, {<<"smap">>, <<"tar">>, <<"zones">>}),
          Rd(ZONES), Wr(ZONES, {<<"zones">>}),
          Wr(INODES, {<<"inodes">>, <<"dir", 0>>}), Wr(ROOT, {<<"root">>})>>

\* What a file system has on the disk at least.
Whole == [s \in {SUPER, IMAP, SMAP, INODES, ROOT, ZONES} |->
            CASE s = SUPER -> Super [] s = IMAP -> {<<"imap">>} [] s = INODES -> {<<"inodes">>}
              [] s = SMAP -> {<<"smap">>, <<"tar">>, <<"zones">>}
              [] s = ROOT -> {<<"root">>} [] OTHER -> {<<"zones">>}]
OnRoot(s) == disk[Where(ROOT_DEV) + s]

----------------------------------------------------------------------------
(* init_fs                                                                  *)

\* rw_sector, with what is to be written in the buffer.
RwSector(r) ==
  Submit([type |-> r.type, dev |-> r.dev, pos |-> r.pos, cnt |-> r.cnt],
         IF r.type = "DEV_WRITE" THEN [i \in Slots |-> IF i < r.cnt THEN r.data ELSE buf[i]]
         ELSE buf)

\* The next request of the stage.
Ask ==
  /\ todo # <<>>
  /\ RwSector(Head(todo))
  /\ todo' = Tail(todo)
  /\ UNCHANGED <<stage, super_block, asked, crashes, torn>>

Answered == req = NoReq /\ todo = <<>>
Go(s, requests) == stage' = s /\ todo' = requests

\* The super block on the disk decides whether there is a file system.
ProbeAnswered ==
  /\ Answered /\ stage = "probe"
  /\ IF buf[0] # Super THEN Go("format", Format) ELSE Go("load", <<Rd(SUPER)>>)
  /\ UNCHANGED <<hdSysVars, super_block, asked, crashes, torn>>

\* read_super_block, in mkfs and for a file system that is there.
ReadSuperBlock ==
  /\ Answered /\ stage \in {"format", "load"}
  /\ super_block' = buf[0]
  /\ IF stage = "format" THEN Go("mkfs", Mkfs) ELSE Go("root", <<Rd(INODES)>>)
  /\ UNCHANGED <<hdSysVars, asked, crashes, torn>>

\* get_inode of the root directory, and init_fs returns.
MkfsAnswered ==
  /\ Answered /\ stage = "mkfs"
  /\ Go("root", <<Rd(INODES)>>)
  /\ UNCHANGED <<hdSysVars, super_block, asked, crashes, torn>>
RootAnswered ==
  /\ Answered /\ stage = "root"
  /\ Go("up", <<>>)
  /\ UNCHANGED <<hdSysVars, super_block, asked, crashes, torn>>

InitFs == Ask \/ ProbeAnswered \/ ReadSuperBlock \/ MkfsAnswered \/ RootAnswered

\* Reads and writes of programs.
File(r) ==
  /\ stage = "up" /\ asked < MaxFiles
  /\ RwSector(r)
  /\ asked' = asked + 1
  /\ UNCHANGED <<stage, todo, super_block, crashes, torn>>

----------------------------------------------------------------------------
(* Power                                                                    *)

Probe == <<Op("DEV_OPEN"), Rd(SUPER)>>

PowerFails ==
  /\ crashes < MaxCrashes /\ crashes' = crashes + 1
  /\ req' = NoReq /\ geo' = Unknown
  /\ pc' = "recv" /\ mask' = "BSY" /\ waited' = 0
  /\ job' = NoJob /\ walk' = NoWalk /\ hd_info' = NoInfo
  /\ irq' = FALSE /\ has_int' = FALSE /\ drive' = IdleDrive
  /\ UNCHANGED <<buf, disk, asked>>
  /\ stage' = "probe" /\ todo' = Probe /\ super_block' = {}
  /\ torn' = (torn \/ (stage \in {"format", "mkfs"} /\ OnRoot(SUPER) = Super))

BootInit ==
  /\ HdInit
  /\ buf = [i \in Slots |-> {}]
  /\ stage = "probe" /\ todo = Probe /\ super_block = {}
  /\ asked = 0 /\ crashes = 0 /\ torn = FALSE

----------------------------------------------------------------------------
\* Properties

\* After init_fs the root device holds a whole file system, across power
\* failures, except one after mkfs has written the super block, which it writes first:
\* the next boot takes what is there for a file system.
InitLeavesAFileSystem ==
  stage = "up" /\ ~torn => \A s \in DOMAIN Whole : Whole[s] \subseteq OnRoot(s)

\* Whoever asks get_super_block finds the right one: it panics at none, and init_fs
\* asserts the magic number (fs/main.c:189, 485).
SuperBlockLoaded == stage \in {"mkfs", "root", "up"} => super_block = Super

\* Every request is for a device that is there, and what it moves fits in the buffer.
RequestsFit ==
  req # NoReq =>
    /\ req.type \in {"DEV_OPEN", "DEV_IOCTL", "DEV_READ", "DEV_WRITE"}
    /\ IsDevice(req.dev) /\ req.pos \in Nat
    /\ req.cnt \in Nat /\ 0 .. req.cnt - 1 \subseteq Slots

\* What FS asks and what it starts from is where the disk has it: the partitions, the
\* super block, and a whole file system on the root device.
DiskIsFound == RequestsFit /\ PartitionsFound /\ SuperBlockLoaded /\ InitLeavesAFileSystem

\* The driver does what module Disk says: every sector of a request is
\* transferred once, from and to the place the partition table gives it, before
\* the answer.
D == INSTANCE Disk WITH req <- Wish, done <- Done, boots <- crashes
ImplementsDisk == D!Spec
=============================================================================
