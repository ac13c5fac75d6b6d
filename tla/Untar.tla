------------------------------- MODULE Untar -------------------------------
(***************************************************************************)
(* INIT unpacks cmd.tar into the root directory at its first boot (untar,      *)
(* kernel/main.c): it is the only process that asks FS then, and each of its  *)
(* calls is the sectors FS writes for it, on the driver and the drive of      *)
(* FsBoot.  When the last file is written, the first sector of cmd.tar is     *)
(* cleared, so that the next boot does not unpack it again; when the power    *)
(* fails before, it starts over on what is there.  Reads of a sector that is *)
(* then written back are left out: FS alone writes.                         *)
(***************************************************************************)
EXTENDS FsBoot

CONSTANTS
  Tar,              \* the files of cmd.tar: their names, in order
  NR_DIRECT_ZONE    \* the sectors of a new file; one is used

ASSUME UntarAssumption == NR_DIRECT_ZONE \in Nat \ {0}

VARIABLES
  init,       \* where INIT is: at, files so far, position in cmd.tar, inode of fdout
  slipped     \* ghost: the power failed between a directory entry and the size

untarVars == <<init, slipped>>
vars == <<hdSysVars, bootVars, untarVars>>

----------------------------------------------------------------------------
(* The file system on the root device                                       *)

\* cmd.tar holds, for each file, a header and a sector of data, and then zeros; the
\* new files get the sectors before it.
TAR == ZONES + 1 + 2 * Len(Tar) * NR_DIRECT_ZONE
TarSector(k) ==
  IF k > 2 * Len(Tar) THEN {}
  ELSE {<<IF k % 2 = 1 THEN "header" ELSE "data", Tar[(k + 1) \div 2]>>}

\* The root device is on the disk and holds cmd.tar; there is room for its files and for
\* what the power failures lose; what programs write is past it.
ASSUME RootAssumption ==
  /\ Tar \in Seq({Tar[i] : i \in DOMAIN Tar})
  /\ MaxCrashes <= Len(Tar)
  /\ Where(ROOT_DEV) + TAR + 2 * Len(Tar) < DiskSize
  /\ \A r \in Files : r.type = "DEV_WRITE" =>
       \A i \in 0 .. r.cnt - 1 :
         Where(r.dev) + r.pos + i \notin Where(ROOT_DEV) .. Where(ROOT_DEV) + TAR + 2 * Len(Tar)

Taken(map, kind) == {x[2] : x \in {y \in OnRoot(map) : y[1] = kind}}

\* alloc_imap_bit and alloc_smap_bit: the first that is free.
FreeInode == Min((1 .. TAR) \ Taken(IMAP, "ino"))
FreeSect == Min({z \in ZONES + 1 .. TAR - 1 : (z - ZONES - 1) % NR_DIRECT_ZONE = 0}
                  \ Taken(SMAP, "sect"))

\* sync_inode: an inode in its sector, and the size of the directory in its.
SyncInode(inodes, n, zone, size) ==
  {x \in inodes : x[1] # "inode" \/ x[2] # n} \cup {<<"inode", n, zone, size>>}
SyncDir(inodes, size) == {x \in inodes : x[1] # "dir"} \cup {<<"dir", size>>}

DirSize == CHOOSE k \in 0 .. 2 * Len(Tar) : <<"dir", k>> \in OnRoot(INODES)
Inode(n) == CHOOSE x \in OnRoot(INODES) : x[1] = "inode" /\ x[2] = n
Entries == {x \in OnRoot(ROOT) : x[1] = "entry"}

\* find_entry compares a name before it counts the entry, so that it sees one entry
\* beyond the size.
Found(name) == {e \in Entries : e[2] <= DirSize + 1 /\ e[3] = name}

\* create_file, and O_TRUNC: maps, inode, directory block, directory, inode.
CreateFile(name) ==
  LET n == FreeInode
      z == FreeSect
      new == SyncInode(OnRoot(INODES), n, z, NR_DIRECT_ZONE)
      dir == SyncDir(new, DirSize + 1)
  IN <<Wr(IMAP, OnRoot(IMAP) \cup {<<"ino", n>>}),
       Wr(SMAP, OnRoot(SMAP) \cup {<<"sect", z>>}),
       Wr(INODES, new),
       Wr(ROOT, {x \in OnRoot(ROOT) : x[1] # "entry" \/ x[2] # DirSize + 1}
                  \cup {<<"entry", DirSize + 1, name, n>>}),
       Wr(INODES, dir),
       Wr(INODES, SyncInode(dir, n, z, 0))>>

\* do_open with O_CREAT | O_RDWR | O_TRUNC.
OpenOut(name) ==
  <<Rd(ROOT)>> \o
  (IF Found(name) = {} THEN CreateFile(name)
   ELSE LET n == (CHOOSE e \in Found(name) : TRUE)[4]
        IN <<Wr(INODES, SyncInode(OnRoot(INODES), n, Inode(n)[3], 0))>>)

----------------------------------------------------------------------------
(* untar                                                                    *)

\* INIT goes on when FS has answered its call.
Returned(at) == stage = "up" /\ Answered /\ init.at = at
Call(requests, to) ==
  /\ todo' = requests /\ init' = to
  /\ UNCHANGED <<hdSysVars, stage, super_block, asked, crashes, torn, slipped>>

\* INIT asserts that the files it opens are there.
OpenTar ==
  /\ Returned("open")
  /\ Call(<<Rd(ROOT), Rd(INODES)>>,
          [init EXCEPT !.at = IF <<"root">> \in OnRoot(ROOT) THEN "next" ELSE "assert"])

ReadHeader ==
  /\ Returned("next")
  /\ Call(<<Rd(TAR + init.pos)>>, [init EXCEPT !.at = "header", !.pos = @ + 1])

\* A sector that begins with 0 ends the archive.
Extract ==
  /\ Returned("header") /\ buf[0] # {}
  /\ LET name == (CHOOSE x \in buf[0] : TRUE)[2]
         n == IF Found(name) = {} THEN FreeInode ELSE (CHOOSE e \in Found(name) : TRUE)[4]
     IN Call(OpenOut(name), [init EXCEPT !.at = "read", !.nr = @ + 1, !.ino = n])

ReadData ==
  /\ Returned("read")
  /\ Call(<<Rd(TAR + init.pos)>>, [init EXCEPT !.at = "write", !.pos = @ + 1])

\* The data, and the inode when the file has grown.
WriteDataMarks ==
  /\ Returned("write")
  /\ LET x == Inode(init.ino)
     IN Call(<<Wr(x[3], buf[0])>>
               \o (IF x[4] < 1 THEN <<Wr(INODES, SyncInode(OnRoot(INODES), x[2], x[3], 1))>>
                   ELSE <<>>)
               \o <<Wr(TAR, {})>>,
             [init EXCEPT !.at = "next"])
WriteData ==
  /\ Returned("write")
  /\ LET x == Inode(init.ino)
     IN Call(<<Wr(x[3], buf[0])>>
               \o (IF x[4] < 1 THEN <<Wr(INODES, SyncInode(OnRoot(INODES), x[2], x[3], 1))>>
                   ELSE <<>>),
             [init EXCEPT !.at = "next"])

\* After files were unpacked, the first byte of cmd.tar is cleared.
Finish ==
  /\ Returned("header") /\ buf[0] = {}
  /\ Call(IF init.nr > 0 THEN <<Wr(TAR, {})>> ELSE <<>>, [init EXCEPT !.at = "run"])

UntarStep == OpenTar \/ ReadHeader \/ Extract \/ ReadData \/ WriteData \/ Finish

----------------------------------------------------------------------------
AtStart == [at |-> "open", nr |-> 0, pos |-> 0, ino |-> 0]

\* The installer has written cmd.tar to its place on the disk.
Init ==
  /\ BootInit
  /\ disk = [s \in Sectors |->
               IF s - Where(ROOT_DEV) \in TAR .. TAR + 2 * Len(Tar)
               THEN TarSector(s - Where(ROOT_DEV) - TAR + 1) ELSE {<<"old">>}]
  /\ init = AtStart /\ slipped = FALSE

PowerOff ==
  /\ PowerFails
  /\ init' = AtStart
  /\ slipped' = (slipped \/ (init.at = "read" /\ \E e \in Entries : e[2] > DirSize))

Next ==
  \/ HdNext /\ UNCHANGED <<bootVars, untarVars>>
  \/ InitFs /\ UNCHANGED untarVars
  \/ UntarStep
  \/ init.at = "run" /\ Answered /\ \E r \in Files : File(r) /\ UNCHANGED untarVars
  \/ PowerOff

\* The kernel runs HD, FS and INIT on, and the drive does what it is told.
Fairness ==
  /\ WF_vars(Hd /\ UNCHANGED <<bootVars, untarVars>>)
  /\ WF_vars(HdHandler /\ UNCHANGED <<bootVars, untarVars>>)
  /\ WF_vars(DriveReady /\ UNCHANGED <<bootVars, untarVars>>)
  /\ WF_vars(InitFs /\ UNCHANGED untarVars) /\ WF_vars(UntarStep)

Spec == Init /\ [][Next]_vars /\ Fairness

----------------------------------------------------------------------------
\* Properties

\* The file name is in the directory, with the data that cmd.tar has for it.
Unpacked(name) ==
  \E e \in Entries :
    /\ e[2] <= DirSize /\ e[3] = name
    /\ Inode(e[4])[4] = 1
    /\ OnRoot(Inode(e[4])[3]) = {<<"data", name>>}

\* When the system runs, every file of cmd.tar is there with its data, wherever the
\* power failed while INIT unpacked it, and as often: a file that is there in part
\* is cut and written again.  Except where the power failed between an entry
\* and the size of the directory: the next boot finds that entry, one beyond the
\* size, and then writes the next file's over it.
UnpackedIsWhole ==
  /\ init.at = "run" /\ ~torn /\ ~slipped => \A i \in DOMAIN Tar : Unpacked(Tar[i])
  /\ init.at = "assert" => torn

\* FS comes up and INIT comes to its shells, and every request is answered, unless
\* waitfor gave up or half a file system is on the disk.
FsComesUp ==
  /\ init.at # "run" ~> init.at = "run" \/ pc = "panic" \/ torn
  /\ RequestsAnswered
=============================================================================
