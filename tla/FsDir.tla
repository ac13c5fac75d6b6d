------------------------------- MODULE FsDir -------------------------------
(***************************************************************************)
(* Names, inodes and descriptors of TASK FS: OPEN, CLOSE, MKDIR, UNLINK,     *)
(* CHDIR, STAT, and the FORK, EXIT and CHDIR that TASK MM sends (fs/open.c,  *)
(* fs/link.c, fs/fs_stat.c, fs/misc.c, get_inode and put_inode of fs/main.c). *)
(*                                                                         *)
(* FS serves one request at a time and no other task writes its tables, so   *)
(* that a request is one step.  A path is the sequence of its components,    *)
(* after "/" when it is absolute; the name in an entry is a path too, since  *)
(* do_mkdir stores what it was given.  Every change of an inode is synced,   *)
(* and inode stands for inode_table and the disk; the zones of the inode n   *)
(* are the n-th chunk of 8 sectors, because the first free bits of both maps *)
(* are taken together and freed together while no file grows.              *)
(*                                                                         *)
(* Bounds.  The inode map does not fill up; the contents of files, which     *)
(* stay in a chunk that becomes a directory, do not look like entries; no    *)
(* process makes a file its directory, truncates a directory, or removes one *)
(* that is the ".." of another: do_chdir, do_open and do_unlink would let it. *)
(* The size of a file is not modelled, and so neither is truncating it.      *)
(***************************************************************************)
EXTENDS Naturals, Sequences, FiniteSetsExt

CONSTANTS
  User,         \* the entries of proc_table for user processes, INIT among them
  FS, MM,       \* the two tasks FS keeps a directory or descriptors for
  MaxIno,       \* inodes on the disk, numbered from 1
  NR_CONSOLES,  \* the terminals, whose inodes follow the root's
  MaxEnt, BlockEnt,          \* entries of a chunk, and of a sector of it
  NR_FILES, NR_FILE_DESC, NR_INODE,   \* sizes of filp, f_desc_table, inode_table
  NewDirs, Programs,   \* the paths given to mkdir and to exec
  Paths, Flags  \* those given to open, unlink and chdir, and the flags of open

INIT == 5      \* the process INIT's entry of proc_table
ROOT_INODE == 1
Ino     == 1..MaxIno
Desc    == 1..NR_FILE_DESC
Special == ROOT_INODE + 1 .. ROOT_INODE + NR_CONSOLES
TtyName == <<"dev_tty0", "dev_tty1", "dev_tty2">>

ASSUME FsDirAssumption ==
  /\ User \subseteq Nat /\ IsFiniteSet(User) /\ INIT \in User /\ {FS, MM} \cap User = {} /\ FS # MM
  /\ NR_CONSOLES \in 0..3 /\ MaxIno \in Nat /\ MaxIno > NR_CONSOLES
  /\ MaxEnt \in Nat /\ MaxEnt > MaxIno + 1 /\ BlockEnt \in Nat \ {0}
  /\ {NR_FILES, NR_FILE_DESC, NR_INODE} \subseteq Nat \ {0}
  /\ Flags \subseteq SUBSET {"CREAT", "RDWR", "TRUNC"}
  /\ NewDirs \cup Programs \cup Paths \subseteq Seq(STRING)

VARIABLES
  imap,      \* the inodes the inode map has allocated
  inode,     \* of each inode its type, its size in entries, and its chunk
  i_cnt,     \* the references FS counts to each inode; 0 is not in the table
  f_desc,    \* f_desc_table
  filp,      \* the descriptors each process has open
  pwd,       \* the directory of each process; 0 in a free entry
  exec,      \* where TASK MM is in an exec, for whom and of what
  halted     \* an assertion or a panic has stopped the system

vars == <<imap, inode, i_cnt, f_desc, filp, pwd, exec, halted>>

Proc == User \cup {FS, MM}
IsAbs(path) == path # <<>> /\ Head(path) = "/"
Comps(path) == IF IsAbs(path) THEN Tail(path) ELSE path
Names == {<<>>, <<".">>, <<"..">>} \cup {<<TtyName[k]>> : k \in 1..NR_CONSOLES}
           \cup NewDirs \cup {<<Comps(path)[1]>> : path \in {q \in Paths : Comps(q) # <<>>}}
Idle == [at |-> "idle", who |-> MM, path |-> <<>>]
NoEntry == [ino |-> 0, name |-> <<>>]
StartDir(p, path) == IF IsAbs(path) THEN ROOT_INODE ELSE pwd[p]
live == {p \in Proc : pwd[p] # 0}
Caller(p) == ~halted /\ p \in live \cap User /\ exec.who # p

\* The entries find_entry compares: one beyond the size, but never beyond the
\* last sector the size reaches.
Visible(dir) ==
  LET blks == (dir.nr + BlockEnt - 1) \div BlockEnt
  IN  Min({dir.nr + 1, blks * BlockEnt})

FindEntry(d, name) ==
  IF d = 0 \/ inode[d].mode # "dir" THEN 0
  ELSE LET at == {i \in 1..Visible(inode[d]) : inode[d].ents[i].name = name}
       IN  IF at = {} THEN 0 ELSE inode[d].ents[Min(at)].ino

\* The inodes search_file goes through from the start directory, 0 from the
\* component that is not found.
Trail(p, path) ==
  LET comps == Comps(path)
      at[k \in 0..Len(comps)] ==
        IF k = 0 THEN StartDir(p, path) ELSE FindEntry(at[k-1], <<comps[k]>>)
  IN  at

search_file(p, path) == Trail(p, path)[Len(Comps(path))]

\* get_inode finds the inode in inode_table, or a free slot for it.
Fits(n) ==
  i_cnt[n] > 0 \/ Cardinality({m \in Ino : i_cnt[m] > 0}) < NR_INODE

\* search_file panics when inode_table has no slot for a component it found.
SearchFits(p, path) ==
  LET at == Trail(p, path) IN \A k \in 1..Len(Comps(path)) : at[k] # 0 => Fits(at[k])

\* new_dirent: a free slot within the size, or one more entry.
new_dirent(ino, d, n, name) ==
  LET free == {i \in 1..ino[d].nr : ino[d].ents[i].ino = 0}
      i    == IF free # {} THEN Min(free) ELSE ino[d].nr + 1
  IN  [ino EXCEPT ![d].ents[i] = [ino |-> n, name |-> name],
                  ![d].nr = Max({@, i})]

InSize(dir) == {i \in 1..dir.nr : dir.ents[i].ino # 0}
\* Writing the sector before clearing the entry.
RemoveEntryUncleared(ino, d, n) ==
  LET i == Min({j \in InSize(ino[d]) : ino[d].ents[j].ino = n})
  IN  [ino EXCEPT ![d].nr = IF i = @ THEN Cardinality(InSize(ino[d]) \ {i}) ELSE @]

\* The end of do_unlink: the last entry takes the size down to the number of
\* entries in use before it.
RemoveEntry(ino, d, n) ==
  LET i == Min({j \in InSize(ino[d]) : ino[d].ents[j].ino = n})
  IN  [ino EXCEPT ![d].ents[i] = NoEntry,
                  ![d].nr = IF i = @ THEN Cardinality(InSize(ino[d]) \ {i}) ELSE @]

alloc_imap_bit == Min(Ino \ imap)

Panic == halted' = TRUE /\ UNCHANGED <<imap, inode, i_cnt, f_desc, filp, pwd>>

-----------------------------------------------------------------------------
(* do_open.  The descriptor is looked for before the file is. *)

FreeDesc == {d \in Desc : f_desc[d].inode = 0}
CanOpen(p, path) ==
  Cardinality(filp[p]) < NR_FILES /\ FreeDesc # {} /\ SearchFits(p, path)

TakeDesc(p, n) ==
  LET d == Min(FreeDesc)
  IN  /\ f_desc' = [f_desc EXCEPT ![d] = [inode |-> n, cnt |-> 1]]
      /\ filp' = [filp EXCEPT ![p] = @ \cup {d}]

\* create_file: only the first component of the path is stripped, and the start
\* directory gets the entry.  new_inode sets the count.
create_file(p, path) ==
  LET n == alloc_imap_bit
      d == StartDir(p, path)
      new == [inode EXCEPT ![n].mode = "reg", ![n].nr = 0]
  IN  /\ imap' = imap \cup {n}
      /\ i_cnt' = [i_cnt EXCEPT ![n] = 1]
      /\ inode' = new_dirent(new, d, n, <<Comps(path)[1]>>)
      /\ TakeDesc(p, n)

OpenCreates(p, path, flags) ==
  /\ CanOpen(p, path) /\ search_file(p, path) = 0 /\ "CREAT" \in flags
  /\ Ino \ imap # {}
  /\ IF Fits(alloc_imap_bit)
     THEN create_file(p, path) /\ UNCHANGED <<pwd, halted>>
     ELSE Panic

OpenFinds(p, path, flags) ==
  LET n == search_file(p, path)
  IN  /\ CanOpen(p, path) /\ n # 0 /\ "RDWR" \in flags
      /\ "CREAT" \in flags => "TRUNC" \in flags
      /\ "TRUNC" \in flags => inode[n].mode # "dir"
      /\ IF Fits(n)
         THEN /\ i_cnt' = [i_cnt EXCEPT ![n] = @ + 1]
              /\ TakeDesc(p, n)
              /\ UNCHANGED <<imap, inode, pwd, halted>>
         ELSE Panic

OpenPanics(p, path) == ~CanOpen(p, path) /\ Panic

Open(p, path, flags) ==
  /\ Caller(p)
  /\ \/ OpenCreates(p, path, flags)
     \/ OpenFinds(p, path, flags)
     \/ OpenPanics(p, path)
  /\ UNCHANGED exec

\* put_inode and the release of the descriptor, of a process that has it open.
CloseDesc(p, d) ==
  LET n == f_desc[d].inode
  IN  /\ i_cnt' = [i_cnt EXCEPT ![n] = @ - 1]
      /\ f_desc' = [f_desc EXCEPT ![d] =
           [inode |-> IF @.cnt = 1 THEN 0 ELSE n, cnt |-> @.cnt - 1]]
      /\ filp' = [filp EXCEPT ![p] = @ \ {d}]
      /\ UNCHANGED <<imap, inode, pwd, halted>>

Close(p, d) == Caller(p) /\ d \in filp[p] /\ CloseDesc(p, d) /\ UNCHANGED exec

-----------------------------------------------------------------------------
\* do_mkdir: in the directory of FS itself, under the path as it was given,
\* whether or not there is such a name.
Mkdir(p, path) ==
  LET d == pwd[FS]
      n == alloc_imap_bit
      new == [inode EXCEPT ![n].mode = "dir", ![n].nr = 0]
  IN  /\ Caller(p) /\ Ino \ imap # {}
      /\ IF Fits(n)
         THEN /\ imap' = imap \cup {n}
              /\ inode' = new_dirent(new_dirent(new_dirent(new, d, n, path),
                                                n, n, <<".">>), n, d, <<"..">>)
              /\ i_cnt' = [i_cnt EXCEPT ![n] = 0]
              /\ UNCHANGED <<f_desc, filp, pwd, exec, halted>>
         ELSE Panic /\ UNCHANGED exec

\* Not asking whether the file is open.
RemovableInUse(n) == inode[n].mode \in {"reg", "dir"}

\* do_unlink.  Where the start directory has no entry of the inode (the path has
\* more components, or the entry is beyond the size) it asserts, having freed it.
Removable(n) == inode[n].mode \in {"reg", "dir"} /\ i_cnt[n] = 0
KeepsTree(n) == \A m \in imap : \A i \in 1..MaxEnt :
                  inode[m].ents[i] = [ino |-> n, name |-> <<"..">>] => m = n
Unlink(p, path) ==
  LET n == search_file(p, path)
      d == StartDir(p, path)
      gone == [inode EXCEPT ![n].mode = "none", ![n].nr = 0]
      flg  == \E i \in InSize(gone[d]) : gone[d].ents[i].ino = n
  IN  /\ Caller(p) /\ path # <<"/">>
      /\ IF ~(SearchFits(p, path) /\ (n # 0 => Fits(n))) THEN Panic /\ UNCHANGED exec
         ELSE /\ n # 0 /\ Removable(n) /\ KeepsTree(n)
              /\ imap' = imap \ {n}
              /\ inode' = IF flg THEN RemoveEntry(gone, d, n) ELSE gone
              /\ halted' = ~flg
              /\ UNCHANGED <<i_cnt, f_desc, filp, pwd, exec>>

\* do_chdir of a user, and change_proc_dir.
Chdir(p, path) ==
  LET n == search_file(p, path)
  IN  /\ Caller(p)
      /\ IF ~(SearchFits(p, path) /\ (n # 0 => Fits(n)) /\ n # pwd[p])
         THEN Panic /\ UNCHANGED exec
         ELSE /\ n # 0 /\ inode[n].mode = "dir"
              /\ i_cnt' = [i_cnt EXCEPT ![n] = @ + 1, ![pwd[p]] = @ - 1]
              /\ pwd' = [pwd EXCEPT ![p] = n]
              /\ UNCHANGED <<imap, inode, f_desc, filp, exec, halted>>

-----------------------------------------------------------------------------
(* The references of one process: its root, its directory, its descriptors. *)
Refs(p, n) ==
  (IF n = ROOT_INODE THEN 1 ELSE 0) + (IF n = pwd[p] THEN 1 ELSE 0)
    + Cardinality({d \in filp[p] : f_desc[d].inode = n})

\* Counting the open files of the child and not its directory.
ForkForgetsPwd(p, c) ==
  /\ Caller(p) /\ exec = Idle /\ c \in User \ live
  /\ pwd' = [pwd EXCEPT ![c] = pwd[p]]
  /\ filp' = [filp EXCEPT ![c] = filp[p]]
  /\ i_cnt' = [n \in Ino |-> i_cnt[n] + Refs(p, n) - (IF n = pwd[p] THEN 1 ELSE 0)]
  /\ f_desc' = [d \in Desc |-> [f_desc[d] EXCEPT
                  !.cnt = IF d \in filp[p] THEN @ + 1 ELSE @]]
  /\ UNCHANGED <<imap, inode, exec, halted>>

\* do_fork copies the entry of the caller, and fs_fork counts what it holds.
Fork(p, c) ==
  /\ Caller(p) /\ exec = Idle /\ c \in User \ live
  /\ pwd' = [pwd EXCEPT ![c] = pwd[p]]
  /\ filp' = [filp EXCEPT ![c] = filp[p]]
  /\ i_cnt' = [n \in Ino |-> i_cnt[n] + Refs(p, n)]
  /\ f_desc' = [d \in Desc |-> [f_desc[d] EXCEPT
                  !.cnt = IF d \in filp[p] THEN @ + 1 ELSE @]]
  /\ UNCHANGED <<imap, inode, exec, halted>>

\* fs_exit.
Exit(p) ==
  /\ Caller(p) /\ exec = Idle /\ p # INIT
  /\ IF i_cnt[pwd[p]] > 0
     THEN /\ i_cnt' = [n \in Ino |-> i_cnt[n] - Refs(p, n)]
          /\ f_desc' = [d \in Desc |->
               IF d \notin filp[p] THEN f_desc[d]
               ELSE [inode |-> IF f_desc[d].cnt = 1 THEN 0 ELSE f_desc[d].inode,
                     cnt |-> f_desc[d].cnt - 1]]
          /\ pwd' = [pwd EXCEPT ![p] = 0]
          /\ filp' = [filp EXCEPT ![p] = {}]
          /\ UNCHANGED <<imap, inode, exec, halted>>
     ELSE Panic /\ UNCHANGED exec

\* do_exec: FS changes to the directory of the caller, then MM asks for stat,
\* open, and close, as any client, with its own root and directory.
ExecTellFs(p, path) ==
  /\ Caller(p) /\ exec = Idle
  /\ i_cnt' = [n \in Ino |-> i_cnt[n] + (IF n = pwd[p] THEN 1 ELSE 0)
                                      - (IF n = pwd[FS] THEN 1 ELSE 0)]
  /\ pwd' = [pwd EXCEPT ![FS] = pwd[p]]
  /\ exec' = [at |-> "stat", who |-> p, path |-> path]
  /\ UNCHANGED <<imap, inode, f_desc, filp, halted>>

ExecStat ==
  LET n == search_file(MM, exec.path)
  IN  /\ ~halted /\ exec.at = "stat"
      /\ IF ~(SearchFits(MM, exec.path) /\ (n # 0 => Fits(n))) THEN Panic /\ UNCHANGED exec
         ELSE /\ exec' = IF n = 0 THEN Idle ELSE [exec EXCEPT !.at = "open"]
              /\ UNCHANGED <<imap, inode, i_cnt, f_desc, filp, pwd, halted>>

\* The file may have been unlinked since stat: open returns -1, and exec fails.
ExecOpen ==
  /\ ~halted /\ exec.at = "open"
  /\ \/ /\ OpenFinds(MM, exec.path, {"RDWR"})
        /\ exec' = IF halted' THEN exec ELSE [exec EXCEPT !.at = "close"]
     \/ OpenPanics(MM, exec.path) /\ UNCHANGED exec
     \/ /\ CanOpen(MM, exec.path) /\ search_file(MM, exec.path) = 0
        /\ exec' = Idle
        /\ UNCHANGED <<imap, inode, i_cnt, f_desc, filp, pwd, halted>>

ExecClose ==
  /\ ~halted /\ exec.at = "close"
  /\ \E d \in filp[MM] : CloseDesc(MM, d)
  /\ exec' = Idle

-----------------------------------------------------------------------------
\* After init_fs and the loop at the start of Init(): every entry of proc_table,
\* free or not, has counted the root twice.
RootSurplus == 2 * Cardinality(User \ {INIT})
Boot == <<[ino |-> ROOT_INODE, name |-> <<".">>], [ino |-> ROOT_INODE, name |-> <<"..">>]>>
          \o [k \in 1..NR_CONSOLES |-> [ino |-> ROOT_INODE + k, name |-> <<TtyName[k]>>]]
Init ==
  /\ imap = {ROOT_INODE} \cup Special
  /\ inode = [n \in Ino |->
       [mode |-> IF n = ROOT_INODE THEN "dir" ELSE IF n \in Special THEN "chr" ELSE "none",
        nr   |-> IF n = ROOT_INODE THEN Len(Boot) ELSE 0,
        ents |-> [i \in 1..MaxEnt |->
                    IF n = ROOT_INODE /\ i <= Len(Boot) THEN Boot[i] ELSE NoEntry]]]
  /\ i_cnt = [n \in Ino |-> IF n = ROOT_INODE THEN 1 + 2 * Cardinality(Proc) ELSE 0]
  /\ f_desc = [d \in Desc |-> [inode |-> 0, cnt |-> 0]]
  /\ filp = [p \in Proc |-> {}]
  /\ pwd = [p \in Proc |-> IF p \in {INIT, FS, MM} THEN ROOT_INODE ELSE 0]
  /\ exec = Idle
  /\ halted = FALSE

\* What a process asks of FS, and of MM in fork, exec and exit.
Asks(p) ==
  \/ \E path \in Paths :
       \/ \E flags \in Flags : Open(p, path, flags)
       \/ Unlink(p, path)
       \/ Chdir(p, path)
  \/ \E path \in NewDirs : Mkdir(p, path)
  \/ \E path \in Programs : ExecTellFs(p, path)
  \/ \E d \in Desc : Close(p, d)
  \/ \E c \in User : Fork(p, c)
  \/ Exit(p)

Next == (\E p \in User : Asks(p)) \/ ExecStat \/ ExecOpen \/ ExecClose

Spec == Init /\ [][Next]_vars

-----------------------------------------------------------------------------
(* Properties. *)

\* Every table keeps its shape; a count is never negative (i_cnt and fd_cnt are
\* ints that put_inode, do_close and fs_exit decrement).
TypeOK ==
  /\ imap \subseteq Ino
  /\ inode \in [Ino -> [mode : {"none", "reg", "dir", "chr"}, nr : 0..MaxEnt,
                        ents : [1..MaxEnt -> [ino : {0} \cup Ino, name : Names]]]]
  /\ i_cnt \in [Ino -> Nat]
  /\ f_desc \in [Desc -> [inode : {0} \cup Ino, cnt : 0..Cardinality(Proc)]]
  /\ filp \in [Proc -> SUBSET Desc]
  /\ pwd \in [Proc -> {0} \cup Ino]
  /\ exec \in [at : {"idle", "stat", "open", "close"}, who : Proc, path : Programs \cup {<<>>}]
  /\ halted \in BOOLEAN

\* The processes whose directory is n, the pairs of a process and a descriptor it
\* has of n, and the process roots that are n.
Holders(n)  == {p \in Proc : pwd[p] = n}
Opens(n)    == {h \in Proc \X Desc : h[2] \in filp[h[1]] /\ f_desc[h[2]].inode = n}
RootRefs(n) == IF n = ROOT_INODE THEN Cardinality(live) + 1 + RootSurplus ELSE 0

\* i_cnt counts exactly the pointers to an inode that processes hold: their root,
\* their directory and their open files, through fork, exit, exec, chdir, close
\* and the paths that fail.  A count too low lets get_inode give the slot of an
\* inode in use to another, one too high makes do_unlink refuse for ever
\* (link.c:87).  The root keeps what Init() and init_fs gave it.
PointersCounted ==
  /\ TypeOK
  /\ \A n \in Ino :
       i_cnt[n] = Cardinality(Holders(n)) + Cardinality(Opens(n)) + RootRefs(n)

\* Whatever a process holds exists: its directory is an allocated directory, the
\* inode of an open file is allocated, and a descriptor is shared by as many
\* processes as fd_cnt says.  do_unlink, mkdir and exec of others never pull it
\* away.
HeldIsAllocated ==
  /\ \A p \in live : pwd[p] \in imap /\ inode[pwd[p]].mode = "dir"
  /\ \A d \in Desc :
       /\ f_desc[d].cnt = Cardinality({p \in Proc : d \in filp[p]})
       /\ f_desc[d].cnt > 0 => f_desc[d].inode \in imap

\* A name within the size of a directory is of an allocated inode and is the only
\* such name of it: do_unlink (link.c:202) clears the entry of what it frees, and
\* an inode that is taken again is not reached by an older name.
NamesAreAllocated ==
  ~halted =>
    LET entries == {e \in imap \X (1..MaxEnt) :
                      /\ inode[e[1]].mode = "dir" /\ e[2] \in InSize(inode[e[1]])
                      /\ inode[e[1]].ents[e[2]].name \notin {<<".">>, <<"..">>}}
        ino(e) == inode[e[1]].ents[e[2]].ino
    IN  /\ \A e \in entries : ino(e) \in imap
        /\ \A e, f \in entries : ino(e) = ino(f) => e = f
============================================================================
