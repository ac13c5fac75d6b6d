------------------------------- MODULE Getcwd -------------------------------
(***************************************************************************)
(* getcwd of lib/getcwd.c, with opendir, readdir, rewinddir and closedir.     *)
(* A process finds the name of its directory by going up: it looks for itself *)
(* in "..", changes to it, and in the end comes back down by the names it      *)
(* has found.  Each request to FS is a step, other processes and MM make       *)
(* theirs in between, and the directory the process came from is no longer     *)
(* held by it.                                                              *)
(*                                                                         *)
(* Bounds.  One process at a time is in getcwd.  All is on one device, so that *)
(* the inode decides.  No name is absolute.  The descriptor of a directory is  *)
(* not shared: its position is kept with the stream.  No exec is in progress   *)
(* during a getcwd.                                                         *)
(***************************************************************************)
EXTENDS FsDir

CONSTANTS
  MaxNames,   \* the names that fit in the buffer given to getcwd
  Callers     \* bound: the processes that call getcwd

ASSUME GetcwdAssumption ==
  /\ MaxNames \in Nat /\ Callers \subseteq User
  /\ Names \subseteq Seq(STRING \ {"/"})

VARIABLE cwd        \* the call of getcwd in progress

\* Where the caller is, the directory and the descriptors it had (ghosts), the one it looks for and the
\* one above; the names found, from the front; the stream of "..": descriptor,
\* position, the entries read and not looked at; whether it reads it again; whether
\* nothing failed.  changed (ghost): others changed a directory during the call.
NoCall == [at |-> "none", who |-> MM, start |-> 0, files |-> {}, current |-> 0, above |-> 0,
           names |-> <<>>, fd |-> 0, pos |-> 0, found |-> <<>>, cycle |-> 0,
           ok |-> TRUE, changed |-> FALSE]

gvars == <<vars, cwd>>
w == cwd.who
Is(at) == ~halted /\ cwd.at = at
KeepFs == UNCHANGED <<imap, inode, i_cnt, f_desc, filp, pwd, exec, halted>>

\* recover(): down again by the names, and then back to the caller.
Recover(call) == [call EXCEPT !.at = IF call.names = <<>> THEN "returned" ELSE "recover",
                              !.found = call.names]
\* Failing without recover().
FailsWhereItIs(call) == [call EXCEPT !.at = "returned", !.found = <<>>, !.ok = FALSE]
Fails(call) == Recover([call EXCEPT !.ok = FALSE])

\* do_stat of a path, and what the caller does for each inode it may be, 0 when there
\* is none.  FS panics with no slot for its inodes.
Stat(p, path, next) ==
  LET n == search_file(p, path)
  IN  IF ~(SearchFits(p, path) /\ (n # 0 => Fits(n)))
      THEN Panic /\ UNCHANGED <<exec, cwd>>
      ELSE KeepFs /\ cwd' = next[n]

\* chdir() returns 0 whether or not FS has changed the directory.
ChangeDir(path, next) ==
  LET n == search_file(w, path)
  IN  \/ Chdir(w, path) /\ cwd' = IF halted' THEN cwd ELSE next
      \/ /\ SearchFits(w, path) /\ (n # 0 => Fits(n) /\ inode[n].mode # "dir")
         /\ KeepFs /\ cwd' = next

----------------------------------------------------------------------------
\* getcwd: stat(".").
Getcwd(p) ==
  /\ Caller(p) /\ cwd = NoCall /\ exec = Idle
  /\ Stat(p, <<".">>,
          [n \in 0..MaxIno |-> IF n = 0 THEN NoCall
                     ELSE [NoCall EXCEPT !.at = "above", !.who = p, !.start = pwd[p],
                                         !.files = filp[p], !.current = n]])

\* stat(".."): the root is its own parent.
StatAbove ==
  /\ Is("above")
  /\ Stat(w, <<"..">>,
          [n \in 0..MaxIno |-> IF n = 0 THEN Fails(cwd)
                     ELSE IF n = cwd.current THEN Recover(cwd)
                     ELSE [cwd EXCEPT !.at = "opendir", !.above = n]])

\* opendir: stat, open.
OpendirStat ==
  /\ Is("opendir")
  /\ Stat(w, <<"..">>,
          [n \in 0..MaxIno |-> IF n = 0 \/ inode[n].mode # "dir" THEN Fails(cwd)
                     ELSE [cwd EXCEPT !.at = "open"]])
OpendirOpen ==
  /\ Is("open")
  /\ \/ /\ Open(w, <<"..">>, {"RDWR"})
        /\ cwd' = IF halted' THEN cwd
                  ELSE [cwd EXCEPT !.at = "readdir", !.fd = Min(FreeDesc),
                                   !.pos = 0, !.cycle = 0]
     \/ /\ CanOpen(w, <<"..">>) /\ search_file(w, <<"..">>) = 0
        /\ KeepFs /\ cwd' = Fails(cwd)

\* readdir reads a sector of the directory.  The names of the directory looked for
\* are looked at; the second time all are.  Without one the stream is rewound once.
Rewinddir(call) == [call EXCEPT !.cycle = 1, !.pos = 0]
Wanted(block) == {i \in DOMAIN block :
                    /\ block[i].ino # 0 /\ block[i].name \notin {<<".">>, <<"..">>}
                    /\ cwd.cycle = 0 => block[i].ino = cwd.current}
LookAt(block) ==
  IF Wanted(block) = {} THEN [cwd EXCEPT !.at = "readdir", !.found = <<>>]
  ELSE [cwd EXCEPT !.at = "entry", !.found = SubSeq(block, Min(Wanted(block)), Len(block))]
ReadFrom(dir) ==
  LET block == [i \in 1 .. Min({BlockEnt, dir.nr - cwd.pos}) |-> dir.ents[cwd.pos + i]]
  IN  [LookAt(block) EXCEPT !.pos = @ + Len(block)]
Readdir ==
  LET dir == inode[f_desc[cwd.fd].inode]
  IN  /\ Is("readdir") /\ KeepFs
      /\ cwd' = IF cwd.pos < dir.nr THEN ReadFrom(dir)
                ELSE IF cwd.cycle = 0 THEN Rewinddir(cwd)
                ELSE [cwd EXCEPT !.at = "close", !.ok = FALSE]

\* stat("../name"), and addpath when it is the directory looked for.
AddPath(name) ==
  IF Len(name) + Len(cwd.names) > MaxNames THEN [cwd EXCEPT !.at = "close", !.ok = FALSE]
  ELSE [cwd EXCEPT !.at = "close", !.names = name \o @]
StatEntry ==
  LET name == Head(cwd.found).name
  IN  /\ Is("entry")
      /\ Stat(w, <<"..">> \o name,
              [n \in 0..MaxIno |-> IF n = cwd.current THEN AddPath(name)
                         ELSE LookAt(Tail(cwd.found))])

Closedir ==
  /\ Is("close") /\ Close(w, cwd.fd)
  /\ LET next == [cwd EXCEPT !.fd = 0, !.pos = 0, !.found = <<>>]
     IN  cwd' = IF cwd.ok THEN [next EXCEPT !.at = "chdir"] ELSE Fails(next)

ChdirUp ==
  /\ Is("chdir")
  /\ ChangeDir(<<"..">>, [cwd EXCEPT !.at = "above", !.current = cwd.above])

ChdirDown ==
  /\ Is("recover")
  /\ ChangeDir(<<Head(cwd.found)>>,
               [cwd EXCEPT !.found = Tail(@),
                           !.at = IF Len(cwd.found) = 1 THEN "returned" ELSE "recover"])

Returns == Is("returned") /\ KeepFs /\ cwd' = NoCall

Walk == StatAbove \/ OpendirStat \/ OpendirOpen \/ Readdir \/ StatEntry \/ Closedir
          \/ ChdirUp \/ ChdirDown \/ Returns

----------------------------------------------------------------------------
Others ==
  /\ (\E p \in User \ {w} : Asks(p)) \/ ExecStat \/ ExecOpen \/ ExecClose
  /\ cwd' = [cwd EXCEPT !.changed = @ \/ (cwd # NoCall /\ inode' # inode)]
  /\ cwd = NoCall \/ exec' = Idle

GInit == Init /\ cwd = NoCall
GNext == Others \/ Walk \/ \E p \in Callers : Getcwd(p)
GSpec == GInit /\ [][GNext]_gvars

----------------------------------------------------------------------------
\* Whatever fails on the way, getcwd leaves no descriptor open; and if nobody changes
\* a directory meanwhile it brings its caller back to where it was ("Undo all those
\* chdir("..")'s", getcwd.c:65) and the path it returns leads there.  If someone does,
\* the caller may be left in another directory, since it has not held its own.
GetcwdReturns ==
  cwd.at = "returned" =>
    /\ filp[w] = cwd.files
    /\ ~ cwd.changed =>
         /\ pwd[w] = cwd.start
         /\ cwd.ok => search_file(w, <<"/">> \o cwd.names) = cwd.start
=============================================================================
