------------------------------ MODULE HdProofs ------------------------------
(***************************************************************************)
(* Proofs about the disk driver, under init_fs, INIT's untar and power       *)
(* failures, for every layout of partitions, every archive and every bound.  *)
(***************************************************************************)
EXTENDS Untar, WellFoundedInduction, FiniteSetTheorems, TLAPS

Pending == irq \/ has_int

\* The drive and the job are records; nothing else is needed of the sectors.
Records ==
  /\ drive = [st |-> drive.st, cmd |-> drive.cmd, lba |-> drive.lba, n |-> drive.n,
              full |-> drive.full, data |-> drive.data]
  /\ job = [cmd |-> job.cmd, lba |-> job.lba, left |-> job.left, use |-> job.use]
  /\ irq \in BOOLEAN /\ has_int \in BOOLEAN /\ drive.full \in BOOLEAN

\* A command in progress has sectors to go, and one that reads a table or the
\* identity has one.
JobOK ==
  /\ job.left \in Nat \ {0}
  /\ job.use # "rdwt" => job.left = 1 /\ job.cmd # "WRITE"

\* What the drive is doing at each place the driver may be.
AtRest == ~Pending /\ drive.st = "idle"
WaitingForDrive ==
  /\ ~Pending /\ JobOK
  /\ mask = "BSY" => drive.st = "idle"
  /\ mask # "BSY" => /\ job.cmd = "WRITE" /\ drive.cmd = "WRITE" /\ drive.n = job.left
                     /\ drive.st = "drq" \/ (drive.st = "busy" /\ ~drive.full)
WaitingForRead ==
  /\ drive.n = job.left
  /\ drive.st = IF Pending THEN "drq" ELSE "busy"
WaitingForWrite ==
  IF Pending
  THEN /\ drive.n = job.left - 1 /\ ~drive.full
       /\ drive.st = IF job.left = 1 THEN "idle" ELSE "drq"
  ELSE drive.n = job.left /\ drive.full /\ drive.st = "busy"
WaitingForInterrupt ==
  /\ ~(irq /\ has_int) /\ JobOK /\ drive.cmd = job.cmd
  /\ IF job.cmd = "WRITE" THEN WaitingForWrite ELSE WaitingForRead
GivenUp == ~Pending /\ ~Coming

DriverOK ==
  \/ pc \in {"recv", "reply"} /\ AtRest
  \/ pc \in {"wait", "status"} /\ WaitingForDrive
  \/ pc = "int" /\ WaitingForInterrupt
  \/ pc = "panic" /\ GivenUp

\* FS asks what the driver knows, and for at least a sector.
Asks(r) ==
  /\ r.type \in {"DEV_OPEN", "DEV_IOCTL", "DEV_READ", "DEV_WRITE"}
  /\ r.type \in {"DEV_READ", "DEV_WRITE"} => r.cnt \in Nat \ {0}
ReqOK == req # NoReq => Asks(req)
Asking(s) == s \in Seq({s[i] : i \in DOMAIN s}) /\ \A i \in DOMAIN s : Asks(s[i])

\* The inductive invariant.
IInv == Records /\ DriverOK /\ ReqOK /\ Asking(todo)

----------------------------------------------------------------------------
\* Requests

LEMMA AskingLemma ==
  ASSUME NEW S, NEW s \in Seq(S), \A r \in S : Asks(r)
  PROVE  Asking(s)
<1>1. Len(s) \in Nat /\ DOMAIN s = 1 .. Len(s) /\ \A i \in DOMAIN s : s[i] \in S
  OBVIOUS
<1> DEFINE T == {s[i] : i \in DOMAIN s}
<1>2. s \in Seq(T)
  <2>1. \A i \in 1 .. Len(s) : s[i] \in T
    BY <1>1
  <2>2. s = [i \in 1 .. Len(s) |-> s[i]]
    OBVIOUS
  <2> HIDE DEF T
  <2>3. [i \in 1 .. Len(s) |-> s[i]] \in Seq(T)
    BY <1>1, <2>1
  <2>4. QED
    BY <2>2, <2>3
<1>3. QED
  BY <1>1, <1>2 DEF Asking

LEMMA OneLemma ==
  ASSUME NEW r, Asks(r)
  PROVE  Asking(<<r>>)
<1> DEFINE S == {r}
           s == <<r>>
<1>1. s \in Seq(S) /\ \A x \in S : Asks(x)
  OBVIOUS
<1> HIDE DEF S, s
<1>2. Asking(s)
  BY <1>1, AskingLemma
<1>3. QED
  BY <1>2 DEF s

LEMMA ConcatLemma ==
  ASSUME NEW s, NEW t, Asking(s), Asking(t)
  PROVE  Asking(s \o t)
<1> DEFINE S == {s[i] : i \in DOMAIN s}
           T == {t[i] : i \in DOMAIN t}
<1>1. s \in Seq(S) /\ t \in Seq(T) /\ \A r \in S \cup T : Asks(r)
  BY DEF Asking
<1> HIDE DEF S, T
<1>2. s \in Seq(S \cup T) /\ t \in Seq(S \cup T)
  BY <1>1
<1>3. s \o t \in Seq(S \cup T)
  BY <1>2
<1>4. QED
  BY <1>1, <1>3, AskingLemma

LEMMA RestLemma ==
  ASSUME NEW s, Asking(s), s # <<>>
  PROVE  Asking(Tail(s)) /\ Asks(Head(s))
<1> DEFINE S == {s[i] : i \in DOMAIN s}
<1>1. s \in Seq(S) /\ \A r \in S : Asks(r)
  BY DEF Asking
<1> HIDE DEF S
<1>2. Tail(s) \in Seq(S) /\ Head(s) \in S
  BY <1>1
<1>3. QED
  BY <1>1, <1>2, AskingLemma

LEMMA SectorLemma ==
  /\ \A pos : Asks(Rd(pos)) /\ Asking(<<Rd(pos)>>)
  /\ \A pos, v : Asks(Wr(pos, v)) /\ Asking(<<Wr(pos, v)>>)
  /\ \A type : type \in {"DEV_OPEN", "DEV_IOCTL"} => Asks(Op(type))
  /\ Asking(<<>>)
<1>1. \A pos : Asks(Rd(pos))
  BY DEF Asks, Rd
<1>2. \A pos, v : Asks(Wr(pos, v))
  BY DEF Asks, Wr
<1>3. \A type : type \in {"DEV_OPEN", "DEV_IOCTL"} => Asks(Op(type))
  BY DEF Asks, Op
<1>4. Asking(<<>>)
  <2> DEFINE S == {}
             s == <<>>
  <2>1. s \in Seq(S) /\ \A x \in S : Asks(x)
    OBVIOUS
  <2> HIDE DEF S, s
  <2>2. Asking(s)
    BY <2>1, AskingLemma
  <2>3. QED
    BY <2>2 DEF s
<1>5. QED
  BY <1>1, <1>2, <1>3, <1>4, OneLemma

\* What init_fs and untar ask for are such requests.
LEMMA RequestsLemma ==
  /\ Asking(Probe) /\ Asking(Format) /\ Asking(Mkfs) /\ Asking(<<Rd(ROOT), Rd(INODES)>>)
  /\ \A name : Asking(CreateFile(name))
  /\ \A name : Asking(OpenOut(name))
<1>1. \A a, b : Asks(a) /\ Asks(b) => Asking(<<a, b>>)
  <2>1. TAKE a, b
  <2>2. HAVE Asks(a) /\ Asks(b)
  <2> DEFINE S == {a, b}
             s == <<a, b>>
  <2>3. s \in Seq(S) /\ \A x \in S : Asks(x)
    BY <2>2
  <2> HIDE DEF S, s
  <2>4. Asking(s)
    BY <2>3, AskingLemma
  <2>5. QED
    BY <2>4 DEF s
<1>2. \A a, b, c : Asks(a) /\ Asks(b) /\ Asks(c) => Asking(<<a, b, c>>)
  <2>1. TAKE a, b, c
  <2>2. HAVE Asks(a) /\ Asks(b) /\ Asks(c)
  <2> DEFINE S == {a, b, c}
             s == <<a, b, c>>
  <2>3. s \in Seq(S) /\ \A x \in S : Asks(x)
    BY <2>2
  <2> HIDE DEF S, s
  <2>4. Asking(s)
    BY <2>3, AskingLemma
  <2>5. QED
    BY <2>4 DEF s
<1>3. Asking(Probe) /\ Asking(Format) /\ Asking(<<Rd(ROOT), Rd(INODES)>>)
  BY <1>1, <1>2, SectorLemma DEF Probe, Format
<1>4. ASSUME NEW a1, NEW a2, NEW a3, NEW a4, NEW a5, NEW a6,
             Asks(a1), Asks(a2), Asks(a3), Asks(a4), Asks(a5), Asks(a6)
      PROVE  Asking(<<a1, a2, a3, a4, a5, a6>>)
  <2> DEFINE S == {a1, a2, a3, a4, a5, a6}
             s == <<a1, a2, a3, a4, a5, a6>>
  <2>1. s \in Seq(S) /\ \A x \in S : Asks(x)
    BY <1>4
  <2> HIDE DEF S, s
  <2>2. Asking(s)
    BY <2>1, AskingLemma
  <2>3. QED
    BY <2>2 DEF s
<1>5. ASSUME NEW name PROVE Asking(CreateFile(name))
  BY <1>4, SectorLemma DEF CreateFile
<1>6. ASSUME NEW name PROVE Asking(OpenOut(name))
  BY <1>5, SectorLemma, ConcatLemma DEF OpenOut
<1>7. Asking(Mkfs)
  <2> DEFINE im == Wr(IMAP, {<<"imap">>})
             sm == Wr(SMAP, {<<"smap">>})
             st == Wr(SMAP, {<<"smap">>, <<"tar">>})
             sz == Wr(SMAP, {<<"smap">>, <<"tar">>, <<"zones">>})
             zs == Wr(ZONES, {<<"zones">>})
             is == Wr(INODES, {<<"inodes">>, <<"dir", 0>>})
             rt == Wr(ROOT, {<<"root">>})
             rs == Rd(SMAP)
             rz == Rd(ZONES)
             S == {im, sm, st, sz, zs, is, rt, rs, rz}
  <2>1. Asks(im) /\ Asks(sm) /\ Asks(st) /\ Asks(sz) /\ Asks(zs) /\ Asks(is) /\ Asks(rt)
        /\ Asks(rs) /\ Asks(rz)
    BY SectorLemma
  <2>2. Mkfs = <<im, sm, rs, st, rs, sz, rz, zs, is, rt>>
    BY DEF Mkfs
  <2> HIDE DEF im, sm, st, sz, zs, is, rt, rs, rz
  <2>3. Mkfs \in Seq(S) /\ \A x \in S : Asks(x)
    BY <2>1, <2>2
  <2> HIDE DEF S
  <2>4. QED
    BY <2>3, AskingLemma
<1>8. QED
  BY <1>3, <1>5, <1>6, <1>7

----------------------------------------------------------------------------
\* The driver and the drive

\* Data is ready, or room for data, or the data are on the disk.
LEMMA DriveReadyLemma ==
  ASSUME Records, DriverOK, DriveReady
  PROVE  Records' /\ DriverOK'
<1>1. drive.st = "busy" /\ UNCHANGED <<pc, mask, job, has_int>>
  BY DEF DriveReady, hdVars
<1>2. CASE drive.cmd = "WRITE" /\ drive.full
  <2>1. pc = "int" /\ WaitingForInterrupt /\ ~Pending /\ job.cmd = "WRITE"
    BY <1>1, <1>2 DEF DriverOK, AtRest, WaitingForDrive, GivenUp, Coming, WaitingForInterrupt,
                      WaitingForRead, WaitingForWrite
  <2>2. drive' = [drive EXCEPT !.st = IF drive.n = 1 THEN "idle" ELSE "drq",
                               !.lba = @ + 1, !.n = @ - 1, !.full = FALSE]
        /\ irq' = TRUE
    BY <1>2 DEF DriveReady
  <2>3. drive' = [st |-> IF drive.n = 1 THEN "idle" ELSE "drq", cmd |-> drive.cmd,
                  lba |-> drive.lba + 1, n |-> drive.n - 1, full |-> FALSE, data |-> drive.data]
    BY <2>2 DEF Records
  <2>4. QED
    BY <1>1, <1>2, <2>1, <2>2, <2>3
       DEF DriverOK, Records, WaitingForInterrupt, WaitingForWrite, Pending, JobOK
<1>3. CASE drive.cmd = "WRITE" /\ ~drive.full
  <2>1. drive' = [drive EXCEPT !.st = "drq"] /\ irq' = irq
    BY <1>3 DEF DriveReady
  <2>2. drive' = [st |-> "drq", cmd |-> drive.cmd, lba |-> drive.lba, n |-> drive.n,
                  full |-> drive.full, data |-> drive.data]
    BY <2>1 DEF Records
  <2>3. ~ (pc = "int" /\ WaitingForInterrupt) /\ ~ AtRest
    BY <1>1, <1>3 DEF AtRest, WaitingForInterrupt, WaitingForWrite
  <2>4. QED
    BY <1>1, <1>3, <2>1, <2>2, <2>3
       DEF DriverOK, Records, WaitingForDrive, GivenUp, Coming, Pending, JobOK
<1>4. CASE drive.cmd # "WRITE"
  <2>1. drive' = [drive EXCEPT !.st = "drq",
                    !.data = IF drive.cmd = "IDENTIFY" THEN Identity ELSE disk[drive.lba]]
        /\ irq' = TRUE
    BY <1>4 DEF DriveReady
  <2>2. drive' = [st |-> "drq", cmd |-> drive.cmd, lba |-> drive.lba, n |-> drive.n,
                  full |-> drive.full,
                  data |-> IF drive.cmd = "IDENTIFY" THEN Identity ELSE disk[drive.lba]]
    BY <2>1 DEF Records
  <2>3. pc = "int" /\ WaitingForInterrupt /\ ~Pending
    BY <1>1, <1>4 DEF DriverOK, AtRest, WaitingForDrive, GivenUp, Coming, WaitingForInterrupt,
                      WaitingForRead
  <2>4. QED
    BY <1>1, <1>4, <2>1, <2>2, <2>3
       DEF DriverOK, Records, WaitingForInterrupt, WaitingForRead, Pending, JobOK
<1>5. QED
  BY <1>2, <1>3, <1>4

\* A command is given to a drive at rest.
LEMMA CommandLemma ==
  ASSUME Records, ~irq', ~has_int', drive' = drive, irq' \in BOOLEAN, has_int' \in BOOLEAN,
         drive.st = "idle",
         NEW cmd, NEW lba, NEW n \in Nat \ {0}, NEW use,
         use # "rdwt" => n = 1 /\ cmd # "WRITE",
         Command(cmd, lba, n, use)
  PROVE  Records' /\ DriverOK'
<1>1. pc' = "wait" /\ mask' = "BSY"
      /\ job' = [cmd |-> cmd, lba |-> lba, left |-> n, use |-> use]
  BY DEF Command, Waitfor
<1>2. Records'
  BY <1>1 DEF Records
<1>3. WaitingForDrive'
  BY <1>1 DEF WaitingForDrive, JobOK, Pending
<1>4. QED
  BY <1>1, <1>2, <1>3 DEF DriverOK

\* Where the drive, the job and the interrupts stay as they are.
LEMMA RecordsLemma ==
  ASSUME Records, UNCHANGED <<drive, job, irq, has_int>>
  PROVE  Records'
  BY DEF Records

\* The main loop takes a message of FS; no interrupt is latched there.
LEMMA ReceiveLemma ==
  ASSUME Records, DriverOK, ReqOK, HdOpen \/ HdRdwt \/ HdIoctl \/ UnknownMsg
  PROVE  Records' /\ DriverOK'
<1>1. pc = "recv" /\ AtRest
  BY DEF DriverOK, HdOpen, HdRdwt, HdIoctl, UnknownMsg, Receive
<1>2. ~irq /\ ~has_int /\ drive.st = "idle" /\ irq \in BOOLEAN /\ has_int \in BOOLEAN
  BY <1>1 DEF AtRest, Pending, Records
<1>3. CASE HdOpen
  BY <1>2, <1>3, CommandLemma DEF HdOpen, devVars
<1>4. CASE HdRdwt
  <2>1. req.cnt \in Nat \ {0} /\ UNCHANGED <<drive, irq, has_int>>
    BY <1>4 DEF HdRdwt, Receive, ReqOK, Asks, devVars
  <2>2. Command(IF req.type = "DEV_READ" THEN "READ" ELSE "WRITE",
                req.pos + PartOf(req.dev).base, req.cnt, "rdwt")
    BY <1>4 DEF HdRdwt
  <2>3. QED
    BY <1>2, <2>1, <2>2, CommandLemma
<1>5. CASE HdIoctl
  <2>1. pc' = "reply" /\ UNCHANGED <<drive, job, irq, has_int>>
    BY <1>5 DEF HdIoctl, devVars
  <2>2. AtRest'
    BY <1>1, <2>1 DEF AtRest, Pending
  <2>3. QED
    BY <2>1, <2>2, RecordsLemma DEF DriverOK
<1>6. ~UnknownMsg
  BY <1>2 DEF UnknownMsg
<1>7. QED
  BY <1>3, <1>4, <1>5, <1>6

\* waitfor: neither the clock nor a poll of the status loses an interrupt.
LEMMA WaitforLemma ==
  ASSUME Records, DriverOK, GetTicks \/ StatusNot \/ Tick
  PROVE  Records' /\ DriverOK'
<1>1. pc \in {"wait", "status"} /\ WaitingForDrive
  BY DEF DriverOK, GetTicks, StatusNot, Tick
<1>2. ~irq /\ ~has_int /\ irq \in BOOLEAN
  BY <1>1 DEF WaitingForDrive, Pending, Records
<1>3. UNCHANGED <<mask, job, drive, has_int>> /\ irq' = irq
  BY <1>2 DEF GetTicks, StatusNot, Tick, devVars
<1>4. Records'
  BY <1>3, RecordsLemma
<1>5. CASE pc' = "panic"
  <2>1. ~Coming
    BY <1>1 DEF WaitingForDrive, Coming
  <2>2. GivenUp'
    BY <1>2, <1>3, <2>1 DEF GivenUp, Coming, Pending
  <2>3. QED
    BY <1>4, <1>5, <2>2 DEF DriverOK
<1>6. CASE pc' # "panic"
  <2>1. pc' \in {"wait", "status"}
    BY <1>1, <1>6 DEF GetTicks, StatusNot, Tick
  <2>2. WaitingForDrive'
    BY <1>1, <1>3 DEF WaitingForDrive, JobOK, Pending
  <2>3. QED
    BY <1>4, <2>1, <2>2 DEF DriverOK
<1>7. QED
  BY <1>5, <1>6

\* The status is what waitfor waits for: the command, or a sector, goes to the drive.
LEMMA ReadyLemma ==
  ASSUME Records, DriverOK, HdCmdOut \/ PortWrite
  PROVE  Records' /\ DriverOK'
<1>1. pc = "status" /\ WaitingForDrive
  BY DEF DriverOK, HdCmdOut, PortWrite
<1>2. ~has_int /\ has_int' = has_int /\ irq' = FALSE /\ job' = job /\ JobOK /\ JobOK'
  BY <1>1 DEF WaitingForDrive, Pending, JobOK, HdCmdOut, PortWrite
<1>3. CASE HdCmdOut
  <2>1. drive' = [st |-> "busy", cmd |-> job.cmd, lba |-> job.lba, n |-> job.left,
                  full |-> FALSE, data |-> drive.data]
    BY <1>3 DEF HdCmdOut
  <2>2. Records'
    BY <1>2, <2>1 DEF Records
  <2>3. CASE job.cmd = "WRITE"
    <3>1. pc' = "wait" /\ mask' = "DRQ"
      BY <1>3, <2>3 DEF HdCmdOut, Waitfor
    <3>2. WaitingForDrive'
      BY <1>2, <2>1, <2>3, <3>1 DEF WaitingForDrive, Pending
    <3>3. QED
      BY <2>2, <3>1, <3>2 DEF DriverOK
  <2>4. CASE job.cmd # "WRITE"
    <3>1. pc' = "int"
      BY <1>3, <2>4 DEF HdCmdOut
    <3>2. WaitingForInterrupt'
      BY <1>2, <2>1, <2>4 DEF WaitingForInterrupt, WaitingForRead, Pending
    <3>3. QED
      BY <2>2, <3>1, <3>2 DEF DriverOK
  <2>5. QED
    BY <2>3, <2>4
<1>4. CASE PortWrite
  <2>1. /\ drive' = [drive EXCEPT !.st = "busy", !.full = TRUE, !.data = buf[req.cnt - job.left]]
        /\ pc' = "int" /\ mask = "DRQ"
    BY <1>4 DEF PortWrite
  <2>2. drive' = [st |-> "busy", cmd |-> drive.cmd, lba |-> drive.lba, n |-> drive.n,
                  full |-> TRUE, data |-> buf[req.cnt - job.left]]
    BY <2>1 DEF Records
  <2>3. Records'
    BY <1>2, <2>2 DEF Records
  <2>4. job.cmd = "WRITE" /\ drive.cmd = "WRITE" /\ drive.n = job.left
    BY <1>1, <2>1 DEF WaitingForDrive
  <2>5. WaitingForInterrupt'
    BY <1>2, <2>2, <2>4 DEF WaitingForInterrupt, WaitingForWrite, Pending
  <2>6. QED
    BY <2>1, <2>3, <2>5 DEF DriverOK
<1>5. QED
  BY <1>3, <1>4

\* The clock, hd_handler and the answer.
LEMMA HandlerLemma ==
  ASSUME Records, DriverOK, HdHandler
  PROVE  Records' /\ DriverOK'
<1>1. irq /\ irq' = FALSE /\ has_int' = TRUE /\ UNCHANGED <<pc, mask, job, drive>>
  BY DEF HdHandler, hdVars
<1>2. pc = "int" /\ WaitingForInterrupt
  BY <1>1 DEF DriverOK, AtRest, WaitingForDrive, GivenUp, Pending
<1>3. Pending /\ Pending' /\ ~(irq /\ has_int)'
  BY <1>1 DEF Pending
<1>4. WaitingForInterrupt'
  BY <1>1, <1>2, <1>3 DEF WaitingForInterrupt, WaitingForRead, WaitingForWrite, JobOK
<1>5. Records'
  BY <1>1 DEF Records
<1>6. QED
  BY <1>1, <1>2, <1>4, <1>5 DEF DriverOK

LEMMA ReplyLemma ==
  ASSUME Records, DriverOK, Reply
  PROVE  Records' /\ DriverOK'
<1>1. pc = "reply" /\ AtRest /\ pc' = "recv" /\ UNCHANGED <<drive, job, irq, has_int>>
  BY DEF DriverOK, Reply, devVars
<1>2. AtRest'
  BY <1>1 DEF AtRest, Pending
<1>3. QED
  BY <1>1, <1>2, RecordsLemma DEF DriverOK

\* interrupt_wait returns: the drive has raised its interrupt, and no other.
LEMMA InterruptLemma ==
  ASSUME Records, DriverOK, Interrupt, UNCHANGED irq
  PROVE  /\ WaitingForInterrupt /\ Pending /\ JobOK /\ drive.cmd = job.cmd
         /\ ~irq' /\ ~has_int' /\ irq' \in BOOLEAN /\ has_int' \in BOOLEAN
<1>1. pc = "int" /\ has_int /\ has_int' = FALSE
  BY DEF Interrupt
<1>2. WaitingForInterrupt
  BY <1>1 DEF DriverOK
<1>3. QED
  BY <1>1, <1>2 DEF WaitingForInterrupt, Pending, Records

\* The sector is read: the next comes, or the command is done.
LEMMA PortReadLemma ==
  ASSUME Records, WaitingForInterrupt, Pending, job.cmd # "WRITE", PortRead,
         irq' \in BOOLEAN, has_int' \in BOOLEAN
  PROVE  /\ drive' = [st |-> IF job.left > 1 THEN "busy" ELSE "idle", cmd |-> drive.cmd,
                      lba |-> drive.lba + 1, n |-> job.left - 1, full |-> drive.full,
                      data |-> drive.data]
         /\ drive'.full \in BOOLEAN
<1>1. drive.n = job.left
  BY DEF WaitingForInterrupt, WaitingForRead
<1>2. QED
  BY <1>1 DEF PortRead, Records

LEMMA ReadSectorLemma ==
  ASSUME Records, DriverOK, ReadSector
  PROVE  Records' /\ DriverOK'
<1>1. Interrupt /\ PortRead /\ UNCHANGED irq /\ job.cmd = "READ" /\ job.use = "rdwt"
  BY DEF ReadSector
<1>2. /\ WaitingForInterrupt /\ Pending /\ JobOK /\ drive.cmd = job.cmd
      /\ ~irq' /\ ~has_int' /\ irq' \in BOOLEAN /\ has_int' \in BOOLEAN
  BY <1>1, InterruptLemma
<1>3. /\ drive' = [st |-> IF job.left > 1 THEN "busy" ELSE "idle", cmd |-> drive.cmd,
                   lba |-> drive.lba + 1, n |-> job.left - 1, full |-> drive.full,
                   data |-> drive.data]
      /\ drive'.full \in BOOLEAN
  BY <1>1, <1>2, PortReadLemma
<1>4. job' = [job EXCEPT !.left = @ - 1] /\ pc' = IF job.left = 1 THEN "reply" ELSE "int"
  BY DEF ReadSector
<1>5. job' = [cmd |-> "READ", lba |-> job.lba, left |-> job.left - 1, use |-> "rdwt"]
  BY <1>1, <1>4 DEF Records
<1>6. Records'
  BY <1>2, <1>3, <1>5 DEF Records
<1>7. CASE job.left = 1
  <2>1. AtRest'
    BY <1>2, <1>3, <1>7 DEF AtRest, Pending
  <2>2. QED
    BY <1>4, <1>6, <1>7, <2>1 DEF DriverOK
<1>8. CASE job.left # 1
  <2>1. job.left \in Nat \ {0} /\ job.left > 1 /\ job.left - 1 \in Nat \ {0}
    BY <1>2, <1>8 DEF JobOK
  <2>2. JobOK'
    BY <1>5, <2>1 DEF JobOK
  <2>3. WaitingForInterrupt'
    BY <1>1, <1>2, <1>3, <1>5, <2>1, <2>2 DEF WaitingForInterrupt, WaitingForRead, Pending
  <2>4. QED
    BY <1>4, <1>6, <1>8, <2>3 DEF DriverOK
<1>9. QED
  BY <1>7, <1>8

LEMMA SectorWrittenLemma ==
  ASSUME Records, DriverOK, SectorWritten
  PROVE  Records' /\ DriverOK'
<1>1. Interrupt /\ UNCHANGED <<irq, drive>> /\ job.cmd = "WRITE"
      /\ job' = [job EXCEPT !.left = @ - 1]
  BY DEF SectorWritten, devVars
<1>2. /\ WaitingForInterrupt /\ Pending /\ JobOK /\ drive.cmd = job.cmd
      /\ ~irq' /\ ~has_int' /\ irq' \in BOOLEAN /\ has_int' \in BOOLEAN
  BY <1>1, InterruptLemma
<1>3. drive.n = job.left - 1 /\ ~drive.full /\ drive.st = IF job.left = 1 THEN "idle" ELSE "drq"
  BY <1>1, <1>2 DEF WaitingForInterrupt, WaitingForWrite
<1>4. job' = [cmd |-> "WRITE", lba |-> job.lba, left |-> job.left - 1, use |-> job.use]
      /\ job.use = "rdwt"
  BY <1>1, <1>2 DEF Records, JobOK
<1>5. Records'
  BY <1>1, <1>2, <1>4 DEF Records
<1>6. CASE job.left = 1
  <2>1. pc' = "reply"
    BY <1>6 DEF SectorWritten
  <2>2. AtRest'
    BY <1>1, <1>2, <1>3, <1>6 DEF AtRest, Pending
  <2>3. QED
    BY <1>5, <2>1, <2>2 DEF DriverOK
<1>7. CASE job.left # 1
  <2>1. pc' = "wait" /\ mask' = "DRQ"
    BY <1>7 DEF SectorWritten, Waitfor
  <2>2. job.left - 1 \in Nat \ {0}
    BY <1>2, <1>7 DEF JobOK
  <2>3. WaitingForDrive'
    BY <1>1, <1>2, <1>3, <1>4, <1>7, <2>1, <2>2 DEF WaitingForDrive, JobOK, Pending
  <2>4. QED
    BY <1>5, <2>1, <2>3 DEF DriverOK
<1>8. QED
  BY <1>6, <1>7

\* The identity and the tables are one sector each: the drive is at rest, and the next
\* command is a table, or there is none.
LEMMA TableLemma ==
  ASSUME Records, DriverOK, Identified \/ PrimaryRead \/ SubRead
  PROVE  Records' /\ DriverOK'
<1>1. Interrupt /\ PortRead /\ UNCHANGED irq /\ job.use # "rdwt"
  BY DEF Identified, PrimaryRead, SubRead
<1>2. /\ WaitingForInterrupt /\ Pending /\ JobOK /\ drive.cmd = job.cmd
      /\ ~irq' /\ ~has_int' /\ irq' \in BOOLEAN /\ has_int' \in BOOLEAN
  BY <1>1, InterruptLemma
<1>3. job.left = 1 /\ job.cmd # "WRITE"
  BY <1>1, <1>2 DEF JobOK
<1>4. /\ drive' = [st |-> "idle", cmd |-> drive.cmd,
                   lba |-> drive.lba + 1, n |-> 0, full |-> drive.full, data |-> drive.data]
      /\ drive'.full \in BOOLEAN
  BY <1>1, <1>2, <1>3, PortReadLemma
<1>5. \/ pc' = "reply" /\ UNCHANGED job
      \/ \E lba : Command("READ", lba, 1, "table")
  BY DEF Identified, PrimaryRead, SubRead, NextExtended
<1>6. CASE pc' = "reply" /\ UNCHANGED job
  <2>1. AtRest'
    BY <1>2, <1>4 DEF AtRest, Pending
  <2>2. Records'
    BY <1>2, <1>4, <1>6 DEF Records
  <2>3. QED
    BY <1>6, <2>1, <2>2 DEF DriverOK
<1>7. ASSUME NEW lba, Command("READ", lba, 1, "table") PROVE Records' /\ DriverOK'
  <2>1. pc' = "wait" /\ mask' = "BSY"
        /\ job' = [cmd |-> "READ", lba |-> lba, left |-> 1, use |-> "table"]
    BY <1>7 DEF Command, Waitfor
  <2>2. Records'
    BY <1>2, <1>4, <2>1 DEF Records
  <2>3. WaitingForDrive'
    BY <1>2, <1>4, <2>1 DEF WaitingForDrive, JobOK, Pending
  <2>4. QED
    BY <2>1, <2>2, <2>3 DEF DriverOK
<1>8. QED
  BY <1>5, <1>6, <1>7

----------------------------------------------------------------------------
\* FS, INIT and the power

\* A message to the driver, and what is left of the call.
LEMMA SubmitLemma ==
  ASSUME IInv, NEW r, Asks(r), RwSector(r), Asking(todo')
  PROVE  IInv'
<1>1. /\ req' = [type |-> r.type, dev |-> r.dev, pos |-> r.pos, cnt |-> r.cnt]
      /\ UNCHANGED <<pc, mask, job, drive, irq, has_int>>
  BY DEF RwSector, Submit, hdVars, devVars
<1>2. ReqOK'
  BY <1>1 DEF ReqOK, Asks
<1>3. Records' /\ DriverOK'
  BY <1>1 DEF IInv, Records, DriverOK, AtRest, WaitingForDrive, WaitingForInterrupt, GivenUp,
              WaitingForRead, WaitingForWrite, Coming, Pending, JobOK
<1>4. QED
  BY <1>2, <1>3 DEF IInv

\* Where neither the driver nor the drive does anything.
LEMMA SameLemma ==
  ASSUME IInv, UNCHANGED <<req, pc, mask, job, drive, irq, has_int>>, Asking(todo')
  PROVE  IInv'
  BY DEF IInv, ReqOK, Records, DriverOK, AtRest, WaitingForDrive, WaitingForInterrupt, GivenUp,
         WaitingForRead, WaitingForWrite, Coming, Pending, JobOK

LEMMA DriverStep ==
  ASSUME IInv, HdNext, UNCHANGED <<bootVars, untarVars>>
  PROVE  IInv'
<1>1. Records /\ DriverOK /\ ReqOK /\ Asking(todo)
  BY DEF IInv
<1>2. Records' /\ DriverOK'
  BY <1>1, DriveReadyLemma, ReceiveLemma, WaitforLemma, ReadyLemma, HandlerLemma, ReplyLemma,
     ReadSectorLemma, SectorWrittenLemma, TableLemma DEF HdNext, Hd
<1>3. Asking(todo')
  BY <1>1 DEF bootVars
<1>4. req' = req \/ req' = NoReq
  BY DEF HdNext, Hd, HdOpen, HdRdwt, HdIoctl, UnknownMsg, GetTicks, StatusNot, HdCmdOut, PortWrite,
         ReadSector, SectorWritten, Identified, PrimaryRead, SubRead, Reply, HdHandler, DriveReady,
         Tick, fsVars
<1>5. ReqOK'
  BY <1>1, <1>4 DEF ReqOK
<1>6. QED
  BY <1>2, <1>3, <1>5 DEF IInv

LEMMA InitFsStep ==
  ASSUME IInv, InitFs
  PROVE  IInv'
<1>1. CASE Ask
  <2>1. todo # <<>> /\ RwSector(Head(todo)) /\ todo' = Tail(todo) /\ Asking(todo)
    BY <1>1 DEF Ask, IInv
  <2>2. Asks(Head(todo)) /\ Asking(todo')
    BY <2>1, RestLemma
  <2>3. QED
    BY <2>1, <2>2, SubmitLemma
<1>2. CASE ProbeAnswered \/ ReadSuperBlock \/ MkfsAnswered \/ RootAnswered
  <2>1. UNCHANGED <<req, pc, mask, job, drive, irq, has_int>>
    BY <1>2 DEF ProbeAnswered, ReadSuperBlock, MkfsAnswered, RootAnswered, hdSysVars, fsVars, hdVars,
                devVars
  <2>2. todo' \in {Format, <<Rd(SUPER)>>, Mkfs, <<Rd(INODES)>>, <<>>}
    BY <1>2 DEF ProbeAnswered, ReadSuperBlock, MkfsAnswered, RootAnswered, Go
  <2>3. Asking(todo')
    BY <2>2, RequestsLemma, SectorLemma
  <2>4. QED
    BY <2>1, <2>3, SameLemma
<1>3. QED
  BY <1>1, <1>2 DEF InitFs

LEMMA UntarLemma ==
  ASSUME IInv, UntarStep
  PROVE  IInv'
<1>1. ASSUME NEW requests, NEW to, Call(requests, to), Asking(requests) PROVE IInv'
  <2>1. UNCHANGED <<req, pc, mask, job, drive, irq, has_int>> /\ todo' = requests
    BY <1>1 DEF Call, hdSysVars, fsVars, hdVars, devVars
  <2>2. Asking(todo')
    BY <1>1, <2>1
  <2>3. QED
    BY <2>1, <2>2, SameLemma
<1>2. CASE OpenTar
  BY <1>1, <1>2, RequestsLemma DEF OpenTar
<1>3. CASE ReadHeader
  BY <1>1, <1>3, SectorLemma DEF ReadHeader
<1>4. CASE Extract
  BY <1>1, <1>4, RequestsLemma DEF Extract
<1>5. CASE ReadData
  BY <1>1, <1>5, SectorLemma DEF ReadData
<1>6. CASE WriteData
  <2> DEFINE x == Inode(init.ino)
             first == <<Wr(x[3], buf[0])>>
             rest == IF x[4] < 1
                     THEN <<Wr(INODES, SyncInode(OnRoot(INODES), x[2], x[3], 1))>> ELSE <<>>
  <2>1. Call(first \o rest, [init EXCEPT !.at = "next"])
    BY <1>6 DEF WriteData
  <2>2. Asking(first) /\ Asking(rest)
    BY SectorLemma
  <2> HIDE DEF first, rest
  <2>3. QED
    BY <1>1, <2>1, <2>2, ConcatLemma
<1>7. CASE Finish
  <2> DEFINE last == IF init.nr > 0 THEN <<Wr(TAR, {})>> ELSE <<>>
  <2>1. Call(last, [init EXCEPT !.at = "run"])
    BY <1>7 DEF Finish
  <2>2. Asking(last)
    BY SectorLemma
  <2> HIDE DEF last
  <2>3. QED
    BY <1>1, <2>1, <2>2
<1>8. QED
  BY <1>2, <1>3, <1>4, <1>5, <1>6, <1>7 DEF UntarStep

\* After the power is back the driver and the drive start anew.
LEMMA PowerLemma ==
  ASSUME PowerOff
  PROVE  IInv'
<1>1. /\ req' = NoReq /\ pc' = "recv" /\ job' = NoJob /\ irq' = FALSE /\ has_int' = FALSE
      /\ drive' = IdleDrive /\ todo' = Probe
  BY DEF PowerOff, PowerFails
<1>2. Records' /\ DriverOK'
  BY <1>1 DEF Records, DriverOK, AtRest, Pending, IdleDrive, NoJob
<1>3. Asking(todo')
  BY <1>1, RequestsLemma
<1>4. QED
  BY <1>1, <1>2, <1>3 DEF IInv, ReqOK

LEMMA StartLemma ==
  ASSUME Init
  PROVE  IInv
<1>1. /\ req = NoReq /\ pc = "recv" /\ job = NoJob /\ irq = FALSE /\ has_int = FALSE
      /\ drive = IdleDrive /\ todo = Probe
  BY DEF Init, BootInit, HdInit
<1>2. Records /\ DriverOK
  BY <1>1 DEF Records, DriverOK, AtRest, Pending, IdleDrive, NoJob
<1>3. QED
  BY <1>1, <1>2, RequestsLemma DEF IInv, ReqOK

LEMMA StepLemma ==
  ASSUME IInv, [Next]_vars
  PROVE  IInv'
<1>1. ASSUME NEW r \in Files, File(r) PROVE IInv'
  <2>1. RwSector(r) /\ Asking(todo')
    BY <1>1 DEF File, IInv
  <2>2. Asks(r)
    BY BootAssumption DEF Asks
  <2>3. QED
    BY <2>1, <2>2, SubmitLemma
<1>2. CASE UNCHANGED vars
  <2>1. UNCHANGED <<req, pc, mask, job, drive, irq, has_int, todo>>
    BY <1>2 DEF vars, hdSysVars, fsVars, hdVars, devVars, bootVars
  <2>2. Asking(todo')
    BY <2>1 DEF IInv
  <2>3. QED
    BY <2>1, <2>2, SameLemma
<1>3. QED
  BY <1>1, <1>2, DriverStep, InitFsStep, UntarLemma, PowerLemma DEF Next

----------------------------------------------------------------------------
\* Theorems

\* The inductive invariant: at each place of the driver, what the drive is doing, how many
\* sectors it still has to give or take, and whether its interrupt is to come, raised or
\* latched.
THEOREM DriverInvariant == Spec => []IInv
<1>1. Init => IInv
  BY StartLemma
<1>2. IInv /\ [Next]_vars => IInv'
  BY StepLemma
<1>3. QED
  BY <1>1, <1>2, PTL DEF Spec

\* One interrupt for each wait of the driver (hd.c: interrupt_wait, hd_handler, waitfor), for
\* every layout of the disk, archive and sequence of requests, with power failures at any step:
\* no interrupt is lost to a poll of the status, and none reaches the main loop.
THEOREM DriverPairsInterrupts == Spec => []InterruptsPaired
<1>1. IInv => InterruptsPaired
  <2>1. SUFFICES ASSUME IInv PROVE InterruptsPaired
    OBVIOUS
  <2>2. CASE pc = "int" /\ WaitingForInterrupt
    <3>1. ~(irq /\ has_int) /\ (Coming => ~Pending) /\ (Pending \/ Coming)
      BY <2>2 DEF WaitingForInterrupt, WaitingForRead, WaitingForWrite, Coming
    <3>2. QED
      BY <2>2, <3>1 DEF InterruptsPaired, Pending
  <2>3. CASE pc \in {"recv", "reply"} /\ AtRest
    BY <2>3 DEF InterruptsPaired, AtRest, Pending, Coming
  <2>4. CASE pc \in {"wait", "status"} /\ WaitingForDrive
    BY <2>4 DEF InterruptsPaired, WaitingForDrive, Pending, Coming
  <2>5. CASE pc = "panic" /\ GivenUp
    BY <2>5 DEF InterruptsPaired, GivenUp, Pending
  <2>6. QED
    BY <2>1, <2>2, <2>3, <2>4, <2>5 DEF IInv, DriverOK
<1>2. QED
  BY <1>1, DriverInvariant, PTL

----------------------------------------------------------------------------
(* The partitions.  At each point of partition() what it has entered in      *)
(* hd_info is what the layout says, and the table it asks for is the next of *)
(* the chain; FS opens the device before it asks for anything else.          *)

Busy == pc \in {"wait", "status", "int"}
Nr(i, k) == (i - 1) * NR_SUB_PER_PART + (k - 1)   \* its place in hd_info.logical
Subs(i) == Layout[i].subs

FoundPrimary ==
  \A i \in 1 .. NR_PART_PER_DRIVE : Layout[i].kind # "none" =>
    hd_info.primary[i] = [base |-> Layout[i].base, size |-> Layout[i].size]
FoundSubs(i, n) ==
  \A k \in 1 .. n :
    hd_info.logical[Nr(i, k)] = [base |-> Subs(i)[k].base, size |-> Subs(i)[k].size]
FoundBefore(j) == \A i \in Extended : i < j => FoundSubs(i, Len(Subs(i)))
AllFound == FoundPrimary /\ \A i \in Extended : FoundSubs(i, Len(Subs(i)))

\* The records and the tables of the driver.
InfoOK ==
  /\ hd_info = [open_cnt |-> hd_info.open_cnt, primary |-> hd_info.primary,
                logical |-> hd_info.logical]
  /\ hd_info.open_cnt \in Nat
  /\ DOMAIN hd_info.primary = 0 .. NR_PART_PER_DRIVE
  /\ DOMAIN hd_info.logical = 0 .. NR_SUB_PER_DRIVE - 1
  /\ hd_info.primary[0].base = 0
  /\ walk = [j |-> walk.j, k |-> walk.k, s |-> walk.s]

\* partition() waits for the table of the partition k + 1 of the extended partition j.
Walking ==
  /\ FoundPrimary /\ FoundBefore(walk.j) /\ FoundSubs(walk.j, walk.k)
  /\ walk.j \in Extended /\ walk.k \in 0 .. Len(Subs(walk.j)) - 1
  /\ walk.s = Subs(walk.j)[walk.k + 1].table /\ job.lba = walk.s

\* The device is not open: FS has still to ask for that, or waits for it.
Opening ==
  /\ stage = "probe"
  /\ \/ req = NoReq /\ todo = Probe
     \/ req # NoReq /\ req.type = "DEV_OPEN" /\ todo = <<Rd(SUPER)>>

\* Whom the driver works for, and what it knows.
JobKnown ==
  /\ pc # "recv" => req # NoReq
  /\ Busy => /\ job.use \in {"identify", "table", "rdwt"}
             /\ IF job.use = "rdwt" THEN req.type \in {"DEV_READ", "DEV_WRITE"}
                ELSE req.type = "DEV_OPEN"
  /\ pc = "reply" /\ req.type = "DEV_OPEN" => hd_info.open_cnt > 0
TablesFound ==
  IF Busy /\ job.use = "table"
  THEN /\ hd_info.open_cnt > 0
       /\ IF walk.j = 0 THEN job.lba = 0 ELSE Walking
  ELSE hd_info.open_cnt > 0 /\ pc # "panic" => AllFound
OpenedFirst == hd_info.open_cnt = 0 => Opening

PInv == InfoOK /\ JobKnown /\ TablesFound /\ OpenedFirst

----------------------------------------------------------------------------
\* The tables on the disk

LEMMA LayoutLemma ==
  /\ NR_PART_PER_DRIVE \in Nat /\ NR_SUB_PER_PART \in Nat \ {0} /\ MINOR_hd1a \in Nat
  /\ MINOR_hd1a >= MAX_PRIM /\ MAX_PRIM = 2 * NR_PART_PER_DRIVE + 1
  /\ Extended \subseteq 1 .. NR_PART_PER_DRIVE
  /\ \A i \in 1 .. NR_PART_PER_DRIVE :
       /\ Layout[i].kind \in {"none", "plain", "extended"} /\ Layout[i].base \in Nat
       /\ i \in Extended <=> Layout[i].kind = "extended"
  /\ \A i \in Extended :
       /\ Len(Subs(i)) \in 1 .. NR_SUB_PER_PART /\ Subs(i)[1].table = Layout[i].base
       /\ DOMAIN Subs(i) = 1 .. Len(Subs(i))
       /\ \A k \in 1 .. Len(Subs(i)) :
            Subs(i)[k].table \in Nat \ {0} /\ Subs(i)[k].base \in Nat
<1> DEFINE S == [table : Nat \ {0}, base : Nat, size : Nat]
           P == [kind : {"none", "plain", "extended"}, base : Nat, size : Nat, subs : Seq(S)]
<1>1. Layout \in Seq(P)
  BY LayoutAssumption
<1>2. NR_PART_PER_DRIVE \in Nat /\ \A i \in 1 .. NR_PART_PER_DRIVE : Layout[i] \in P
  <2> HIDE DEF P
  <2>1. QED
    BY <1>1 DEF NR_PART_PER_DRIVE
<1>3. \A i \in 1 .. NR_PART_PER_DRIVE :
        /\ Layout[i].kind \in {"none", "plain", "extended"} /\ Layout[i].base \in Nat
        /\ Subs(i) \in Seq(S)
  BY <1>2 DEF Subs
<1>4. Extended \subseteq 1 .. NR_PART_PER_DRIVE
      /\ \A i \in 1 .. NR_PART_PER_DRIVE : i \in Extended <=> Layout[i].kind = "extended"
  BY DEF Extended
<1>5. ASSUME NEW i \in Extended
      PROVE  /\ Len(Subs(i)) \in 1 .. NR_SUB_PER_PART /\ Subs(i)[1].table = Layout[i].base
             /\ DOMAIN Subs(i) = 1 .. Len(Subs(i))
             /\ \A k \in 1 .. Len(Subs(i)) :
                  Subs(i)[k].table \in Nat \ {0} /\ Subs(i)[k].base \in Nat
  <2>1. Len(Subs(i)) \in 1 .. NR_SUB_PER_PART /\ Subs(i)[1].table = Layout[i].base
    BY LayoutAssumption DEF Subs
  <2>2. Subs(i) \in Seq(S)
    BY <1>3, <1>4
  <2>3. DOMAIN Subs(i) = 1 .. Len(Subs(i)) /\ \A k \in 1 .. Len(Subs(i)) : Subs(i)[k] \in S
    <3> HIDE DEF S
    <3>1. QED
      BY <2>2
  <2>4. QED
    BY <2>1, <2>3
<1>6. MAX_PRIM = 2 * NR_PART_PER_DRIVE + 1
  BY <1>2 DEF MAX_PRIM
<1>7. QED
  BY <1>2, <1>3, <1>4, <1>5, <1>6, HdAssumption

LEMMA CountsLemma ==
  /\ NR_PART_PER_DRIVE \in Nat /\ NR_SUB_PER_PART \in Nat \ {0}
  /\ \A i \in Extended : i \in 1 .. NR_PART_PER_DRIVE /\ i \in Nat
BY LayoutLemma

LEMMA ChainLemma ==
  ASSUME NEW i \in Extended
  PROVE  /\ Len(Subs(i)) \in 1 .. NR_SUB_PER_PART /\ Len(Subs(i)) \in Nat
         /\ \A k \in 1 .. Len(Subs(i)) : /\ k \in 1 .. NR_SUB_PER_PART
                                         /\ Subs(i)[k].table \in Nat /\ Subs(i)[k].base \in Nat
<1>1. /\ Len(Subs(i)) \in 1 .. NR_SUB_PER_PART
      /\ \A k \in 1 .. Len(Subs(i)) : Subs(i)[k].table \in Nat \ {0} /\ Subs(i)[k].base \in Nat
  BY LayoutLemma
<1>2. QED
  BY <1>1, CountsLemma

\* A table in the chain of an extended partition is nowhere else.
LEMMA TableAtLemma ==
  ASSUME NEW i \in Extended, NEW k \in 1 .. Len(Subs(i))
  PROVE  TableAt(Subs(i)[k].table) = SubTable(Layout[i], k)
<1> DEFINE s == Subs(i)[k].table
           C == Extended \X (1 .. NR_SUB_PER_PART)
           At(x) == x[2] <= Len(Layout[x[1]].subs) /\ Layout[x[1]].subs[x[2]].table = s
           at == CHOOSE x \in C : At(x)
<1>1. s # 0 /\ k \in 1 .. NR_SUB_PER_PART /\ k \in DOMAIN Subs(i) /\ Len(Subs(i)) \in Nat
      /\ NR_SUB_PER_PART \in Nat
  BY LayoutLemma
<1>2. <<i, k>> \in C /\ At(<<i, k>>)
  BY <1>1 DEF Subs
<1>3. at \in C /\ At(at)
  <2> HIDE DEF C, At
  <2>1. QED
    BY <1>2
<1>4. /\ at[1] \in Extended /\ at[2] \in DOMAIN Subs(at[1])
      /\ Subs(at[1])[at[2]].table = Subs(i)[k].table
  <2> HIDE DEF at
  <2>1. at[1] \in Extended /\ at[2] \in 1 .. NR_SUB_PER_PART
    BY <1>3
  <2>2. at[2] <= Len(Subs(at[1])) /\ Subs(at[1])[at[2]].table = s
    BY <1>3 DEF Subs
  <2>3. QED
    BY <2>1, <2>2, LayoutLemma
<1>5. at[1] = i /\ at[2] = k
  <2> HIDE DEF at
  <2>1. \A j \in Extended, m \in DOMAIN Subs(i) : \A l \in DOMAIN Subs(j) :
           Subs(i)[m].table = Subs(j)[l].table => i = j /\ m = l
    BY LayoutAssumption DEF Subs
  <2>2. \A j \in Extended : \A l \in DOMAIN Subs(j) :
           Subs(i)[k].table = Subs(j)[l].table => i = j /\ k = l
    BY <1>1, <2>1, Zenon
  <2>3. QED
    BY <1>4, <2>2
<1>6. TableAt(s) = SubTable(Layout[at[1]], at[2])
  BY <1>1 DEF TableAt
<1>7. QED
  BY <1>5, <1>6

\* The first table, and the entries of the others.
LEMMA EntriesLemma ==
  /\ \A i \in 1 .. NR_PART_PER_DRIVE :
       /\ TableAt(0)[i].sys_id = "NO_PART" <=> Layout[i].kind = "none"
       /\ TableAt(0)[i].sys_id = "EXT_PART" <=> i \in Extended
       /\ Layout[i].kind # "none" => /\ TableAt(0)[i].start_sect = Layout[i].base
                                     /\ TableAt(0)[i].nr_sects = Layout[i].size
  /\ \A i \in Extended : \A k \in 1 .. Len(Subs(i)) :
       LET t == TableAt(Subs(i)[k].table)
       IN  /\ t[1].start_sect = Subs(i)[k].base - Subs(i)[k].table
           /\ t[1].nr_sects = Subs(i)[k].size
           /\ t[2].sys_id = "NO_PART" <=> k = Len(Subs(i))
           /\ k # Len(Subs(i)) => t[2].start_sect = Subs(i)[k + 1].table - Layout[i].base
<1>1. ASSUME NEW i \in 1 .. NR_PART_PER_DRIVE
      PROVE  /\ TableAt(0)[i].sys_id = "NO_PART" <=> Layout[i].kind = "none"
             /\ TableAt(0)[i].sys_id = "EXT_PART" <=> i \in Extended
             /\ Layout[i].kind # "none" => /\ TableAt(0)[i].start_sect = Layout[i].base
                                           /\ TableAt(0)[i].nr_sects = Layout[i].size
  <2>1. TableAt(0)[i] = CASE Layout[i].kind = "none" -> NoEntry
                          [] Layout[i].kind = "plain" -> Entry("ORANGES_PART", Layout[i].base, Layout[i].size)
                          [] OTHER -> Entry("EXT_PART", Layout[i].base, Layout[i].size)
    BY DEF TableAt, PrimaryTable
  <2>2. Layout[i].kind \in {"none", "plain", "extended"}
        /\ (i \in Extended <=> Layout[i].kind = "extended")
    BY LayoutLemma
  <2>3. CASE Layout[i].kind = "none"
    BY <2>1, <2>2, <2>3 DEF NoEntry, Entry
  <2>4. CASE Layout[i].kind = "plain"
    BY <2>1, <2>2, <2>4 DEF Entry
  <2>5. CASE Layout[i].kind = "extended"
    BY <2>1, <2>2, <2>5 DEF Entry
  <2>6. QED
    BY <2>2, <2>3, <2>4, <2>5
<1>2. ASSUME NEW i \in Extended, NEW k \in 1 .. Len(Subs(i))
      PROVE  LET t == SubTable(Layout[i], k)
             IN  /\ t[1].start_sect = Subs(i)[k].base - Subs(i)[k].table
                 /\ t[1].nr_sects = Subs(i)[k].size
                 /\ t[2].sys_id = "NO_PART" <=> k = Len(Subs(i))
                 /\ k # Len(Subs(i)) => t[2].start_sect = Subs(i)[k + 1].table - Layout[i].base
  BY DEF SubTable, Entry, NoEntry, Subs
<1>3. QED
  BY <1>1, <1>2, TableAtLemma

\* Two logical partitions have two places.
LEMMA NrLemma ==
  /\ \A i \in 1 .. NR_PART_PER_DRIVE, k \in 1 .. NR_SUB_PER_PART :
       Nr(i, k) \in 0 .. NR_SUB_PER_DRIVE - 1
  /\ \A i, j \in 1 .. NR_PART_PER_DRIVE, k, l \in 1 .. NR_SUB_PER_PART :
       Nr(i, k) = Nr(j, l) => i = j /\ k = l
<1> DEFINE N == NR_SUB_PER_PART
           M == NR_PART_PER_DRIVE
<1>1. N \in Nat \ {0} /\ M \in Nat
  BY LayoutLemma
<1> HIDE DEF N, M
<1>2. ASSUME NEW x \in Nat, NEW y \in Nat, x < y
      PROVE  x * N \in Nat /\ y * N \in Nat /\ x * N + N <= y * N
  <2>1. PICK z \in Nat : y = x + 1 + z
    <3>1. y - x - 1 \in Nat
      BY <1>2
    <3>2. QED
      BY <3>1
  <2>2. y * N = x * N + N + z * N
    BY <1>1, <2>1
  <2>3. x * N \in Nat /\ y * N \in Nat /\ z * N \in Nat
    BY <1>1
  <2>4. QED
    BY <1>1, <2>2, <2>3
<1>3. ASSUME NEW i \in 1 .. M, NEW j \in 1 .. M, NEW k \in 1 .. N, NEW l \in 1 .. N, i < j
      PROVE  (i - 1) * N + (k - 1) < (j - 1) * N + (l - 1)
  <2>1. i - 1 \in Nat /\ j - 1 \in Nat /\ i - 1 < j - 1
    BY <1>1, <1>3
  <2>2. (i - 1) * N \in Nat /\ (j - 1) * N \in Nat /\ (i - 1) * N + N <= (j - 1) * N
    BY <1>2, <2>1
  <2>3. QED
    BY <1>1, <2>2
<1>4. ASSUME NEW i \in 1 .. M, NEW k \in 1 .. N
      PROVE  (i - 1) * N + (k - 1) \in 0 .. N * M - 1
  <2>1. i - 1 \in Nat /\ i - 1 < M
    BY <1>1
  <2>2. (i - 1) * N \in Nat /\ M * N \in Nat /\ (i - 1) * N + N <= M * N
    BY <1>1, <1>2, <2>1
  <2>3. M * N = N * M
    BY <1>1
  <2>4. QED
    BY <1>1, <2>2, <2>3
<1>5. ASSUME NEW i \in 1 .. M, NEW j \in 1 .. M, NEW k \in 1 .. N, NEW l \in 1 .. N,
             (i - 1) * N + (k - 1) = (j - 1) * N + (l - 1)
      PROVE  i = j /\ k = l
  <2>1. (i - 1) * N \in Int /\ (j - 1) * N \in Int
    BY <1>1
  <2>2. i = j
    BY <1>1, <1>3, <1>5, <2>1
  <2>3. QED
    BY <1>1, <1>5, <2>1, <2>2
<1>6. QED
  BY <1>4, <1>5 DEF Nr, NR_SUB_PER_DRIVE, N, M

LEMMA LeastLemma ==
  ASSUME NEW S \in SUBSET Nat, S # {}
  PROVE  Min(S) \in S /\ \A y \in S : Min(S) <= y
<1> DEFINE R == OpToRel(<, Nat)
<1>1. R = {r \in Nat \X Nat : r[1] < r[2]}
  BY DEF OpToRel
<1>2. IsWellFoundedOn(R, Nat)
  BY NatLessThanWellFounded
<1> HIDE DEF R
<1>3. PICK x \in S : \A y \in S : ~ (<<y, x>> \in R)
  BY <1>2, WFMin
<1>4. ASSUME NEW y \in S PROVE x <= y
  <2>1. ~ (y < x)
    BY <1>1, <1>3
  <2>2. QED
    BY <2>1
<1>5. QED
  BY <1>4 DEF Min

----------------------------------------------------------------------------
\* partition()

\* After the tables of the extended partitions up to j, those of the next, if there is one.
LEMMA NextExtendedLemma ==
  ASSUME NEW j \in 0 .. NR_PART_PER_DRIVE, NextExtended(TableAt(0), j),
         FoundPrimary', (\A i \in Extended : i <= j => FoundSubs(i, Len(Subs(i))))'
  PROVE  \/ pc' = "reply" /\ AllFound' /\ UNCHANGED <<job, walk>>
         \/ pc' = "wait" /\ job'.use = "table" /\ walk'.j # 0 /\ Walking'
            /\ walk' = [j |-> walk'.j, k |-> walk'.k, s |-> walk'.s]
<1> DEFINE more == {i \in j + 1 .. NR_PART_PER_DRIVE : TableAt(0)[i].sys_id = "EXT_PART"}
           m == Min(more)
<1>1. more = {i \in Extended : i > j} /\ more \in SUBSET Nat
  <2>1. \A i \in 1 .. NR_PART_PER_DRIVE : TableAt(0)[i].sys_id = "EXT_PART" <=> i \in Extended
    BY EntriesLemma
  <2>2. QED
    BY <2>1, CountsLemma
<1>2. CASE more = {}
  <2>1. \A i \in Extended : i <= j
    <3>1. \A i \in Extended : ~ (i > j)
      BY <1>1, <1>2
    <3>2. QED
      BY <3>1, CountsLemma
  <2>2. AllFound'
    BY <2>1 DEF AllFound
  <2>3. QED
    BY <1>2, <2>2 DEF NextExtended
<1>3. CASE more # {}
  <2>1. m \in more /\ \A y \in more : m <= y
    <3> HIDE DEF more
    <3>1. QED
      BY <1>1, <1>3, LeastLemma
  <2>2. /\ walk' = [j |-> m, k |-> 0, s |-> TableAt(0)[m].start_sect]
        /\ Command("READ", walk'.s, 1, "table")
    BY <1>3 DEF NextExtended
  <2> HIDE DEF m
  <2>3. m \in Extended /\ m > j /\ \A i \in Extended : i < m => i <= j
    <3> HIDE DEF more
    <3>1. QED
      BY <1>1, <2>1, CountsLemma
  <2>4. TableAt(0)[m].start_sect = Subs(m)[1].table /\ Len(Subs(m)) \in Nat \ {0} /\ m # 0
    BY <2>3, EntriesLemma, LayoutLemma
  <2>5. /\ pc' = "wait"
        /\ job' = [cmd |-> "READ", lba |-> walk'.s, left |-> 1, use |-> "table"]
    BY <2>2 DEF Command, Waitfor
  <2>6. FoundBefore(m)' /\ FoundSubs(m, 0)'
    BY <2>3 DEF FoundBefore, FoundSubs
  <2>7. walk'.j = m /\ walk'.k = 0 /\ walk'.s = Subs(m)[1].table
    BY <2>2, <2>4
  <2>8. Walking'
    BY <2>3, <2>4, <2>5, <2>6, <2>7 DEF Walking
  <2>9. QED
    BY <2>2, <2>4, <2>5, <2>7, <2>8
<1>4. QED
  BY <1>2, <1>3

\* Where partition() ends or goes on with a table.
LEMMA WalkedLemma ==
  ASSUME PInv, InfoOK', hd_info'.open_cnt > 0, Busy, req' = req, req.type = "DEV_OPEN",
         \/ pc' = "reply" /\ AllFound'
         \/ pc' = "wait" /\ job'.use = "table" /\ (IF walk'.j = 0 THEN job'.lba = 0 ELSE Walking')
  PROVE  PInv'
<1>1. req # NoReq
  BY DEF PInv, JobKnown, Busy
<1>2. JobKnown'
  BY <1>1 DEF JobKnown, Busy
<1>3. TablesFound'
  BY DEF TablesFound, Busy
<1>4. OpenedFirst'
  BY DEF OpenedFirst, InfoOK
<1>5. QED
  BY <1>2, <1>3, <1>4 DEF PInv

LEMMA IdentifiedFinds ==
  ASSUME PInv, Identified
  PROVE  PInv'
<1>1. /\ pc = "int" /\ job.use = "identify" /\ req' = req
      /\ hd_info' = [hd_info EXCEPT !.primary[0] = [base |-> 0, size |-> DiskSize],
                                    !.open_cnt = @ + 1]
  BY DEF Identified, Interrupt, fsVars
<1>2. /\ hd_info'.open_cnt = hd_info.open_cnt + 1 /\ hd_info'.logical = hd_info.logical
      /\ hd_info'.primary = [hd_info.primary EXCEPT ![0] = [base |-> 0, size |-> DiskSize]]
      /\ hd_info' = [open_cnt |-> hd_info'.open_cnt, primary |-> hd_info'.primary,
                     logical |-> hd_info'.logical]
  BY <1>1 DEF PInv, InfoOK
<1>3. Busy /\ req.type = "DEV_OPEN"
  BY <1>1 DEF PInv, JobKnown, Busy
<1>4. /\ DOMAIN hd_info'.primary = 0 .. NR_PART_PER_DRIVE /\ hd_info'.primary[0].base = 0
      /\ \A i \in 1 .. NR_PART_PER_DRIVE : hd_info'.primary[i] = hd_info.primary[i]
  <2>1. DOMAIN hd_info.primary = 0 .. NR_PART_PER_DRIVE
    BY DEF PInv, InfoOK
  <2>2. PICK f, g : /\ f = hd_info.primary /\ g = hd_info'.primary
                    /\ g = [f EXCEPT ![0] = [base |-> 0, size |-> DiskSize]]
    BY <1>2
  <2>3. DOMAIN g = 0 .. NR_PART_PER_DRIVE /\ g[0] = [base |-> 0, size |-> DiskSize]
    BY <2>1, <2>2, CountsLemma
  <2>4. \A i \in 1 .. NR_PART_PER_DRIVE : g[i] = f[i]
    BY <2>1, <2>2, CountsLemma
  <2>5. g[0].base = 0
    BY <2>3
  <2>6. QED
    BY <2>2, <2>3, <2>4, <2>5
<1>5. hd_info'.open_cnt \in Nat /\ hd_info'.open_cnt > 0
  BY <1>2 DEF PInv, InfoOK
<1>6. CASE hd_info.open_cnt = 0
  <2>1. /\ Command("READ", 0, 1, "table") /\ walk' = [j |-> 0, k |-> 0, s |-> 0]
    BY <1>6 DEF Identified
  <2>2. pc' = "wait" /\ job'.use = "table" /\ job'.lba = 0 /\ walk'.j = 0
    BY <2>1 DEF Command, Waitfor
  <2>3. InfoOK'
    BY <1>2, <1>4, <1>5, <2>1 DEF PInv, InfoOK
  <2>4. QED
    BY <1>1, <1>3, <1>5, <2>2, <2>3, WalkedLemma
<1>7. CASE hd_info.open_cnt # 0
  <2>1. pc' = "reply" /\ walk' = walk
    BY <1>7 DEF Identified
  <2>2. InfoOK'
    BY <1>2, <1>4, <1>5, <2>1 DEF PInv, InfoOK
  <2>3. AllFound
    BY <1>1, <1>7 DEF PInv, TablesFound, InfoOK
  <2>4. FoundPrimary'
    BY <1>4, <2>3 DEF AllFound, FoundPrimary
  <2>5. \A i \in Extended : FoundSubs(i, Len(Subs(i)))'
    BY <1>2, <2>3 DEF AllFound, FoundSubs
  <2>6. AllFound'
    BY <2>4, <2>5 DEF AllFound
  <2>7. QED
    BY <1>1, <1>3, <1>5, <2>1, <2>2, <2>6, WalkedLemma
<1>8. QED
  BY <1>6, <1>7

LEMMA PrimaryReadFinds ==
  ASSUME PInv, PrimaryRead
  PROVE  PInv'
<1>1. /\ pc = "int" /\ job.use = "table" /\ req' = req /\ NextExtended(TableAt(0), 0)
      /\ hd_info' = [hd_info EXCEPT !.primary = [i \in DOMAIN hd_info.primary |->
                       IF i = 0 \/ TableAt(0)[i].sys_id = "NO_PART" THEN hd_info.primary[i]
                       ELSE [base |-> TableAt(0)[i].start_sect, size |-> TableAt(0)[i].nr_sects]]]
  BY DEF PrimaryRead, Interrupt, fsVars
<1>2. /\ hd_info'.open_cnt = hd_info.open_cnt /\ hd_info'.logical = hd_info.logical
      /\ hd_info'.primary = [i \in DOMAIN hd_info.primary |->
                       IF i = 0 \/ TableAt(0)[i].sys_id = "NO_PART" THEN hd_info.primary[i]
                       ELSE [base |-> TableAt(0)[i].start_sect, size |-> TableAt(0)[i].nr_sects]]
      /\ hd_info' = [open_cnt |-> hd_info'.open_cnt, primary |-> hd_info'.primary,
                     logical |-> hd_info'.logical]
  BY <1>1 DEF PInv, InfoOK
<1>3. Busy /\ req.type = "DEV_OPEN" /\ hd_info.open_cnt > 0
  BY <1>1 DEF PInv, JobKnown, TablesFound, Busy
<1>4. DOMAIN hd_info.primary = 0 .. NR_PART_PER_DRIVE /\ NR_PART_PER_DRIVE \in Nat
  BY LayoutLemma DEF PInv, InfoOK
<1>5. DOMAIN hd_info'.primary = 0 .. NR_PART_PER_DRIVE /\ hd_info'.primary[0].base = 0
  <2>1. hd_info'.primary[0] = hd_info.primary[0]
    BY <1>2, <1>4
  <2>2. QED
    BY <1>2, <1>4, <2>1 DEF PInv, InfoOK
<1>6. FoundPrimary'
  <2>1. SUFFICES ASSUME NEW i \in 1 .. NR_PART_PER_DRIVE, Layout[i].kind # "none"
                 PROVE  hd_info'.primary[i] = [base |-> Layout[i].base, size |-> Layout[i].size]
    BY DEF FoundPrimary
  <2>2. TableAt(0)[i].sys_id # "NO_PART" /\ TableAt(0)[i].start_sect = Layout[i].base
        /\ TableAt(0)[i].nr_sects = Layout[i].size
    BY <2>1, EntriesLemma
  <2>3. QED
    BY <1>2, <1>4, <2>2
<1>7. (\A i \in Extended : i <= 0 => FoundSubs(i, Len(Subs(i))))' /\ 0 \in 0 .. NR_PART_PER_DRIVE
  BY <1>4, LayoutLemma
<1>8. \/ pc' = "reply" /\ AllFound' /\ UNCHANGED <<job, walk>>
      \/ pc' = "wait" /\ job'.use = "table" /\ walk'.j # 0 /\ Walking'
         /\ walk' = [j |-> walk'.j, k |-> walk'.k, s |-> walk'.s]
  BY <1>1, <1>6, <1>7, NextExtendedLemma
<1>9. InfoOK'
  BY <1>2, <1>5, <1>8 DEF PInv, InfoOK
<1>10. QED
  BY <1>1, <1>2, <1>3, <1>8, <1>9, WalkedLemma

LEMMA SubReadFinds ==
  ASSUME PInv, SubRead
  PROVE  PInv'
<1>0. PICK j, k : j = walk.j /\ k = walk.k + 1
  OBVIOUS
<1> DEFINE t == TableAt(job.lba)
           nr == (walk.j - 1) * NR_SUB_PER_PART + walk.k
           found == [base |-> walk.s + t[1].start_sect, size |-> t[1].nr_sects]
<1>1. /\ pc = "int" /\ job.use = "table" /\ walk.j # 0 /\ req' = req
      /\ hd_info' = [hd_info EXCEPT !.logical[nr] = found]
  BY DEF SubRead, Interrupt, fsVars
<1>2. /\ hd_info'.open_cnt = hd_info.open_cnt /\ hd_info'.primary = hd_info.primary
      /\ hd_info'.logical = [hd_info.logical EXCEPT ![nr] = found]
      /\ hd_info' = [open_cnt |-> hd_info'.open_cnt, primary |-> hd_info'.primary,
                     logical |-> hd_info'.logical]
  <2> HIDE DEF nr, found
  <2>1. QED
    BY <1>1 DEF PInv, InfoOK
<1>3. Busy /\ req.type = "DEV_OPEN" /\ hd_info.open_cnt > 0 /\ Walking
  BY <1>1 DEF PInv, JobKnown, TablesFound, Busy
<1>4. /\ j \in Extended /\ j \in 1 .. NR_PART_PER_DRIVE /\ k \in 1 .. Len(Subs(j))
      /\ Len(Subs(j)) \in 1 .. NR_SUB_PER_PART /\ NR_SUB_PER_PART \in Nat /\ walk.k \in Nat
      /\ walk.s = Subs(j)[k].table /\ job.lba = Subs(j)[k].table
      /\ Subs(j)[k].table \in Nat /\ Subs(j)[k].base \in Nat
  <2>1. j \in Extended /\ walk.k \in 0 .. Len(Subs(j)) - 1 /\ walk.s = Subs(j)[k].table
        /\ job.lba = walk.s
    BY <1>0, <1>3 DEF Walking
  <2>2. Len(Subs(j)) \in Nat /\ k \in 1 .. Len(Subs(j)) /\ walk.k \in Nat
    BY <1>0, <2>1, ChainLemma
  <2>3. QED
    BY <2>1, <2>2, ChainLemma, CountsLemma
<1>5. nr = Nr(j, k) /\ k \in 1 .. NR_SUB_PER_PART /\ nr \in DOMAIN hd_info.logical
  <2>1. nr = Nr(j, k) /\ k \in 1 .. NR_SUB_PER_PART
    BY <1>0, <1>4 DEF Nr
  <2>2. Nr(j, k) \in 0 .. NR_SUB_PER_DRIVE - 1
    BY <1>4, <2>1, NrLemma
  <2>3. QED
    BY <2>1, <2>2 DEF PInv, InfoOK
<1>6. /\ t[1].start_sect = Subs(j)[k].base - Subs(j)[k].table
      /\ t[1].nr_sects = Subs(j)[k].size
      /\ t[2].sys_id = "NO_PART" <=> k = Len(Subs(j))
      /\ k # Len(Subs(j)) => t[2].start_sect = Subs(j)[k + 1].table - Layout[j].base
  <2>1. \A i \in Extended : \A l \in 1 .. Len(Subs(i)) :
          LET u == TableAt(Subs(i)[l].table)
          IN  /\ u[1].start_sect = Subs(i)[l].base - Subs(i)[l].table
              /\ u[1].nr_sects = Subs(i)[l].size
              /\ u[2].sys_id = "NO_PART" <=> l = Len(Subs(i))
              /\ l # Len(Subs(i)) => u[2].start_sect = Subs(i)[l + 1].table - Layout[i].base
    BY EntriesLemma
  <2>2. t = TableAt(Subs(j)[k].table)
    BY <1>4
  <2> HIDE DEF t
  <2>3. QED
    BY <1>4, <2>1, <2>2
<1>7. found = [base |-> Subs(j)[k].base, size |-> Subs(j)[k].size]
  <2>1. walk.s + t[1].start_sect = Subs(j)[k].base
    BY <1>4, <1>6
  <2>2. QED
    BY <1>6, <2>1
<1>8. \A i \in 1 .. NR_PART_PER_DRIVE, l \in 1 .. NR_SUB_PER_PART :
        hd_info'.logical[Nr(i, l)] = IF i = j /\ l = k THEN found ELSE hd_info.logical[Nr(i, l)]
  <2>1. TAKE i \in 1 .. NR_PART_PER_DRIVE, l \in 1 .. NR_SUB_PER_PART
  <2>2. Nr(i, l) \in DOMAIN hd_info.logical
    BY NrLemma DEF PInv, InfoOK
  <2>3. Nr(i, l) = Nr(j, k) <=> i = j /\ l = k
    <3>1. \A a, b \in 1 .. NR_PART_PER_DRIVE, c, d \in 1 .. NR_SUB_PER_PART :
            Nr(a, c) = Nr(b, d) => a = b /\ c = d
      BY NrLemma
    <3>2. j \in 1 .. NR_PART_PER_DRIVE /\ k \in 1 .. NR_SUB_PER_PART
      BY <1>4, <1>5
    <3>3. QED
      BY <3>1, <3>2, Zenon
  <2> HIDE DEF nr, found
  <2>4. QED
    BY <1>2, <1>5, <2>2, <2>3
<1>9. FoundPrimary'
  BY <1>2, <1>3 DEF Walking, FoundPrimary
<1>10. FoundBefore(j)' /\ FoundSubs(j, k)'
  <2>1. ASSUME NEW i \in Extended, i < j PROVE FoundSubs(i, Len(Subs(i)))'
    <3>1. i \in 1 .. NR_PART_PER_DRIVE /\ i # j
      BY <1>4, <2>1, CountsLemma
    <3>2. FoundSubs(i, Len(Subs(i)))
      BY <1>0, <1>3, <2>1 DEF Walking, FoundBefore
    <3>3. \A l \in 1 .. Len(Subs(i)) : l \in 1 .. NR_SUB_PER_PART
      BY ChainLemma
    <3>4. QED
      BY <1>8, <3>1, <3>2, <3>3 DEF FoundSubs
  <2>2. FoundSubs(j, walk.k)
    BY <1>0, <1>3 DEF Walking
  <2>3. \A l \in 1 .. k : l \in 1 .. NR_SUB_PER_PART /\ (l # k => l \in 1 .. walk.k)
    BY <1>0, <1>4
  <2>4. FoundSubs(j, k)'
    <3>1. SUFFICES ASSUME NEW l \in 1 .. k
                   PROVE  hd_info'.logical[Nr(j, l)]
                            = [base |-> Subs(j)[l].base, size |-> Subs(j)[l].size]
      BY DEF FoundSubs
    <3>2. hd_info'.logical[Nr(j, l)] = IF l = k THEN found ELSE hd_info.logical[Nr(j, l)]
      <4> HIDE DEF found
      <4>1. QED
        BY <1>4, <1>8, <2>3
    <3>3. l # k => hd_info.logical[Nr(j, l)] = [base |-> Subs(j)[l].base, size |-> Subs(j)[l].size]
      BY <2>2, <2>3 DEF FoundSubs
    <3> HIDE DEF found
    <3>4. QED
      BY <1>7, <3>2, <3>3
  <2>5. FoundBefore(j)'
    BY <2>1 DEF FoundBefore
  <2>6. QED
    BY <2>4, <2>5
<1>11. CASE t[2].sys_id = "NO_PART" \/ walk.k + 1 = NR_SUB_PER_PART
  <2>0. NextExtended(TableAt(0), j)
    BY <1>0, <1>11 DEF SubRead
  <2>1. k = Len(Subs(j))
    BY <1>0, <1>4, <1>6, <1>11
  <2>2. (\A i \in Extended : i <= j => FoundSubs(i, Len(Subs(i))))'
    <3>1. \A i \in Extended : i <= j => i < j \/ i = j
      BY <1>4, CountsLemma
    <3>2. \A i \in Extended : i < j => FoundSubs(i, Len(Subs(i)))'
      BY <1>10 DEF FoundBefore
    <3>3. QED
      BY <1>10, <2>1, <3>1, <3>2
  <2>3. \/ pc' = "reply" /\ AllFound' /\ UNCHANGED <<job, walk>>
        \/ pc' = "wait" /\ job'.use = "table" /\ walk'.j # 0 /\ Walking'
           /\ walk' = [j |-> walk'.j, k |-> walk'.k, s |-> walk'.s]
    <3>1. j \in 0 .. NR_PART_PER_DRIVE
      BY <1>4
    <3>2. QED
      BY <1>9, <2>0, <2>2, <3>1, NextExtendedLemma
  <2>4. InfoOK'
    BY <1>2, <1>5, <2>3 DEF PInv, InfoOK
  <2>5. QED
    BY <1>1, <1>2, <1>3, <2>3, <2>4, WalkedLemma
<1>12. CASE ~ (t[2].sys_id = "NO_PART" \/ walk.k + 1 = NR_SUB_PER_PART)
  <2> DEFINE s == hd_info.primary[walk.j].base + t[2].start_sect
  <2>1. /\ walk' = [walk EXCEPT !.k = @ + 1, !.s = s]
        /\ Command("READ", s, 1, "table")
    BY <1>12 DEF SubRead
  <2>2. k # Len(Subs(j)) /\ k + 1 \in 1 .. Len(Subs(j))
    BY <1>0, <1>4, <1>6, <1>12
  <2>3. s = Subs(j)[k + 1].table
    <3>1. Layout[j].kind # "none" /\ Layout[j].base \in Nat
      BY <1>4, LayoutLemma
    <3>2. hd_info.primary[j] = [base |-> Layout[j].base, size |-> Layout[j].size]
      BY <1>3, <1>4, <3>1 DEF Walking, FoundPrimary
    <3>3. hd_info.primary[walk.j].base = Layout[j].base
      BY <1>0, <3>2
    <3>4. Subs(j)[k + 1].table \in Nat
      BY <1>4, <2>2, ChainLemma
    <3>5. t[2].start_sect = Subs(j)[k + 1].table - Layout[j].base
      BY <1>6, <2>2
    <3> HIDE DEF t
    <3>6. QED
      BY <3>1, <3>3, <3>4, <3>5
  <2> HIDE DEF s
  <2>4. walk' = [j |-> j, k |-> k, s |-> s]
    BY <1>0, <2>1 DEF PInv, InfoOK
  <2>5. /\ pc' = "wait" /\ job' = [cmd |-> "READ", lba |-> s, left |-> 1, use |-> "table"]
    BY <2>1 DEF Command, Waitfor
  <2>6. walk'.j = j /\ walk'.k = k /\ walk'.s = s /\ job'.lba = s /\ job'.use = "table"
    BY <2>4, <2>5
  <2>7. Walking'
    <3>1. k \in 0 .. Len(Subs(j)) - 1
      BY <1>4, <2>2
    <3>2. QED
      BY <1>4, <1>9, <1>10, <2>3, <2>6, <3>1 DEF Walking, FoundBefore, FoundSubs
  <2>8. InfoOK'
    BY <1>2, <1>5, <2>4, <2>6 DEF PInv, InfoOK
  <2>9. QED
    BY <1>1, <1>2, <1>3, <1>4, <2>5, <2>6, <2>7, <2>8, WalkedLemma
<1>13. QED
  BY <1>11, <1>12

----------------------------------------------------------------------------
\* The other steps

LEMMA KeepsInfo ==
  ASSUME PInv, UNCHANGED <<hd_info, walk>>
  PROVE  InfoOK' /\ (AllFound => AllFound') /\ hd_info'.open_cnt = hd_info.open_cnt
BY DEF PInv, InfoOK, AllFound, FoundPrimary, FoundSubs

\* The driver takes a message, waits, or gives or takes a sector.
LEMMA DriverKeeps ==
  ASSUME IInv, PInv, HdNext, UNCHANGED <<stage, todo>>, ~ Identified, ~ PrimaryRead, ~ SubRead
  PROVE  PInv'
<1>1. UNCHANGED <<hd_info, walk>>
  BY DEF HdNext, Hd, HdOpen, HdRdwt, HdIoctl, UnknownMsg, GetTicks, StatusNot, HdCmdOut, PortWrite,
         ReadSector, SectorWritten, Reply, HdHandler, DriveReady, Tick, hdVars
<1>2. InfoOK' /\ (AllFound => AllFound') /\ hd_info'.open_cnt = hd_info.open_cnt
  BY <1>1, KeepsInfo
<1>3. JobKnown /\ TablesFound /\ OpenedFirst /\ hd_info.open_cnt \in Nat
  BY DEF PInv, InfoOK
<1>4. ASSUME JobKnown', TablesFound', req' = req PROVE PInv'
  <2>1. OpenedFirst'
    BY <1>2, <1>3, <1>4 DEF OpenedFirst, Opening
  <2>2. QED
    BY <1>2, <1>4, <2>1 DEF PInv
<1>5. CASE DriveReady \/ HdHandler \/ Tick
  <2>1. UNCHANGED <<pc, job, req>>
    BY <1>5 DEF DriveReady, HdHandler, Tick, hdVars, fsVars
  <2>2. JobKnown'
    BY <1>2, <1>3, <2>1 DEF JobKnown, Busy
  <2>3. TablesFound'
    BY <1>1, <1>2, <1>3, <2>1 DEF TablesFound, Busy, Walking, FoundPrimary, FoundBefore, FoundSubs
  <2>4. QED
    BY <1>4, <2>1, <2>2, <2>3
<1>6. CASE HdOpen \/ HdRdwt
  <2>1. pc = "recv" /\ req # NoReq /\ req' = req /\ pc' = "wait" /\ job'.use # "table"
        /\ job'.use \in {"identify", "rdwt"}
        /\ IF job'.use = "rdwt" THEN req.type \in {"DEV_READ", "DEV_WRITE"}
           ELSE req.type = "DEV_OPEN"
    BY <1>6 DEF HdOpen, HdRdwt, Receive, Command, Waitfor, fsVars
  <2>2. JobKnown'
    BY <2>1 DEF JobKnown, Busy
  <2>3. TablesFound'
    BY <1>2, <1>3, <2>1 DEF TablesFound, Busy
  <2>4. QED
    BY <1>4, <2>1, <2>2, <2>3
<1>7. CASE HdIoctl
  <2>1. pc = "recv" /\ req # NoReq /\ req' = req /\ pc' = "reply" /\ req.type # "DEV_OPEN"
    BY <1>7 DEF HdIoctl, Receive
  <2>2. JobKnown'
    BY <2>1 DEF JobKnown, Busy
  <2>3. TablesFound'
    BY <1>2, <1>3, <2>1 DEF TablesFound, Busy
  <2>4. QED
    BY <1>4, <2>1, <2>2, <2>3
<1>8. CASE GetTicks \/ StatusNot \/ HdCmdOut \/ PortWrite
  <2>1. Busy /\ pc' \in {"wait", "status", "int", "panic"} /\ UNCHANGED <<job, req>>
    BY <1>8 DEF GetTicks, StatusNot, HdCmdOut, PortWrite, Busy, Waitfor, fsVars
  <2>2. JobKnown'
    BY <1>3, <2>1 DEF JobKnown, Busy
  <2>3. TablesFound'
    <3>1. CASE pc' = "panic"
      BY <3>1 DEF TablesFound, Busy
    <3>2. CASE pc' # "panic" /\ job.use = "table"
      BY <1>1, <1>2, <1>3, <2>1, <3>2
         DEF TablesFound, Busy, Walking, FoundPrimary, FoundBefore, FoundSubs
    <3>3. CASE pc' # "panic" /\ job.use # "table"
      BY <1>2, <1>3, <2>1, <3>3 DEF TablesFound, Busy
    <3>4. QED
      BY <3>1, <3>2, <3>3
  <2>4. QED
    BY <1>4, <2>1, <2>2, <2>3
<1>9. CASE ReadSector \/ SectorWritten
  <2>1. pc = "int" /\ req' = req /\ pc' \in {"reply", "int", "wait"} /\ job'.use = job.use
    BY <1>9 DEF ReadSector, SectorWritten, Interrupt, Waitfor, fsVars, IInv, Records
  <2>2. job.use = "rdwt"
    BY <1>9, <2>1 DEF ReadSector, SectorWritten, IInv, DriverOK, WaitingForInterrupt, JobOK
  <2>3. JobKnown'
    BY <1>3, <2>1, <2>2 DEF JobKnown, Busy
  <2>4. TablesFound'
    BY <1>2, <1>3, <2>1, <2>2 DEF TablesFound, Busy
  <2>5. QED
    BY <1>4, <2>1, <2>3, <2>4
<1>10. CASE Reply
  <2>1. pc = "reply" /\ pc' = "recv" /\ req' = NoReq
    BY <1>10 DEF Reply
  <2>2. JobKnown'
    BY <2>1 DEF JobKnown, Busy, NoReq
  <2>3. TablesFound'
    BY <1>2, <1>3, <2>1 DEF TablesFound, Busy
  <2>4. hd_info.open_cnt # 0
    BY <1>3, <2>1 DEF JobKnown, OpenedFirst, Opening
  <2>5. OpenedFirst'
    BY <1>2, <2>4 DEF OpenedFirst
  <2>6. QED
    BY <1>2, <2>2, <2>3, <2>5 DEF PInv
<1>11. ~ UnknownMsg
  BY DEF UnknownMsg, IInv, DriverOK, AtRest, Pending
<1>12. QED
  BY <1>5, <1>6, <1>7, <1>8, <1>9, <1>10, <1>11 DEF HdNext, Hd

\* What FS and INIT do with the driver waiting for them.
LEMMA ClientKeeps ==
  ASSUME PInv, UNCHANGED hdVars, JobKnown', OpenedFirst'
  PROVE  PInv'
<1>1. UNCHANGED <<pc, job, walk, hd_info>>
  BY DEF hdVars
<1>2. TablesFound'
  BY <1>1, KeepsInfo
     DEF PInv, TablesFound, Busy, Walking, FoundPrimary, FoundBefore, FoundSubs
<1>3. QED
  BY <1>1, <1>2, KeepsInfo DEF PInv

LEMMA SubmitKeeps ==
  ASSUME PInv, NEW r, Asks(r), RwSector(r), stage' = stage,
         hd_info.open_cnt = 0 => r.type = "DEV_OPEN" /\ todo' = <<Rd(SUPER)>>
  PROVE  PInv'
<1>1. /\ req = NoReq /\ UNCHANGED hdVars
      /\ req' = [type |-> r.type, dev |-> r.dev, pos |-> r.pos, cnt |-> r.cnt]
  BY DEF RwSector, Submit
<1>2. req'.type = r.type /\ req' # NoReq
  BY <1>1 DEF Asks, NoReq
<1>3. UNCHANGED <<pc, hd_info>> /\ pc = "recv"
  BY <1>1 DEF hdVars, PInv, JobKnown
<1>4. JobKnown'
  BY <1>3 DEF JobKnown, Busy
<1>5. OpenedFirst'
  BY <1>2, <1>3 DEF PInv, OpenedFirst, Opening
<1>6. QED
  BY <1>1, <1>4, <1>5, ClientKeeps

LEMMA AnsweredKeeps ==
  ASSUME PInv, UNCHANGED hdSysVars, hd_info.open_cnt # 0
  PROVE  PInv'
<1>1. UNCHANGED hdVars /\ UNCHANGED <<req, pc, job, hd_info>>
  BY DEF hdSysVars, fsVars, hdVars
<1>2. JobKnown' /\ OpenedFirst'
  BY <1>1 DEF PInv, JobKnown, OpenedFirst, Busy
<1>3. QED
  BY <1>1, <1>2, ClientKeeps

\* The device is open when nothing is left of the stage.
LEMMA OpenLemma ==
  ASSUME PInv, (req = NoReq /\ todo = <<>>) \/ stage = "up"
  PROVE  hd_info.open_cnt # 0
<1>1. Probe # <<>> /\ <<Rd(SUPER)>> # <<>>
  BY DEF Probe
<1>2. QED
  BY <1>1 DEF PInv, OpenedFirst, Opening

LEMMA StartsClosed ==
  ASSUME hd_info = NoInfo, walk = NoWalk, pc = "recv", req = NoReq, stage = "probe", todo = Probe
  PROVE  PInv
<1>1. InfoOK
  BY LayoutLemma DEF InfoOK, NoInfo, NoWalk, Unknown
<1>2. hd_info.open_cnt = 0
  BY DEF NoInfo
<1>3. JobKnown /\ TablesFound /\ OpenedFirst
  BY <1>2 DEF JobKnown, TablesFound, OpenedFirst, Opening, Busy
<1>4. QED
  BY <1>1, <1>3 DEF PInv

LEMMA StepFinds ==
  ASSUME IInv, PInv, [Next]_vars
  PROVE  PInv'
<1>1. CASE HdNext /\ UNCHANGED <<bootVars, untarVars>>
  <2>1. UNCHANGED <<stage, todo>>
    BY <1>1 DEF bootVars
  <2>2. QED
    BY <1>1, <2>1, IdentifiedFinds, PrimaryReadFinds, SubReadFinds, DriverKeeps
<1>2. CASE Ask
  <2>1. todo # <<>> /\ RwSector(Head(todo)) /\ todo' = Tail(todo) /\ stage' = stage /\ req = NoReq
    BY <1>2 DEF Ask, RwSector, Submit
  <2>2. Asks(Head(todo))
    BY <2>1, RestLemma DEF IInv
  <2>3. hd_info.open_cnt = 0 => Head(todo).type = "DEV_OPEN" /\ todo' = <<Rd(SUPER)>>
    <3>1. SUFFICES ASSUME hd_info.open_cnt = 0
                   PROVE  Head(todo).type = "DEV_OPEN" /\ todo' = <<Rd(SUPER)>>
      OBVIOUS
    <3>2. todo = Probe
      BY <2>1, <3>1 DEF PInv, OpenedFirst, Opening
    <3>3. Head(todo) = Op("DEV_OPEN") /\ Tail(todo) = <<Rd(SUPER)>>
      BY <3>2 DEF Probe
    <3>4. QED
      BY <2>1, <3>3 DEF Op
  <2>4. QED
    BY <2>1, <2>2, <2>3, SubmitKeeps
<1>3. CASE ProbeAnswered \/ ReadSuperBlock \/ MkfsAnswered \/ RootAnswered
  <2>1. UNCHANGED hdSysVars /\ req = NoReq /\ todo = <<>>
    BY <1>3 DEF ProbeAnswered, ReadSuperBlock, MkfsAnswered, RootAnswered, Answered
  <2>2. QED
    BY <2>1, OpenLemma, AnsweredKeeps
<1>4. CASE UntarStep
  <2>1. UNCHANGED hdSysVars /\ stage = "up"
    BY <1>4 DEF UntarStep, OpenTar, ReadHeader, Extract, ReadData, WriteData, Finish, Call, Returned
  <2>2. QED
    BY <2>1, OpenLemma, AnsweredKeeps
<1>5. ASSUME NEW r \in Files, File(r) PROVE PInv'
  <2>1. RwSector(r) /\ stage = "up" /\ stage' = stage /\ Asks(r)
    BY <1>5, BootAssumption DEF File, Asks
  <2>2. hd_info.open_cnt # 0
    BY <2>1, OpenLemma
  <2>3. QED
    BY <2>1, <2>2, SubmitKeeps
<1>6. CASE PowerOff
  <2>1. (hd_info = NoInfo /\ walk = NoWalk /\ pc = "recv" /\ req = NoReq /\ stage = "probe"
           /\ todo = Probe)'
    BY <1>6 DEF PowerOff, PowerFails
  <2>2. (hd_info = NoInfo /\ walk = NoWalk /\ pc = "recv" /\ req = NoReq /\ stage = "probe"
           /\ todo = Probe)' => PInv'
    BY StartsClosed, PTL
  <2>3. QED
    BY <2>1, <2>2
<1>7. CASE UNCHANGED vars
  <2>1. UNCHANGED hdVars /\ UNCHANGED <<req, pc, job, hd_info, todo, stage>>
    BY <1>7 DEF vars, hdSysVars, fsVars, hdVars, bootVars
  <2>2. JobKnown' /\ OpenedFirst'
    BY <2>1 DEF PInv, JobKnown, OpenedFirst, Opening, Busy
  <2>3. QED
    BY <2>1, <2>2, ClientKeeps
<1>8. QED
  BY <1>1, <1>2, <1>3, <1>4, <1>5, <1>6, <1>7 DEF Next, InitFs

\* partition() (hd.c:221) finds every partition where the layout has it, for every layout
\* that a partitioning program leaves, however long its chains, and after every power
\* failure; and FS asks for no sector before it has.
THEOREM DriverFindsPartitions == Spec => [](PInv /\ PartitionsFound)
<1>1. Init => PInv
  BY StartsClosed DEF Init, BootInit, HdInit
<1>2. IInv /\ PInv /\ [Next]_vars => PInv'
  BY StepFinds
<1>3. PInv => PartitionsFound
  <2>1. SUFFICES ASSUME PInv, hd_info.open_cnt > 0, pc = "recv" PROVE AllFound => PartitionsFound
    BY DEF PInv, TablesFound, PartitionsFound, Busy
  <2>2. \A i \in Extended : \A k \in 1 .. Len(Subs(i)) :
          Nr(i, k) = (i - 1) * NR_SUB_PER_PART + k - 1
    BY CountsLemma DEF Nr
  <2>3. QED
    BY <2>2 DEF AllFound, FoundPrimary, FoundSubs, PartitionsFound, Subs
<1>4. QED
  BY <1>1, <1>2, <1>3, DriverInvariant, PTL DEF Spec

----------------------------------------------------------------------------
(* The driver implements module Disk.  A sector is moved when the drive has   *)
(* written it, or when the driver has read it into the buffer of FS; every    *)
(* other step of the driver and the drive is hidden by the mapping.          *)

Lba == Where(req.dev) + req.pos
Moving == Busy /\ job.use = "rdwt"

\* The command is the request, and the drive is at the sector it is to move next.
Aimed ==
  /\ job.cmd = IF req.type = "DEV_READ" THEN "READ" ELSE "WRITE"
  /\ job.lba = Lba
  /\ IF Begun THEN drive.lba = Lba + (req.cnt - drive.n) /\ job.left <= req.cnt
     ELSE job.left = req.cnt

\* What the drive holds is what the sector or the buffer has.
Carried ==
  pc = "int" => IF req.type = "DEV_READ" THEN Pending => drive.data = disk[drive.lba]
                ELSE ~Pending => drive.data = buf[req.cnt - job.left]

Delivered ==
  pc = "reply" /\ req.type \in {"DEV_READ", "DEV_WRITE"} =>
    job.use = "rdwt" /\ IF req.type = "DEV_READ" THEN job.left = 0 ELSE drive.n = 0

TInv == DOMAIN buf = Slots /\ (Moving => Aimed /\ Carried) /\ Delivered

DiskStep == D!Next \/ UNCHANGED D!vars

\* The minor number of a logical partition, and its place in hd_info.logical.
LEMMA MinorLemma ==
  ASSUME NEW i \in Extended, NEW k \in DOMAIN Subs(i), NEW dev,
         dev = MINOR_hd1a + (i - 1) * NR_SUB_PER_PART + (k - 1)
  PROVE  /\ ~ (dev < MAX_PRIM) /\ dev # 0
         /\ (dev - MINOR_hd1a) % NR_SUB_PER_DRIVE = Nr(i, k) /\ k \in 1 .. Len(Subs(i))
         /\ Where(dev) = Subs(i)[k].base /\ Subs(i)[k].base \in Nat
<1>1. /\ NR_PART_PER_DRIVE \in Nat /\ MINOR_hd1a \in Nat /\ MINOR_hd1a >= MAX_PRIM
      /\ MAX_PRIM = 2 * NR_PART_PER_DRIVE + 1
  BY LayoutLemma
<1>2. /\ i \in 1 .. NR_PART_PER_DRIVE /\ k \in 1 .. Len(Subs(i)) /\ k \in 1 .. NR_SUB_PER_PART
      /\ NR_SUB_PER_PART \in Nat \ {0} /\ Subs(i)[k].base \in Nat
  BY LayoutLemma, ChainLemma
<1>3. PICK n : n = Nr(i, k)
  OBVIOUS
<1>4. NR_SUB_PER_DRIVE \in Nat
  BY <1>1, <1>2 DEF NR_SUB_PER_DRIVE
<1>5. n \in 0 .. NR_SUB_PER_DRIVE - 1 /\ n = (i - 1) * NR_SUB_PER_PART + (k - 1) /\ n \in Nat
  <2>1. n \in 0 .. NR_SUB_PER_DRIVE - 1
    BY <1>2, <1>3, NrLemma
  <2>2. n = (i - 1) * NR_SUB_PER_PART + (k - 1)
    BY <1>3 DEF Nr
  <2>3. QED
    BY <1>4, <2>1, <2>2
<1>6. n \div NR_SUB_PER_PART = i - 1 /\ n % NR_SUB_PER_PART = k - 1
  <2>1. \A N \in Nat \ {0} : \A a \in Nat, r \in 0 .. N - 1 :
          (a * N + r) \div N = a /\ (a * N + r) % N = r
    BY SMTT(60)
  <2>2. i - 1 \in Nat /\ k - 1 \in 0 .. NR_SUB_PER_PART - 1
    BY <1>2
  <2>3. QED
    BY <1>2, <1>5, <2>1, <2>2
<1>7. n % NR_SUB_PER_DRIVE = n
  <2>1. \A M \in Nat : \A a \in 0 .. M - 1 : a % M = a
    OBVIOUS
  <2>2. QED
    BY <1>4, <1>5, <2>1
<1>8. dev - MINOR_hd1a = n /\ ~ (dev < MAX_PRIM) /\ dev # 0
  <2>1. (i - 1) * NR_SUB_PER_PART \in Int
    BY <1>2
  <2>2. dev = MINOR_hd1a + n
    BY <1>1, <1>2, <1>5, <2>1
  <2>3. QED
    BY <1>1, <1>5, <2>2
<1>9. Where(dev) = Layout[n \div NR_SUB_PER_PART + 1].subs[(n % NR_SUB_PER_PART) + 1].base
  BY <1>8 DEF Where
<1>10. Where(dev) = Subs(i)[k].base
  BY <1>2, <1>6, <1>9 DEF Subs
<1>11. QED
  BY <1>2, <1>3, <1>7, <1>8, <1>10

LEMMA PrimaryLemma ==
  ASSUME NEW dev \in 1 .. NR_PART_PER_DRIVE
  PROVE  dev < MAX_PRIM /\ dev # 0 /\ Where(dev) = Layout[dev].base /\ Layout[dev].base \in Nat
<1>1. dev < MAX_PRIM /\ dev # 0 /\ Layout[dev].base \in Nat
  BY LayoutLemma
<1>2. QED
  BY <1>1 DEF Where

LEMMA DeviceLemma ==
  ASSUME NEW dev, IsDevice(dev)
  PROVE  Where(dev) \in Nat
<1>1. CASE dev = 0
  BY <1>1 DEF Where
<1>2. QED
  BY <1>1, MinorLemma, PrimaryLemma DEF IsDevice, Subs

\* The driver's table and the layout agree on where a device starts.
LEMMA WhereLemma ==
  ASSUME AllFound, InfoOK, NEW dev, IsDevice(dev)
  PROVE  PartOf(dev).base = Where(dev)
<1>1. CASE dev = 0
  BY <1>1, LayoutLemma DEF PartOf, Where, InfoOK
<1>2. CASE dev \in 1 .. NR_PART_PER_DRIVE /\ Layout[dev].kind # "none"
  <2>1. hd_info.primary[dev] = [base |-> Layout[dev].base, size |-> Layout[dev].size]
    BY <1>2 DEF AllFound, FoundPrimary
  <2>2. QED
    BY <1>2, <2>1, PrimaryLemma DEF PartOf
<1>3. ASSUME NEW i \in Extended, NEW k \in DOMAIN Subs(i),
             dev = MINOR_hd1a + (i - 1) * NR_SUB_PER_PART + (k - 1)
      PROVE  PartOf(dev).base = Where(dev)
  <2>1. /\ ~ (dev < MAX_PRIM) /\ (dev - MINOR_hd1a) % NR_SUB_PER_DRIVE = Nr(i, k)
        /\ k \in 1 .. Len(Subs(i)) /\ Where(dev) = Subs(i)[k].base
    BY <1>3, MinorLemma
  <2>2. hd_info.logical[Nr(i, k)] = [base |-> Subs(i)[k].base, size |-> Subs(i)[k].size]
    BY <2>1 DEF AllFound, FoundSubs
  <2>3. QED
    BY <2>1, <2>2 DEF PartOf
<1>4. QED
  BY <1>1, <1>2, <1>3 DEF IsDevice, Subs

\* FS has opened the device before it reads or writes.
LEMMA KnownLemma ==
  ASSUME PInv, RequestsFit, req # NoReq, req.type \in {"DEV_READ", "DEV_WRITE"}, pc # "panic"
  PROVE  PartOf(req.dev).base = Where(req.dev) /\ Lba \in Nat
<1>1. hd_info.open_cnt > 0
  BY DEF PInv, OpenedFirst, Opening, InfoOK
<1>2. ~ (Busy /\ job.use = "table")
  BY DEF PInv, JobKnown
<1>3. AllFound /\ InfoOK /\ IsDevice(req.dev) /\ req.pos \in Nat
  BY <1>1, <1>2 DEF PInv, TablesFound, RequestsFit
<1>4. PartOf(req.dev).base = Where(req.dev) /\ Where(req.dev) \in Nat
  BY <1>3, WhereLemma, DeviceLemma
<1>5. QED
  BY <1>3, <1>4 DEF Lba

LEMMA MovingLemma ==
  ASSUME IInv, PInv, TInv, RequestsFit, Moving
  PROVE  /\ req # NoReq /\ req.type \in {"DEV_READ", "DEV_WRITE"} /\ Lba \in Nat
         /\ req.cnt \in Nat \ {0} /\ 0 .. req.cnt - 1 \subseteq Slots
         /\ Aimed /\ Carried /\ job.left \in Nat \ {0}
<1>1. req # NoReq /\ req.type \in {"DEV_READ", "DEV_WRITE"} /\ pc # "panic"
  BY DEF Moving, Busy, PInv, JobKnown
<1>2. JobOK
  BY DEF Moving, Busy, IInv, DriverOK, WaitingForDrive, WaitingForInterrupt
<1>3. QED
  BY <1>1, <1>2, KnownLemma DEF TInv, JobOK, RequestsFit, IInv, ReqOK, Asks

\* What the request is to module Disk.
LEMMA WishLemma ==
  ASSUME req # NoReq, req.type \in {"DEV_READ", "DEV_WRITE"}
  PROVE  /\ Wish = [type |-> req.type, lba |-> Lba, cnt |-> req.cnt] /\ Wish # NoReq
         /\ Wish.type = req.type /\ Wish.lba = Lba /\ Wish.cnt = req.cnt
         /\ D!Wanted = 0 .. req.cnt - 1
<1>1. Wish = [type |-> req.type, lba |-> Lba, cnt |-> req.cnt]
  BY DEF Wish, Lba
<1>2. Wish.type = req.type /\ Wish.lba = Lba /\ Wish.cnt = req.cnt /\ NoReq.type = "NONE"
  BY <1>1 DEF NoReq
<1>3. Wish # NoReq
  BY <1>2
<1>4. QED
  BY <1>1, <1>2, <1>3 DEF D!Wanted

LEMMA StutterLemma ==
  ASSUME UNCHANGED <<disk, buf, req, crashes>>, Done' = Done
  PROVE  DiskStep
<1>1. Wish' = Wish
  BY DEF Wish
<1>2. QED
  BY <1>1 DEF DiskStep, D!vars

\* A sector is on the disk.
LEMMA WrittenLemma ==
  ASSUME IInv, PInv, TInv, RequestsFit, DriveReady, UNCHANGED crashes,
         drive.cmd = "WRITE", drive.full
  PROVE  TInv' /\ DiskStep
<1>1. drive.st = "busy" /\ UNCHANGED <<pc, mask, job, has_int, req, buf>>
  BY DEF DriveReady, hdVars, fsVars
<1>2. pc = "int" /\ WaitingForInterrupt /\ ~Pending /\ job.cmd = "WRITE" /\ drive.n = job.left /\ JobOK
  BY <1>1 DEF IInv, DriverOK, AtRest, WaitingForDrive, GivenUp, Coming, WaitingForInterrupt,
              WaitingForRead, WaitingForWrite
<1>3. Moving /\ Begun
  BY <1>2 DEF JobOK, Moving, Busy, Begun
<1>4. /\ req # NoReq /\ req.type = "DEV_WRITE" /\ Lba \in Nat /\ req.cnt \in Nat \ {0}
      /\ 0 .. req.cnt - 1 \subseteq Slots /\ drive.n \in Nat \ {0} /\ drive.n <= req.cnt
      /\ drive.lba = Lba + (req.cnt - drive.n) /\ drive.data = buf[req.cnt - drive.n]
      /\ job.lba = Lba
  BY <1>2, <1>3, MovingLemma DEF Aimed, Carried
<1>5. /\ disk' = [disk EXCEPT ![drive.lba] = drive.data] /\ irq' = TRUE
      /\ drive' = [drive EXCEPT !.st = IF drive.n = 1 THEN "idle" ELSE "drq",
                                !.lba = @ + 1, !.n = @ - 1, !.full = FALSE]
  BY DEF DriveReady
<1>6. drive'.n = drive.n - 1 /\ drive'.lba = drive.lba + 1
  BY <1>5 DEF IInv, Records
<1>7. PICK i : i = req.cnt - drive.n
  OBVIOUS
<1>8. i \in 0 .. req.cnt - 1 /\ i \in Slots
  BY <1>4, <1>7
<1>9. Done = 0 .. i - 1 /\ Done' = 0 .. i
  <2>1. Done = 0 .. req.cnt - drive.n - 1
    BY <1>2, <1>3, <1>4 DEF Done, Begun
  <2>2. Done' = 0 .. req.cnt - drive'.n - 1
    BY <1>1, <1>2, <1>3, <1>4 DEF Done, Begun
  <2>3. QED
    BY <1>4, <1>6, <1>7, <2>1, <2>2
<1>10. D!Move(i)
  <2>1. i \in D!Wanted \ Done /\ Done' = Done \cup {i}
    BY <1>4, <1>8, <1>9, WishLemma
  <2>2. disk' = [disk EXCEPT ![Wish.lba + i] = buf[i]]
    BY <1>4, <1>5, <1>7, WishLemma
  <2>3. Wish' = Wish
    BY <1>1 DEF Wish
  <2>4. QED
    BY <1>1, <1>4, <2>1, <2>2, <2>3, WishLemma DEF D!Move
<1>11. TInv'
  <2>1. (DOMAIN buf = Slots)' /\ Pending' /\ Begun'
    BY <1>1, <1>3, <1>5 DEF TInv, Pending, Begun
  <2>2. drive'.lba = Lba + (req.cnt - drive'.n)
    BY <1>4, <1>6
  <2>3. Aimed'
    BY <1>1, <1>2, <1>3, <1>4, <2>1, <2>2 DEF Aimed, Lba
  <2>4. Carried' /\ Delivered'
    BY <1>1, <1>2, <1>4, <2>1 DEF Carried, Delivered
  <2>5. QED
    BY <2>1, <2>3, <2>4 DEF TInv
<1>12. QED
  BY <1>8, <1>10, <1>11 DEF DiskStep, D!Next

\* Data, or room for data.
LEMMA GivenLemma ==
  ASSUME IInv, PInv, TInv, RequestsFit, DriveReady, UNCHANGED crashes,
         ~ (drive.cmd = "WRITE" /\ drive.full)
  PROVE  TInv' /\ DiskStep
<1>1. drive.st = "busy" /\ UNCHANGED <<pc, mask, job, has_int, req, buf, disk>>
  BY DEF DriveReady, hdVars, fsVars
<1>2. drive'.n = drive.n /\ drive'.lba = drive.lba
  BY DEF DriveReady, IInv, Records
<1>3. Done' = Done /\ Begun' = Begun /\ (Moving' <=> Moving)
  BY <1>1, <1>2 DEF Done, Begun, Moving, Busy
<1>4. Aimed => Aimed'
  BY <1>1, <1>2, <1>3 DEF Aimed, Lba
<1>5. ASSUME Moving, Carried PROVE Carried'
  <2>1. SUFFICES ASSUME pc = "int" PROVE Carried'
    BY <1>1 DEF Carried
  <2>2. WaitingForInterrupt
    BY <2>1 DEF IInv, DriverOK
  <2>3. drive.cmd = "READ" /\ req.type = "DEV_READ"
    BY <1>1, <1>5, <2>2, MovingLemma
       DEF WaitingForInterrupt, WaitingForWrite, Aimed
  <2>4. drive'.data = disk[drive.lba]
    BY <2>3 DEF DriveReady, IInv, Records
  <2>5. QED
    BY <1>1, <1>2, <2>3, <2>4 DEF Carried
<1>6. Delivered'
  BY <1>1, <1>2 DEF TInv, Delivered
<1>7. TInv'
  BY <1>1, <1>3, <1>4, <1>5, <1>6 DEF TInv
<1>8. QED
  BY <1>1, <1>3, <1>7, StutterLemma

\* A sector is in the buffer.
LEMMA ReadMoves ==
  ASSUME IInv, PInv, TInv, RequestsFit, ReadSector, UNCHANGED crashes
  PROVE  TInv' /\ DiskStep
<1>1. /\ pc = "int" /\ job.use = "rdwt" /\ job.cmd = "READ" /\ UNCHANGED <<req, disk, mask, irq>>
      /\ PortRead /\ job' = [job EXCEPT !.left = @ - 1] /\ pc' = IF job.left = 1 THEN "reply" ELSE "int"
      /\ buf' = [buf EXCEPT ![req.cnt - job.left] = drive.data] /\ has_int /\ ~has_int'
  BY DEF ReadSector, Interrupt
<1>2. Moving /\ Begun /\ Pending /\ WaitingForInterrupt
  BY <1>1 DEF Moving, Busy, Begun, Pending, IInv, DriverOK
<1>3. drive.n = job.left /\ ~Pending'
  BY <1>1, <1>2 DEF WaitingForInterrupt, WaitingForRead, Pending
<1>4. /\ req # NoReq /\ req.type = "DEV_READ" /\ Lba \in Nat /\ req.cnt \in Nat \ {0}
      /\ 0 .. req.cnt - 1 \subseteq Slots /\ job.left \in Nat \ {0} /\ job.left <= req.cnt
      /\ drive.lba = Lba + (req.cnt - job.left) /\ drive.data = disk[drive.lba]
      /\ job.lba = Lba
  BY <1>1, <1>2, <1>3, MovingLemma DEF Aimed, Carried
<1>5. /\ job'.left = job.left - 1 /\ job'.use = "rdwt" /\ job'.cmd = "READ" /\ job'.lba = Lba
      /\ drive'.n = drive.n - 1 /\ drive'.lba = drive.lba + 1
  BY <1>1, <1>4 DEF PortRead, IInv, Records
<1>6. PICK i : i = req.cnt - job.left
  OBVIOUS
<1>7. i \in 0 .. req.cnt - 1 /\ i \in Slots
  BY <1>4, <1>6
<1>8. Begun'
  BY <1>1, <1>5 DEF Begun
<1>9. Done = 0 .. i - 1 /\ Done' = 0 .. i
  <2>1. Done = 0 .. req.cnt - job.left - 1
    BY <1>1, <1>2, <1>4 DEF Done
  <2>2. Done' = 0 .. req.cnt - job'.left - 1
    BY <1>1, <1>4, <1>8 DEF Done
  <2>3. QED
    BY <1>4, <1>5, <1>6, <2>1, <2>2
<1>10. D!Move(i)
  <2>1. i \in D!Wanted \ Done /\ Done' = Done \cup {i}
    BY <1>4, <1>7, <1>9, WishLemma
  <2>2. buf' = [buf EXCEPT ![i] = disk[Wish.lba + i]]
    BY <1>1, <1>4, <1>6, WishLemma
  <2>3. Wish' = Wish
    BY <1>1 DEF Wish
  <2>4. QED
    BY <1>1, <1>4, <2>1, <2>2, <2>3, WishLemma DEF D!Move
<1>11. TInv'
  <2>1. (DOMAIN buf = Slots)'
    BY <1>1 DEF TInv
  <2>2. drive'.lba = Lba + (req.cnt - drive'.n) /\ job'.left <= req.cnt
    BY <1>3, <1>4, <1>5
  <2>3. Aimed'
    BY <1>1, <1>4, <1>5, <1>8, <2>2 DEF Aimed, Lba
  <2>4. Carried'
    BY <1>1, <1>3, <1>4 DEF Carried
  <2>5. Delivered'
    BY <1>1, <1>4, <1>5 DEF Delivered
  <2>6. QED
    BY <2>1, <2>3, <2>4, <2>5 DEF TInv
<1>12. QED
  BY <1>7, <1>10, <1>11 DEF DiskStep, D!Next

\* The driver has the command, and then the drive.
LEMMA CommandMoves ==
  ASSUME IInv, PInv, TInv, RequestsFit, HdOpen \/ HdRdwt \/ HdIoctl, UNCHANGED crashes
  PROVE  TInv' /\ DiskStep
<1>1. pc = "recv" /\ req # NoReq /\ UNCHANGED <<req, buf, disk, drive>>
  BY DEF HdOpen, HdRdwt, HdIoctl, Receive, fsVars, devVars
<1>2. Done = {}
  BY <1>1 DEF Done
<1>3. CASE HdOpen \/ HdIoctl
  <2>1. req.type \notin {"DEV_READ", "DEV_WRITE"}
    BY <1>3 DEF HdOpen, HdIoctl
  <2>2. Done' = {} /\ ~ Moving'
    BY <1>1, <1>3, <2>1 DEF Done, HdOpen, HdIoctl, Command, Waitfor, Moving, Busy
  <2>3. TInv'
    BY <1>1, <2>1, <2>2 DEF TInv, Delivered
  <2>4. QED
    BY <1>1, <1>2, <2>2, <2>3, StutterLemma
<1>4. CASE HdRdwt
  <2>1. req.type \in {"DEV_READ", "DEV_WRITE"}
    BY <1>4 DEF HdRdwt
  <2>2. PartOf(req.dev).base = Where(req.dev) /\ Lba \in Nat
    BY <1>1, <2>1, KnownLemma
  <2>3. Where(req.dev) \in Nat /\ req.pos \in Nat
    BY <1>1, DeviceLemma DEF RequestsFit
  <2>4. /\ pc' = "wait" /\ mask' = "BSY"
        /\ job' = [cmd |-> IF req.type = "DEV_READ" THEN "READ" ELSE "WRITE",
                   lba |-> req.pos + PartOf(req.dev).base, left |-> req.cnt, use |-> "rdwt"]
    BY <1>4 DEF HdRdwt, Command, Waitfor
  <2>5. /\ job'.cmd = IF req.type = "DEV_READ" THEN "READ" ELSE "WRITE"
        /\ job'.lba = Lba /\ job'.left = req.cnt
    BY <2>2, <2>3, <2>4 DEF Lba
  <2>6. ~ Begun' /\ Done' = {}
    BY <2>4 DEF Begun, Done
  <2>7. Aimed' /\ Carried' /\ Delivered'
    BY <1>1, <2>4, <2>5, <2>6 DEF Aimed, Carried, Delivered, Lba
  <2>8. TInv'
    BY <1>1, <2>7 DEF TInv
  <2>9. QED
    BY <1>1, <1>2, <2>6, <2>8, StutterLemma
<1>5. QED
  BY <1>3, <1>4

LEMMA WaitMoves ==
  ASSUME IInv, PInv, TInv, RequestsFit, GetTicks \/ StatusNot \/ Tick, UNCHANGED crashes
  PROVE  TInv' /\ DiskStep
<1>1. /\ pc \in {"wait", "status"} /\ pc' \in {"wait", "status", "panic"}
      /\ UNCHANGED <<req, buf, disk, drive, job, mask>>
  BY DEF GetTicks, StatusNot, Tick, fsVars, devVars
<1>2. Begun' = Begun /\ Done' = Done
  BY <1>1 DEF Begun, Done
<1>3. (Moving' => Moving) /\ (Aimed => Aimed') /\ Carried' /\ Delivered'
  BY <1>1, <1>2 DEF Moving, Busy, Aimed, Lba, Carried, Delivered
<1>4. TInv'
  BY <1>1, <1>3 DEF TInv
<1>5. QED
  BY <1>1, <1>2, <1>4, StutterLemma

LEMMA HandlerMoves ==
  ASSUME IInv, PInv, TInv, RequestsFit, HdHandler, UNCHANGED crashes
  PROVE  TInv' /\ DiskStep
<1>1. UNCHANGED <<pc, req, buf, disk, drive, job, mask>> /\ Pending /\ Pending'
  BY DEF HdHandler, fsVars, hdVars, Pending
<1>2. Begun' = Begun /\ Done' = Done
  BY <1>1 DEF Begun, Done
<1>3. (Moving' => Moving) /\ (Aimed => Aimed') /\ (Carried => Carried') /\ (Delivered => Delivered')
  BY <1>1, <1>2 DEF Moving, Busy, Aimed, Lba, Carried, Delivered
<1>4. TInv'
  BY <1>1, <1>3 DEF TInv
<1>5. QED
  BY <1>1, <1>2, <1>4, StutterLemma

\* The drive starts with the first sector.
LEMMA CmdOutMoves ==
  ASSUME IInv, PInv, TInv, RequestsFit, HdCmdOut, UNCHANGED crashes
  PROVE  TInv' /\ DiskStep
<1>1. /\ pc = "status" /\ mask = "BSY" /\ UNCHANGED <<req, buf, disk, job, has_int>> /\ irq' = FALSE
      /\ drive' = [st |-> "busy", cmd |-> job.cmd, lba |-> job.lba, n |-> job.left,
                   full |-> FALSE, data |-> drive.data]
      /\ IF job.cmd = "WRITE" THEN pc' = "wait" /\ mask' = "DRQ" ELSE pc' = "int" /\ mask' = mask
  BY DEF HdCmdOut, Waitfor, fsVars
<1>2. ~ Pending' /\ drive'.n = job.left /\ drive'.lba = job.lba
  BY <1>1 DEF IInv, DriverOK, WaitingForDrive, Pending
<1>3. ~ Begun /\ Done = {} /\ (job.use = "rdwt" <=> Begun') /\ (Moving' <=> Moving) /\ Delivered'
  BY <1>1 DEF Begun, Done, Moving, Busy, Delivered
<1>4. CASE job.use = "rdwt"
  <2>1. Moving
    BY <1>1, <1>4 DEF Moving, Busy
  <2>2. /\ req # NoReq /\ req.type \in {"DEV_READ", "DEV_WRITE"} /\ Lba \in Nat /\ req.cnt \in Nat
        /\ job.left = req.cnt /\ job.lba = Lba
        /\ job.cmd = IF req.type = "DEV_READ" THEN "READ" ELSE "WRITE"
    BY <1>3, <2>1, MovingLemma DEF Aimed
  <2>3. Aimed'
    BY <1>1, <1>2, <1>3, <1>4, <2>2 DEF Aimed, Lba
  <2>4. Carried'
    BY <1>1, <1>2, <2>2 DEF Carried
  <2>5. Done' = {}
    BY <1>1, <1>2, <1>3, <2>2 DEF Done
  <2>6. TInv'
    BY <1>1, <1>3, <2>3, <2>4 DEF TInv
  <2>7. QED
    BY <1>1, <1>3, <2>5, <2>6, StutterLemma
<1>5. CASE job.use # "rdwt"
  <2>1. ~ Moving' /\ Done' = {}
    BY <1>1, <1>5 DEF Moving, Done, Begun
  <2>2. TInv'
    BY <1>1, <1>3, <2>1 DEF TInv
  <2>3. QED
    BY <1>1, <1>3, <2>1, <2>2, StutterLemma
<1>6. QED
  BY <1>4, <1>5

\* The drive has the next sector of the buffer.
LEMMA PortWriteMoves ==
  ASSUME IInv, PInv, TInv, RequestsFit, PortWrite, UNCHANGED crashes
  PROVE  TInv' /\ DiskStep
<1>1. /\ pc = "status" /\ mask = "DRQ" /\ UNCHANGED <<req, buf, disk, job, has_int, mask>>
      /\ irq' = FALSE /\ pc' = "int"
      /\ drive' = [drive EXCEPT !.st = "busy", !.full = TRUE, !.data = buf[req.cnt - job.left]]
  BY DEF PortWrite, fsVars
<1>2. WaitingForDrive /\ JobOK /\ job.cmd = "WRITE"
  BY <1>1 DEF IInv, DriverOK, WaitingForDrive
<1>3. Moving /\ Begun /\ Begun'
  BY <1>1, <1>2 DEF JobOK, Moving, Busy, Begun
<1>4. drive'.n = drive.n /\ drive'.lba = drive.lba /\ drive'.data = buf[req.cnt - job.left]
  BY <1>1 DEF IInv, Records
<1>5. Aimed /\ req.type = "DEV_WRITE"
  BY <1>2, <1>3, MovingLemma DEF Aimed
<1>6. Done' = Done
  BY <1>1, <1>3, <1>4, <1>5 DEF Done
<1>7. Aimed' /\ Carried' /\ Delivered'
  BY <1>1, <1>3, <1>4, <1>5 DEF Aimed, Lba, Carried, Delivered
<1>8. TInv'
  BY <1>1, <1>7 DEF TInv
<1>9. QED
  BY <1>1, <1>6, <1>8, StutterLemma

\* The driver hears of the sector that is on the disk.
LEMMA WrittenMoves ==
  ASSUME IInv, PInv, TInv, RequestsFit, SectorWritten, UNCHANGED crashes
  PROVE  TInv' /\ DiskStep
<1>1. /\ pc = "int" /\ job.cmd = "WRITE" /\ UNCHANGED <<req, buf, disk, drive>> /\ has_int
      /\ job' = [job EXCEPT !.left = @ - 1]
      /\ IF job.left = 1 THEN pc' = "reply" ELSE pc' = "wait" /\ mask' = "DRQ"
  BY DEF SectorWritten, Interrupt, Waitfor, fsVars, devVars
<1>2. WaitingForInterrupt /\ Pending /\ JobOK /\ job.use = "rdwt" /\ drive.n = job.left - 1
  BY <1>1 DEF IInv, DriverOK, WaitingForInterrupt, WaitingForWrite, Pending, JobOK
<1>3. Moving /\ Begun
  BY <1>1, <1>2 DEF Moving, Busy, Begun
<1>4. job'.use = "rdwt" /\ job'.cmd = "WRITE" /\ job'.lba = job.lba /\ job'.left = job.left - 1
  BY <1>1, <1>2 DEF IInv, Records
<1>5. /\ req # NoReq /\ req.type = "DEV_WRITE" /\ Aimed /\ job.left <= req.cnt
      /\ job.left \in Nat \ {0} /\ req.cnt \in Nat
  BY <1>1, <1>3, MovingLemma DEF Aimed
<1>6. Begun' /\ Done' = Done
  <2>1. Begun'
    BY <1>1, <1>4 DEF Begun
  <2>2. QED
    BY <1>1, <1>3, <1>5, <2>1 DEF Done
<1>7. Aimed' /\ Carried' /\ Delivered'
  BY <1>1, <1>2, <1>3, <1>4, <1>5, <1>6 DEF Aimed, Lba, Carried, Delivered
<1>8. TInv'
  BY <1>1, <1>7 DEF TInv
<1>9. QED
  BY <1>1, <1>6, <1>8, StutterLemma

\* What opening the device reads is not what FS asks for.
LEMMA TableMoves ==
  ASSUME IInv, PInv, TInv, RequestsFit, Identified \/ PrimaryRead \/ SubRead, UNCHANGED crashes
  PROVE  TInv' /\ DiskStep
<1>1. pc = "int" /\ job.use # "rdwt" /\ UNCHANGED <<req, buf, disk>>
  BY DEF Identified, PrimaryRead, SubRead, Interrupt, fsVars
<1>2. req.type = "DEV_OPEN" /\ req # NoReq
  BY <1>1 DEF PInv, JobKnown, Busy, Identified, PrimaryRead, SubRead, Interrupt
<1>3. pc' = "reply" \/ job'.use = "table"
  BY DEF Identified, PrimaryRead, SubRead, NextExtended, Command
<1>4. ~ Moving' /\ Delivered' /\ Done = {} /\ Done' = {}
  BY <1>1, <1>2, <1>3 DEF Moving, Busy, Delivered, Done
<1>5. TInv'
  BY <1>1, <1>4 DEF TInv
<1>6. QED
  BY <1>1, <1>4, <1>5, StutterLemma

\* Everything that was asked for is moved.
LEMMA ReplyMoves ==
  ASSUME IInv, PInv, TInv, RequestsFit, Reply, UNCHANGED crashes
  PROVE  TInv' /\ DiskStep
<1>1. pc = "reply" /\ pc' = "recv" /\ req' = NoReq /\ UNCHANGED <<buf, disk>> /\ req # NoReq
  BY DEF Reply, devVars, PInv, JobKnown
<1>2. Wish' = NoReq /\ Done' = {}
  BY <1>1 DEF Wish, Done
<1>3. Done = D!Wanted /\ Wish # NoReq
  <2>1. CASE req.type \in {"DEV_READ", "DEV_WRITE"}
    <3>1. Begun /\ IF req.type = "DEV_READ" THEN job.left = 0 ELSE drive.n = 0
      BY <1>1, <2>1 DEF TInv, Delivered, Begun
    <3>2. req.cnt \in Nat
      BY <1>1 DEF RequestsFit
    <3>3. Done = 0 .. req.cnt - 1
      BY <1>1, <2>1, <3>1, <3>2 DEF Done
    <3>4. QED
      BY <1>1, <2>1, <3>3, WishLemma
  <2>2. CASE req.type \notin {"DEV_READ", "DEV_WRITE"}
    <3>1. Wish.type = req.type /\ req.type # "NONE"
      BY <1>1 DEF Wish, RequestsFit
    <3>2. Done = {}
      BY <1>1, <2>2 DEF Done
    <3>3. Wish # NoReq
      BY <3>1 DEF NoReq
    <3>4. QED
      BY <2>2, <3>1, <3>2, <3>3 DEF D!Wanted
  <2>3. QED
    BY <2>1, <2>2
<1>4. DiskStep
  BY <1>1, <1>2, <1>3 DEF DiskStep, D!Next, D!Answer
<1>5. TInv'
  BY <1>1 DEF TInv, Moving, Busy, Delivered
<1>6. QED
  BY <1>4, <1>5

LEMMA DriverMoves ==
  ASSUME IInv, PInv, TInv, RequestsFit, HdNext, UNCHANGED <<bootVars, untarVars>>
  PROVE  TInv' /\ DiskStep
<1>1. UNCHANGED crashes
  BY DEF bootVars
<1>2. ~ UnknownMsg
  BY DEF UnknownMsg, IInv, DriverOK, AtRest, Pending
<1>3. QED
  BY <1>1, <1>2, WrittenLemma, GivenLemma, ReadMoves, CommandMoves, WaitMoves, HandlerMoves,
     CmdOutMoves, PortWriteMoves, WrittenMoves, TableMoves, ReplyMoves DEF HdNext, Hd

LEMMA SubmitMoves ==
  ASSUME IInv, PInv, TInv, RequestsFit', NEW r, Asks(r), RwSector(r), UNCHANGED crashes
  PROVE  TInv' /\ DiskStep
<1>1. /\ req = NoReq /\ req' = [type |-> r.type, dev |-> r.dev, pos |-> r.pos, cnt |-> r.cnt]
      /\ UNCHANGED <<pc, mask, job, drive, irq, has_int, disk, hd_info, walk>>
      /\ buf' = IF r.type = "DEV_WRITE" THEN [i \in Slots |-> IF i < r.cnt THEN r.data ELSE buf[i]]
                ELSE buf
  BY DEF RwSector, Submit, hdVars, devVars
<1>2. pc = "recv" /\ pc' = "recv" /\ Done = {} /\ Done' = {} /\ DOMAIN buf' = Slots
  BY <1>1 DEF PInv, JobKnown, Done, TInv
<1>3. req' # NoReq
  BY <1>1 DEF Asks, NoReq
<1>4. TInv'
  BY <1>2 DEF TInv, Moving, Busy, Delivered
<1>5. Wish = NoReq /\ Wish' \in D!Requests
  <2>1. /\ req'.type \in {"DEV_OPEN", "DEV_IOCTL", "DEV_READ", "DEV_WRITE"} /\ req'.cnt \in Nat
        /\ IsDevice(req'.dev) /\ req'.pos \in Nat
    BY <1>3 DEF RequestsFit
  <2>2. Where(req'.dev) \in Nat
    BY <2>1, DeviceLemma
  <2>3. Wish' = [type |-> req'.type, lba |-> Where(req'.dev) + req'.pos, cnt |-> req'.cnt]
    BY <1>3 DEF Wish
  <2>4. QED
    BY <1>1, <2>1, <2>2, <2>3 DEF Wish, D!Requests, D!Kinds
<1>6. QED
  BY <1>1, <1>2, <1>4, <1>5 DEF DiskStep, D!Next, D!Submit

LEMMA PowerMoves ==
  ASSUME TInv, PowerOff
  PROVE  TInv' /\ DiskStep
<1>1. /\ crashes' = crashes + 1 /\ req' = NoReq /\ pc' = "recv" /\ UNCHANGED <<buf, disk>>
  BY DEF PowerOff, PowerFails
<1>2. Wish' = NoReq /\ Done' = {}
  BY <1>1 DEF Wish, Done
<1>3. TInv'
  BY <1>1 DEF TInv, Moving, Busy, Delivered
<1>4. QED
  BY <1>1, <1>2, <1>3 DEF DiskStep, D!Next, D!Crash

LEMMA StepMoves ==
  ASSUME IInv, PInv, TInv, RequestsFit, RequestsFit', [Next]_vars
  PROVE  TInv' /\ DiskStep
<1>1. CASE HdNext /\ UNCHANGED <<bootVars, untarVars>>
  BY <1>1, DriverMoves
<1>2. CASE Ask
  <2>1. todo # <<>> /\ RwSector(Head(todo)) /\ UNCHANGED crashes
    BY <1>2 DEF Ask
  <2>2. Asks(Head(todo))
    BY <2>1, RestLemma DEF IInv
  <2>3. QED
    BY <2>1, <2>2, SubmitMoves
<1>3. ASSUME NEW r \in Files, File(r) PROVE TInv' /\ DiskStep
  <2>1. RwSector(r) /\ UNCHANGED crashes /\ Asks(r)
    BY <1>3, BootAssumption DEF File, Asks
  <2>2. QED
    BY <2>1, SubmitMoves
<1>4. CASE UNCHANGED <<hdSysVars, crashes>>
  <2>1. UNCHANGED <<pc, mask, job, drive, irq, has_int, disk, req, buf, crashes>>
    BY <1>4 DEF hdSysVars, fsVars, hdVars, devVars
  <2>2. Done' = Done
    BY <2>1 DEF Done, Begun
  <2>3. TInv'
    BY <2>1 DEF TInv, Moving, Busy, Aimed, Carried, Delivered, Begun, Lba, Pending
  <2>4. QED
    BY <2>1, <2>2, <2>3, StutterLemma
<1>5. CASE ProbeAnswered \/ ReadSuperBlock \/ MkfsAnswered \/ RootAnswered
  <2>1. UNCHANGED <<hdSysVars, crashes>>
    BY <1>5 DEF ProbeAnswered, ReadSuperBlock, MkfsAnswered, RootAnswered
  <2>2. QED
    BY <1>4, <2>1
<1>6. CASE UntarStep
  <2>1. UNCHANGED <<hdSysVars, crashes>>
    BY <1>6 DEF UntarStep, OpenTar, ReadHeader, Extract, ReadData, WriteData, Finish, Call
  <2>2. QED
    BY <1>4, <2>1
<1>7. CASE PowerOff
  BY <1>7, PowerMoves
<1>8. CASE UNCHANGED vars
  <2>1. UNCHANGED <<hdSysVars, crashes>>
    BY <1>8 DEF vars, bootVars
  <2>2. QED
    BY <1>4, <2>1
<1>9. QED
  BY <1>1, <1>2, <1>3, <1>5, <1>6, <1>7, <1>8 DEF Next, InitFs

----------------------------------------------------------------------------
(* What is on the root device.  A call of FS is a list of sectors to read and *)
(* write; d is what the first sectors of the root device hold.              *)

RootBase == Where(ROOT_DEV)
Places == 0 .. TAR + 2 * Len(Tar)
Names == {Tar[i] : i \in 1 .. Len(Tar)}
FilePlaces == {z \in ZONES + 1 .. TAR - 1 : (z - ZONES - 1) % NR_DIRECT_ZONE = 0}

\* A disk with a file system: taken sectors and inodes, the size of the directory, the zone
\* and the size of each inode, the name and the inode of each entry.
InodesOf(k, zone, size) ==
  {<<"inodes">>, <<"dir", k>>} \cup {<<"inode", m, zone[m], size[m]>> : m \in DOMAIN zone}
EntriesOf(name, ino) == {<<"root">>} \cup {<<"entry", i, name[i], ino[i]>> : i \in DOMAIN name}
Holds(d, sects, inos, k, zone, size, name, ino) ==
  /\ d[SUPER] = Super
  /\ d[IMAP] = {<<"imap">>} \cup {<<"ino", m>> : m \in inos}
  /\ d[SMAP] = {<<"smap">>, <<"tar">>, <<"zones">>} \cup {<<"sect", z>> : z \in sects}
  /\ d[INODES] = InodesOf(k, zone, size)
  /\ d[ROOT] = EntriesOf(name, ino)
  /\ d[ZONES] = {<<"zones">>}

\* What FS keeps of it: no two inodes share a sector, no two entries a name or an inode, there
\* is at most one entry beyond the size of the directory, and c sectors and inodes may be
\* lost.
Sound(sects, inos, k, zone, size, name, ino, c) ==
  /\ k \in 0 .. Len(Tar) /\ sects \subseteq FilePlaces /\ inos \subseteq 1 .. TAR
  /\ Cardinality(sects) <= k + c /\ Cardinality(inos) <= k + c
  /\ DOMAIN zone \subseteq inos /\ zone \in [DOMAIN zone -> sects] /\ size \in [DOMAIN zone -> Nat]
  /\ \A m, l \in DOMAIN zone : zone[m] = zone[l] => m = l
  /\ 1 .. k \subseteq DOMAIN name /\ DOMAIN name \subseteq 1 .. k + 1
  /\ name \in [DOMAIN name -> Names] /\ ino \in [DOMAIN name -> DOMAIN zone]
  /\ \A i, j \in DOMAIN name : name[i] = name[j] \/ ino[i] = ino[j] => i = j

IsFileSystem(d, c) ==
  \E sects, inos, k, zone, size, name, ino :
    /\ Holds(d, sects, inos, k, zone, size, name, ino)
    /\ Sound(sects, inos, k, zone, size, name, ino, c)

HasRoot(d) == <<"root">> \in d[ROOT]

\* No entry is beyond the size of the directory.
SizeOf(d) == CHOOSE k \in 0 .. 2 * Len(Tar) : <<"dir", k>> \in d[INODES]
Beyond(d) == \E e \in {x \in d[ROOT] : x[1] = "entry"} : e[2] > SizeOf(d)

\* A file of cmd.tar is there with its data.
There(d, file) ==
  \E i, k, m, z :
    /\ <<"dir", k>> \in d[INODES] /\ i <= k
    /\ <<"entry", i, file, m>> \in d[ROOT] /\ <<"inode", m, z, 1>> \in d[INODES]
    /\ d[z] = {<<"data", file>>}
AllThere(d) == \A i \in 1 .. Len(Tar) : There(d, Tar[i])

\* cmd.tar is as it was, or it is unpacked and its first sector is cleared.
TarKept(d, slip) ==
  /\ \A j \in 1 .. 2 * Len(Tar) : d[TAR + j] = TarSector(j + 1)
  /\ \/ d[TAR] = TarSector(1)
     \/ d[TAR] = {} /\ HasRoot(d) /\ (slip \/ AllThere(d))

\* What FS may find when it starts.
Bootable(d, tear, c, slip) ==
  /\ HasRoot(d) => IsFileSystem(d, c) /\ (slip \/ ~ Beyond(d))
  /\ d[SUPER] = Super /\ ~ tear => HasRoot(d)
  /\ TarKept(d, slip)

\* What is needed of the state besides the disk.
Context == [stage |-> stage, init |-> init, torn |-> torn, crashes |-> crashes,
            slipped |-> slipped]

\* The power may fail with this on the disk.
MayFail(d, x) ==
  /\ Bootable(d, x.torn \/ x.stage \in {"format", "mkfs"}, x.crashes + 1,
              x.slipped \/ (x.init.at = "read" /\ Beyond(d)))
  /\ x.stage \in {"root", "up"} => d[SUPER] = Super
  /\ x.init.at = "run" => HasRoot(d) /\ (x.slipped \/ AllThere(d))

\* The file that INIT writes is open and empty.
OutIsOpen(d, x) ==
  \E i, z : /\ <<"entry", i, Tar[x.init.nr], x.init.ino>> \in d[ROOT]
            /\ <<"inode", x.init.ino, z, 0>> \in d[INODES]

\* What INIT has done when nothing is left of its call.
Unpacking(d, x) ==
  /\ HasRoot(d) /\ x.init.nr \in 0 .. Len(Tar)
  /\ x.init.nr > 0 => d[TAR] = TarSector(1)
  /\ \A i \in 1 .. x.init.nr :
       x.slipped \/ There(d, Tar[i])
         \/ (x.init.at \in {"read", "write"} /\ Tar[i] = Tar[x.init.nr])
UntarAt(d, x) ==
  \/ x.init = AtStart
  \/ x.init.at = "assert"
  \/ x.init.at = "next" /\ Unpacking(d, x) /\ x.init.pos = 2 * x.init.nr
  \/ x.init.at = "header" /\ Unpacking(d, x) /\ x.init.pos = 2 * x.init.nr + 1
  \/ /\ x.init.at = "read" /\ Unpacking(d, x) /\ x.init.pos = 2 * x.init.nr - 1
     /\ x.init.nr > 0 /\ OutIsOpen(d, x)
  \/ /\ x.init.at = "write" /\ Unpacking(d, x) /\ x.init.pos = 2 * x.init.nr
     /\ x.init.nr > 0 /\ OutIsOpen(d, x)
  \/ x.init.at = "run"

\* What the call leaves.
Ended(d, x) ==
  /\ IF x.stage = "format"
     THEN d[SUPER] = Super /\ ~ HasRoot(d) /\ TarKept(d, x.slipped)
     ELSE Bootable(d, x.torn, x.crashes, x.slipped)
  /\ x.stage \in {"mkfs", "load", "root", "up"} => d[SUPER] = Super
  /\ IF x.stage = "up" THEN UntarAt(d, x) ELSE x.init = AtStart

\* The disk after a request, and after each of the requests s.
Put(d, p, v) == [d EXCEPT ![p] = v]
After(d, r) == IF r.type = "DEV_WRITE" THEN Put(d, r.pos, r.data) ELSE d
Passes(f, d, s, x) ==
  /\ f[0] = d /\ \A j \in 1 .. Len(s) : f[j] = After(f[j - 1], s[j])
  /\ \A j \in 0 .. Len(s) : MayFail(f[j], x)
  /\ Ended(f[Len(s)], x)
Runs(d, s, x) == \E f : Passes(f, d, s, x)

\* The root device, and with what is being written to it.
Root == [p \in Places |-> disk[RootBase + p]]
Held ==
  [p \in Places |-> IF /\ req # NoReq /\ req.type = "DEV_WRITE"
                       /\ req.dev = ROOT_DEV /\ req.pos = p
                    THEN buf[0] ELSE disk[RootBase + p]]

\* A request of init_fs or INIT, and one of other programs.
OneSector(r) ==
  /\ r.type \in {"DEV_OPEN", "DEV_IOCTL", "DEV_READ", "DEV_WRITE"}
  /\ r.dev = ROOT_DEV /\ r.pos \in Places
  /\ r.cnt = IF r.type \in {"DEV_READ", "DEV_WRITE"} THEN 1 ELSE 0
Elsewhere(r) ==
  r.type = "DEV_WRITE" =>
    \A i \in 0 .. r.cnt - 1 : \A p \in Places : Where(r.dev) + r.pos + i # RootBase + p
Requested == req # NoReq => OneSector(req) \/ Elsewhere(req)
TodoFits == \A i \in DOMAIN todo : OneSector(todo[i])

\* A sector that is moved is the same on the disk and in the buffer.
Landed == req # NoReq /\ OneSector(req) /\ 0 \in Done => disk[Lba] = buf[0]

\* What is read last is in the buffer when the call is answered.
Due == \/ stage \in {"probe", "format", "load"}
       \/ stage = "up" /\ init.at \in {"header", "write"}
DuePlace == IF stage = "up" THEN TAR + init.pos - 1 ELSE SUPER
BufferDue ==
  Due => /\ DuePlace \in Places
         /\ IF todo # <<>> THEN todo[Len(todo)] = Rd(DuePlace)
            ELSE IF req # NoReq
            THEN OneSector(req) /\ req.type = "DEV_READ" /\ req.pos = DuePlace
            ELSE buf[0] = disk[RootBase + DuePlace]

Stages ==
  /\ stage \in {"probe", "format", "mkfs", "load", "root", "up"}
  /\ stage \in {"mkfs", "root", "up"} => super_block = Super
  /\ init.at = "assert" => torn
  /\ DOMAIN disk = Sectors /\ crashes \in 0 .. MaxCrashes
  /\ init = [at |-> init.at, nr |-> init.nr, pos |-> init.pos, ino |-> init.ino]

\* The inductive invariant of init_fs and untar.
FsInv ==
  /\ RequestsFit /\ Requested /\ TodoFits /\ Landed /\ BufferDue /\ Stages
  /\ MayFail(Root, Context) /\ Runs(Held, todo, Context)

----------------------------------------------------------------------------
\* Places

LEMMA PlaceLemma ==
  /\ Len(Tar) \in Nat /\ TAR \in Nat /\ TAR >= 7 + 2 * Len(Tar) /\ RootBase \in Nat
  /\ Places \subseteq Nat /\ \A p \in Places : RootBase + p \in Sectors
  /\ SUPER \in Places /\ IMAP \in Places /\ SMAP \in Places /\ INODES \in Places /\ ROOT \in Places
  /\ ZONES \in Places /\ \A j \in 0 .. 2 * Len(Tar) : TAR + j \in Places /\ TAR + j >= TAR
  /\ FilePlaces \subseteq Places
  /\ \A z \in FilePlaces : z \in Nat /\ z > ZONES /\ z < TAR
  /\ MaxCrashes \in Nat /\ MaxCrashes <= Len(Tar) /\ 0 \in Slots
<1>1. Len(Tar) \in Nat /\ MaxCrashes \in Nat /\ MaxCrashes <= Len(Tar) /\ 0 \in Slots
  BY RootAssumption, BootAssumption
<1>2. NR_DIRECT_ZONE \in Nat /\ NR_DIRECT_ZONE >= 1
  BY UntarAssumption
<1>3. 2 * Len(Tar) * NR_DIRECT_ZONE \in Nat /\ 2 * Len(Tar) * NR_DIRECT_ZONE >= 2 * Len(Tar)
  <2>1. \A a, b \in Nat : b >= 1 => a * b \in Nat /\ a * b >= a
    BY SMTT(30)
  <2>2. 2 * Len(Tar) \in Nat
    BY <1>1
  <2>3. QED
    BY <1>2, <2>1, <2>2
<1>4. TAR \in Nat /\ TAR >= 7 + 2 * Len(Tar)
  BY <1>1, <1>3 DEF TAR, ZONES
<1>5. RootBase \in Nat /\ RootBase + TAR + 2 * Len(Tar) < DiskSize /\ DiskSize \in Nat
  BY DeviceLemma, BootAssumption, RootAssumption, HdAssumption DEF RootBase
<1>6. \A p \in Places : p \in Nat /\ RootBase + p \in Sectors
  BY <1>1, <1>4, <1>5 DEF Places, Sectors
<1>7. \A j \in 0 .. 2 * Len(Tar) : TAR + j \in Places /\ TAR + j >= TAR
  BY <1>1, <1>4 DEF Places
<1>8. \A z \in FilePlaces : z \in Places /\ z \in Nat /\ z > ZONES /\ z < TAR
  BY <1>1, <1>4 DEF FilePlaces, Places, ZONES
<1>9. /\ SUPER \in Places /\ IMAP \in Places /\ SMAP \in Places /\ INODES \in Places
      /\ ROOT \in Places /\ ZONES \in Places
  BY <1>1, <1>4 DEF Places, SUPER, IMAP, SMAP, INODES, ROOT, ZONES
<1>10. QED
  BY <1>1, <1>4, <1>5, <1>6, <1>7, <1>8, <1>9

LEMMA RequestLemma ==
  /\ \A p \in Places : OneSector(Rd(p)) /\ After(<<>>, Rd(p)) = <<>> /\ Rd(p).type # "DEV_WRITE"
  /\ \A p \in Places : \A v : OneSector(Wr(p, v))
  /\ \A p, v, d : After(d, Wr(p, v)) = Put(d, p, v)
  /\ \A p, d : After(d, Rd(p)) = d
  /\ OneSector(Op("DEV_OPEN")) /\ OneSector(Op("DEV_IOCTL"))
  /\ \A d : After(d, Op("DEV_OPEN")) = d /\ After(d, Op("DEV_IOCTL")) = d
<1>1. 0 \in Places
  BY PlaceLemma DEF Places
<1>2. QED
  BY <1>1 DEF Rd, Wr, Op, OneSector, After

\* A request that fits in the buffer.
LEMMA OneSectorFits ==
  ASSUME NEW r, OneSector(r)
  PROVE  /\ IsDevice(r.dev) /\ r.pos \in Nat /\ r.cnt \in Nat /\ 0 .. r.cnt - 1 \subseteq Slots
         /\ r.type \in {"DEV_OPEN", "DEV_IOCTL", "DEV_READ", "DEV_WRITE"}
<1>1. 0 .. 0 \subseteq Slots /\ 0 .. (0 - 1) \subseteq Slots
  BY PlaceLemma
<1>2. r.pos \in Nat
  BY PlaceLemma DEF OneSector
<1>3. QED
  BY <1>1, <1>2, BootAssumption DEF OneSector

----------------------------------------------------------------------------
\* The requests of a call, one after the other

LEMMA RunsEnd ==
  ASSUME NEW d, NEW x
  PROVE  Runs(d, <<>>, x) <=> MayFail(d, x) /\ Ended(d, x)
<1>1. Len(<<>>) = 0
  OBVIOUS
<1>2. ASSUME Runs(d, <<>>, x) PROVE MayFail(d, x) /\ Ended(d, x)
  <2>1. PICK f : Passes(f, d, <<>>, x)
    BY <1>2 DEF Runs
  <2>2. QED
    BY <1>1, <2>1 DEF Passes
<1>3. ASSUME MayFail(d, x), Ended(d, x) PROVE Runs(d, <<>>, x)
  <2> DEFINE f == [j \in {0} |-> d]
  <2>1. f[0] = d /\ \A j \in 0 .. 0 : f[j] = d
    OBVIOUS
  <2> HIDE DEF f
  <2>2. Passes(f, d, <<>>, x)
    BY <1>1, <1>3, <2>1 DEF Passes
  <2>3. QED
    BY <2>2 DEF Runs
<1>4. QED
  BY <1>2, <1>3

LEMMA RunsOn ==
  ASSUME NEW d, NEW x, NEW s, Asking(s), s # <<>>
  PROVE  Runs(d, s, x) <=> MayFail(d, x) /\ Runs(After(d, Head(s)), Tail(s), x)
<1> DEFINE S == {s[i] : i \in DOMAIN s}
           t == Tail(s)
           a == After(d, Head(s))
<1>1. /\ Len(s) \in Nat /\ Len(s) > 0 /\ Len(t) = Len(s) - 1 /\ s[1] = Head(s)
      /\ \A j \in 1 .. Len(t) : t[j] = s[j + 1]
  <2>1. s \in Seq(S)
    BY DEF Asking
  <2> HIDE DEF S
  <2>2. QED
    BY <2>1
<1> HIDE DEF t, a
<1>2. ASSUME Runs(d, s, x) PROVE MayFail(d, x) /\ Runs(a, t, x)
  <2>1. PICK f : Passes(f, d, s, x)
    BY <1>2 DEF Runs
  <2> DEFINE g == [j \in 0 .. Len(t) |-> f[j + 1]]
  <2>2. MayFail(d, x) /\ f[1] = a
    BY <1>1, <2>1 DEF Passes, a
  <2>3. \A j \in 0 .. Len(t) : g[j] = f[j + 1] /\ j + 1 \in 0 .. Len(s)
    BY <1>1
  <2>4. g[0] = a /\ g[Len(t)] = f[Len(s)]
    BY <1>1, <2>2, <2>3
  <2>5. ASSUME NEW j \in 1 .. Len(t) PROVE g[j] = After(g[j - 1], t[j])
    <3>1. g[j] = f[j + 1] /\ g[j - 1] = f[j] /\ t[j] = s[j + 1] /\ j + 1 \in 1 .. Len(s)
          /\ (j + 1) - 1 = j
      BY <1>1
    <3>2. f[j + 1] = After(f[(j + 1) - 1], s[j + 1])
      BY <2>1, <3>1 DEF Passes
    <3>3. QED
      BY <3>1, <3>2
  <2> HIDE DEF g
  <2>6. Passes(g, a, t, x)
    BY <2>1, <2>3, <2>4, <2>5 DEF Passes
  <2>7. QED
    BY <2>2, <2>6 DEF Runs
<1>3. ASSUME MayFail(d, x), Runs(a, t, x) PROVE Runs(d, s, x)
  <2>1. PICK g : Passes(g, a, t, x)
    BY <1>3 DEF Runs
  <2> DEFINE f == [j \in 0 .. Len(s) |-> IF j = 0 THEN d ELSE g[j - 1]]
  <2>2. f[0] = d /\ \A j \in 1 .. Len(s) : f[j] = g[j - 1] /\ j - 1 \in 0 .. Len(t)
    BY <1>1
  <2> HIDE DEF f
  <2>3. f[Len(s)] = g[Len(t)]
    BY <1>1, <2>2
  <2>4. ASSUME NEW j \in 1 .. Len(s) PROVE f[j] = After(f[j - 1], s[j])
    <3>1. CASE j = 1
      <4>1. f[1] = g[0] /\ g[0] = a /\ f[1 - 1] = d
        BY <1>1, <2>1, <2>2 DEF Passes
      <4>2. QED
        BY <1>1, <3>1, <4>1 DEF a
    <3>2. CASE j # 1
      <4>1. /\ f[j] = g[j - 1] /\ j - 1 \in 1 .. Len(t) /\ f[j - 1] = g[(j - 1) - 1]
            /\ t[j - 1] = s[(j - 1) + 1] /\ (j - 1) + 1 = j
        BY <1>1, <2>2, <3>2
      <4>2. g[j - 1] = After(g[(j - 1) - 1], t[j - 1])
        BY <2>1, <4>1 DEF Passes
      <4>3. QED
        BY <4>1, <4>2
    <3>3. QED
      BY <3>1, <3>2
  <2>5. ASSUME NEW j \in 0 .. Len(s) PROVE MayFail(f[j], x)
    <3>1. CASE j = 0
      BY <1>3, <2>2, <3>1
    <3>2. CASE j # 0
      <4>1. f[j] = g[j - 1] /\ j - 1 \in 0 .. Len(t)
        BY <1>1, <2>2, <3>2
      <4>2. QED
        BY <2>1, <4>1 DEF Passes
    <3>3. QED
      BY <3>1, <3>2
  <2>6. Ended(f[Len(s)], x)
    BY <2>1, <2>3 DEF Passes
  <2>7. Passes(f, d, s, x)
    BY <2>2, <2>4, <2>5, <2>6 DEF Passes
  <2>8. QED
    BY <2>7 DEF Runs
<1>4. QED
  BY <1>2, <1>3 DEF a, t

LEMMA RunsMayFail ==
  ASSUME NEW d, NEW x, NEW s, Asking(s), Runs(d, s, x)
  PROVE  MayFail(d, x)
<1>1. CASE s = <<>>
  BY <1>1, RunsEnd
<1>2. CASE s # <<>>
  BY <1>2, RunsOn
<1>3. QED
  BY <1>1, <1>2

----------------------------------------------------------------------------
\* The driver under FS

LEMMA RootHeld ==
  ASSUME req = NoReq \/ req.type # "DEV_WRITE" \/ Elsewhere(req), ReqOK
  PROVE  Held = Root
<1>1. ASSUME req # NoReq, req.type = "DEV_WRITE", req.dev = ROOT_DEV, req.pos \in Places
      PROVE  FALSE
  <2>1. req.cnt \in Nat \ {0} /\ Elsewhere(req)
    BY <1>1 DEF ReqOK, Asks
  <2>2. 0 \in 0 .. req.cnt - 1
    BY <2>1
  <2>3. Where(req.dev) + req.pos + 0 # RootBase + req.pos
    BY <1>1, <2>1, <2>2 DEF Elsewhere
  <2>4. RootBase \in Nat /\ req.pos \in Nat /\ Where(req.dev) = RootBase
    BY <1>1, PlaceLemma DEF RootBase
  <2>5. QED
    BY <2>3, <2>4
<1>2. QED
  BY <1>1 DEF Held, Root

LEMMA HeldOne ==
  ASSUME req # NoReq, req.type = "DEV_WRITE", OneSector(req)
  PROVE  /\ Held[req.pos] = buf[0] /\ \A p \in Places : p # req.pos => Held[p] = Root[p]
         /\ Lba = RootBase + req.pos /\ req.pos \in Places
<1>1. req.pos \in Places /\ req.dev = ROOT_DEV
  BY DEF OneSector
<1>2. QED
  BY <1>1 DEF Held, Root, Lba, RootBase

\* One step of the driver to module Disk.
DriverHeld ==
  /\ Held' = Held /\ (Root' = Root \/ Root' = Held)
  /\ (DOMAIN disk)' = DOMAIN disk /\ Landed' /\ BufferDue' /\ (req' = req \/ req' = NoReq)

LEMMA MoveHeld ==
  ASSUME IInv, PInv, TInv, FsInv, UNCHANGED <<bootVars, untarVars>>, req' = req,
         NEW i \in Slots, D!Move(i)
  PROVE  DriverHeld
<1>1. /\ req # NoReq /\ i \in D!Wanted \ Done /\ Done' = Done \cup {i}
      /\ IF Wish.type = "DEV_READ" THEN buf' = [buf EXCEPT ![i] = disk[Wish.lba + i]] /\ UNCHANGED disk
         ELSE disk' = [disk EXCEPT ![Wish.lba + i] = buf[i]] /\ UNCHANGED buf
  BY DEF D!Move, Wish
<1>2. req.type \in {"DEV_READ", "DEV_WRITE"} /\ Wish.type = req.type /\ Wish.lba = Lba
      /\ i \in 0 .. req.cnt - 1
  <2>1. Wish.type = req.type /\ Wish.lba = Lba
    BY <1>1 DEF Wish, Lba
  <2>2. req.type \in {"DEV_READ", "DEV_WRITE"}
    BY <1>1, <2>1 DEF D!Wanted
  <2>3. QED
    BY <1>1, <2>1, <2>2, WishLemma
<1>3. DOMAIN buf = Slots /\ DOMAIN disk = Sectors /\ Landed /\ BufferDue /\ Requested
  BY DEF TInv, FsInv, Stages
<1>4. UNCHANGED <<stage, todo, init>>
  BY DEF bootVars, untarVars
<1>5. BufferDue'
  <2>1. DuePlace' = DuePlace /\ Due' = Due
    BY <1>4 DEF DuePlace, Due
  <2>2. todo # <<>> \/ req # NoReq
    BY <1>1
  <2>3. QED
    BY <1>1, <1>3, <1>4, <2>1, <2>2 DEF BufferDue
<1>6. CASE req.type = "DEV_READ"
  <2>1. buf' = [buf EXCEPT ![i] = disk[Lba + i]] /\ disk' = disk
    BY <1>1, <1>2, <1>6
  <2>2. Held' = Root /\ Held = Root /\ Root' = Root
    BY <1>6, <2>1, RootHeld DEF Held, Root, IInv
  <2>3. Landed'
    <3>1. SUFFICES ASSUME OneSector(req), 0 \in Done' PROVE disk[Lba] = buf'[0]
      BY <2>1 DEF Landed, Lba
    <3>2. i = 0
      BY <1>2, <3>1 DEF OneSector
    <3>3. Lba \in Nat
      <4>1. req.pos \in Nat /\ req.dev = ROOT_DEV /\ RootBase \in Nat
        BY <3>1, PlaceLemma DEF OneSector
      <4>2. QED
        BY <4>1 DEF Lba, RootBase
    <3>4. QED
      BY <1>3, <2>1, <3>2, <3>3
  <2>4. QED
    BY <1>5, <2>1, <2>2, <2>3 DEF DriverHeld
<1>7. CASE req.type = "DEV_WRITE" /\ OneSector(req)
  <2>1. i = 0 /\ req.pos \in Places /\ Lba = RootBase + req.pos
    BY <1>1, <1>2, <1>7, HeldOne DEF OneSector
  <2>2. RootBase \in Nat /\ req.pos \in Nat /\ RootBase + req.pos \in Sectors
        /\ \A p \in Places : RootBase + p \in Sectors /\ p \in Nat
    BY <2>1, PlaceLemma
  <2>3. disk' = [disk EXCEPT ![RootBase + req.pos] = buf[0]] /\ buf' = buf
    BY <1>1, <1>2, <1>7, <2>1, <2>2
  <2>4. \A p \in Places : disk'[RootBase + p] = IF p = req.pos THEN buf[0] ELSE disk[RootBase + p]
    BY <1>3, <2>2, <2>3
  <2>5. Root' = Held
    BY <1>1, <1>7, <2>4 DEF Root, Held, OneSector
  <2>6. Held' = Held
    BY <1>1, <1>7, <2>3, <2>4 DEF Held, OneSector
  <2>7. Landed'
    BY <2>1, <2>3, <2>4 DEF Landed, Lba
  <2>8. QED
    BY <1>3, <1>5, <2>3, <2>5, <2>6, <2>7 DEF DriverHeld
<1>8. CASE req.type = "DEV_WRITE" /\ ~ OneSector(req)
  <2>1. Elsewhere(req)
    BY <1>1, <1>3, <1>8 DEF Requested
  <2>2. \A p \in Places : Lba + i # RootBase + p
    BY <1>2, <1>8, <2>1 DEF Elsewhere, Lba
  <2>3. disk' = [disk EXCEPT ![Lba + i] = buf[i]] /\ buf' = buf
    BY <1>1, <1>2, <1>8
  <2>4. \A p \in Places : disk'[RootBase + p] = disk[RootBase + p]
    BY <1>3, <2>2, <2>3, PlaceLemma
  <2>5. Root' = Root /\ Held' = Held
    BY <2>3, <2>4 DEF Root, Held
  <2>6. Landed'
    BY <1>8 DEF Landed
  <2>7. QED
    BY <1>3, <1>5, <2>3, <2>5, <2>6 DEF DriverHeld
<1>9. QED
  BY <1>2, <1>6, <1>7, <1>8

LEMMA AnswerHeld ==
  ASSUME IInv, PInv, TInv, FsInv, UNCHANGED <<bootVars, untarVars>>, req # NoReq, req' = NoReq,
         D!Answer
  PROVE  DriverHeld
<1>1. Done = D!Wanted /\ UNCHANGED <<disk, buf>>
  BY DEF D!Answer
<1>2. UNCHANGED <<stage, todo, init>>
  BY DEF bootVars, untarVars
<1>3. Held' = Root /\ Root' = Root
  BY <1>1 DEF Held, Root
<1>4. ASSUME OneSector(req), req.type \in {"DEV_READ", "DEV_WRITE"}
      PROVE  disk[RootBase + req.pos] = buf[0]
  <2>1. D!Wanted = 0 .. 0
    BY <1>4, WishLemma DEF OneSector
  <2>2. disk[Lba] = buf[0]
    BY <1>1, <1>4, <2>1 DEF FsInv, Landed
  <2>3. QED
    BY <1>4, <2>2 DEF Lba, RootBase, OneSector
<1>5. Held = Root
  <2>1. CASE req.type = "DEV_WRITE" /\ OneSector(req)
    <3>1. \A p \in Places : Held[p] = Root[p]
      BY <1>4, <2>1, HeldOne DEF Root
    <3>2. QED
      BY <3>1 DEF Held, Root
  <2>2. CASE ~ (req.type = "DEV_WRITE" /\ OneSector(req))
    BY <2>2, RootHeld DEF IInv, FsInv, Requested
  <2>3. QED
    BY <2>1, <2>2
<1>6. BufferDue'
  <2>1. DuePlace' = DuePlace /\ Due' = Due
    BY <1>2 DEF DuePlace, Due
  <2>2. SUFFICES ASSUME Due PROVE DuePlace \in Places /\ (todo # <<>> => todo[Len(todo)] = Rd(DuePlace))
                                  /\ (todo = <<>> => buf[0] = disk[RootBase + DuePlace])
    BY <1>1, <1>2, <2>1 DEF BufferDue
  <2>3. QED
    BY <1>4, <2>2 DEF FsInv, BufferDue
<1>7. Landed'
  BY DEF Landed
<1>8. QED
  BY <1>1, <1>3, <1>5, <1>6, <1>7 DEF DriverHeld

LEMMA IdleHeld ==
  ASSUME FsInv, UNCHANGED <<bootVars, untarVars>>, UNCHANGED <<req, disk, buf>>, Done' = Done
  PROVE  DriverHeld
<1>1. UNCHANGED <<stage, todo, init>>
  BY DEF bootVars, untarVars
<1>2. Held' = Held /\ Root' = Root
  BY DEF Held, Root
<1>3. Landed' /\ BufferDue'
  BY <1>1 DEF FsInv, Landed, BufferDue, Due, DuePlace, Lba
<1>4. QED
  BY <1>2, <1>3 DEF DriverHeld

LEMMA DriverHolds ==
  ASSUME IInv, PInv, TInv, FsInv, HdNext, UNCHANGED <<bootVars, untarVars>>
  PROVE  FsInv'
<1>1. DiskStep /\ RequestsFit /\ UNCHANGED crashes /\ crashes \in Nat
  BY DriverMoves, PlaceLemma DEF FsInv, Stages, bootVars
<1>2. req' = req \/ req' = NoReq
  BY DEF HdNext, Hd, HdOpen, HdRdwt, HdIoctl, UnknownMsg, GetTicks, StatusNot, HdCmdOut, PortWrite,
         ReadSector, SectorWritten, Identified, PrimaryRead, SubRead, Reply, HdHandler, DriveReady,
         Tick, fsVars
<1>3. (Wish = NoReq <=> req = NoReq) /\ (Wish' = NoReq <=> req' = NoReq)
  <2>1. req # NoReq => Wish.type = req.type /\ req.type # "NONE"
    BY <1>1 DEF Wish, RequestsFit
  <2>2. req # NoReq => Wish # NoReq
    BY <2>1 DEF NoReq
  <2>3. Wish' = IF req' = NoReq THEN NoReq
                ELSE [type |-> req.type, lba |-> Where(req.dev) + req.pos, cnt |-> req.cnt]
    BY <1>2 DEF Wish
  <2>4. req' # NoReq => Wish' = Wish /\ req' = req
    BY <1>2, <2>3 DEF Wish
  <2>5. QED
    BY <2>2, <2>3, <2>4 DEF Wish
<1>4. DriverHeld
  <2>1. CASE \E i \in Slots : D!Move(i)
    <3>1. PICK i \in Slots : D!Move(i)
      BY <2>1
    <3>2. Wish # NoReq /\ Wish' = Wish
      BY <3>1 DEF D!Move
    <3>3. req' = req
      BY <1>2, <1>3, <3>2
    <3>4. QED
      BY <3>1, <3>3, MoveHeld
  <2>2. CASE D!Answer
    <3>1. Wish # NoReq /\ Wish' = NoReq
      BY <2>2 DEF D!Answer
    <3>2. QED
      BY <1>3, <2>2, <3>1, AnswerHeld
  <2>3. CASE UNCHANGED D!vars
    <3>1. Wish' = Wish /\ UNCHANGED <<disk, buf>> /\ Done' = Done
      BY <2>3 DEF D!vars
    <3>2. req' = req
      BY <1>2, <1>3, <3>1
    <3>3. QED
      BY <3>1, <3>2, IdleHeld
  <2>4. ~ D!Submit /\ ~ D!Crash
    <3>1. ~ D!Crash
      BY <1>1 DEF D!Crash
    <3>2. ASSUME D!Submit PROVE FALSE
      <4>1. Wish = NoReq /\ Wish' \in D!Requests
        BY <3>2 DEF D!Submit
      <4>2. Wish'.type # "NONE"
        BY <4>1 DEF D!Requests, D!Kinds
      <4>3. Wish' # NoReq
        BY <4>2 DEF NoReq
      <4>4. QED
        BY <1>2, <1>3, <4>1, <4>3
    <3>3. QED
      BY <3>1, <3>2
  <2>5. QED
    BY <1>1, <2>1, <2>2, <2>3, <2>4 DEF DiskStep, D!Next
<1>5. UNCHANGED <<stage, todo, super_block, init, torn, crashes, slipped>>
  BY DEF bootVars, untarVars
<1>6. Context' = Context
  BY <1>5 DEF Context
<1>7. MayFail(Held, Context)
  BY RunsMayFail DEF FsInv, IInv
<1>8. MayFail(Root', Context')
  BY <1>4, <1>6, <1>7 DEF DriverHeld, FsInv
<1>9. Runs(Held', todo', Context')
  BY <1>4, <1>5, <1>6 DEF DriverHeld, FsInv
<1>10. RequestsFit' /\ Requested' /\ TodoFits'
  BY <1>2, <1>5 DEF FsInv, RequestsFit, Requested, TodoFits
<1>11. Stages'
  BY <1>4, <1>5 DEF DriverHeld, FsInv, Stages
<1>12. QED
  BY <1>4, <1>8, <1>9, <1>10, <1>11 DEF DriverHeld, FsInv

----------------------------------------------------------------------------
\* Power failures, and what they may find

LEMMA SoundLemma ==
  ASSUME NEW sects, NEW inos, NEW k, NEW zone, NEW size, NEW name, NEW ino, NEW c \in Nat,
         Sound(sects, inos, k, zone, size, name, ino, c)
  PROVE  /\ IsFiniteSet(sects) /\ IsFiniteSet(inos) /\ k \in Nat
         /\ Cardinality(sects) \in Nat /\ Cardinality(inos) \in Nat
         /\ \A b \in Nat : c <= b => Sound(sects, inos, k, zone, size, name, ino, b)
<1>1. IsFiniteSet(0 .. TAR) /\ TAR \in Nat
  BY PlaceLemma, FS_Interval
<1>2. sects \subseteq 0 .. TAR /\ inos \subseteq 0 .. TAR /\ k \in Nat
  <2>1. sects \subseteq FilePlaces /\ inos \subseteq 1 .. TAR /\ k \in 0 .. Len(Tar)
    BY DEF Sound
  <2>2. FilePlaces \subseteq 0 .. TAR
    <3>1. \A z \in FilePlaces : z \in Nat /\ z < TAR
      BY PlaceLemma
    <3>2. QED
      BY <1>1, <3>1
  <2>3. 1 .. TAR \subseteq 0 .. TAR /\ \A i \in 0 .. Len(Tar) : i \in Nat
    BY <1>1, PlaceLemma
  <2>4. QED
    BY <2>1, <2>2, <2>3
<1>3. IsFiniteSet(sects) /\ IsFiniteSet(inos)
  BY <1>1, <1>2, FS_Subset
<1>4. Cardinality(sects) \in Nat /\ Cardinality(inos) \in Nat
  BY <1>3, FS_CardinalityType
<1>5. ASSUME NEW b \in Nat, c <= b PROVE Sound(sects, inos, k, zone, size, name, ino, b)
  <2>1. Cardinality(sects) <= k + c /\ Cardinality(inos) <= k + c
    BY DEF Sound
  <2>2. Cardinality(sects) <= k + b /\ Cardinality(inos) <= k + b
    BY <1>2, <1>4, <1>5, <2>1
  <2>3. QED
    BY <2>2 DEF Sound
<1>6. QED
  BY <1>2, <1>3, <1>4, <1>5

LEMMA MoreLost ==
  ASSUME NEW d, NEW b \in Nat, NEW c \in Nat, b <= c, IsFileSystem(d, b)
  PROVE  IsFileSystem(d, c)
<1>1. PICK sects, inos, k, zone, size, name, ino :
        /\ Holds(d, sects, inos, k, zone, size, name, ino)
        /\ Sound(sects, inos, k, zone, size, name, ino, b)
  BY DEF IsFileSystem
<1>2. Sound(sects, inos, k, zone, size, name, ino, c)
  BY <1>1, SoundLemma
<1>3. QED
  BY <1>1, <1>2 DEF IsFileSystem

LEMMA BootableMore ==
  ASSUME NEW d, NEW t, NEW b \in Nat, NEW c \in Nat, NEW s, b <= c, Bootable(d, t, b, s),
         NEW u, NEW r, t => u, s => r
  PROVE  Bootable(d, u, c, r)
<1>1. HasRoot(d) => IsFileSystem(d, c) /\ (r \/ ~ Beyond(d))
  BY MoreLost DEF Bootable
<1>2. TarKept(d, r)
  BY DEF Bootable, TarKept
<1>3. QED
  BY <1>1, <1>2 DEF Bootable

LEMMA BootMayFail ==
  ASSUME NEW d, NEW x, x.crashes \in Nat, Bootable(d, x.torn, x.crashes, x.slipped),
         x.stage \in {"root", "up"} => d[SUPER] = Super,
         x.init.at = "run" => HasRoot(d) /\ (x.slipped \/ AllThere(d))
  PROVE  MayFail(d, x)
<1>1. Bootable(d, x.torn \/ x.stage \in {"format", "mkfs"}, x.crashes + 1,
               x.slipped \/ (x.init.at = "read" /\ Beyond(d)))
  <2>1. x.crashes + 1 \in Nat /\ x.crashes <= x.crashes + 1
    OBVIOUS
  <2> DEFINE u == x.torn \/ x.stage \in {"format", "mkfs"}
             r == x.slipped \/ (x.init.at = "read" /\ Beyond(d))
  <2>2. (x.torn => u) /\ (x.slipped => r)
    OBVIOUS
  <2> HIDE DEF u, r
  <2>3. Bootable(d, u, x.crashes + 1, r)
    BY <2>1, <2>2, BootableMore
  <2>4. QED
    BY <2>3 DEF u, r
<1>2. QED
  BY <1>1 DEF MayFail

LEMMA SuperLemma ==
  ASSUME NEW d, NEW c, IsFileSystem(d, c)
  PROVE  d[SUPER] = Super /\ HasRoot(d)
<1>1. PICK sects, inos, k, zone, size, name, ino :
        Holds(d, sects, inos, k, zone, size, name, ino)
  BY DEF IsFileSystem
<1>2. QED
  BY <1>1 DEF Holds, EntriesOf, HasRoot

\* A call that only reads.
LEMMA ReadsLemma ==
  ASSUME NEW d, NEW x, MayFail(d, x), Ended(d, x)
  PROVE  /\ Runs(d, <<>>, x) /\ Runs(d, Probe, x)
         /\ \A p : Runs(d, <<Rd(p)>>, x)
         /\ \A p, q : Runs(d, <<Rd(p), Rd(q)>>, x)
<1>1. Runs(d, <<>>, x)
  BY RunsEnd
<1>2. ASSUME NEW p PROVE Runs(d, <<Rd(p)>>, x)
  <2> DEFINE s == <<Rd(p)>>
  <2>1. s # <<>> /\ Head(s) = Rd(p) /\ Tail(s) = <<>> /\ Asking(s)
    BY SectorLemma
  <2> HIDE DEF s
  <2>2. After(d, Head(s)) = d
    BY <2>1, RequestLemma
  <2>4. Runs(After(d, Head(s)), Tail(s), x)
    BY <1>1, <2>1, <2>2
  <2>5. Runs(d, s, x)
    BY <2>1, <2>4, RunsOn
  <2>3. QED
    BY <2>5 DEF s
<1>3. ASSUME NEW p, NEW r, Asks(r), After(d, r) = d PROVE Runs(d, <<r, Rd(p)>>, x)
  <2> DEFINE s == <<r, Rd(p)>>
             t == <<r>>
             u == <<Rd(p)>>
  <2>1. s # <<>> /\ Head(s) = r /\ Tail(s) = <<Rd(p)>> /\ s = t \o u
    OBVIOUS
  <2>2. Asking(t) /\ Asking(u)
    BY <1>3, SectorLemma, OneLemma
  <2> HIDE DEF s, t, u
  <2>3. Asking(s)
    BY <2>1, <2>2, ConcatLemma
  <2>4. Runs(d, s, x)
    <3>1. Runs(After(d, Head(s)), Tail(s), x)
      BY <1>2, <1>3, <2>1
    <3>2. QED
      BY <2>1, <2>3, <3>1, RunsOn
  <2>5. QED
    BY <2>4 DEF s
<1>4. Runs(d, Probe, x)
  BY <1>3, SectorLemma, RequestLemma DEF Probe
<1>5. ASSUME NEW p, NEW q PROVE Runs(d, <<Rd(p), Rd(q)>>, x)
  BY <1>3, SectorLemma, RequestLemma
<1>6. QED
  BY <1>1, <1>2, <1>4, <1>5

LEMMA ProbeLemma ==
  \A i \in DOMAIN Probe : OneSector(Probe[i])
<1>1. DOMAIN Probe = {1, 2} /\ Probe[1] = Op("DEV_OPEN") /\ Probe[2] = Rd(SUPER)
  BY DEF Probe
<1>2. OneSector(Op("DEV_OPEN")) /\ OneSector(Rd(SUPER))
  BY RequestLemma, PlaceLemma
<1>3. QED
  BY <1>1, <1>2

LEMMA ContextLemma ==
  /\ Context.stage = stage /\ Context.init = init /\ Context.torn = torn
  /\ Context.crashes = crashes /\ Context.slipped = slipped
  BY DEF Context

\* The driver is at rest when FS asks.
LEMMA QuietLemma ==
  ASSUME PInv, req = NoReq
  PROVE  Done = {} /\ pc = "recv"
  BY DEF PInv, JobKnown, Done

LEMMA PowerFailsHolds ==
  ASSUME FsInv, PowerOff
  PROVE  FsInv'
<1>1. /\ crashes < MaxCrashes /\ crashes' = crashes + 1 /\ req' = NoReq /\ UNCHANGED <<buf, disk>>
      /\ stage' = "probe" /\ todo' = Probe /\ init' = AtStart
      /\ torn' = (torn \/ (stage \in {"format", "mkfs"} /\ OnRoot(SUPER) = Super))
      /\ slipped' = (slipped \/ (init.at = "read" /\ \E e \in Entries : e[2] > DirSize))
  BY DEF PowerOff, PowerFails
<1>2. Held' = Root /\ Root' = Root
  BY <1>1 DEF Held, Root
<1>3. Root[SUPER] = OnRoot(SUPER) /\ Root[ROOT] = OnRoot(ROOT) /\ Root[INODES] = OnRoot(INODES)
  BY PlaceLemma DEF Root, OnRoot, RootBase
<1>4. Beyond(Root) <=> \E e \in Entries : e[2] > DirSize
  BY <1>3 DEF Beyond, Entries, DirSize, SizeOf
<1>5. Bootable(Root, torn \/ stage \in {"format", "mkfs"}, crashes + 1, slipped')
  BY <1>1, <1>4, ContextLemma DEF FsInv, MayFail
<1>6. Bootable(Root, torn', crashes', slipped')
  BY <1>1, <1>3, <1>5 DEF Bootable
<1>7. crashes \in Nat /\ crashes' \in 0 .. MaxCrashes
  <2>1. crashes \in 0 .. MaxCrashes /\ MaxCrashes \in Nat
    BY PlaceLemma DEF FsInv, Stages
  <2>2. QED
    BY <1>1, <2>1
<1> DEFINE x == [stage |-> "probe", init |-> AtStart, torn |-> torn', crashes |-> crashes',
                 slipped |-> slipped']
<1>8. Context' = x
  BY <1>1 DEF Context
<1>9. /\ x.stage = "probe" /\ x.init = AtStart /\ x.torn = torn' /\ x.crashes = crashes'
      /\ x.slipped = slipped' /\ AtStart.at = "open"
  BY DEF AtStart
<1> HIDE DEF x
<1>10. MayFail(Root, x)
  BY <1>6, <1>7, <1>9, BootMayFail
<1>11. Ended(Root, x)
  BY <1>6, <1>9 DEF Ended
<1>12. MayFail(Root', Context') /\ Runs(Held', todo', Context')
  BY <1>1, <1>2, <1>8, <1>10, <1>11, ReadsLemma
<1>13. RequestsFit' /\ Requested' /\ Landed'
  BY <1>1 DEF RequestsFit, Requested, Landed
<1>14. TodoFits'
  <2>1. \A i \in DOMAIN Probe : OneSector(Probe[i])
    BY ProbeLemma
  <2>2. QED
    BY <1>1, <2>1 DEF TodoFits
<1>15. BufferDue'
  <2>1. Probe # <<>> /\ Probe[Len(Probe)] = Rd(SUPER)
    BY DEF Probe
  <2>2. QED
    BY <1>1, <2>1, PlaceLemma DEF BufferDue, DuePlace
<1>16. Stages'
  <2>1. init' = [at |-> init'.at, nr |-> init'.nr, pos |-> init'.pos, ino |-> init'.ino]
    BY <1>1 DEF AtStart
  <2>2. QED
    BY <1>1, <1>7, <1>9, <2>1 DEF FsInv, Stages
<1>17. QED
  BY <1>12, <1>13, <1>14, <1>15, <1>16 DEF FsInv

LEMMA StartHolds ==
  ASSUME Init
  PROVE  FsInv
<1>1. /\ req = NoReq /\ stage = "probe" /\ todo = Probe /\ init = AtStart /\ torn = FALSE
      /\ slipped = FALSE /\ crashes = 0
      /\ disk = [s \in Sectors |->
                   IF s - RootBase \in TAR .. TAR + 2 * Len(Tar)
                   THEN TarSector(s - RootBase - TAR + 1) ELSE {<<"old">>}]
  BY DEF Init, BootInit, HdInit, RootBase
<1>2. Held = Root
  BY <1>1 DEF Held, Root
<1>3. \A p \in Places : Root[p] = IF p \in TAR .. TAR + 2 * Len(Tar) THEN TarSector(p - TAR + 1)
                                  ELSE {<<"old">>}
  <2>1. \A p \in Places : RootBase + p \in Sectors /\ (RootBase + p) - RootBase = p
    <3>1. RootBase \in Nat /\ \A p \in Places : p \in Nat /\ RootBase + p \in Sectors
      BY PlaceLemma
    <3>2. QED
      BY <3>1
  <2>2. \A p \in Places : Root[p] = IF (RootBase + p) - RootBase \in TAR .. TAR + 2 * Len(Tar)
                                    THEN TarSector((RootBase + p) - RootBase - TAR + 1)
                                    ELSE {<<"old">>}
    BY <1>1, <2>1 DEF Root
  <2>3. QED
    BY <2>1, <2>2
<1>4. TarKept(Root, FALSE)
  <2>1. ASSUME NEW j \in 0 .. 2 * Len(Tar) PROVE Root[TAR + j] = TarSector(j + 1)
    <3>1. TAR + j \in Places /\ TAR + j \in TAR .. TAR + 2 * Len(Tar) /\ (TAR + j) - TAR + 1 = j + 1
      BY PlaceLemma
    <3>2. QED
      BY <1>3, <3>1
  <2>2. Root[TAR] = TarSector(1)
    <3>1. 0 \in 0 .. 2 * Len(Tar) /\ TAR + 0 = TAR /\ 0 + 1 = 1
      BY PlaceLemma
    <3>2. Root[TAR + 0] = TarSector(0 + 1)
      BY <2>1, <3>1
    <3>3. QED
      BY <3>1, <3>2
  <2>3. QED
    BY <2>1, <2>2 DEF TarKept
<1>5. Root[SUPER] = {<<"old">>} /\ Root[ROOT] = {<<"old">>}
  <2>1. SUPER < TAR /\ ROOT < TAR
    BY PlaceLemma DEF SUPER, ROOT
  <2>2. SUPER \in Places /\ ROOT \in Places /\ SUPER \in Nat /\ ROOT \in Nat /\ TAR \in Nat
    BY PlaceLemma DEF SUPER, ROOT
  <2>3. SUPER \notin TAR .. TAR + 2 * Len(Tar) /\ ROOT \notin TAR .. TAR + 2 * Len(Tar)
    BY <2>1, <2>2
  <2>4. QED
    BY <1>3, <2>2, <2>3
<1>6. Root[SUPER] # Super /\ ~ HasRoot(Root)
  <2>1. <<"old">> # <<"super">> /\ <<"old">> # <<"root">>
    OBVIOUS
  <2>2. QED
    BY <1>5, <2>1 DEF Super, HasRoot
<1>7. Bootable(Root, FALSE, 0, FALSE)
  BY <1>4, <1>6 DEF Bootable
<1>8. AtStart.at = "open"
  BY DEF AtStart
<1>9. MayFail(Root, Context) /\ Ended(Root, Context)
  <2> DEFINE x == Context
  <2>1. x.stage = "probe" /\ x.init = AtStart /\ x.torn = FALSE /\ x.crashes = 0 /\ x.slipped = FALSE
    BY <1>1, ContextLemma
  <2> HIDE DEF x
  <2>2. Bootable(Root, x.torn, x.crashes, x.slipped)
    BY <1>7, <2>1, Zenon
  <2>3. MayFail(Root, x)
    <3>1. x.crashes \in Nat /\ x.stage \notin {"root", "up"} /\ x.init.at # "run"
      BY <1>8, <2>1
    <3>2. QED
      BY <2>2, <3>1, BootMayFail
  <2>4. Ended(Root, x)
    BY <2>1, <2>2 DEF Ended
  <2>5. QED
    BY <2>3, <2>4 DEF x
<1>10. Runs(Held, todo, Context)
  BY <1>1, <1>2, <1>9, ReadsLemma
<1>11. TodoFits /\ BufferDue
  <2>1. \A i \in DOMAIN Probe : OneSector(Probe[i])
    BY ProbeLemma
  <2>2. Probe # <<>> /\ Probe[Len(Probe)] = Rd(SUPER)
    BY DEF Probe
  <2>3. QED
    BY <1>1, <2>1, <2>2, PlaceLemma DEF TodoFits, BufferDue, DuePlace
<1>12. Stages
  <2>1. init = [at |-> init.at, nr |-> init.nr, pos |-> init.pos, ino |-> init.ino]
    BY <1>1 DEF AtStart
  <2>2. QED
    BY <1>1, <1>8, <2>1, PlaceLemma DEF Stages
<1>13. QED
  BY <1>1, <1>9, <1>10, <1>11, <1>12 DEF FsInv, RequestsFit, Requested, Landed

----------------------------------------------------------------------------
\* FS asks for the next sector

LEMMA AskHolds ==
  ASSUME IInv, PInv, TInv, FsInv, Ask, UNCHANGED untarVars
  PROVE  FsInv'
<1> DEFINE r == Head(todo)
           t == Tail(todo)
<1>1. /\ todo # <<>> /\ todo' = t /\ req = NoReq /\ disk' = disk
      /\ req' = [type |-> r.type, dev |-> r.dev, pos |-> r.pos, cnt |-> r.cnt]
      /\ UNCHANGED <<stage, super_block, crashes, torn, init, slipped>>
      /\ buf' = IF r.type = "DEV_WRITE" THEN [i \in Slots |-> IF i < r.cnt THEN r.data ELSE buf[i]]
                ELSE buf
      /\ pc' = pc
  BY DEF Ask, RwSector, Submit, hdVars, devVars, untarVars
<1>2. /\ Asking(todo) /\ Len(todo) \in Nat /\ Len(todo) > 0 /\ r = todo[1] /\ 1 \in DOMAIN todo
      /\ Len(t) = Len(todo) - 1 /\ \A i \in DOMAIN t : i + 1 \in DOMAIN todo /\ t[i] = todo[i + 1]
      /\ t # <<>> => Len(t) > 0 /\ t[Len(t)] = todo[Len(todo)]
      /\ t = <<>> => Len(todo) = 1
  <2> DEFINE S == {todo[i] : i \in DOMAIN todo}
  <2>1. todo \in Seq(S) /\ Asking(todo)
    BY DEF IInv, Asking
  <2> HIDE DEF S
  <2>2. /\ Len(todo) \in Nat /\ Len(todo) > 0 /\ r = todo[1] /\ 1 \in DOMAIN todo
        /\ Len(t) = Len(todo) - 1 /\ \A i \in DOMAIN t : i + 1 \in DOMAIN todo /\ t[i] = todo[i + 1]
    BY <1>1, <2>1
  <2>3. t # <<>> => Len(t) > 0
    BY <1>1, <2>1
  <2>4. t # <<>> => Len(t) \in DOMAIN t /\ Len(t) + 1 = Len(todo)
    BY <1>1, <2>1, <2>2, <2>3
  <2>5. t # <<>> => t[Len(t)] = todo[Len(todo)]
    BY <2>2, <2>4
  <2>6. t = <<>> => Len(todo) = 1
    <3>1. Len(<<>>) = 0 /\ \A n \in Nat : n - 1 = 0 => n = 1
      OBVIOUS
    <3>2. QED
      BY <2>2, <3>1
  <2>7. QED
    BY <2>1, <2>2, <2>3, <2>5, <2>6
<1>3. OneSector(r) /\ OneSector(req')
  <2>1. OneSector(r)
    BY <1>2 DEF FsInv, TodoFits
  <2>2. QED
    BY <1>1, <2>1 DEF OneSector
<1> HIDE DEF r, t
<1>4. RequestsFit' /\ Requested'
  <2> DEFINE q == req'
  <2>1. OneSector(q)
    BY <1>3
  <2> HIDE DEF q
  <2>2. /\ IsDevice(q.dev) /\ q.pos \in Nat /\ q.cnt \in Nat /\ 0 .. q.cnt - 1 \subseteq Slots
        /\ q.type \in {"DEV_OPEN", "DEV_IOCTL", "DEV_READ", "DEV_WRITE"}
    BY <2>1, OneSectorFits
  <2>3. RequestsFit'
    BY <2>2 DEF RequestsFit, q
  <2>4. QED
    BY <1>3, <2>3 DEF Requested
<1>5. TodoFits'
  BY <1>1, <1>2 DEF FsInv, TodoFits
<1>6. Landed'
  BY <1>1, QuietLemma DEF Landed, Done
<1>7. BufferDue'
  <2>1. DuePlace' = DuePlace /\ Due' = Due
    BY <1>1 DEF DuePlace, Due
  <2>2. SUFFICES ASSUME Due PROVE BufferDue'
    BY <2>1 DEF BufferDue
  <2>3. DuePlace \in Places /\ todo[Len(todo)] = Rd(DuePlace)
    BY <1>1, <2>2 DEF FsInv, BufferDue
  <2>4. CASE t # <<>>
    BY <1>1, <1>2, <2>1, <2>3, <2>4 DEF BufferDue
  <2>5. CASE t = <<>>
    <3>1. r = Rd(DuePlace)
      BY <1>2, <2>3, <2>5
    <3>2. req'.type = "DEV_READ" /\ req'.pos = DuePlace /\ req' # NoReq
      BY <1>1, <3>1 DEF Rd, NoReq
    <3>3. QED
      BY <1>1, <1>3, <2>1, <2>3, <2>5, <3>2 DEF BufferDue
  <2>6. QED
    BY <2>4, <2>5
<1>8. Stages'
  BY <1>1 DEF FsInv, Stages
<1>9. Held = Root /\ Root' = Root
  BY <1>1 DEF Held, Root
<1>10. Held' = After(Held, r)
  <2>1. CASE r.type = "DEV_WRITE"
    <3>1. buf'[0] = r.data
      <4>1. 0 \in Slots /\ 0 < r.cnt
        BY <1>3, <2>1, PlaceLemma DEF OneSector
      <4>2. QED
        BY <1>1, <2>1, <4>1
    <3>2. req' # NoReq /\ req'.type = "DEV_WRITE" /\ req'.dev = ROOT_DEV /\ req'.pos = r.pos
      BY <1>1, <1>3, <2>1 DEF NoReq, OneSector
    <3>3. Held' = [p \in Places |-> IF r.pos = p THEN r.data ELSE disk[RootBase + p]]
      BY <1>1, <3>1, <3>2 DEF Held
    <3>4. QED
      BY <1>9, <2>1, <3>3 DEF After, Put, Root
  <2>2. CASE r.type # "DEV_WRITE"
    <3>1. req'.type # "DEV_WRITE"
      BY <1>1, <2>2
    <3>2. QED
      BY <1>1, <1>9, <2>2, <3>1 DEF After, Held, Root
  <2>3. QED
    BY <2>1, <2>2
<1>11. Context' = Context
  BY <1>1 DEF Context
<1>12. Runs(After(Held, r), t, Context)
  BY <1>1, <1>2, RunsOn DEF FsInv, r, t
<1>13. QED
  BY <1>1, <1>4, <1>5, <1>6, <1>7, <1>8, <1>9, <1>10, <1>11, <1>12 DEF FsInv

\* A program reads and writes beyond what init_fs and untar use.
LEMMA FileHolds ==
  ASSUME IInv, PInv, FsInv, NEW r \in Files, File(r), init.at = "run", UNCHANGED untarVars
  PROVE  FsInv'
<1>1. /\ req = NoReq /\ disk' = disk /\ stage = "up" /\ pc' = pc
      /\ req' = [type |-> r.type, dev |-> r.dev, pos |-> r.pos, cnt |-> r.cnt]
      /\ UNCHANGED <<stage, todo, super_block, crashes, torn, init, slipped>>
  BY DEF File, RwSector, Submit, hdVars, devVars, untarVars
<1>2. /\ r.type \in {"DEV_OPEN", "DEV_IOCTL", "DEV_READ", "DEV_WRITE"}
      /\ r.type \in {"DEV_READ", "DEV_WRITE"} => r.cnt # 0
      /\ IsDevice(r.dev) /\ r.pos \in Nat /\ r.cnt \in Nat /\ 0 .. r.cnt - 1 \subseteq Slots
  BY BootAssumption
<1>3. RequestsFit'
  BY <1>1, <1>2 DEF RequestsFit
<1>4. Elsewhere(req')
  <2>1. SUFFICES ASSUME r.type = "DEV_WRITE", NEW i \in 0 .. r.cnt - 1, NEW p \in Places
                 PROVE  Where(r.dev) + r.pos + i # RootBase + p
    BY <1>1 DEF Elsewhere
  <2>2. Where(r.dev) + r.pos + i \notin RootBase .. RootBase + TAR + 2 * Len(Tar)
    BY <2>1, RootAssumption DEF RootBase
  <2>3. RootBase + p \in RootBase .. RootBase + TAR + 2 * Len(Tar)
    BY PlaceLemma DEF Places
  <2>4. QED
    BY <2>2, <2>3
<1>5. Held = Root /\ Root' = Root
  BY <1>1 DEF Held, Root
<1>6. Held' = Root
  <2>1. ASSUME r.type = "DEV_WRITE", r.dev = ROOT_DEV, r.pos \in Places PROVE FALSE
    <3>1. 0 \in 0 .. r.cnt - 1
      BY <1>2, <2>1
    <3>2. Where(r.dev) + r.pos + 0 # RootBase + r.pos
      BY <1>1, <1>4, <2>1, <3>1 DEF Elsewhere
    <3>3. RootBase \in Nat /\ Where(r.dev) = RootBase
      BY <2>1, PlaceLemma DEF RootBase
    <3>4. QED
      BY <1>2, <3>2, <3>3
  <2>2. \A p \in Places : ~ (req'.type = "DEV_WRITE" /\ req'.dev = ROOT_DEV /\ req'.pos = p)
    BY <1>1, <2>1
  <2>3. QED
    BY <1>1, <2>2 DEF Held, Root
<1>7. Requested' /\ TodoFits' /\ Landed' /\ BufferDue' /\ Stages'
  <2>1. ~ Due'
    BY <1>1 DEF Due
  <2>2. Done' = {}
    BY <1>1, QuietLemma DEF Done
  <2>3. QED
    BY <1>1, <1>4, <2>1, <2>2 DEF FsInv, Requested, TodoFits, Landed, BufferDue, Stages
<1>8. Context' = Context
  BY <1>1 DEF Context
<1>9. QED
  BY <1>1, <1>3, <1>5, <1>6, <1>7, <1>8 DEF FsInv

----------------------------------------------------------------------------
\* init_fs and INIT go on when the call is answered

\* A request before others.
LEMMA FirstLemma ==
  ASSUME NEW r, NEW s, Asks(r), Asking(s)
  PROVE  /\ Asking(<<r>> \o s) /\ <<r>> \o s # <<>>
         /\ Head(<<r>> \o s) = r /\ Tail(<<r>> \o s) = s
<1> DEFINE S == {s[i] : i \in DOMAIN s} \cup {r}
<1>1. s \in Seq(S) /\ r \in S
  <2> DEFINE T == {s[i] : i \in DOMAIN s}
  <2>1. s \in Seq(T)
    BY DEF Asking
  <2> HIDE DEF T
  <2>2. s \in Seq(T \cup {r}) /\ r \in T \cup {r}
    BY <2>1
  <2>3. QED
    BY <2>2 DEF T
<1> HIDE DEF S
<1>2. <<r>> \o s # <<>> /\ Head(<<r>> \o s) = r /\ Tail(<<r>> \o s) = s
  BY <1>1
<1>3. Asking(<<r>> \o s)
  BY OneLemma, ConcatLemma
<1>4. QED
  BY <1>2, <1>3

\* A request of a call is carried out; reading changes nothing.
LEMMA RunsWrite ==
  ASSUME NEW d, NEW x, NEW s, Asking(s), s # <<>>, MayFail(d, x),
         NEW p, NEW v, Head(s) = Wr(p, v), Runs(Put(d, p, v), Tail(s), x)
  PROVE  Runs(d, s, x)
<1>1. After(d, Head(s)) = Put(d, p, v)
  BY RequestLemma
<1>2. Runs(After(d, Head(s)), Tail(s), x)
  BY <1>1
<1>3. QED
  BY <1>2, RunsOn

LEMMA RunsRead ==
  ASSUME NEW d, NEW x, NEW s, Asking(s), s # <<>>, MayFail(d, x),
         After(d, Head(s)) = d, Runs(d, Tail(s), x)
  PROVE  Runs(d, s, x)
<1>1. Runs(After(d, Head(s)), Tail(s), x)
  OBVIOUS
<1>2. QED
  BY <1>1, RunsOn

\* What is known when the call is answered.
LEMMA AnsweredLemma ==
  ASSUME FsInv, req = NoReq, todo = <<>>
  PROVE  /\ Held = Root /\ MayFail(Root, Context) /\ Ended(Root, Context)
         /\ Due => DuePlace \in Places /\ buf[0] = Root[DuePlace]
<1>1. Held = Root
  BY DEF Held, Root
<1>2. MayFail(Root, Context) /\ Ended(Root, Context)
  BY <1>1, RunsEnd DEF FsInv
<1>3. Due => DuePlace \in Places /\ buf[0] = Root[DuePlace]
  BY DEF FsInv, BufferDue, Root
<1>4. QED
  BY <1>1, <1>2, <1>3

\* The next call is made.
LEMMA CallHolds ==
  ASSUME FsInv, IInv', req = NoReq, UNCHANGED hdSysVars, Runs(Root, todo', Context'),
         \A i \in DOMAIN todo' : OneSector(todo'[i]), Stages',
         Due' => DuePlace' \in Places /\ todo' # <<>> /\ todo'[Len(todo')] = Rd(DuePlace')
  PROVE  FsInv'
<1>1. UNCHANGED <<req, buf, disk>>
  BY DEF hdSysVars, fsVars, devVars
<1>2. Held' = Root /\ Root' = Root
  BY <1>1 DEF Held, Root
<1>3. MayFail(Root, Context')
  <2> DEFINE x == Context'
             s == todo'
  <2>1. Asking(s) /\ Runs(Root, s, x)
    BY DEF IInv
  <2> HIDE DEF x, s
  <2>2. MayFail(Root, x)
    BY <2>1, RunsMayFail
  <2>3. QED
    BY <2>2 DEF x
<1>4. RequestsFit' /\ Requested' /\ Landed'
  BY <1>1 DEF RequestsFit, Requested, Landed
<1>5. TodoFits' /\ BufferDue'
  BY DEF TodoFits, BufferDue
<1>6. QED
  BY <1>2, <1>3, <1>4, <1>5 DEF FsInv

\* init_fs finds a file system, or has made one.
LEMMA BootGoes ==
  ASSUME NEW d, NEW x, x.crashes \in Nat, Bootable(d, x.torn, x.crashes, x.slipped),
         d[SUPER] = Super, x.stage \in {"load", "root", "up"}, x.init = AtStart
  PROVE  MayFail(d, x) /\ Ended(d, x)
<1>1. AtStart.at = "open"
  BY DEF AtStart
<1>2. MayFail(d, x)
  BY <1>1, BootMayFail
<1>3. Ended(d, x)
  BY DEF Ended, UntarAt
<1>4. QED
  BY <1>2, <1>3

\* While there is no root directory, the next boot makes a file system anew, or finds the
\* super block.
LEMMA BareLemma ==
  ASSUME NEW d, NEW x, ~ HasRoot(d), TarKept(d, x.slipped), x.stage \in {"format", "mkfs"},
         x.init = AtStart
  PROVE  MayFail(d, x)
<1>1. AtStart.at = "open"
  BY DEF AtStart
<1>2. TarKept(d, x.slipped \/ (x.init.at = "read" /\ Beyond(d)))
  BY DEF TarKept
<1>3. QED
  BY <1>1, <1>2 DEF MayFail, Bootable

LEMMA BareStep ==
  ASSUME NEW d, DOMAIN d = Places, ~ HasRoot(d), NEW s, TarKept(d, s),
         NEW p \in {SUPER, IMAP, SMAP, INODES, ZONES}, NEW v
  PROVE  /\ ~ HasRoot(Put(d, p, v)) /\ TarKept(Put(d, p, v), s)
         /\ DOMAIN Put(d, p, v) = Places
         /\ \A q \in Places : Put(d, p, v)[q] = IF q = p THEN v ELSE d[q]
<1> DEFINE e == Put(d, p, v)
<1>1. DOMAIN e = Places /\ \A q \in Places : e[q] = IF q = p THEN v ELSE d[q]
  BY DEF Put
<1> HIDE DEF e
<1>2. /\ ROOT # p /\ ROOT \in Places /\ p < TAR /\ p \in Nat /\ TAR \in Nat /\ TAR \in Places
      /\ \A j \in 1 .. 2 * Len(Tar) : TAR + j \in Places /\ TAR + j > p
  <2>1. p \in Nat /\ p < 7 /\ ROOT # p
    BY DEF ROOT, SUPER, IMAP, SMAP, INODES, ZONES
  <2>2. TAR \in Nat /\ TAR >= 7 /\ Len(Tar) \in Nat /\ ROOT \in Places
    BY PlaceLemma
  <2>3. ASSUME NEW j \in 0 .. 2 * Len(Tar) PROVE TAR + j \in Places /\ TAR + j > p
    BY <2>1, <2>2, <2>3, PlaceLemma
  <2>4. TAR \in Places
    <3>1. 0 \in 0 .. 2 * Len(Tar) /\ TAR + 0 = TAR
      BY <2>2
    <3>2. QED
      BY <2>3, <3>1
  <2>5. \A j \in 1 .. 2 * Len(Tar) : j \in 0 .. 2 * Len(Tar)
    BY <2>2
  <2>6. QED
    BY <2>1, <2>2, <2>3, <2>4, <2>5
<1>3. ~ HasRoot(e)
  BY <1>1, <1>2 DEF HasRoot
<1>4. e[TAR] = d[TAR] /\ \A j \in 1 .. 2 * Len(Tar) : e[TAR + j] = d[TAR + j]
  BY <1>1, <1>2
<1>5. TarKept(e, s)
  BY <1>4 DEF TarKept
<1>6. QED
  BY <1>1, <1>3, <1>5 DEF e

----------------------------------------------------------------------------
\* mkfs

\* Where there is no file system yet.
Bare(d, x) ==
  /\ DOMAIN d = Places /\ ~ HasRoot(d) /\ TarKept(d, x.slipped)
  /\ x.stage \in {"format", "mkfs"} /\ x.init = AtStart

LEMMA BareRuns ==
  ASSUME NEW d, NEW x, NEW s, Bare(d, x), Asking(s), s # <<>>
  PROVE  /\ \A p : Head(s) = Rd(p) /\ Runs(d, Tail(s), x) => Runs(d, s, x)
         /\ Head(s) = Op("DEV_IOCTL") /\ Runs(d, Tail(s), x) => Runs(d, s, x)
         /\ \A p, v : Head(s) = Wr(p, v) /\ Runs(Put(d, p, v), Tail(s), x) => Runs(d, s, x)
<1>1. MayFail(d, x)
  BY BareLemma DEF Bare
<1>2. ASSUME NEW p, Head(s) = Rd(p), Runs(d, Tail(s), x) PROVE Runs(d, s, x)
  <2>1. After(d, Head(s)) = d
    BY <1>2, RequestLemma
  <2>2. QED
    BY <1>1, <1>2, <2>1, RunsRead
<1>3. ASSUME Head(s) = Op("DEV_IOCTL"), Runs(d, Tail(s), x) PROVE Runs(d, s, x)
  <2>1. After(d, Head(s)) = d
    BY <1>3, RequestLemma
  <2>2. QED
    BY <1>1, <1>3, <2>1, RunsRead
<1>4. ASSUME NEW p, NEW v, Head(s) = Wr(p, v), Runs(Put(d, p, v), Tail(s), x)
      PROVE  Runs(d, s, x)
  BY <1>1, <1>4, RunsWrite
<1>5. QED
  BY <1>2, <1>3, <1>4

LEMMA BareOn ==
  ASSUME NEW d, NEW x, Bare(d, x), NEW p \in {SUPER, IMAP, SMAP, INODES, ZONES}, NEW v
  PROVE  /\ Bare(Put(d, p, v), x)
         /\ \A q \in Places : Put(d, p, v)[q] = IF q = p THEN v ELSE d[q]
  BY BareStep DEF Bare

LEMMA FormatRuns ==
  ASSUME NEW d, NEW x, Bare(d, x), x.stage = "format"
  PROVE  Runs(d, Format, x)
<1> DEFINE e == Put(d, SUPER, Super)
           s == <<Wr(SUPER, Super), Rd(SUPER)>>
           t == <<Rd(SUPER)>>
<1>1. /\ Format # <<>> /\ Head(Format) = Op("DEV_IOCTL") /\ Tail(Format) = s /\ Asking(Format)
      /\ s # <<>> /\ Head(s) = Wr(SUPER, Super) /\ Tail(s) = t
      /\ t # <<>> /\ Head(t) = Rd(SUPER) /\ Tail(t) = <<>>
  BY RequestsLemma DEF Format
<1> HIDE DEF s, t
<1>2. Asking(s) /\ Asking(t)
  BY <1>1, RestLemma
<1>3. Bare(e, x) /\ e[SUPER] = Super
  BY BareOn, PlaceLemma
<1> HIDE DEF e
<1>4. MayFail(e, x) /\ Ended(e, x)
  BY <1>3, BareLemma DEF Bare, Ended
<1>5. Runs(e, <<>>, x)
  BY <1>4, RunsEnd
<1>6. Runs(e, t, x)
  BY <1>1, <1>2, <1>3, <1>5, BareRuns
<1>7. Runs(d, s, x)
  BY <1>1, <1>2, <1>6, BareRuns DEF e
<1>8. QED
  BY <1>1, <1>7, BareRuns

\* A file system with nothing in it.
LEMMA FreshLemma ==
  ASSUME NEW d, NEW c \in Nat, d[SUPER] = Super, d[IMAP] = {<<"imap">>},
         d[SMAP] = {<<"smap">>, <<"tar">>, <<"zones">>}, d[INODES] = {<<"inodes">>, <<"dir", 0>>},
         d[ROOT] = {<<"root">>}, d[ZONES] = {<<"zones">>}
  PROVE  IsFileSystem(d, c) /\ ~ Beyond(d) /\ HasRoot(d)
<1> DEFINE f == [m \in {} |-> m]
<1>1. DOMAIN f = {} /\ f \in [{} -> {}]
  OBVIOUS
<1> HIDE DEF f
<1>2. Holds(d, {}, {}, 0, f, f, f, f)
  BY <1>1 DEF Holds, InodesOf, EntriesOf
<1>3. Sound({}, {}, 0, f, f, f, f, c)
  <2>1. Cardinality({}) = 0 /\ 0 <= 0 + c /\ 0 \in 0 .. Len(Tar)
    BY FS_EmptySet, PlaceLemma
  <2>2. 1 .. 0 \subseteq {}
    OBVIOUS
  <2>3. f \in [{} -> Nat] /\ f \in [{} -> Names] /\ {} \subseteq FilePlaces /\ {} \subseteq 1 .. TAR
    BY <1>1
  <2>4. QED
    BY <1>1, <2>1, <2>2, <2>3 DEF Sound
<1>4. IsFileSystem(d, c)
  BY <1>2, <1>3 DEF IsFileSystem
<1>5. ~ Beyond(d)
  <2>1. <<"root">>[1] # "entry"
    OBVIOUS
  <2>2. QED
    BY <2>1 DEF Beyond
<1>6. QED
  BY <1>4, <1>5 DEF HasRoot

LEMMA MkfsRuns ==
  ASSUME NEW d, NEW x, Bare(d, x), x.stage = "mkfs", x.crashes \in Nat, d[SUPER] = Super
  PROVE  Runs(d, Mkfs, x)
<1> DEFINE m1 == {<<"smap">>}
           m2 == {<<"smap">>, <<"tar">>}
           m3 == {<<"smap">>, <<"tar">>, <<"zones">>}
           i1 == {<<"inodes">>, <<"dir", 0>>}
           s9 == <<Wr(ROOT, {<<"root">>})>>
           s8 == <<Wr(INODES, i1), Wr(ROOT, {<<"root">>})>>
           s7 == <<Wr(ZONES, {<<"zones">>}), Wr(INODES, i1), Wr(ROOT, {<<"root">>})>>
           s6 == <<Rd(ZONES), Wr(ZONES, {<<"zones">>}), Wr(INODES, i1), Wr(ROOT, {<<"root">>})>>
           s5 == <<Wr(SMAP, m3), Rd(ZONES), Wr(ZONES, {<<"zones">>}), Wr(INODES, i1),
                   Wr(ROOT, {<<"root">>})>>
           s4 == <<Rd(SMAP), Wr(SMAP, m3), Rd(ZONES), Wr(ZONES, {<<"zones">>}), Wr(INODES, i1),
                   Wr(ROOT, {<<"root">>})>>
           s3 == <<Wr(SMAP, m2), Rd(SMAP), Wr(SMAP, m3), Rd(ZONES), Wr(ZONES, {<<"zones">>}),
                   Wr(INODES, i1), Wr(ROOT, {<<"root">>})>>
           s2 == <<Rd(SMAP), Wr(SMAP, m2), Rd(SMAP), Wr(SMAP, m3), Rd(ZONES),
                   Wr(ZONES, {<<"zones">>}), Wr(INODES, i1), Wr(ROOT, {<<"root">>})>>
           s1 == <<Wr(SMAP, m1), Rd(SMAP), Wr(SMAP, m2), Rd(SMAP), Wr(SMAP, m3), Rd(ZONES),
                   Wr(ZONES, {<<"zones">>}), Wr(INODES, i1), Wr(ROOT, {<<"root">>})>>
<1>1. /\ Mkfs # <<>> /\ Head(Mkfs) = Wr(IMAP, {<<"imap">>}) /\ Tail(Mkfs) = s1
      /\ s1 # <<>> /\ Head(s1) = Wr(SMAP, m1) /\ Tail(s1) = s2
      /\ s2 # <<>> /\ Head(s2) = Rd(SMAP) /\ Tail(s2) = s3
  BY DEF Mkfs
<1>2. /\ s3 # <<>> /\ Head(s3) = Wr(SMAP, m2) /\ Tail(s3) = s4
      /\ s4 # <<>> /\ Head(s4) = Rd(SMAP) /\ Tail(s4) = s5
      /\ s5 # <<>> /\ Head(s5) = Wr(SMAP, m3) /\ Tail(s5) = s6
  OBVIOUS
<1>3. /\ s6 # <<>> /\ Head(s6) = Rd(ZONES) /\ Tail(s6) = s7
      /\ s7 # <<>> /\ Head(s7) = Wr(ZONES, {<<"zones">>}) /\ Tail(s7) = s8
      /\ s8 # <<>> /\ Head(s8) = Wr(INODES, i1) /\ Tail(s8) = s9
      /\ s9 # <<>> /\ Head(s9) = Wr(ROOT, {<<"root">>}) /\ Tail(s9) = <<>>
  OBVIOUS
<1> HIDE DEF s1, s2, s3, s4, s5, s6, s7, s8, s9, m1, m2, i1
<1>4. /\ Asking(Mkfs) /\ Asking(s1) /\ Asking(s2) /\ Asking(s3) /\ Asking(s4) /\ Asking(s5)
      /\ Asking(s6) /\ Asking(s7) /\ Asking(s8) /\ Asking(s9)
  BY <1>1, <1>2, <1>3, RequestsLemma, RestLemma
<1> DEFINE d1 == Put(d, IMAP, {<<"imap">>})
           d2 == Put(d1, SMAP, m1)
           d3 == Put(d2, SMAP, m2)
           d4 == Put(d3, SMAP, m3)
           d5 == Put(d4, ZONES, {<<"zones">>})
           d6 == Put(d5, INODES, i1)
           d7 == Put(d6, ROOT, {<<"root">>})
<1> HIDE DEF m3
<1>5. /\ d1 = Put(d, IMAP, {<<"imap">>}) /\ d2 = Put(d1, SMAP, m1)
      /\ d3 = Put(d2, SMAP, m2) /\ d4 = Put(d3, SMAP, m3)
      /\ d5 = Put(d4, ZONES, {<<"zones">>}) /\ d6 = Put(d5, INODES, i1)
      /\ d7 = Put(d6, ROOT, {<<"root">>})
  OBVIOUS
<1> HIDE DEF d1, d2, d3, d4, d5, d6, d7
<1>6. /\ Bare(d1, x) /\ \A q \in Places : d1[q] = IF q = IMAP THEN {<<"imap">>} ELSE d[q]
      /\ Bare(d2, x) /\ \A q \in Places : d2[q] = IF q = SMAP THEN m1 ELSE d1[q]
  <2>1. Bare(d1, x) /\ \A q \in Places : d1[q] = IF q = IMAP THEN {<<"imap">>} ELSE d[q]
    BY <1>5, BareOn
  <2>2. Bare(d2, x) /\ \A q \in Places : d2[q] = IF q = SMAP THEN m1 ELSE d1[q]
    BY <1>5, <2>1, BareOn
  <2>3. QED
    BY <2>1, <2>2
<1>7. Bare(d3, x) /\ \A q \in Places : d3[q] = IF q = SMAP THEN m2 ELSE d2[q]
  BY <1>5, <1>6, BareOn
<1>8. Bare(d4, x) /\ \A q \in Places : d4[q] = IF q = SMAP THEN m3 ELSE d3[q]
  BY <1>5, <1>7, BareOn
<1>9. Bare(d5, x) /\ \A q \in Places : d5[q] = IF q = ZONES THEN {<<"zones">>} ELSE d4[q]
  BY <1>5, <1>8, BareOn
<1>10. Bare(d6, x) /\ \A q \in Places : d6[q] = IF q = INODES THEN i1 ELSE d5[q]
  BY <1>5, <1>9, BareOn
<1>11. DOMAIN d7 = Places /\ \A q \in Places : d7[q] = IF q = ROOT THEN {<<"root">>} ELSE d6[q]
  BY <1>5, <1>10 DEF Bare, Put
<1>12. /\ d7[SUPER] = Super /\ d7[IMAP] = {<<"imap">>} /\ d7[SMAP] = m3 /\ d7[INODES] = i1
       /\ d7[ROOT] = {<<"root">>} /\ d7[ZONES] = {<<"zones">>}
  <2>1. /\ SUPER # IMAP /\ SUPER # SMAP /\ SUPER # INODES /\ SUPER # ROOT /\ SUPER # ZONES
        /\ IMAP # SMAP /\ IMAP # INODES /\ IMAP # ROOT /\ IMAP # ZONES /\ SMAP # INODES
        /\ SMAP # ROOT /\ SMAP # ZONES /\ INODES # ROOT /\ INODES # ZONES /\ ROOT # ZONES
    BY DEF SUPER, IMAP, SMAP, INODES, ROOT, ZONES
  <2>2. /\ SUPER \in Places /\ IMAP \in Places /\ SMAP \in Places /\ INODES \in Places
        /\ ROOT \in Places /\ ZONES \in Places
    BY PlaceLemma
  <2>3. d7[SUPER] = Super /\ d7[IMAP] = {<<"imap">>}
    BY <1>6, <1>7, <1>8, <1>9, <1>10, <1>11, <2>1, <2>2
  <2>4. d7[SMAP] = m3 /\ d7[INODES] = i1 /\ d7[ROOT] = {<<"root">>} /\ d7[ZONES] = {<<"zones">>}
    BY <1>8, <1>9, <1>10, <1>11, <2>1, <2>2
  <2>5. QED
    BY <2>3, <2>4
<1>13. IsFileSystem(d7, x.crashes) /\ ~ Beyond(d7) /\ HasRoot(d7)
  BY <1>12, FreshLemma DEF m3, i1
<1>14. TarKept(d7, x.slipped)
  <2>1. TarKept(d6, x.slipped) /\ ~ HasRoot(d6)
    BY <1>10 DEF Bare
  <2>2. ASSUME NEW j \in 0 .. 2 * Len(Tar) PROVE d7[TAR + j] = d6[TAR + j]
    <3>1. TAR + j \in Places /\ TAR + j > ROOT
      BY PlaceLemma DEF ROOT
    <3>2. QED
      BY <1>11, <3>1 DEF ROOT
  <2>3. d7[TAR] = d6[TAR]
    <3>1. 0 \in 0 .. 2 * Len(Tar) /\ TAR + 0 = TAR
      BY PlaceLemma
    <3>2. QED
      BY <2>2, <3>1
  <2>4. \A j \in 1 .. 2 * Len(Tar) : j \in 0 .. 2 * Len(Tar)
    BY PlaceLemma
  <2>5. QED
    BY <2>1, <2>2, <2>3, <2>4 DEF TarKept
<1>15. Bootable(d7, x.torn, x.crashes, x.slipped)
  BY <1>13, <1>14 DEF Bootable
<1>16. x.init = AtStart /\ AtStart.at = "open"
  BY DEF Bare, AtStart
<1>17. MayFail(d7, x)
  BY <1>12, <1>15, <1>16, BootMayFail
<1>18. Ended(d7, x)
  BY <1>12, <1>15, <1>16 DEF Ended
<1>19. Runs(d7, <<>>, x)
  BY <1>17, <1>18, RunsEnd
<1>20. Runs(d6, s9, x)
  BY <1>5, <1>3, <1>4, <1>10, <1>19, BareRuns
<1>21. Runs(d5, s8, x)
  BY <1>5, <1>3, <1>4, <1>9, <1>20, BareRuns
<1>22. Runs(d4, s7, x)
  BY <1>5, <1>3, <1>4, <1>8, <1>21, BareRuns
<1>23. Runs(d4, s6, x)
  BY <1>5, <1>3, <1>4, <1>8, <1>22, BareRuns
<1>24. Runs(d3, s5, x)
  BY <1>5, <1>2, <1>4, <1>7, <1>23, BareRuns
<1>25. Runs(d3, s4, x)
  BY <1>5, <1>2, <1>4, <1>7, <1>24, BareRuns
<1>26. Runs(d2, s3, x)
  BY <1>5, <1>2, <1>4, <1>6, <1>25, BareRuns
<1>27. Runs(d2, s2, x)
  BY <1>5, <1>1, <1>4, <1>6, <1>26, BareRuns
<1>28. Runs(d1, s1, x)
  BY <1>5, <1>1, <1>4, <1>6, <1>27, BareRuns
<1>29. QED
  BY <1>5, <1>1, <1>4, <1>28, BareRuns

----------------------------------------------------------------------------
\* init_fs

\* The requests of init_fs are of one sector each.
LEMMA SectorsLemma ==
  /\ \A p \in Places : \A i \in DOMAIN <<Rd(p)>> : OneSector(<<Rd(p)>>[i])
  /\ \A i \in DOMAIN Format : OneSector(Format[i])
  /\ \A i \in DOMAIN Mkfs : OneSector(Mkfs[i])
  /\ Format # <<>> /\ Format[Len(Format)] = Rd(SUPER)
<1>1. /\ \A p \in {SUPER, IMAP, SMAP, INODES, ROOT, ZONES} : OneSector(Rd(p))
      /\ \A p \in {SUPER, IMAP, SMAP, INODES, ROOT, ZONES} : \A v : OneSector(Wr(p, v))
  BY RequestLemma, PlaceLemma
<1>2. \A i \in DOMAIN Format : OneSector(Format[i])
  <2>1. /\ DOMAIN Format = {1, 2, 3} /\ Format[1] = Op("DEV_IOCTL") /\ Format[2] = Wr(SUPER, Super)
        /\ Format[3] = Rd(SUPER)
    BY DEF Format
  <2>2. QED
    BY <1>1, <2>1, RequestLemma
<1>3. \A i \in DOMAIN Mkfs : OneSector(Mkfs[i])
  <2>1. /\ DOMAIN Mkfs = {1, 2, 3, 4, 5, 6, 7, 8, 9, 10}
        /\ Mkfs[1] = Wr(IMAP, {<<"imap">>}) /\ Mkfs[2] = Wr(SMAP, {<<"smap">>})
        /\ Mkfs[3] = Rd(SMAP) /\ Mkfs[4] = Wr(SMAP, {<<"smap">>, <<"tar">>})
        /\ Mkfs[5] = Rd(SMAP) /\ Mkfs[6] = Wr(SMAP, {<<"smap">>, <<"tar">>, <<"zones">>})
        /\ Mkfs[7] = Rd(ZONES) /\ Mkfs[8] = Wr(ZONES, {<<"zones">>})
        /\ Mkfs[9] = Wr(INODES, {<<"inodes">>, <<"dir", 0>>}) /\ Mkfs[10] = Wr(ROOT, {<<"root">>})
    BY DEF Mkfs
  <2>2. /\ OneSector(Mkfs[1]) /\ OneSector(Mkfs[2]) /\ OneSector(Mkfs[3]) /\ OneSector(Mkfs[4])
        /\ OneSector(Mkfs[5]) /\ OneSector(Mkfs[6]) /\ OneSector(Mkfs[7]) /\ OneSector(Mkfs[8])
        /\ OneSector(Mkfs[9]) /\ OneSector(Mkfs[10])
    BY <1>1, <2>1
  <2>3. QED
    BY <2>1, <2>2
<1>4. Format # <<>> /\ Format[Len(Format)] = Rd(SUPER)
  BY DEF Format
<1>5. ASSUME NEW p \in Places, NEW i \in DOMAIN <<Rd(p)>> PROVE OneSector(<<Rd(p)>>[i])
  <2>1. <<Rd(p)>>[i] = Rd(p)
    OBVIOUS
  <2>2. QED
    BY <2>1, RequestLemma
<1>6. QED
  BY <1>2, <1>3, <1>4, <1>5

\* What a sector of a file system that is being looked for holds.
LEMMA BootSays ==
  ASSUME FsInv, req = NoReq, todo = <<>>, stage \in {"probe", "format", "mkfs", "load", "root"}
  PROVE  /\ MayFail(Root, Context) /\ init = AtStart /\ crashes \in Nat /\ DOMAIN Root = Places
         /\ stage # "format" => Bootable(Root, torn, crashes, slipped)
         /\ stage \in {"mkfs", "load", "root"} => Root[SUPER] = Super
         /\ stage = "format" => Root[SUPER] = Super /\ ~ HasRoot(Root) /\ TarKept(Root, slipped)
         /\ stage \in {"probe", "format", "load"} => buf[0] = Root[SUPER]
<1>1. MayFail(Root, Context) /\ Ended(Root, Context)
  BY AnsweredLemma
<1>2. crashes \in Nat
  BY PlaceLemma DEF FsInv, Stages
<1>3. stage \in {"probe", "format", "load"} => buf[0] = Root[SUPER]
  BY AnsweredLemma DEF Due, DuePlace
<1>4. DOMAIN Root = Places
  BY DEF Root
<1>5. QED
  BY <1>1, <1>2, <1>3, <1>4, ContextLemma DEF Ended

LEMMA ProbeHolds ==
  ASSUME IInv', FsInv, ProbeAnswered, UNCHANGED untarVars
  PROVE  FsInv'
<1>1. /\ req = NoReq /\ todo = <<>> /\ stage = "probe"
      /\ UNCHANGED <<super_block, crashes, torn, init, slipped, disk>> /\ UNCHANGED hdSysVars
      /\ IF buf[0] # Super THEN stage' = "format" /\ todo' = Format
         ELSE stage' = "load" /\ todo' = <<Rd(SUPER)>>
  BY DEF ProbeAnswered, Answered, Go, untarVars, hdSysVars, devVars
<1>2. /\ init = AtStart /\ crashes \in Nat /\ DOMAIN Root = Places
      /\ Bootable(Root, torn, crashes, slipped) /\ buf[0] = Root[SUPER]
  BY <1>1, BootSays
<1> DEFINE x == Context'
<1>3. /\ x.stage = stage' /\ x.init = init /\ x.torn = torn /\ x.crashes = crashes
      /\ x.slipped = slipped
  BY <1>1 DEF Context
<1> HIDE DEF x
<1>4. CASE buf[0] # Super
  <2>1. stage' = "format" /\ todo' = Format /\ ~ HasRoot(Root)
    BY <1>1, <1>2, <1>4, SuperLemma DEF Bootable
  <2>2. TarKept(Root, slipped)
    BY <1>2 DEF Bootable
  <2>3. Bare(Root, x)
    BY <1>2, <1>3, <2>1, <2>2 DEF Bare
  <2>4. Runs(Root, todo', x)
    BY <1>3, <2>1, <2>3, FormatRuns
  <2>5. Stages'
    BY <1>1, <1>2, <2>1 DEF FsInv, Stages, AtStart
  <2>6. DuePlace' = SUPER /\ SUPER \in Places
    BY <2>1, PlaceLemma DEF DuePlace
  <2>7. QED
    BY <1>1, <2>1, <2>4, <2>5, <2>6, CallHolds, SectorsLemma DEF x
<1>5. CASE buf[0] = Super
  <2>1. stage' = "load" /\ todo' = <<Rd(SUPER)>> /\ Root[SUPER] = Super
    BY <1>1, <1>2, <1>5
  <2>2. MayFail(Root, x) /\ Ended(Root, x)
    BY <1>2, <1>3, <2>1, BootGoes
  <2>3. Runs(Root, todo', x)
    BY <2>1, <2>2, ReadsLemma
  <2>4. Stages'
    BY <1>1, <1>2, <2>1 DEF FsInv, Stages, AtStart
  <2>5. DuePlace' = SUPER /\ SUPER \in Places
    BY <2>1, PlaceLemma DEF DuePlace
  <2>6. <<Rd(SUPER)>> # <<>> /\ <<Rd(SUPER)>>[Len(<<Rd(SUPER)>>)] = Rd(SUPER)
    OBVIOUS
  <2>7. \A i \in DOMAIN todo' : OneSector(todo'[i])
    BY <2>1, <2>5, SectorsLemma
  <2>8. QED
    BY <1>1, <2>1, <2>3, <2>4, <2>5, <2>6, <2>7, CallHolds DEF x
<1>6. QED
  BY <1>4, <1>5

\* The super block of mkfs is read, or that of a file system that is there.
LEMMA SuperHolds ==
  ASSUME IInv', FsInv, ReadSuperBlock, UNCHANGED untarVars
  PROVE  FsInv'
<1>1. /\ req = NoReq /\ todo = <<>> /\ stage \in {"format", "load"} /\ super_block' = buf[0]
      /\ UNCHANGED <<crashes, torn, init, slipped, disk>> /\ UNCHANGED hdSysVars
      /\ IF stage = "format" THEN stage' = "mkfs" /\ todo' = Mkfs
         ELSE stage' = "root" /\ todo' = <<Rd(INODES)>>
  BY DEF ReadSuperBlock, Answered, Go, untarVars, hdSysVars, devVars
<1>2. /\ init = AtStart /\ crashes \in Nat /\ DOMAIN Root = Places
      /\ stage # "format" => Bootable(Root, torn, crashes, slipped)
      /\ Root[SUPER] = Super /\ buf[0] = Super
      /\ stage = "format" => ~ HasRoot(Root) /\ TarKept(Root, slipped)
  BY <1>1, BootSays
<1> DEFINE x == Context'
<1>3. /\ x.stage = stage' /\ x.init = init /\ x.torn = torn /\ x.crashes = crashes
      /\ x.slipped = slipped
  BY <1>1 DEF Context
<1> HIDE DEF x
<1>4. ~ Due'
  BY <1>1 DEF Due
<1>5. Stages'
  BY <1>1, <1>2 DEF FsInv, Stages, AtStart
<1>6. CASE stage = "format"
  <2>1. stage' = "mkfs" /\ todo' = Mkfs /\ Bare(Root, x)
    BY <1>1, <1>2, <1>3, <1>6 DEF Bare
  <2>2. Runs(Root, todo', x)
    BY <1>2, <1>3, <2>1, MkfsRuns
  <2>3. QED
    BY <1>1, <1>4, <1>5, <2>1, <2>2, CallHolds, SectorsLemma DEF x
<1>7. CASE stage = "load"
  <2>1. stage' = "root" /\ todo' = <<Rd(INODES)>>
    BY <1>1, <1>7
  <2>2. MayFail(Root, x) /\ Ended(Root, x)
    BY <1>2, <1>3, <1>7, <2>1, BootGoes
  <2>3. Runs(Root, todo', x)
    BY <2>1, <2>2, ReadsLemma
  <2>4. \A i \in DOMAIN todo' : OneSector(todo'[i])
    BY <2>1, SectorsLemma, PlaceLemma
  <2>5. QED
    BY <1>1, <1>4, <1>5, <2>1, <2>3, <2>4, CallHolds DEF x
<1>8. QED
  BY <1>1, <1>6, <1>7

\* The root directory is found, and FS is up.
LEMMA RootHolds ==
  ASSUME IInv', FsInv, MkfsAnswered \/ RootAnswered, UNCHANGED untarVars
  PROVE  FsInv'
<1>1. /\ req = NoReq /\ todo = <<>> /\ stage \in {"mkfs", "root"}
      /\ UNCHANGED <<super_block, crashes, torn, init, slipped, disk>> /\ UNCHANGED hdSysVars
      /\ \/ stage' = "root" /\ todo' = <<Rd(INODES)>>
         \/ stage' = "up" /\ todo' = <<>>
  BY DEF MkfsAnswered, RootAnswered, Answered, Go, untarVars, hdSysVars, devVars
<1>2. /\ init = AtStart /\ crashes \in Nat /\ Bootable(Root, torn, crashes, slipped)
      /\ Root[SUPER] = Super
  BY <1>1, BootSays
<1> DEFINE x == Context'
<1>3. /\ x.stage = stage' /\ x.init = init /\ x.torn = torn /\ x.crashes = crashes
      /\ x.slipped = slipped
  BY <1>1 DEF Context
<1> HIDE DEF x
<1>4. ~ Due'
  BY <1>1, <1>2 DEF Due, AtStart
<1>5. Stages'
  BY <1>1, <1>2 DEF FsInv, Stages, AtStart
<1>6. MayFail(Root, x) /\ Ended(Root, x)
  BY <1>1, <1>2, <1>3, BootGoes
<1>7. Runs(Root, todo', x)
  BY <1>1, <1>6, ReadsLemma
<1>8. \A i \in DOMAIN todo' : OneSector(todo'[i])
  <2>1. DOMAIN <<>> = {}
    OBVIOUS
  <2>2. QED
    BY <1>1, <2>1, SectorsLemma, PlaceLemma
<1>9. QED
  BY <1>1, <1>4, <1>5, <1>7, <1>8, CallHolds DEF x

----------------------------------------------------------------------------
\* Files

\* A function with another value.
With(f, n, v) == [m \in DOMAIN f \cup {n} |-> IF m = n THEN v ELSE f[m]]

LEMMA WithLemma ==
  ASSUME NEW f, NEW n, NEW v
  PROVE  /\ DOMAIN With(f, n, v) = DOMAIN f \cup {n} /\ With(f, n, v)[n] = v
         /\ \A m \in DOMAIN f : m # n => With(f, n, v)[m] = f[m]
         /\ \A S : f \in [DOMAIN f -> S] /\ v \in S => With(f, n, v) \in [DOMAIN f \cup {n} -> S]
  BY DEF With

LEMMA InodesLemma ==
  ASSUME NEW k, NEW zone, NEW size
  PROVE  \A x : x \in InodesOf(k, zone, size) <=>
                  \/ x = <<"inodes">> \/ x = <<"dir", k>>
                  \/ \E m \in DOMAIN zone : x = <<"inode", m, zone[m], size[m]>>
  BY DEF InodesOf

LEMMA EntryLemma ==
  ASSUME NEW name, NEW ino
  PROVE  \A x : x \in EntriesOf(name, ino) <=>
                  \/ x = <<"root">> \/ \E i \in DOMAIN name : x = <<"entry", i, name[i], ino[i]>>
  BY DEF EntriesOf

LEMMA SyncInodeLemma ==
  ASSUME NEW k, NEW zone, NEW size, DOMAIN size = DOMAIN zone, NEW n, NEW z, NEW s
  PROVE  SyncInode(InodesOf(k, zone, size), n, z, s) = InodesOf(k, With(zone, n, z), With(size, n, s))
<1> DEFINE S == SyncInode(InodesOf(k, zone, size), n, z, s)
           zz == With(zone, n, z)
           ss == With(size, n, s)
           T == InodesOf(k, zz, ss)
<1>1. \A x : x \in S <=> \/ x \in InodesOf(k, zone, size) /\ (x[1] # "inode" \/ x[2] # n)
                         \/ x = <<"inode", n, z, s>>
  BY DEF SyncInode
<1>2. \A x : x \in T <=> \/ x = <<"inodes">> \/ x = <<"dir", k>>
                         \/ \E m \in DOMAIN zz : x = <<"inode", m, zz[m], ss[m]>>
  BY InodesLemma
<1>3. /\ DOMAIN zz = DOMAIN zone \cup {n} /\ zz[n] = z /\ ss[n] = s
      /\ \A m \in DOMAIN zone : m # n => zz[m] = zone[m] /\ ss[m] = size[m]
  BY DEF With
<1> HIDE DEF S, T, zz, ss
<1>4. ASSUME NEW x \in S PROVE x \in T
  <2>1. CASE x = <<"inode", n, z, s>>
    BY <1>2, <1>3, <2>1
  <2>2. CASE x = <<"inodes">> \/ x = <<"dir", k>>
    BY <1>2, <2>2
  <2>3. CASE \E m \in DOMAIN zone : x = <<"inode", m, zone[m], size[m]>> /\ (x[1] # "inode" \/ x[2] # n)
    <3>1. PICK m \in DOMAIN zone : x = <<"inode", m, zone[m], size[m]>> /\ (x[1] # "inode" \/ x[2] # n)
      BY <2>3
    <3>2. m # n
      BY <3>1
    <3>3. QED
      BY <1>2, <1>3, <3>1, <3>2
  <2>4. QED
    BY <1>1, <1>4, <2>1, <2>2, <2>3, InodesLemma
<1>5. ASSUME NEW x \in T PROVE x \in S
  <2>1. CASE x = <<"inodes">> \/ x = <<"dir", k>>
    <3>1. x[1] # "inode" /\ x \in InodesOf(k, zone, size)
      BY <2>1, InodesLemma
    <3>2. QED
      BY <1>1, <3>1
  <2>2. CASE \E m \in DOMAIN zz : x = <<"inode", m, zz[m], ss[m]>>
    <3>1. PICK m \in DOMAIN zz : x = <<"inode", m, zz[m], ss[m]>>
      BY <2>2
    <3>2. CASE m = n
      BY <1>1, <1>3, <3>1, <3>2
    <3>3. CASE m # n
      <4>1. m \in DOMAIN zone /\ x = <<"inode", m, zone[m], size[m]>>
        BY <1>3, <3>1, <3>3
      <4>2. x[2] # n
        BY <3>3, <4>1
      <4>3. x \in InodesOf(k, zone, size)
        BY <4>1, InodesLemma
      <4>4. QED
        BY <1>1, <4>2, <4>3
    <3>4. QED
      BY <3>2, <3>3
  <2>3. QED
    BY <1>2, <1>5, <2>1, <2>2
<1>6. S = T
  BY <1>4, <1>5
<1>7. QED
  BY <1>6 DEF S, T, zz, ss

LEMMA SyncDirLemma ==
  ASSUME NEW k, NEW zone, NEW size, NEW j
  PROVE  SyncDir(InodesOf(k, zone, size), j) = InodesOf(j, zone, size)
<1> DEFINE S == SyncDir(InodesOf(k, zone, size), j)
           T == InodesOf(j, zone, size)
<1>1. \A x : x \in S <=> (x \in InodesOf(k, zone, size) /\ x[1] # "dir") \/ x = <<"dir", j>>
  BY DEF SyncDir
<1>2. \A x : x \in T <=> \/ x = <<"inodes">> \/ x = <<"dir", j>>
                         \/ \E m \in DOMAIN zone : x = <<"inode", m, zone[m], size[m]>>
  BY InodesLemma
<1> HIDE DEF S, T
<1>3. ASSUME NEW x PROVE x \in S <=> x \in T
  <2>1. x = <<"inodes">> => x[1] # "dir"
    OBVIOUS
  <2>2. x = <<"dir", k>> => x[1] = "dir"
    OBVIOUS
  <2>3. \A m \in DOMAIN zone : x = <<"inode", m, zone[m], size[m]>> => x[1] # "dir"
    OBVIOUS
  <2>4. QED
    BY <1>1, <1>2, <2>1, <2>2, <2>3, InodesLemma
<1>4. S = T
  BY <1>3
<1>5. QED
  BY <1>4 DEF S, T

LEMMA NewEntryLemma ==
  ASSUME NEW name, NEW ino, DOMAIN ino = DOMAIN name, NEW i, NEW f, NEW n
  PROVE  {x \in EntriesOf(name, ino) : x[1] # "entry" \/ x[2] # i} \cup {<<"entry", i, f, n>>}
           = EntriesOf(With(name, i, f), With(ino, i, n))
<1> DEFINE S == {x \in EntriesOf(name, ino) : x[1] # "entry" \/ x[2] # i} \cup {<<"entry", i, f, n>>}
           nn == With(name, i, f)
           ii == With(ino, i, n)
           T == EntriesOf(nn, ii)
<1>1. \A x : x \in S <=> \/ x \in EntriesOf(name, ino) /\ (x[1] # "entry" \/ x[2] # i)
                         \/ x = <<"entry", i, f, n>>
  OBVIOUS
<1>2. \A x : x \in T <=> x = <<"root">> \/ \E j \in DOMAIN nn : x = <<"entry", j, nn[j], ii[j]>>
  BY EntryLemma
<1>3. /\ DOMAIN nn = DOMAIN name \cup {i} /\ nn[i] = f /\ ii[i] = n
      /\ \A j \in DOMAIN name : j # i => nn[j] = name[j] /\ ii[j] = ino[j]
  BY DEF With
<1> HIDE DEF S, T, nn, ii
<1>4. ASSUME NEW x \in S PROVE x \in T
  <2>1. CASE x = <<"entry", i, f, n>>
    BY <1>2, <1>3, <2>1
  <2>2. CASE x = <<"root">>
    BY <1>2, <2>2
  <2>3. CASE \E j \in DOMAIN name : x = <<"entry", j, name[j], ino[j]>> /\ (x[1] # "entry" \/ x[2] # i)
    <3>1. PICK j \in DOMAIN name : x = <<"entry", j, name[j], ino[j]>> /\ (x[1] # "entry" \/ x[2] # i)
      BY <2>3
    <3>2. j # i
      BY <3>1
    <3>3. QED
      BY <1>2, <1>3, <3>1, <3>2
  <2>4. QED
    BY <1>1, <1>4, <2>1, <2>2, <2>3, EntryLemma
<1>5. ASSUME NEW x \in T PROVE x \in S
  <2>1. CASE x = <<"root">>
    <3>1. x[1] # "entry" /\ x \in EntriesOf(name, ino)
      BY <2>1, EntryLemma
    <3>2. QED
      BY <1>1, <3>1
  <2>2. CASE \E j \in DOMAIN nn : x = <<"entry", j, nn[j], ii[j]>>
    <3>1. PICK j \in DOMAIN nn : x = <<"entry", j, nn[j], ii[j]>>
      BY <2>2
    <3>2. CASE j = i
      BY <1>1, <1>3, <3>1, <3>2
    <3>3. CASE j # i
      <4>1. j \in DOMAIN name /\ x = <<"entry", j, name[j], ino[j]>>
        BY <1>3, <3>1, <3>3
      <4>2. x[2] # i
        BY <3>3, <4>1
      <4>3. x \in EntriesOf(name, ino)
        BY <4>1, EntryLemma
      <4>4. QED
        BY <1>1, <4>2, <4>3
    <3>4. QED
      BY <3>2, <3>3
  <2>3. QED
    BY <1>2, <1>5, <2>1, <2>2
<1>6. S = T
  BY <1>4, <1>5
<1>7. QED
  BY <1>6 DEF S, T, nn, ii

\* What the inodes and the entries of a file system say.
LEMMA FilesLemma ==
  ASSUME NEW d, NEW sects, NEW inos, NEW k, NEW zone, NEW size, NEW name, NEW ino, NEW c,
         Holds(d, sects, inos, k, zone, size, name, ino),
         Sound(sects, inos, k, zone, size, name, ino, c)
  PROVE  /\ \A j : <<"dir", j>> \in d[INODES] <=> j = k
         /\ \A m, z, s : <<"inode", m, z, s>> \in d[INODES]
                           <=> m \in DOMAIN zone /\ z = zone[m] /\ s = size[m]
         /\ \A i, f, m : <<"entry", i, f, m>> \in d[ROOT]
                           <=> i \in DOMAIN name /\ f = name[i] /\ m = ino[i]
         /\ SizeOf(d) = k /\ (Beyond(d) <=> k + 1 \in DOMAIN name) /\ HasRoot(d)
         /\ DOMAIN ino = DOMAIN name /\ DOMAIN size = DOMAIN zone /\ k \in Nat
         /\ \A i \in DOMAIN name : i \in 1 .. k + 1 /\ ino[i] \in DOMAIN zone
         /\ \A m \in DOMAIN zone : zone[m] \in sects /\ zone[m] \in FilePlaces /\ m \in inos
<1>1. d[INODES] = InodesOf(k, zone, size) /\ d[ROOT] = EntriesOf(name, ino)
  BY DEF Holds
<1>2. ASSUME NEW j PROVE <<"dir", j>> \in d[INODES] <=> j = k
  <2>1. \A m \in DOMAIN zone : <<"dir", j>> # <<"inode", m, zone[m], size[m]>>
    OBVIOUS
  <2>2. <<"dir", j>> # <<"inodes">> /\ (<<"dir", j>> = <<"dir", k>> <=> j = k)
    OBVIOUS
  <2>3. QED
    BY <1>1, <2>1, <2>2, InodesLemma
<1>3. ASSUME NEW m, NEW z, NEW s
      PROVE  <<"inode", m, z, s>> \in d[INODES] <=> m \in DOMAIN zone /\ z = zone[m] /\ s = size[m]
  <2> DEFINE x == <<"inode", m, z, s>>
  <2>1. x # <<"inodes">> /\ x # <<"dir", k>>
    OBVIOUS
  <2>2. \A l : x = <<"inode", l, zone[l], size[l]>> <=> l = m /\ z = zone[l] /\ s = size[l]
    OBVIOUS
  <2> HIDE DEF x
  <2>3. x \in d[INODES] <=> m \in DOMAIN zone /\ z = zone[m] /\ s = size[m]
    BY <1>1, <2>1, <2>2, InodesLemma
  <2>4. QED
    BY <2>3 DEF x
<1>4. ASSUME NEW i, NEW f, NEW m
      PROVE  <<"entry", i, f, m>> \in d[ROOT] <=> i \in DOMAIN name /\ f = name[i] /\ m = ino[i]
  <2> DEFINE x == <<"entry", i, f, m>>
  <2>1. x # <<"root">>
    OBVIOUS
  <2>2. \A l : x = <<"entry", l, name[l], ino[l]>> <=> l = i /\ f = name[l] /\ m = ino[l]
    OBVIOUS
  <2> HIDE DEF x
  <2>3. x \in d[ROOT] <=> i \in DOMAIN name /\ f = name[i] /\ m = ino[i]
    BY <1>1, <2>1, <2>2, EntryLemma
  <2>4. QED
    BY <2>3 DEF x
<1>5. k \in Nat /\ k \in 0 .. 2 * Len(Tar)
  <2>1. k \in 0 .. Len(Tar)
    BY DEF Sound
  <2>2. QED
    BY <2>1, PlaceLemma
<1>6. SizeOf(d) = k
  BY <1>2, <1>5 DEF SizeOf
<1>7. \A i \in DOMAIN name : i \in 1 .. k + 1 /\ i \in Nat
  BY <1>5 DEF Sound
<1>8. Beyond(d) <=> k + 1 \in DOMAIN name
  <2>1. ASSUME Beyond(d) PROVE k + 1 \in DOMAIN name
    <3>1. PICK e \in d[ROOT] : e[1] = "entry" /\ e[2] > k
      BY <1>6, <2>1 DEF Beyond
    <3>2. e # <<"root">>
      BY <3>1
    <3>3. PICK i \in DOMAIN name : e = <<"entry", i, name[i], ino[i]>>
      BY <1>1, <3>2, EntryLemma
    <3>4. e[2] = i
      BY <3>3
    <3>5. i = k + 1
      BY <1>5, <1>7, <3>1, <3>4
    <3>6. QED
      BY <3>5
  <2>2. ASSUME k + 1 \in DOMAIN name PROVE Beyond(d)
    <3> DEFINE e == <<"entry", k + 1, name[k + 1], ino[k + 1]>>
    <3>1. e \in d[ROOT]
      BY <1>1, <2>2, EntryLemma
    <3>2. e[1] = "entry" /\ e[2] = k + 1
      OBVIOUS
    <3> HIDE DEF e
    <3>3. e[2] > SizeOf(d)
      BY <1>5, <1>6, <3>2
    <3>4. QED
      BY <3>1, <3>2, <3>3 DEF Beyond
  <2>3. QED
    BY <2>1, <2>2
<1>9. HasRoot(d)
  BY <1>1, EntryLemma DEF HasRoot
<1>10. /\ DOMAIN ino = DOMAIN name /\ DOMAIN size = DOMAIN zone
       /\ \A i \in DOMAIN name : ino[i] \in DOMAIN zone
       /\ \A m \in DOMAIN zone : zone[m] \in sects /\ zone[m] \in FilePlaces /\ m \in inos
  BY DEF Sound
<1>11. QED
  BY <1>2, <1>3, <1>4, <1>5, <1>6, <1>7, <1>8, <1>9, <1>10

\* A file that is there, in terms of them.
LEMMA ThereLemma ==
  ASSUME NEW d, NEW sects, NEW inos, NEW k, NEW zone, NEW size, NEW name, NEW ino, NEW c,
         Holds(d, sects, inos, k, zone, size, name, ino),
         Sound(sects, inos, k, zone, size, name, ino, c), NEW file
  PROVE  There(d, file) <=>
           \E i \in DOMAIN name : /\ i <= k /\ name[i] = file /\ size[ino[i]] = 1
                                  /\ d[zone[ino[i]]] = {<<"data", file>>}
<1>1. ASSUME There(d, file)
      PROVE  \E i \in DOMAIN name : /\ i <= k /\ name[i] = file /\ size[ino[i]] = 1
                                    /\ d[zone[ino[i]]] = {<<"data", file>>}
  <2>1. PICK i, j, m, z : /\ <<"dir", j>> \in d[INODES] /\ i <= j
                          /\ <<"entry", i, file, m>> \in d[ROOT] /\ <<"inode", m, z, 1>> \in d[INODES]
                          /\ d[z] = {<<"data", file>>}
    BY <1>1 DEF There
  <2>2. j = k /\ i \in DOMAIN name /\ name[i] = file /\ ino[i] = m /\ size[m] = 1 /\ zone[m] = z
    BY <2>1, FilesLemma
  <2>3. QED
    BY <2>1, <2>2
<1>2. ASSUME NEW i \in DOMAIN name, i <= k, name[i] = file, size[ino[i]] = 1,
             d[zone[ino[i]]] = {<<"data", file>>}
      PROVE  There(d, file)
  <2>1. <<"dir", k>> \in d[INODES] /\ <<"entry", i, file, ino[i]>> \in d[ROOT]
        /\ <<"inode", ino[i], zone[ino[i]], 1>> \in d[INODES]
    BY <1>2, FilesLemma
  <2>2. QED
    BY <1>2, <2>1 DEF There
<1>3. QED
  BY <1>1, <1>2

LEMMA OutLemma ==
  ASSUME NEW d, NEW sects, NEW inos, NEW k, NEW zone, NEW size, NEW name, NEW ino, NEW c,
         Holds(d, sects, inos, k, zone, size, name, ino),
         Sound(sects, inos, k, zone, size, name, ino, c), NEW x
  PROVE  OutIsOpen(d, x) <=>
           \E i \in DOMAIN name : /\ name[i] = Tar[x.init.nr] /\ ino[i] = x.init.ino
                                  /\ size[ino[i]] = 0
<1>1. ASSUME OutIsOpen(d, x)
      PROVE  \E i \in DOMAIN name : /\ name[i] = Tar[x.init.nr] /\ ino[i] = x.init.ino
                                    /\ size[ino[i]] = 0
  <2>1. PICK i, z : /\ <<"entry", i, Tar[x.init.nr], x.init.ino>> \in d[ROOT]
                    /\ <<"inode", x.init.ino, z, 0>> \in d[INODES]
    BY <1>1 DEF OutIsOpen
  <2>2. i \in DOMAIN name /\ name[i] = Tar[x.init.nr] /\ ino[i] = x.init.ino /\ size[x.init.ino] = 0
    BY <2>1, FilesLemma
  <2>3. QED
    BY <2>2
<1>2. ASSUME NEW i \in DOMAIN name, name[i] = Tar[x.init.nr], ino[i] = x.init.ino, size[ino[i]] = 0
      PROVE  OutIsOpen(d, x)
  <2>1. /\ <<"entry", i, Tar[x.init.nr], x.init.ino>> \in d[ROOT]
        /\ <<"inode", x.init.ino, zone[x.init.ino], 0>> \in d[INODES]
    BY <1>2, FilesLemma
  <2>2. QED
    BY <2>1 DEF OutIsOpen
<1>3. QED
  BY <1>1, <1>2

----------------------------------------------------------------------------
\* There is room for the files, and for what the power failures lose.

LEMMA ManyPlaces ==
  IsFiniteSet(FilePlaces) /\ Cardinality(FilePlaces) >= 2 * Len(Tar)
<1> DEFINE L == 2 * Len(Tar)
           N == NR_DIRECT_ZONE
           S == 0 .. L - 1
           g == [m \in S |-> ZONES + 1 + m * N]
<1>1. L \in Nat /\ N \in Nat /\ N > 0 /\ TAR = 7 + L * N /\ ZONES + 1 = 7 /\ TAR \in Nat
  <2>1. L \in Nat /\ N \in Nat /\ N > 0 /\ ZONES + 1 = 7 /\ TAR \in Nat
    BY PlaceLemma, UntarAssumption DEF ZONES
  <2>2. TAR = 7 + L * N
    BY DEF TAR, ZONES
  <2>3. QED
    BY <2>1, <2>2
<1>2. FilePlaces = {z \in 7 .. TAR - 1 : (z - 6 - 1) % N = 0}
  BY DEF FilePlaces, ZONES
<1>3. g = [m \in S |-> 7 + m * N]
  BY DEF ZONES
<1>4. \A a, b \in Nat : b > 0 => a * b \in Nat /\ (a * b) % b = 0
  BY SMTT(30)
<1>5. \A a, e, b \in Nat : b > 0 /\ a < e => a * b < e * b
  BY SMTT(30)
<1> HIDE DEF L, N, g
<1>6. ASSUME NEW m \in S PROVE 7 + m * N \in FilePlaces
  <2>1. m \in Nat /\ m < L
    BY <1>1
  <2>2. m * N \in Nat /\ (m * N) % N = 0 /\ m * N < L * N
    BY <1>1, <1>4, <1>5, <2>1
  <2> DEFINE a == m * N
  <2>3. a \in Nat /\ a % N = 0 /\ 7 + a < TAR
    <3>1. L * N \in Nat
      BY <1>1, <1>4
    <3> DEFINE b == L * N
    <3>2. b \in Nat /\ a < b /\ TAR = 7 + b /\ a \in Nat /\ a % N = 0
      BY <1>1, <2>2, <3>1
    <3> HIDE DEF a, b
    <3>3. QED
      BY <3>2
  <2> HIDE DEF a
  <2>4. (7 + a) - 6 - 1 = a /\ 7 + a \in 7 .. TAR - 1
    BY <1>1, <2>3
  <2>5. 7 + a \in FilePlaces
    BY <1>2, <2>3, <2>4
  <2>6. QED
    BY <2>5 DEF a
<1>7. IsFiniteSet(FilePlaces)
  <2>1. IsFiniteSet(7 .. TAR - 1)
    BY <1>1, FS_Interval
  <2>2. QED
    BY <1>2, <2>1, FS_Subset
<1>8. g \in Injection(S, FilePlaces)
  <2>1. g \in [S -> FilePlaces]
    BY <1>3, <1>6
  <2>2. ASSUME NEW a \in S, NEW b \in S, g[a] = g[b] PROVE a = b
    <3>1. a \in Nat /\ b \in Nat /\ a * N \in Nat /\ b * N \in Nat /\ 7 + a * N = 7 + b * N
      BY <1>1, <1>3, <1>4, <2>2
    <3>2. a * N = b * N
      BY <3>1
    <3>3. ~ (a < b) /\ ~ (b < a)
      BY <1>1, <1>5, <3>1, <3>2
    <3>4. QED
      BY <3>1, <3>3
  <2>3. QED
    BY <2>1, <2>2 DEF Injection, IsInjective
<1>9. Cardinality(S) <= Cardinality(FilePlaces)
  BY <1>7, <1>8, FS_Injection
<1>10. Cardinality(S) = L
  BY <1>1, FS_Interval
<1>11. QED
  BY <1>7, <1>9, <1>10 DEF L

LEMMA NamesLemma ==
  IsFiniteSet(Names) /\ Cardinality(Names) <= Len(Tar) /\ Cardinality(Names) \in Nat
<1> DEFINE S == 1 .. Len(Tar)
           g == [i \in S |-> Tar[i]]
<1>1. IsFiniteSet(S) /\ Cardinality(S) = Len(Tar)
  <2>1. Len(Tar) \in Nat
    BY PlaceLemma
  <2>2. \A n \in Nat : IsFiniteSet(1 .. n) /\ Cardinality(1 .. n) = n
    <3>1. ASSUME NEW n \in Nat PROVE IsFiniteSet(1 .. n) /\ Cardinality(1 .. n) = n
      <4>1. 1 \in Int /\ n \in Int /\ (1 > n => n = 0) /\ n - 1 + 1 = n
        OBVIOUS
      <4>2. QED
        BY <4>1, FS_Interval
    <3>2. QED
      BY <3>1
  <2>3. QED
    BY <2>1, <2>2
<1>2. g \in Surjection(S, Names)
  BY DEF Surjection, Names
<1> HIDE DEF S, g
<1>3. IsFiniteSet(Names) /\ Cardinality(Names) <= Cardinality(S)
  BY <1>1, <1>2, FS_Surjection
<1>4. QED
  BY <1>1, <1>3, FS_CardinalityType

LEMMA RoomLemma ==
  ASSUME NEW sects, NEW inos, NEW k, NEW zone, NEW size, NEW name, NEW ino, NEW c \in Nat,
         Sound(sects, inos, k, zone, size, name, ino, c), c <= Len(Tar),
         NEW f \in Names, \A i \in DOMAIN name : name[i] # f
  PROVE  k + 1 \in 0 .. Len(Tar) /\ FilePlaces \ sects # {} /\ (1 .. TAR) \ inos # {}
<1>1. /\ IsFiniteSet(sects) /\ IsFiniteSet(inos) /\ k \in Nat /\ Cardinality(sects) \in Nat
      /\ Cardinality(inos) \in Nat /\ Cardinality(sects) <= k + c /\ Cardinality(inos) <= k + c
  <2>1. Cardinality(sects) <= k + c /\ Cardinality(inos) <= k + c
    BY DEF Sound
  <2>2. QED
    BY <2>1, SoundLemma
<1>0. Len(Tar) \in Nat /\ TAR \in Nat /\ TAR >= 7 + 2 * Len(Tar)
  BY PlaceLemma
<1>2. k + 1 <= Len(Tar)
  <2> DEFINE S == 1 .. k + 1
             g == [i \in S |-> IF i = k + 1 THEN f ELSE name[i]]
  <2>1. \A i \in S : i # k + 1 => i \in DOMAIN name
    BY <1>1 DEF Sound
  <2>2. \A i \in S : g[i] = IF i = k + 1 THEN f ELSE name[i]
    OBVIOUS
  <2>3. g \in [S -> Names]
    BY <2>1 DEF Sound
  <2> HIDE DEF g
  <2>4. \A i, j \in S : g[i] = g[j] => i = j
    <3>1. \A i, j \in DOMAIN name : name[i] = name[j] => i = j
      BY DEF Sound
    <3>2. QED
      BY <2>1, <2>2, <3>1
  <2>5. g \in Injection(S, Names)
    BY <2>3, <2>4 DEF Injection, IsInjective
  <2>6. Cardinality(S) <= Cardinality(Names)
    BY <2>5, NamesLemma, FS_Injection
  <2>7. Cardinality(S) = k + 1
    BY <1>1, FS_Interval
  <2>8. QED
    BY <1>0, <1>1, <2>6, <2>7, NamesLemma
<1>3. k + c < 2 * Len(Tar) /\ k + 1 \in 0 .. Len(Tar)
  BY <1>0, <1>1, <1>2
<1>4. ASSUME FilePlaces \ sects = {} PROVE FALSE
  <2>1. FilePlaces \in SUBSET sects
    BY <1>4
  <2>2. Cardinality(FilePlaces) <= Cardinality(sects) /\ Cardinality(FilePlaces) \in Nat
    BY <1>1, <2>1, FS_Subset, FS_CardinalityType, ManyPlaces
  <2>3. QED
    BY <1>0, <1>1, <1>3, <2>2, ManyPlaces
<1>5. ASSUME (1 .. TAR) \ inos = {} PROVE FALSE
  <2>1. 1 .. TAR \in SUBSET inos
    BY <1>5
  <2>2. Cardinality(1 .. TAR) <= Cardinality(inos)
    BY <1>1, <2>1, FS_Subset
  <2>3. Cardinality(1 .. TAR) = TAR
    BY <1>0, FS_Interval
  <2>4. QED
    BY <1>0, <1>1, <1>3, <2>2, <2>3
<1>6. QED
  BY <1>3, <1>4, <1>5

----------------------------------------------------------------------------
\* What the writes of a call make of a file system

\* cmd.tar is there from its first sector on.
TarFull(d) == \A j \in 0 .. 2 * Len(Tar) : d[TAR + j] = TarSector(j + 1)

LEMMA TarFullLemma ==
  ASSUME NEW d
  PROVE  /\ TarFull(d) => \A s : TarKept(d, s)
         /\ \A s : TarKept(d, s) /\ d[TAR] = TarSector(1) => TarFull(d)
<1>0. TAR \in Nat /\ Len(Tar) \in Nat
  BY PlaceLemma
<1>1. \A j \in 0 .. 2 * Len(Tar) : (j = 0 /\ TAR + j = TAR /\ j + 1 = 1) \/ j \in 1 .. 2 * Len(Tar)
  BY <1>0
<1>2. 0 \in 0 .. 2 * Len(Tar) /\ \A j \in 1 .. 2 * Len(Tar) : j \in 0 .. 2 * Len(Tar)
  BY <1>0
<1>3. ASSUME TarFull(d), NEW s PROVE TarKept(d, s)
  <2>1. d[TAR] = TarSector(1)
    <3>1. d[TAR + 0] = TarSector(0 + 1) /\ TAR + 0 = TAR /\ 0 + 1 = 1
      BY <1>0, <1>2, <1>3 DEF TarFull
    <3>2. QED
      BY <3>1
  <2>2. QED
    BY <1>2, <1>3, <2>1 DEF TarFull, TarKept
<1>4. ASSUME NEW s, TarKept(d, s), d[TAR] = TarSector(1) PROVE TarFull(d)
  BY <1>1, <1>4 DEF TarFull, TarKept
<1>5. QED
  BY <1>3, <1>4

LEMMA PutLemma ==
  ASSUME NEW d, DOMAIN d = Places, NEW p \in Places, NEW v
  PROVE  /\ DOMAIN Put(d, p, v) = Places
         /\ \A q \in Places : Put(d, p, v)[q] = IF q = p THEN v ELSE d[q]
         /\ p < TAR /\ TarFull(d) => TarFull(Put(d, p, v))
<1> DEFINE e == Put(d, p, v)
<1>1. DOMAIN e = Places /\ \A q \in Places : e[q] = IF q = p THEN v ELSE d[q]
  BY DEF Put
<1> HIDE DEF e
<1>2. ASSUME p < TAR, TarFull(d) PROVE TarFull(e)
  <2>1. ASSUME NEW j \in 0 .. 2 * Len(Tar) PROVE TAR + j \in Places /\ TAR + j # p
    <3>1. TAR + j \in Places /\ TAR + j >= TAR /\ p \in Nat /\ TAR \in Nat /\ j \in Nat
      BY PlaceLemma
    <3>2. QED
      BY <1>2, <3>1
  <2>2. QED
    BY <1>1, <1>2, <2>1 DEF TarFull
<1>3. QED
  BY <1>1, <1>2 DEF e

LEMMA Metadata ==
  /\ \A p \in {SUPER, IMAP, SMAP, INODES, ROOT, ZONES} : p \in Places /\ p < TAR /\ p <= ZONES
  /\ \A z \in FilePlaces : z \notin {SUPER, IMAP, SMAP, INODES, ROOT, ZONES}
  /\ SUPER # IMAP /\ SUPER # SMAP /\ SUPER # INODES /\ SUPER # ROOT /\ SUPER # ZONES
  /\ IMAP # SMAP /\ IMAP # INODES /\ IMAP # ROOT /\ IMAP # ZONES /\ SMAP # INODES
  /\ SMAP # ROOT /\ SMAP # ZONES /\ INODES # ROOT /\ INODES # ZONES /\ ROOT # ZONES
<1>1. \A p \in {SUPER, IMAP, SMAP, INODES, ROOT, ZONES} : p <= ZONES /\ p < 7 /\ p \in Nat
  BY DEF SUPER, IMAP, SMAP, INODES, ROOT, ZONES
<1>2. \A p \in {SUPER, IMAP, SMAP, INODES, ROOT, ZONES} : p \in Places /\ p < TAR
  <2>1. TAR \in Nat /\ TAR >= 7
    BY PlaceLemma
  <2>2. QED
    <3>1. /\ SUPER \in Places /\ IMAP \in Places /\ SMAP \in Places /\ INODES \in Places
          /\ ROOT \in Places /\ ZONES \in Places
      BY PlaceLemma
    <3>2. QED
      BY <1>1, <2>1, <3>1
<1>3. \A z \in FilePlaces : z \in Nat /\ z > ZONES
  BY PlaceLemma
<1>4. \A z \in FilePlaces : z \notin {SUPER, IMAP, SMAP, INODES, ROOT, ZONES}
  BY <1>3 DEF SUPER, IMAP, SMAP, INODES, ROOT, ZONES
<1>5. /\ SUPER # IMAP /\ SUPER # SMAP /\ SUPER # INODES /\ SUPER # ROOT /\ SUPER # ZONES
      /\ IMAP # SMAP /\ IMAP # INODES /\ IMAP # ROOT /\ IMAP # ZONES /\ SMAP # INODES
      /\ SMAP # ROOT /\ SMAP # ZONES /\ INODES # ROOT /\ INODES # ZONES /\ ROOT # ZONES
  BY DEF SUPER, IMAP, SMAP, INODES, ROOT, ZONES
<1>6. QED
  BY <1>1, <1>2, <1>4, <1>5

\* The power may fail while a file is made, for what is lost is a sector and an inode more.
LEMMA BusyLemma ==
  ASSUME NEW d, NEW x, x.stage = "up", x.init.at = "read", IsFileSystem(d, x.crashes + 1), TarFull(d)
  PROVE  MayFail(d, x)
<1> DEFINE s == x.slipped \/ (x.init.at = "read" /\ Beyond(d))
           t == x.torn \/ x.stage \in {"format", "mkfs"}
<1>1. d[SUPER] = Super /\ HasRoot(d)
  BY SuperLemma
<1>2. s \/ ~ Beyond(d)
  OBVIOUS
<1> HIDE DEF s, t
<1>3. TarKept(d, s)
  BY TarFullLemma
<1>4. Bootable(d, t, x.crashes + 1, s)
  BY <1>1, <1>2, <1>3 DEF Bootable
<1>5. QED
  BY <1>1, <1>4 DEF MayFail, s, t

LEMMA SettledLemma ==
  ASSUME NEW d, NEW x, x.stage = "up", x.crashes \in Nat, IsFileSystem(d, x.crashes), TarFull(d),
         x.slipped \/ ~ Beyond(d), x.init.at # "run"
  PROVE  MayFail(d, x) /\ (UntarAt(d, x) => Ended(d, x))
<1>1. d[SUPER] = Super /\ HasRoot(d) /\ TarKept(d, x.slipped)
  BY SuperLemma, TarFullLemma
<1>2. Bootable(d, x.torn, x.crashes, x.slipped)
  BY <1>1 DEF Bootable
<1>3. MayFail(d, x)
  BY <1>1, <1>2, BootMayFail
<1>4. UntarAt(d, x) => Ended(d, x)
  BY <1>1, <1>2 DEF Ended
<1>5. QED
  BY <1>3, <1>4

LEMMA OneMore ==
  ASSUME NEW S, IsFiniteSet(S), NEW x
  PROVE  Cardinality(S \cup {x}) <= Cardinality(S) + 1 /\ Cardinality(S \cup {x}) \in Nat
<1>1. Cardinality(S) \in Nat
  BY FS_CardinalityType
<1>2. Cardinality(S \cup {x}) = IF x \in S THEN Cardinality(S) ELSE Cardinality(S) + 1
  BY FS_AddElement
<1>3. QED
  BY <1>1, <1>2

\* A sector and an inode are taken.
LEMMA TakeLemma ==
  ASSUME NEW sects, NEW inos, NEW k, NEW zone, NEW size, NEW name, NEW ino, NEW c \in Nat,
         Sound(sects, inos, k, zone, size, name, ino, c), NEW n \in 1 .. TAR, NEW z \in FilePlaces
  PROVE  /\ Sound(sects, inos \cup {n}, k, zone, size, name, ino, c + 1)
         /\ Sound(sects \cup {z}, inos \cup {n}, k, zone, size, name, ino, c + 1)
<1>1. /\ IsFiniteSet(sects) /\ IsFiniteSet(inos) /\ k \in Nat /\ Cardinality(sects) \in Nat
      /\ Cardinality(inos) \in Nat
  BY SoundLemma
<1>2. Cardinality(sects) <= k + c /\ Cardinality(inos) <= k + c
  BY DEF Sound
<1>3. Cardinality(inos \cup {n}) <= Cardinality(inos) + 1 /\ Cardinality(inos \cup {n}) \in Nat
  BY <1>1, OneMore
<1>4. Cardinality(sects \cup {z}) <= Cardinality(sects) + 1 /\ Cardinality(sects \cup {z}) \in Nat
  BY <1>1, OneMore
<1>5. /\ Cardinality(sects) <= k + (c + 1) /\ Cardinality(sects \cup {z}) <= k + (c + 1)
      /\ Cardinality(inos \cup {n}) <= k + (c + 1)
  BY <1>1, <1>2, <1>3, <1>4
<1>6. zone \in [DOMAIN zone -> sects \cup {z}]
  BY DEF Sound
<1>7. QED
  BY <1>5, <1>6 DEF Sound

LEMMA NewInodeLemma ==
  ASSUME NEW sects, NEW inos, NEW k, NEW zone, NEW size, NEW name, NEW ino, NEW c, NEW b,
         Sound(sects, inos, k, zone, size, name, ino, c),
         NEW n, n \notin inos, NEW z, z \notin sects, NEW s \in Nat,
         Sound(sects \cup {z}, inos \cup {n}, k, zone, size, name, ino, b)
  PROVE  Sound(sects \cup {z}, inos \cup {n}, k, With(zone, n, z), With(size, n, s), name, ino, b)
<1> DEFINE zz == With(zone, n, z)
           ss == With(size, n, s)
<1>1. /\ zone \in [DOMAIN zone -> sects] /\ size \in [DOMAIN zone -> Nat] /\ DOMAIN zone \subseteq inos
      /\ \A m, l \in DOMAIN zone : zone[m] = zone[l] => m = l
      /\ ino \in [DOMAIN name -> DOMAIN zone]
  BY DEF Sound
<1>2. /\ DOMAIN zz = DOMAIN zone \cup {n} /\ zz[n] = z /\ \A m \in DOMAIN zone : zz[m] = zone[m]
      /\ zz \in [DOMAIN zz -> sects \cup {z}] /\ ss \in [DOMAIN zz -> Nat]
  BY <1>1 DEF With
<1> HIDE DEF zz, ss
<1>3. \A m, l \in DOMAIN zz : zz[m] = zz[l] => m = l
  BY <1>1, <1>2
<1>4. ino \in [DOMAIN name -> DOMAIN zz] /\ DOMAIN zz \subseteq inos \cup {n}
  BY <1>1, <1>2
<1>5. Sound(sects \cup {z}, inos \cup {n}, k, zz, ss, name, ino, b)
  BY <1>2, <1>3, <1>4 DEF Sound
<1>6. QED
  BY <1>5 DEF zz, ss

LEMMA NewNameLemma ==
  ASSUME NEW sects, NEW inos, NEW k, NEW zone, NEW size, NEW name, NEW ino, NEW c,
         Sound(sects, inos, k, zone, size, name, ino, c),
         NEW f \in Names, \A i \in DOMAIN name : name[i] # f,
         NEW n \in DOMAIN zone, \A i \in DOMAIN name : ino[i] # n
  PROVE  Sound(sects, inos, k, zone, size, With(name, k + 1, f), With(ino, k + 1, n), c)
<1> DEFINE nn == With(name, k + 1, f)
           ii == With(ino, k + 1, n)
<1>1. /\ name \in [DOMAIN name -> Names] /\ ino \in [DOMAIN name -> DOMAIN zone]
      /\ 1 .. k \subseteq DOMAIN name /\ DOMAIN name \subseteq 1 .. k + 1 /\ k \in 0 .. Len(Tar)
      /\ \A i, j \in DOMAIN name : name[i] = name[j] \/ ino[i] = ino[j] => i = j
  BY DEF Sound
<1>2. /\ DOMAIN nn = DOMAIN name \cup {k + 1} /\ nn[k + 1] = f /\ ii[k + 1] = n
      /\ \A i \in DOMAIN nn : i # k + 1 => i \in DOMAIN name /\ nn[i] = name[i] /\ ii[i] = ino[i]
      /\ nn \in [DOMAIN nn -> Names] /\ ii \in [DOMAIN nn -> DOMAIN zone]
  BY <1>1 DEF With
<1> HIDE DEF nn, ii
<1>3. \A i, j \in DOMAIN nn : nn[i] = nn[j] \/ ii[i] = ii[j] => i = j
  BY <1>1, <1>2
<1>4. k + 1 \in 1 .. k + 1
  <2>1. Len(Tar) \in Nat
    BY PlaceLemma
  <2>2. k \in Nat
    BY <1>1, <2>1
  <2>3. QED
    BY <2>2
<1>5. 1 .. k \subseteq DOMAIN nn /\ DOMAIN nn \subseteq 1 .. k + 1
  BY <1>1, <1>2, <1>4
<1>6. Sound(sects, inos, k, zone, size, nn, ii, c)
  BY <1>2, <1>3, <1>5 DEF Sound
<1>7. QED
  BY <1>6 DEF nn, ii

LEMMA NewSizeLemma ==
  ASSUME NEW sects, NEW inos, NEW k, NEW zone, NEW size, NEW name, NEW ino, NEW c \in Nat,
         Sound(sects, inos, k, zone, size, name, ino, c + 1),
         k + 1 \in DOMAIN name, k + 1 \in 0 .. Len(Tar)
  PROVE  Sound(sects, inos, k + 1, zone, size, name, ino, c)
<1>1. k \in Nat
  BY SoundLemma
<1>2. k + (c + 1) = (k + 1) + c
  BY <1>1
<1>3. 1 .. k + 1 \subseteq DOMAIN name /\ DOMAIN name \subseteq 1 .. (k + 1) + 1
  <2>1. 1 .. k \subseteq DOMAIN name /\ DOMAIN name \subseteq 1 .. k + 1
    BY DEF Sound
  <2>2. \A i \in 1 .. k + 1 : (i \in 1 .. k \/ i = k + 1) /\ i \in 1 .. (k + 1) + 1
    BY <1>1
  <2>3. QED
    BY <2>1, <2>2
<1>4. QED
  BY <1>2, <1>3 DEF Sound

LEMMA ThereFrom ==
  ASSUME NEW d, NEW file, NEW i, NEW j, NEW m, NEW z, <<"dir", j>> \in d[INODES], i <= j,
         <<"entry", i, file, m>> \in d[ROOT], <<"inode", m, z, 1>> \in d[INODES],
         d[z] = {<<"data", file>>}
  PROVE  There(d, file)
  BY DEF There

\* The six writes that make a file.
MakesFile(d, d1, d2, d3, d4, d5, d6, n, z, s, k, f) ==
  LET new == SyncInode(d[INODES], n, z, s)
      dir == SyncDir(new, k + 1)
  IN  /\ d1 = Put(d, IMAP, d[IMAP] \cup {<<"ino", n>>})
      /\ d2 = Put(d1, SMAP, d[SMAP] \cup {<<"sect", z>>})
      /\ d3 = Put(d2, INODES, new)
      /\ d4 = Put(d3, ROOT, {x \in d[ROOT] : x[1] # "entry" \/ x[2] # k + 1}
                              \cup {<<"entry", k + 1, f, n>>})
      /\ d5 = Put(d4, INODES, dir)
      /\ d6 = Put(d5, INODES, SyncInode(dir, n, z, 0))

LEMMA CreatedLemma ==
  ASSUME NEW d, DOMAIN d = Places, TarFull(d), NEW c \in Nat,
         NEW sects, NEW inos, NEW k, NEW zone, NEW size, NEW name, NEW ino,
         Holds(d, sects, inos, k, zone, size, name, ino),
         Sound(sects, inos, k, zone, size, name, ino, c),
         NEW f \in Names, \A i \in DOMAIN name : name[i] # f, k + 1 \in 0 .. Len(Tar),
         NEW n \in 1 .. TAR, n \notin inos, NEW z \in FilePlaces, z \notin sects, NEW s \in Nat,
         NEW d1, NEW d2, NEW d3, NEW d4, NEW d5, NEW d6,
         MakesFile(d, d1, d2, d3, d4, d5, d6, n, z, s, k, f)
  PROVE  /\ IsFileSystem(d1, c + 1) /\ IsFileSystem(d2, c + 1) /\ IsFileSystem(d3, c + 1)
         /\ IsFileSystem(d4, c + 1) /\ IsFileSystem(d5, c) /\ IsFileSystem(d6, c)
         /\ TarFull(d1) /\ TarFull(d2) /\ TarFull(d3) /\ TarFull(d4) /\ TarFull(d5) /\ TarFull(d6)
         /\ ~ Beyond(d6) /\ \A file : There(d, file) => There(d6, file)
         /\ <<"entry", k + 1, f, n>> \in d6[ROOT] /\ <<"inode", n, z, 0>> \in d6[INODES]
<1> DEFINE I == inos \cup {n}
           S == sects \cup {z}
           zz == With(zone, n, z)
           ss == With(size, n, s)
           tt == With(ss, n, 0)
           nn == With(name, k + 1, f)
           ii == With(ino, k + 1, n)
           entries == {x \in d[ROOT] : x[1] # "entry" \/ x[2] # k + 1} \cup {<<"entry", k + 1, f, n>>}
           new == SyncInode(d[INODES], n, z, s)
           dir == SyncDir(new, k + 1)
<1>a. /\ d1 = Put(d, IMAP, d[IMAP] \cup {<<"ino", n>>})
      /\ d2 = Put(d1, SMAP, d[SMAP] \cup {<<"sect", z>>})
      /\ d3 = Put(d2, INODES, new) /\ d4 = Put(d3, ROOT, entries)
      /\ d5 = Put(d4, INODES, dir) /\ d6 = Put(d5, INODES, SyncInode(dir, n, z, 0))
  BY DEF MakesFile
<1>b. new = SyncInode(d[INODES], n, z, s) /\ dir = SyncDir(new, k + 1)
  OBVIOUS
<1> HIDE DEF new, dir
<1>1. /\ d[INODES] = InodesOf(k, zone, size) /\ d[ROOT] = EntriesOf(name, ino)
      /\ DOMAIN ino = DOMAIN name /\ DOMAIN size = DOMAIN zone /\ k \in Nat
      /\ DOMAIN zone \subseteq inos /\ \A i \in DOMAIN name : ino[i] \in DOMAIN zone
      /\ \A i \in DOMAIN name : i \in 1 .. k + 1
      /\ \A m \in DOMAIN zone : zone[m] \in FilePlaces
  BY FilesLemma DEF Holds
<1>2. /\ DOMAIN zz = DOMAIN zone \cup {n} /\ zz[n] = z /\ DOMAIN ss = DOMAIN zz /\ ss[n] = s
      /\ \A m \in DOMAIN zone : m # n /\ zz[m] = zone[m] /\ ss[m] = size[m] /\ tt[m] = size[m]
      /\ With(zz, n, z) = zz /\ DOMAIN tt = DOMAIN zz /\ tt[n] = 0
      /\ DOMAIN nn = DOMAIN name \cup {k + 1} /\ nn[k + 1] = f /\ ii[k + 1] = n
      /\ \A i \in DOMAIN name : i # k + 1 => nn[i] = name[i] /\ ii[i] = ino[i]
  <2>1. \A m \in DOMAIN zone : m # n
    BY <1>1
  <2>2. With(zz, n, z) = zz
    BY DEF With
  <2>3. QED
    BY <1>1, <2>1, <2>2 DEF With
<1>3. /\ new = InodesOf(k, zz, ss) /\ dir = InodesOf(k + 1, zz, ss)
      /\ SyncInode(dir, n, z, 0) = InodesOf(k + 1, zz, tt)
      /\ entries = EntriesOf(nn, ii)
  <2>1. new = InodesOf(k, zz, ss)
    BY <1>1, <1>b, SyncInodeLemma
  <2>2. dir = InodesOf(k + 1, zz, ss)
    BY <1>b, <2>1, SyncDirLemma
  <2>3. SyncInode(dir, n, z, 0) = InodesOf(k + 1, With(zz, n, z), With(ss, n, 0))
    BY <1>2, <2>2, SyncInodeLemma
  <2>4. entries = EntriesOf(nn, ii)
    BY <1>1, NewEntryLemma
  <2>5. QED
    BY <1>2, <2>1, <2>2, <2>3, <2>4
<1>4. /\ Sound(sects, I, k, zone, size, name, ino, c + 1) /\ Sound(S, I, k, zone, size, name, ino, c + 1)
      /\ Sound(S, I, k, zz, ss, name, ino, c + 1) /\ Sound(S, I, k, zz, ss, nn, ii, c + 1)
      /\ Sound(S, I, k + 1, zz, ss, nn, ii, c) /\ Sound(S, I, k + 1, zz, tt, nn, ii, c)
  <2>1. Sound(sects, I, k, zone, size, name, ino, c + 1) /\ Sound(S, I, k, zone, size, name, ino, c + 1)
    BY TakeLemma
  <2>2. Sound(S, I, k, zz, ss, name, ino, c + 1)
    BY <2>1, NewInodeLemma
  <2>3. n \in DOMAIN zz /\ \A i \in DOMAIN name : ino[i] # n
    BY <1>1, <1>2
  <2> HIDE DEF zz, ss, tt, I, S
  <2>4. Sound(S, I, k, zz, ss, nn, ii, c + 1)
    BY <2>2, <2>3, NewNameLemma
  <2>5. k + 1 \in DOMAIN nn
    BY <1>2
  <2> HIDE DEF nn, ii
  <2>6. Sound(S, I, k + 1, zz, ss, nn, ii, c)
    BY <2>4, <2>5, NewSizeLemma
  <2>7. tt \in [DOMAIN zz -> Nat]
    <3>1. ss \in [DOMAIN zz -> Nat]
      BY <2>6 DEF Sound
    <3>2. tt \in [DOMAIN ss \cup {n} -> Nat] /\ DOMAIN ss \cup {n} = DOMAIN zz
      BY <1>2, <3>1, WithLemma DEF tt
    <3>3. QED
      BY <3>2
  <2>8. Sound(S, I, k + 1, zz, tt, nn, ii, c)
    BY <2>6, <2>7 DEF Sound
  <2>9. QED
    BY <2>1, <2>2, <2>4, <2>6, <2>8
<1> HIDE DEF zz, ss, tt, nn, ii, entries
<1>5. /\ d[IMAP] \cup {<<"ino", n>>} = {<<"imap">>} \cup {<<"ino", m>> : m \in I}
      /\ d[SMAP] \cup {<<"sect", z>>}
           = {<<"smap">>, <<"tar">>, <<"zones">>} \cup {<<"sect", y>> : y \in S}
  <2>1. /\ d[IMAP] = {<<"imap">>} \cup {<<"ino", m>> : m \in inos}
        /\ d[SMAP] = {<<"smap">>, <<"tar">>, <<"zones">>} \cup {<<"sect", y>> : y \in sects}
    BY DEF Holds
  <2>2. {<<"ino", m>> : m \in I} = {<<"ino", m>> : m \in inos} \cup {<<"ino", n>>}
    OBVIOUS
  <2>3. {<<"sect", y>> : y \in S} = {<<"sect", y>> : y \in sects} \cup {<<"sect", z>>}
    OBVIOUS
  <2>4. QED
    BY <2>1, <2>2, <2>3
<1> HIDE DEF I, S
<1>6. /\ DOMAIN d1 = Places /\ TarFull(d1)
      /\ \A q \in Places : d1[q] = IF q = IMAP THEN d[IMAP] \cup {<<"ino", n>>} ELSE d[q]
  BY <1>a, PutLemma, Metadata
<1>7. /\ DOMAIN d2 = Places /\ TarFull(d2)
      /\ \A q \in Places : d2[q] = IF q = SMAP THEN d[SMAP] \cup {<<"sect", z>>} ELSE d1[q]
  BY <1>a, <1>6, PutLemma, Metadata
<1>8. /\ DOMAIN d3 = Places /\ TarFull(d3)
      /\ \A q \in Places : d3[q] = IF q = INODES THEN new ELSE d2[q]
  BY <1>a, <1>7, PutLemma, Metadata
<1>9. /\ DOMAIN d4 = Places /\ TarFull(d4)
      /\ \A q \in Places : d4[q] = IF q = ROOT THEN entries ELSE d3[q]
  <2>1. d4 = Put(d3, ROOT, entries)
    BY <1>a
  <2>2. QED
    <3>1. ROOT \in Places /\ ROOT < TAR
      BY Metadata
    <3> HIDE DEF entries
    <3>2. QED
      BY ONLY <1>8, <2>1, <3>1, PutLemma
<1>10. /\ DOMAIN d5 = Places /\ TarFull(d5)
       /\ \A q \in Places : d5[q] = IF q = INODES THEN dir ELSE d4[q]
  BY <1>a, <1>9, PutLemma, Metadata
<1>11. /\ DOMAIN d6 = Places /\ TarFull(d6)
       /\ \A q \in Places : d6[q] = IF q = INODES THEN InodesOf(k + 1, zz, tt) ELSE d5[q]
  BY <1>a, <1>3, <1>10, PutLemma, Metadata
<1>12. /\ SUPER \in Places /\ IMAP \in Places /\ SMAP \in Places /\ INODES \in Places
       /\ ROOT \in Places /\ ZONES \in Places
  BY PlaceLemma
<1>13. Holds(d1, sects, I, k, zone, size, name, ino) /\ d1[SMAP] = d[SMAP]
  BY <1>5, <1>6, <1>12, Metadata DEF Holds
<1>14. Holds(d2, S, I, k, zone, size, name, ino)
  BY <1>5, <1>7, <1>12, <1>13, Metadata DEF Holds
<1>15. Holds(d3, S, I, k, zz, ss, name, ino)
  BY <1>3, <1>8, <1>12, <1>14, Metadata DEF Holds
<1>16. Holds(d4, S, I, k, zz, ss, nn, ii)
  BY <1>3, <1>9, <1>12, <1>15, Metadata DEF Holds
<1>17. Holds(d5, S, I, k + 1, zz, ss, nn, ii)
  BY <1>3, <1>10, <1>12, <1>16, Metadata DEF Holds
<1>18. Holds(d6, S, I, k + 1, zz, tt, nn, ii)
  BY <1>3, <1>11, <1>12, <1>17, Metadata DEF Holds
<1>19. /\ IsFileSystem(d1, c + 1) /\ IsFileSystem(d2, c + 1) /\ IsFileSystem(d3, c + 1)
       /\ IsFileSystem(d4, c + 1) /\ IsFileSystem(d5, c) /\ IsFileSystem(d6, c)
  BY <1>4, <1>13, <1>14, <1>15, <1>16, <1>17, <1>18 DEF IsFileSystem
<1>20. ~ Beyond(d6)
  <2>1. (k + 1) + 1 \notin DOMAIN nn
    BY <1>1, <1>2
  <2>2. QED
    BY <1>4, <1>18, <2>1, FilesLemma
<1>21. \A y \in FilePlaces : d6[y] = d[y]
  <2>1. ASSUME NEW y \in FilePlaces PROVE d6[y] = d[y]
    <3>1. y \in Places /\ y # IMAP /\ y # SMAP /\ y # INODES /\ y # ROOT
      BY PlaceLemma, Metadata
    <3>2. d3[y] = d[y]
      BY <1>6, <1>7, <1>8, <3>1
    <3>3. d4[y] = d3[y]
      BY <1>9, <3>1
    <3>4. d5[y] = d4[y]
      BY <1>10, <3>1
    <3>5. d6[y] = d5[y]
      BY <1>11, <3>1
    <3>6. QED
      BY <3>2, <3>3, <3>4, <3>5
  <2>2. QED
    BY <2>1
<1>22. ASSUME NEW file, There(d, file) PROVE There(d6, file)
  <2>1. PICK i \in DOMAIN name : /\ i <= k /\ name[i] = file /\ size[ino[i]] = 1
                                 /\ d[zone[ino[i]]] = {<<"data", file>>}
    BY <1>22, ThereLemma
  <2>2. /\ i # k + 1 /\ i <= k + 1 /\ ino[i] \in DOMAIN zone /\ zone[ino[i]] \in FilePlaces
    BY <1>1, <2>1
  <2>3. i \in DOMAIN nn /\ nn[i] = file /\ ii[i] = ino[i]
    BY <1>2, <2>1, <2>2
  <2>4. zz[ii[i]] = zone[ino[i]] /\ tt[ii[i]] = 1
    BY <1>2, <2>1, <2>2, <2>3
  <2>5. d6[zz[ii[i]]] = {<<"data", file>>}
    BY <1>21, <2>1, <2>2, <2>4
  <2>6. /\ <<"dir", k + 1>> \in d6[INODES] /\ <<"entry", i, file, ii[i]>> \in d6[ROOT]
        /\ <<"inode", ii[i], zz[ii[i]], 1>> \in d6[INODES]
    <3>1. Sound(S, I, k + 1, zz, tt, nn, ii, c) /\ ii[i] \in DOMAIN zz
      BY <1>2, <1>4, <2>2, <2>3
    <3>2. QED
      BY <1>18, <2>3, <2>4, <3>1, FilesLemma
  <2> DEFINE j == k + 1
             m == ii[i]
             y == zz[m]
  <2>7. /\ <<"dir", j>> \in d6[INODES] /\ i <= j /\ <<"entry", i, file, m>> \in d6[ROOT]
        /\ <<"inode", m, y, 1>> \in d6[INODES] /\ d6[y] = {<<"data", file>>}
    BY <2>2, <2>5, <2>6
  <2> HIDE DEF j, m, y
  <2>8. QED
    BY ONLY <2>7, ThereFrom
<1>23. <<"entry", k + 1, f, n>> \in d6[ROOT] /\ <<"inode", n, z, 0>> \in d6[INODES]
  BY <1>2, <1>4, <1>18, FilesLemma
<1>24. QED
  BY <1>6, <1>7, <1>8, <1>9, <1>10, <1>11, <1>19, <1>20, <1>22, <1>23

\* An inode gets another size.
Resized(d, e, n, z, s) == e = Put(d, INODES, SyncInode(d[INODES], n, z, s))

LEMMA ResizeLemma ==
  ASSUME NEW d, DOMAIN d = Places, TarFull(d),
         NEW sects, NEW inos, NEW k, NEW zone, NEW size, NEW name, NEW ino, NEW c,
         Holds(d, sects, inos, k, zone, size, name, ino),
         Sound(sects, inos, k, zone, size, name, ino, c),
         NEW n \in DOMAIN zone, NEW s \in Nat, NEW e, Resized(d, e, n, zone[n], s)
  PROVE  /\ Holds(e, sects, inos, k, zone, With(size, n, s), name, ino)
         /\ Sound(sects, inos, k, zone, With(size, n, s), name, ino, c)
         /\ IsFileSystem(e, c) /\ TarFull(e) /\ (Beyond(e) <=> Beyond(d))
         /\ \A y \in Places : y # INODES => e[y] = d[y]
<1> DEFINE ss == With(size, n, s)
<1>1. d[INODES] = InodesOf(k, zone, size) /\ DOMAIN size = DOMAIN zone
      /\ zone \in [DOMAIN zone -> sects] /\ size \in [DOMAIN zone -> Nat]
  BY DEF Holds, Sound
<1>2. With(zone, n, zone[n]) = zone
  <2>1. DOMAIN zone \cup {n} = DOMAIN zone
    OBVIOUS
  <2>2. zone = [m \in DOMAIN zone |-> zone[m]]
    BY <1>1
  <2>3. QED
    BY <2>1, <2>2 DEF With
<1>3. SyncInode(d[INODES], n, zone[n], s) = InodesOf(k, zone, ss)
  BY <1>1, <1>2, SyncInodeLemma
<1>4. ss \in [DOMAIN zone -> Nat]
  <2>1. DOMAIN size \cup {n} = DOMAIN zone
    BY <1>1
  <2>2. ss \in [DOMAIN size \cup {n} -> Nat]
    BY <1>1, WithLemma
  <2>3. QED
    BY <2>1, <2>2
<1> HIDE DEF ss
<1>5. INODES \in Places /\ INODES < TAR
  BY Metadata
<1>6. /\ DOMAIN e = Places /\ TarFull(e)
      /\ \A y \in Places : e[y] = IF y = INODES THEN InodesOf(k, zone, ss) ELSE d[y]
  BY <1>3, <1>5, PutLemma DEF Resized
<1>7. Holds(e, sects, inos, k, zone, ss, name, ino)
  BY <1>6, PlaceLemma, Metadata DEF Holds
<1>8. Sound(sects, inos, k, zone, ss, name, ino, c)
  BY <1>4 DEF Sound
<1>9. IsFileSystem(e, c)
  BY <1>7, <1>8 DEF IsFileSystem
<1>10. Beyond(e) <=> Beyond(d)
  BY <1>7, <1>8, FilesLemma
<1>11. QED
  BY <1>6, <1>7, <1>8, <1>9, <1>10 DEF ss

\* The operators of untar read the root device.
LEMMA OnRootLemma ==
  /\ DOMAIN Root = Places /\ \A p \in Places : OnRoot(p) = Root[p]
  /\ DirSize = SizeOf(Root) /\ Entries = {x \in Root[ROOT] : x[1] = "entry"}
<1>1. DOMAIN Root = Places /\ \A p \in Places : OnRoot(p) = Root[p]
  BY DEF Root, OnRoot, RootBase
<1>2. OnRoot(INODES) = Root[INODES] /\ OnRoot(ROOT) = Root[ROOT]
  BY <1>1, PlaceLemma
<1>3. QED
  BY <1>1, <1>2 DEF DirSize, SizeOf, Entries

\* What a map has taken.
LEMMA TakenLemma ==
  ASSUME NEW p, NEW a, NEW S, NEW O, \A x \in O : x[1] # a,
         \A x : x \in OnRoot(p) <=> x \in O \/ \E m \in S : x = <<a, m>>
  PROVE  Taken(p, a) = S
<1>1. Taken(p, a) = {x[2] : x \in {y \in OnRoot(p) : y[1] = a}}
  BY DEF Taken
<1>2. \A m \in S : <<a, m>>[1] = a /\ <<a, m>>[2] = m
  OBVIOUS
<1>3. ASSUME NEW m \in S PROVE m \in Taken(p, a)
  <2>1. <<a, m>> \in OnRoot(p) /\ <<a, m>>[1] = a /\ <<a, m>>[2] = m
    BY <1>2
  <2>2. QED
    BY <1>1, <2>1
<1>4. ASSUME NEW m \in Taken(p, a) PROVE m \in S
  <2>1. PICK x \in OnRoot(p) : x[1] = a /\ m = x[2]
    BY <1>1, <1>4
  <2>2. PICK l \in S : x = <<a, l>>
    BY <2>1
  <2>3. QED
    BY <2>1, <2>2
<1>5. QED
  BY <1>3, <1>4

LEMMA ReadingLemma ==
  ASSUME NEW sects, NEW inos, NEW k, NEW zone, NEW size, NEW name, NEW ino, NEW c \in Nat,
         Holds(Root, sects, inos, k, zone, size, name, ino),
         Sound(sects, inos, k, zone, size, name, ino, c)
  PROVE  /\ DirSize = k /\ \A m \in DOMAIN zone : Inode(m) = <<"inode", m, zone[m], size[m]>>
         /\ Taken(IMAP, "ino") = inos /\ Taken(SMAP, "sect") = sects
         /\ \A f : Found(f) = {} <=> \A i \in DOMAIN name : name[i] # f
         /\ \A i \in DOMAIN name : (CHOOSE e \in Found(name[i]) : TRUE) = <<"entry", i, name[i], ino[i]>>
<1>1. /\ OnRoot(INODES) = Root[INODES] /\ OnRoot(IMAP) = Root[IMAP] /\ OnRoot(SMAP) = Root[SMAP]
      /\ Entries = {x \in Root[ROOT] : x[1] = "entry"} /\ DirSize = k /\ k \in Nat
  BY OnRootLemma, PlaceLemma, FilesLemma
<1>2. ASSUME NEW m \in DOMAIN zone PROVE Inode(m) = <<"inode", m, zone[m], size[m]>>
  <2> DEFINE x == <<"inode", m, zone[m], size[m]>>
  <2>1. x \in Root[INODES] /\ x[1] = "inode" /\ x[2] = m
    BY FilesLemma
  <2>2. ASSUME NEW y \in Root[INODES], y[1] = "inode" /\ y[2] = m PROVE y = x
    <3>1. y # <<"inodes">> /\ y # <<"dir", k>>
      BY <2>2
    <3>2. PICK l \in DOMAIN zone : y = <<"inode", l, zone[l], size[l]>>
      BY <2>2, <3>1, InodesLemma DEF Holds
    <3>3. l = m
      BY <2>2, <3>2
    <3>4. QED
      BY <3>2, <3>3
  <2> HIDE DEF x
  <2>3. Inode(m) = x
    BY <1>1, <2>1, <2>2 DEF Inode
  <2>4. QED
    BY <2>3 DEF x
<1>3. Taken(IMAP, "ino") = inos
  <2>1. \A x : x \in OnRoot(IMAP) <=> x \in {<<"imap">>} \/ \E m \in inos : x = <<"ino", m>>
    BY <1>1 DEF Holds
  <2>2. \A x \in {<<"imap">>} : x[1] # "ino"
    OBVIOUS
  <2>3. QED
    BY <2>1, <2>2, TakenLemma
<1>4. Taken(SMAP, "sect") = sects
  <2>1. \A x : x \in OnRoot(SMAP)
                 <=> \/ x \in {<<"smap">>, <<"tar">>, <<"zones">>}
                     \/ \E m \in sects : x = <<"sect", m>>
    BY <1>1 DEF Holds
  <2>2. \A x \in {<<"smap">>, <<"tar">>, <<"zones">>} : x[1] # "sect"
    OBVIOUS
  <2>3. QED
    BY <2>1, <2>2, TakenLemma
<1>5. \A x : x \in Entries <=> \E i \in DOMAIN name : x = <<"entry", i, name[i], ino[i]>>
  <2>1. \A i : <<"entry", i, name[i], ino[i]>>[1] = "entry"
    OBVIOUS
  <2>2. <<"root">>[1] # "entry"
    OBVIOUS
  <2>3. Root[ROOT] = EntriesOf(name, ino)
    BY DEF Holds
  <2>4. QED
    BY <1>1, <2>1, <2>2, <2>3, EntryLemma
<1>6. \A i \in DOMAIN name : i \in Nat /\ i <= k + 1
  BY <1>1, FilesLemma
<1>7. ASSUME NEW f
      PROVE  \A x : x \in Found(f) <=> \E i \in DOMAIN name : /\ x = <<"entry", i, name[i], ino[i]>>
                                                              /\ name[i] = f
  <2>1. Found(f) = {e \in Entries : e[2] <= k + 1 /\ e[3] = f}
    BY <1>1 DEF Found
  <2>2. ASSUME NEW x \in Found(f) PROVE \E i \in DOMAIN name : /\ x = <<"entry", i, name[i], ino[i]>>
                                                               /\ name[i] = f
    <3>1. PICK i \in DOMAIN name : x = <<"entry", i, name[i], ino[i]>>
      BY <1>5, <2>1, <2>2
    <3>2. x[3] = name[i] /\ x[3] = f
      BY <2>1, <2>2, <3>1
    <3>3. QED
      BY <3>1, <3>2
  <2>3. ASSUME NEW x, NEW i \in DOMAIN name, x = <<"entry", i, name[i], ino[i]>>, name[i] = f
        PROVE  x \in Found(f)
    <3>1. x \in Entries
      BY <1>5, <2>3
    <3>2. x[2] <= k + 1 /\ x[3] = f
      BY <1>6, <2>3
    <3>3. QED
      BY <2>1, <3>1, <3>2
  <2>4. QED
    BY <2>2, <2>3
<1>8. \A f : Found(f) = {} <=> \A i \in DOMAIN name : name[i] # f
  BY <1>7
<1>9. ASSUME NEW i \in DOMAIN name
      PROVE  (CHOOSE e \in Found(name[i]) : TRUE) = <<"entry", i, name[i], ino[i]>>
  <2> DEFINE x == <<"entry", i, name[i], ino[i]>>
  <2>1. x \in Found(name[i])
    BY <1>7
  <2>2. ASSUME NEW y \in Found(name[i]) PROVE y = x
    <3>1. PICK j \in DOMAIN name : y = <<"entry", j, name[j], ino[j]>> /\ name[j] = name[i]
      BY <1>7, <2>2
    <3>2. j = i
      BY <3>1 DEF Sound
    <3>3. QED
      BY <3>1, <3>2
  <2> HIDE DEF x
  <2>3. Found(name[i]) = {x}
    BY <2>1, <2>2
  <2>4. (CHOOSE e \in Found(name[i]) : TRUE) = x
    BY <2>3
  <2>5. QED
    BY <2>4 DEF x
<1>10. QED
  BY <1>1, <1>2, <1>3, <1>4, <1>8, <1>9

LEMMA FreeLemma ==
  ASSUME NEW sects, NEW inos, Taken(IMAP, "ino") = inos, Taken(SMAP, "sect") = sects,
         FilePlaces \ sects # {}, (1 .. TAR) \ inos # {}
  PROVE  /\ FreeInode \in 1 .. TAR /\ FreeInode \notin inos
         /\ FreeSect \in FilePlaces /\ FreeSect \notin sects
<1> DEFINE S == (1 .. TAR) \ inos
           T == FilePlaces \ sects
<1>1. S \in SUBSET Nat /\ T \in SUBSET Nat
  <2>1. \A z \in FilePlaces : z \in Nat
    BY PlaceLemma
  <2>2. TAR \in Nat
    BY PlaceLemma
  <2>3. QED
    BY <2>1, <2>2
<1>2. FreeInode = Min(S) /\ FreeSect = Min(T)
  BY DEF FreeInode, FreeSect, FilePlaces
<1>3. S # {} /\ T # {}
  OBVIOUS
<1> HIDE DEF S, T
<1>4. Min(S) \in S /\ Min(T) \in T
  BY <1>1, <1>3, LeastLemma
<1>5. QED
  BY <1>2, <1>4 DEF S, T

----------------------------------------------------------------------------
\* untar, call by call

\* What INIT knows when its call is answered.
LEMMA UpSays ==
  ASSUME FsInv, req = NoReq, todo = <<>>, stage = "up"
  PROVE  /\ MayFail(Root, Context) /\ UntarAt(Root, Context)
         /\ Bootable(Root, torn, crashes, slipped) /\ Root[SUPER] = Super
         /\ crashes \in Nat /\ crashes <= Len(Tar) /\ Len(Tar) \in Nat /\ DOMAIN Root = Places
         /\ init.at \in {"header", "write"} => buf[0] = Root[TAR + init.pos - 1]
         /\ init = [at |-> init.at, nr |-> init.nr, pos |-> init.pos, ino |-> init.ino]
<1>1. MayFail(Root, Context) /\ Ended(Root, Context) /\ (Due => buf[0] = Root[DuePlace])
  BY AnsweredLemma
<1>2. UntarAt(Root, Context) /\ Bootable(Root, torn, crashes, slipped) /\ Root[SUPER] = Super
  BY <1>1, ContextLemma DEF Ended
<1>3. crashes \in 0 .. MaxCrashes /\ init = [at |-> init.at, nr |-> init.nr, pos |-> init.pos, ino |-> init.ino]
  BY DEF FsInv, Stages
<1>4. crashes \in Nat /\ crashes <= Len(Tar) /\ Len(Tar) \in Nat
  <2>1. MaxCrashes \in Nat /\ MaxCrashes <= Len(Tar) /\ Len(Tar) \in Nat
    BY PlaceLemma
  <2>2. QED
    BY <1>3, <2>1
<1>5. init.at \in {"header", "write"} => buf[0] = Root[TAR + init.pos - 1]
  BY <1>1 DEF Due, DuePlace
<1>6. DOMAIN Root = Places
  BY DEF Root
<1>7. QED
  BY <1>1, <1>2, <1>3, <1>4, <1>5, <1>6

\* The next call of INIT.
LEMMA CalledHolds ==
  ASSUME FsInv, IInv', stage = "up", req = NoReq, NEW s, NEW to, Call(s, to),
         to = [at |-> to.at, nr |-> to.nr, pos |-> to.pos, ino |-> to.ino],
         to.at = "assert" => torn, Runs(Root, s, Context'),
         \A i \in DOMAIN s : OneSector(s[i]),
         to.at \in {"header", "write"} =>
           TAR + to.pos - 1 \in Places /\ s # <<>> /\ s[Len(s)] = Rd(TAR + to.pos - 1)
  PROVE  FsInv'
<1>1. /\ todo' = s /\ init' = to /\ UNCHANGED hdSysVars
      /\ UNCHANGED <<stage, super_block, crashes, torn, slipped, disk>>
  BY DEF Call, hdSysVars, devVars
<1>2. Stages'
  BY <1>1 DEF FsInv, Stages
<1>3. Due' => DuePlace' \in Places /\ todo' # <<>> /\ todo'[Len(todo')] = Rd(DuePlace')
  <2>1. DuePlace' = TAR + to.pos - 1
    BY <1>1 DEF DuePlace
  <2>2. Due' => to.at \in {"header", "write"}
    BY <1>1 DEF Due
  <2>3. QED
    BY <1>1, <2>1, <2>2
<1>4. QED
  BY <1>1, <1>2, <1>3, CallHolds

LEMMA CallContext ==
  ASSUME NEW s, NEW to, Call(s, to), stage = "up"
  PROVE  /\ Context'.stage = "up" /\ Context'.init = to /\ Context'.torn = torn
         /\ Context'.crashes = crashes /\ Context'.slipped = slipped
  BY DEF Call, Context

\* INIT goes on to another place of its program with the disk as it is.
LEMMA StaysLemma ==
  ASSUME NEW d, NEW x, x.stage = "up", x.crashes \in Nat,
         Bootable(d, x.torn, x.crashes, x.slipped), d[SUPER] = Super, UntarAt(d, x),
         x.init.at # "run"
  PROVE  MayFail(d, x) /\ Ended(d, x)
<1>1. MayFail(d, x)
  BY BootMayFail
<1>2. QED
  BY <1>1 DEF Ended

\* The place of INIT, one by one.
LEMMA AtLemma ==
  ASSUME UntarAt(Root, Context)
  PROVE  /\ init.at = "open" => init = AtStart
         /\ init.at = "next" => Unpacking(Root, Context) /\ init.pos = 2 * init.nr
         /\ init.at = "header" => Unpacking(Root, Context) /\ init.pos = 2 * init.nr + 1
         /\ init.at = "read" => /\ Unpacking(Root, Context) /\ init.pos = 2 * init.nr - 1
                                /\ init.nr > 0 /\ OutIsOpen(Root, Context)
         /\ init.at = "write" => /\ Unpacking(Root, Context) /\ init.pos = 2 * init.nr
                                 /\ init.nr > 0 /\ OutIsOpen(Root, Context)
<1>1. AtStart.at = "open"
  BY DEF AtStart
<1>2. QED
  BY <1>1, ContextLemma DEF UntarAt

LEMMA InitRecord ==
  ASSUME NEW r, r = [at |-> r.at, nr |-> r.nr, pos |-> r.pos, ino |-> r.ino]
  PROVE  /\ \A a : [r EXCEPT !.at = a] = [at |-> a, nr |-> r.nr, pos |-> r.pos, ino |-> r.ino]
         /\ \A a : [r EXCEPT !.at = a, !.pos = @ + 1]
                     = [at |-> a, nr |-> r.nr, pos |-> r.pos + 1, ino |-> r.ino]
         /\ \A a, n : [r EXCEPT !.at = a, !.nr = @ + 1, !.ino = n]
                        = [at |-> a, nr |-> r.nr + 1, pos |-> r.pos, ino |-> n]
<1>1. ASSUME NEW a, NEW q, q = [r EXCEPT !.at = a]
      PROVE  q = [at |-> a, nr |-> r.nr, pos |-> r.pos, ino |-> r.ino]
  BY <1>1
<1>2. ASSUME NEW a, NEW q, q = [r EXCEPT !.at = a, !.pos = @ + 1]
      PROVE  q = [at |-> a, nr |-> r.nr, pos |-> r.pos + 1, ino |-> r.ino]
  BY <1>2
<1>3. ASSUME NEW a, NEW n, NEW q, q = [r EXCEPT !.at = a, !.nr = @ + 1, !.ino = n]
      PROVE  q = [at |-> a, nr |-> r.nr + 1, pos |-> r.pos, ino |-> n]
  BY <1>3
<1>4. QED
  BY <1>1, <1>2, <1>3

LEMMA OpenTarHolds ==
  ASSUME IInv', FsInv, OpenTar
  PROVE  FsInv'
<1> DEFINE at == IF <<"root">> \in OnRoot(ROOT) THEN "next" ELSE "assert"
           to == [at |-> at, nr |-> 0, pos |-> 0, ino |-> 0]
           s == <<Rd(ROOT), Rd(INODES)>>
<1>1. req = NoReq /\ todo = <<>> /\ stage = "up" /\ init.at = "open"
  BY DEF OpenTar, Returned, Answered
<1>2. /\ init = AtStart /\ Bootable(Root, torn, crashes, slipped) /\ Root[SUPER] = Super
      /\ crashes \in Nat /\ Len(Tar) \in Nat
  BY <1>1, UpSays, AtLemma
<1>3. Call(s, to)
  <2>1. [init EXCEPT !.at = at] = to
    BY <1>2 DEF AtStart
  <2>2. QED
    BY <2>1 DEF OpenTar
<1>4. at = "next" <=> HasRoot(Root)
  BY OnRootLemma, PlaceLemma DEF HasRoot
<1>5. at \in {"next", "assert"} /\ (at = "assert" => torn)
  BY <1>2, <1>4 DEF Bootable
<1>6. /\ to.at = at /\ to.nr = 0 /\ to.pos = 0
      /\ to = [at |-> to.at, nr |-> to.nr, pos |-> to.pos, ino |-> to.ino]
  OBVIOUS
<1> HIDE DEF to, at
<1> DEFINE x == Context'
<1>7. /\ x.stage = "up" /\ x.init = to /\ x.torn = torn /\ x.crashes = crashes /\ x.slipped = slipped
  BY <1>1, <1>3, CallContext
<1> HIDE DEF x, s
<1>8. UntarAt(Root, x)
  BY <1>2, <1>4, <1>5, <1>6, <1>7 DEF UntarAt, Unpacking
<1>9. MayFail(Root, x) /\ Ended(Root, x)
  BY <1>2, <1>5, <1>6, <1>7, <1>8, StaysLemma
<1>10. Runs(Root, s, x)
  BY <1>9, ReadsLemma DEF s
<1>11. \A i \in DOMAIN s : OneSector(s[i])
  <2>1. OneSector(Rd(ROOT)) /\ OneSector(Rd(INODES))
    BY RequestLemma, PlaceLemma
  <2>2. QED
    BY <2>1 DEF s
<1>12. QED
  BY <1>1, <1>3, <1>5, <1>6, <1>10, <1>11, CalledHolds DEF x

\* INIT reads the next header, or the data of the file it has opened.
LEMMA ReadTarHolds ==
  ASSUME IInv', FsInv, ReadHeader \/ ReadData
  PROVE  FsInv'
<1> DEFINE at == IF init.at = "next" THEN "header" ELSE "write"
           pos == init.pos + 1
           to == [at |-> at, nr |-> init.nr, pos |-> pos, ino |-> init.ino]
           p == TAR + init.pos
           s == <<Rd(p)>>
<1>1. req = NoReq /\ todo = <<>> /\ stage = "up" /\ init.at \in {"next", "read"}
  BY DEF ReadHeader, ReadData, Returned, Answered
<1>2. /\ Bootable(Root, torn, crashes, slipped) /\ Root[SUPER] = Super /\ crashes \in Nat
      /\ UntarAt(Root, Context) /\ Len(Tar) \in Nat
      /\ init = [at |-> init.at, nr |-> init.nr, pos |-> init.pos, ino |-> init.ino]
  BY <1>1, UpSays
<1>3. /\ Unpacking(Root, Context) /\ init.nr \in 0 .. Len(Tar)
      /\ init.at = "next" => init.pos = 2 * init.nr
      /\ init.at = "read" => init.pos = 2 * init.nr - 1 /\ init.nr > 0 /\ OutIsOpen(Root, Context)
  BY <1>1, <1>2, AtLemma, ContextLemma DEF Unpacking
<1>4. Call(s, to)
  <2>1. ASSUME NEW a PROVE [init EXCEPT !.at = a, !.pos = @ + 1]
                             = [at |-> a, nr |-> init.nr, pos |-> pos, ino |-> init.ino]
    BY <1>2, InitRecord
  <2>2. QED
    BY <2>1 DEF ReadHeader, ReadData, Returned
<1>5. /\ to.at = at /\ to.nr = init.nr /\ to.pos = pos /\ to.ino = init.ino
      /\ to = [at |-> to.at, nr |-> to.nr, pos |-> to.pos, ino |-> to.ino]
  OBVIOUS
<1>6. init.pos \in 0 .. 2 * Len(Tar) /\ p = TAR + pos - 1 /\ p \in Places
  <2>1. init.pos \in 0 .. 2 * Len(Tar)
    BY <1>1, <1>2, <1>3
  <2>2. TAR \in Nat /\ TAR + init.pos \in Places
    BY <2>1, PlaceLemma
  <2>3. init.pos \in Int
    BY <1>2, <2>1
  <2>4. TAR + init.pos = TAR + (init.pos + 1) - 1
    BY <2>2, <2>3
  <2>5. QED
    BY <2>1, <2>2, <2>4
<1>7. IF at = "header" THEN pos = 2 * init.nr + 1
      ELSE at = "write" /\ pos = 2 * init.nr /\ init.nr > 0 /\ OutIsOpen(Root, Context)
  BY <1>1, <1>2, <1>3
<1>8. at # "assert" /\ at # "run"
  OBVIOUS
<1>9. init.at = "next" <=> at = "header"
  OBVIOUS
<1>10. s # <<>> /\ s[Len(s)] = Rd(TAR + pos - 1) /\ DOMAIN s = {1} /\ s[1] = Rd(p)
  BY <1>6
<1> HIDE DEF to, at, pos
<1> DEFINE x == Context'
<1>11. /\ x.stage = "up" /\ x.init = to /\ x.torn = torn /\ x.crashes = crashes /\ x.slipped = slipped
  BY <1>1, <1>4, CallContext
<1> HIDE DEF x, s, p
<1>12. Unpacking(Root, x)
  <2>1. /\ HasRoot(Root) /\ (init.nr > 0 => Root[TAR] = TarSector(1))
        /\ \A i \in 1 .. init.nr :
             slipped \/ There(Root, Tar[i]) \/ (init.at \in {"read", "write"} /\ Tar[i] = Tar[init.nr])
    BY <1>3, ContextLemma DEF Unpacking
  <2>2. init.at \in {"read", "write"} => at \in {"read", "write"}
    BY <1>1 DEF at
  <2>3. QED
    BY <1>3, <1>5, <1>11, <2>1, <2>2 DEF Unpacking
<1>13. at = "write" => OutIsOpen(Root, x)
  <2>1. at = "write" => OutIsOpen(Root, Context)
    BY <1>7
  <2>2. QED
    BY <1>5, <1>11, <2>1, ContextLemma DEF OutIsOpen
<1>14. UntarAt(Root, x)
  BY <1>5, <1>7, <1>11, <1>12, <1>13 DEF UntarAt
<1>15. MayFail(Root, x) /\ Ended(Root, x)
  BY <1>2, <1>5, <1>8, <1>11, <1>14, StaysLemma
<1>16. Runs(Root, s, x)
  BY <1>15, ReadsLemma DEF s
<1>17. \A i \in DOMAIN s : OneSector(s[i])
  BY <1>6, <1>10, RequestLemma
<1>18. QED
  BY <1>1, <1>4, <1>5, <1>6, <1>8, <1>10, <1>16, <1>17, CalledHolds DEF x

\* The sectors of cmd.tar.
LEMMA TarSectorLemma ==
  ASSUME NEW n \in 0 .. Len(Tar)
  PROVE  /\ TarSector(2 * n + 1) = IF n = Len(Tar) THEN {} ELSE {<<"header", Tar[n + 1]>>}
         /\ n > 0 => TarSector(2 * n) = {<<"data", Tar[n]>>}
<1>1. Len(Tar) \in Nat /\ n \in Nat /\ n <= Len(Tar)
  BY PlaceLemma
<1> DEFINE L == Len(Tar)
           T(i) == Tar[i]
<1>2. \A k : TarSector(k) = IF k > 2 * L THEN {}
                            ELSE {<<IF k % 2 = 1 THEN "header" ELSE "data", T((k + 1) \div 2)>>}
  BY DEF TarSector
<1>3. L \in Nat
  BY <1>1
<1> HIDE DEF L, T
<1>4. /\ (2 * n + 1) % 2 = 1 /\ ((2 * n + 1) + 1) \div 2 = n + 1
      /\ (2 * n) % 2 = 0 /\ (2 * n + 1) \div 2 = n
  BY <1>1
<1>5. n \in 0 .. L
  BY DEF L
<1>6. 2 * n + 1 > 2 * L <=> n = L
  BY <1>3, <1>5
<1>7. ~ (2 * n > 2 * L)
  BY <1>3, <1>5
<1>8. TarSector(2 * n + 1) = IF n = L THEN {} ELSE {<<"header", T(n + 1)>>}
  BY <1>2, <1>4, <1>6
<1>9. TarSector(2 * n) = {<<"data", T(n)>>}
  BY <1>2, <1>4, <1>7
<1>10. QED
  BY <1>8, <1>9 DEF L, T

\* The first sector of cmd.tar is cleared.
LEMMA ClearLemma ==
  ASSUME NEW d, DOMAIN d = Places, TarFull(d), NEW c, IsFileSystem(d, c),
         NEW e, e = Put(d, TAR, {})
  PROVE  /\ IsFileSystem(e, c) /\ (Beyond(e) <=> Beyond(d)) /\ e[SUPER] = d[SUPER] /\ HasRoot(e)
         /\ \A file : There(d, file) => There(e, file)
         /\ e[TAR] = {} /\ \A j \in 1 .. 2 * Len(Tar) : e[TAR + j] = TarSector(j + 1)
<1>1. TAR \in Nat /\ Len(Tar) \in Nat /\ TAR \in Places
  <2>1. TAR \in Nat /\ Len(Tar) \in Nat /\ \A j \in 0 .. 2 * Len(Tar) : TAR + j \in Places
    BY PlaceLemma
  <2>2. 0 \in 0 .. 2 * Len(Tar) /\ TAR + 0 = TAR
    BY <2>1
  <2>3. QED
    BY <2>1, <2>2
<1>2. \A q \in Places : e[q] = IF q = TAR THEN {} ELSE d[q]
  BY <1>1, PutLemma
<1>3. \A p \in {SUPER, IMAP, SMAP, INODES, ROOT, ZONES} : p \in Places /\ p # TAR
  BY <1>1, Metadata
<1>4. /\ e[SUPER] = d[SUPER] /\ e[IMAP] = d[IMAP] /\ e[SMAP] = d[SMAP]
      /\ e[INODES] = d[INODES] /\ e[ROOT] = d[ROOT] /\ e[ZONES] = d[ZONES]
  BY <1>2, <1>3
<1>5. PICK sects, inos, k, zone, size, name, ino :
        /\ Holds(d, sects, inos, k, zone, size, name, ino)
        /\ Sound(sects, inos, k, zone, size, name, ino, c)
  BY DEF IsFileSystem
<1>6. Holds(e, sects, inos, k, zone, size, name, ino)
  BY <1>4, <1>5 DEF Holds
<1>7. IsFileSystem(e, c) /\ (Beyond(e) <=> Beyond(d)) /\ HasRoot(e)
  BY <1>5, <1>6, FilesLemma DEF IsFileSystem
<1>8. \A z \in FilePlaces : e[z] = d[z]
  <2>1. \A z \in FilePlaces : z \in Places /\ z < TAR
    BY PlaceLemma
  <2>2. \A z \in FilePlaces : z \in Nat
    BY PlaceLemma
  <2>3. QED
    BY <1>1, <1>2, <2>1, <2>2
<1>9. ASSUME NEW file, There(d, file) PROVE There(e, file)
  <2>1. PICK i \in DOMAIN name : /\ i <= k /\ name[i] = file /\ size[ino[i]] = 1
                                 /\ d[zone[ino[i]]] = {<<"data", file>>}
    BY <1>5, <1>9, ThereLemma
  <2>2. zone[ino[i]] \in FilePlaces
    BY <1>5, FilesLemma
  <2>3. e[zone[ino[i]]] = {<<"data", file>>}
    BY <1>8, <2>1, <2>2
  <2>4. QED
    BY <1>5, <1>6, <2>1, <2>3, ThereLemma
<1>10. e[TAR] = {}
  BY <1>1, <1>2
<1>11. ASSUME NEW j \in 1 .. 2 * Len(Tar) PROVE e[TAR + j] = TarSector(j + 1)
  <2>1. j \in 0 .. 2 * Len(Tar) /\ TAR + j # TAR
    BY <1>1
  <2>2. TAR + j \in Places /\ d[TAR + j] = TarSector(j + 1)
    BY <2>1, PlaceLemma DEF TarFull
  <2>3. QED
    BY <1>2, <2>1, <2>2
<1>12. QED
  BY <1>4, <1>7, <1>9, <1>10, <1>11

\* What INIT finds in cmd.tar after it has read a sector of it.
LEMMA HeaderLemma ==
  ASSUME FsInv, req = NoReq, todo = <<>>, stage = "up", init.at = "header"
  PROVE  /\ init.nr \in 0 .. Len(Tar) /\ init.pos = 2 * init.nr + 1 /\ HasRoot(Root)
         /\ IsFileSystem(Root, crashes) /\ (slipped \/ ~ Beyond(Root))
         /\ \A i \in 1 .. init.nr : slipped \/ There(Root, Tar[i])
         /\ buf[0] # {} \/ init.nr > 0 => TarFull(Root)
         /\ buf[0] # {} => init.nr < Len(Tar) /\ buf[0] = {<<"header", Tar[init.nr + 1]>>}
         /\ buf[0] = {} => init.nr = Len(Tar) \/ (init.nr = 0 /\ (slipped \/ AllThere(Root)))
<1>1. /\ Bootable(Root, torn, crashes, slipped) /\ UntarAt(Root, Context)
      /\ Len(Tar) \in Nat /\ buf[0] = Root[TAR + init.pos - 1]
  BY UpSays
<1>2. Unpacking(Root, Context) /\ init.pos = 2 * init.nr + 1
  BY <1>1, AtLemma
<1>3. /\ init.nr \in 0 .. Len(Tar) /\ HasRoot(Root)
      /\ init.nr > 0 => Root[TAR] = TarSector(1)
      /\ \A i \in 1 .. init.nr : slipped \/ There(Root, Tar[i])
  BY <1>2, ContextLemma DEF Unpacking
<1>4. IsFileSystem(Root, crashes) /\ (slipped \/ ~ Beyond(Root)) /\ TarKept(Root, slipped)
  BY <1>1, <1>3 DEF Bootable
<1>5. init.nr \in Nat /\ TAR \in Nat
  <2>1. TAR \in Nat
    BY PlaceLemma
  <2>2. QED
    BY <1>1, <1>3, <2>1
<1>6. TAR + init.pos - 1 = TAR + 2 * init.nr
  BY <1>2, <1>5
<1>7. buf[0] = Root[TAR + 2 * init.nr]
  BY <1>1, <1>6
<1>8. TarFull(Root) => buf[0] = TarSector(2 * init.nr + 1)
  <2>1. 2 * init.nr \in 0 .. 2 * Len(Tar)
    BY <1>1, <1>3
  <2>2. QED
    BY <1>7, <2>1 DEF TarFull
<1>9. Root[TAR] = TarSector(1) => TarFull(Root)
  BY <1>4, TarFullLemma
<1>10. Root[TAR] = TarSector(1) \/ (Root[TAR] = {} /\ (slipped \/ AllThere(Root)))
  BY <1>4 DEF TarKept
<1>11. init.nr = 0 => buf[0] = Root[TAR]
  <2>1. init.nr = 0 => TAR + 2 * init.nr = TAR
    BY <1>5
  <2>2. QED
    BY <1>7, <2>1
<1>12. buf[0] # {} \/ init.nr > 0 => TarFull(Root)
  BY <1>3, <1>5, <1>9, <1>10, <1>11
<1>13. TarSector(2 * init.nr + 1)
         = IF init.nr = Len(Tar) THEN {} ELSE {<<"header", Tar[init.nr + 1]>>}
  BY <1>3, TarSectorLemma
<1>14. buf[0] # {} => init.nr < Len(Tar) /\ buf[0] = {<<"header", Tar[init.nr + 1]>>}
  BY <1>1, <1>3, <1>8, <1>12, <1>13
<1>15. buf[0] = {} => init.nr = Len(Tar) \/ (init.nr = 0 /\ (slipped \/ AllThere(Root)))
  <2>1. CASE TarFull(Root)
    <3>1. {<<"header", Tar[init.nr + 1]>>} # {}
      OBVIOUS
    <3>2. buf[0] = IF init.nr = Len(Tar) THEN {} ELSE {<<"header", Tar[init.nr + 1]>>}
      BY <1>8, <1>13, <2>1
    <3>3. init.nr # Len(Tar) => buf[0] # {}
      BY <3>1, <3>2
    <3>4. QED
      BY <3>3
  <2>2. CASE ~ TarFull(Root)
    BY <1>3, <1>5, <1>9, <1>10, <1>12, <2>2
  <2>3. QED
    BY <2>1, <2>2
<1>16. QED
  BY <1>2, <1>3, <1>4, <1>12, <1>14, <1>15

LEMMA FinishHolds ==
  ASSUME IInv', FsInv, Finish
  PROVE  FsInv'
<1> DEFINE to == [at |-> "run", nr |-> init.nr, pos |-> init.pos, ino |-> init.ino]
           s == IF init.nr > 0 THEN <<Wr(TAR, {})>> ELSE <<>>
<1>1. req = NoReq /\ todo = <<>> /\ stage = "up" /\ init.at = "header" /\ buf[0] = {}
  BY DEF Finish, Returned, Answered
<1>2. /\ Bootable(Root, torn, crashes, slipped) /\ Root[SUPER] = Super /\ crashes \in Nat
      /\ DOMAIN Root = Places /\ Len(Tar) \in Nat
      /\ init = [at |-> init.at, nr |-> init.nr, pos |-> init.pos, ino |-> init.ino]
  BY <1>1, UpSays
<1>3. Call(s, to)
  <2>1. [init EXCEPT !.at = "run"] = to
    BY <1>2, InitRecord
  <2>2. QED
    BY <2>1 DEF Finish
<1>4. to.at = "run" /\ to = [at |-> to.at, nr |-> to.nr, pos |-> to.pos, ino |-> to.ino]
  OBVIOUS
<1>5. TAR \in Places
  <2>1. TAR \in Nat /\ \A j \in 0 .. 2 * Len(Tar) : TAR + j \in Places
    BY PlaceLemma
  <2>2. 0 \in 0 .. 2 * Len(Tar) /\ TAR + 0 = TAR
    BY <1>2, <2>1
  <2>3. QED
    BY <2>1, <2>2
<1>6. \A i \in DOMAIN s : OneSector(s[i])
  <2>1. OneSector(Wr(TAR, {}))
    BY <1>5, RequestLemma
  <2>2. CASE init.nr > 0
    <3>1. s = <<Wr(TAR, {})>>
      BY <2>2
    <3>2. QED
      BY <2>1, <3>1
  <2>3. CASE ~ (init.nr > 0)
    BY <2>3
  <2>4. QED
    BY <2>2, <2>3
<1> HIDE DEF to
<1> DEFINE x == Context'
<1>7. /\ x.stage = "up" /\ x.init = to /\ x.torn = torn /\ x.crashes = crashes /\ x.slipped = slipped
  BY <1>1, <1>3, CallContext
<1> HIDE DEF x
<1>8. /\ init.nr \in 0 .. Len(Tar) /\ HasRoot(Root) /\ IsFileSystem(Root, crashes)
      /\ \A i \in 1 .. init.nr : slipped \/ There(Root, Tar[i])
      /\ init.nr > 0 => TarFull(Root)
      /\ init.nr = Len(Tar) \/ (init.nr = 0 /\ (slipped \/ AllThere(Root)))
      /\ slipped \/ ~ Beyond(Root)
  BY <1>1, HeaderLemma
<1>9. slipped \/ AllThere(Root)
  BY <1>8 DEF AllThere
<1>10. \A d : UntarAt(d, x)
  BY <1>4, <1>7 DEF UntarAt
<1>11. MayFail(Root, x)
  BY <1>2, <1>7, <1>8, <1>9, BootMayFail
<1>12. CASE ~ (init.nr > 0)
  <2>1. s = <<>>
    BY <1>12
  <2>2. Ended(Root, x)
    BY <1>2, <1>7, <1>10 DEF Ended
  <2>3. Runs(Root, s, x)
    BY <1>11, <2>1, <2>2, ReadsLemma
  <2> HIDE DEF s
  <2>4. QED
    BY <1>1, <1>3, <1>4, <1>6, <2>3, CalledHolds DEF x
<1>13. CASE init.nr > 0
  <2>1. s = <<Wr(TAR, {})>>
    BY <1>13
  <2> HIDE DEF s
  <2>2. s # <<>> /\ Head(s) = Wr(TAR, {}) /\ Tail(s) = <<>> /\ Asking(s)
    <3>1. Asking(<<Wr(TAR, {})>>)
      BY SectorLemma
    <3>2. QED
      BY <2>1, <3>1
  <2> DEFINE e == Put(Root, TAR, {})
  <2>3. /\ IsFileSystem(e, crashes) /\ (Beyond(e) <=> Beyond(Root)) /\ e[SUPER] = Super /\ HasRoot(e)
        /\ \A file : There(Root, file) => There(e, file)
        /\ e[TAR] = {} /\ \A j \in 1 .. 2 * Len(Tar) : e[TAR + j] = TarSector(j + 1)
    BY <1>2, <1>8, <1>13, ClearLemma
  <2> HIDE DEF e
  <2>4. slipped \/ AllThere(e)
    BY <1>9, <2>3 DEF AllThere
  <2>5. Bootable(e, torn, crashes, slipped)
    BY <1>8, <2>3, <2>4 DEF Bootable, TarKept
  <2>6. MayFail(e, x)
    BY <1>2, <1>7, <2>3, <2>4, <2>5, BootMayFail
  <2>7. Ended(e, x)
    BY <1>7, <1>10, <2>3, <2>5 DEF Ended
  <2>8. Runs(e, Tail(s), x)
    BY <2>2, <2>6, <2>7, RunsEnd
  <2>9. Runs(Root, s, x)
    BY <1>11, <2>2, <2>8, RunsWrite DEF e
  <2>10. QED
    BY <1>1, <1>3, <1>4, <1>6, <2>9, CalledHolds DEF x
<1>14. QED
  BY <1>12, <1>13

\* The data of a file are written to its sector.
LEMMA DataLemma ==
  ASSUME NEW d, DOMAIN d = Places, TarFull(d),
         NEW sects, NEW inos, NEW k, NEW zone, NEW size, NEW name, NEW ino, NEW c,
         Holds(d, sects, inos, k, zone, size, name, ino),
         Sound(sects, inos, k, zone, size, name, ino, c),
         NEW n \in DOMAIN zone, NEW v, NEW e, e = Put(d, zone[n], v)
  PROVE  /\ Holds(e, sects, inos, k, zone, size, name, ino) /\ IsFileSystem(e, c)
         /\ DOMAIN e = Places /\ TarFull(e) /\ (Beyond(e) <=> Beyond(d)) /\ zone[n] \in Places
         /\ \A y \in Places : e[y] = IF y = zone[n] THEN v ELSE d[y]
<1> DEFINE z == zone[n]
<1>1. z \in FilePlaces
  BY FilesLemma
<1>2. z \in Places /\ z < TAR
  BY <1>1, PlaceLemma
<1>3. z \notin {SUPER, IMAP, SMAP, INODES, ROOT, ZONES}
  BY <1>1, Metadata
<1> HIDE DEF z
<1>4. e = Put(d, z, v)
  BY DEF z
<1>5. DOMAIN e = Places /\ TarFull(e) /\ \A y \in Places : e[y] = IF y = z THEN v ELSE d[y]
  BY <1>2, <1>4, PutLemma
<1>6. Holds(e, sects, inos, k, zone, size, name, ino)
  <2>1. \A p \in {SUPER, IMAP, SMAP, INODES, ROOT, ZONES} : p \in Places /\ p # z
    BY <1>3, Metadata
  <2>2. \A p \in {SUPER, IMAP, SMAP, INODES, ROOT, ZONES} : e[p] = d[p]
    BY <1>5, <2>1
  <2>3. QED
    BY <2>2 DEF Holds
<1>7. IsFileSystem(e, c) /\ (Beyond(e) <=> Beyond(d))
  BY <1>6, FilesLemma DEF IsFileSystem
<1>8. QED
  BY <1>2, <1>5, <1>6, <1>7 DEF z

\* The other files are there as they were.
LEMMA OthersLemma ==
  ASSUME NEW d, NEW e,
         NEW sects, NEW inos, NEW k, NEW zone, NEW size, NEW name, NEW ino, NEW c, NEW ss,
         Holds(d, sects, inos, k, zone, size, name, ino),
         Sound(sects, inos, k, zone, size, name, ino, c),
         Holds(e, sects, inos, k, zone, ss, name, ino),
         Sound(sects, inos, k, zone, ss, name, ino, c),
         NEW i \in DOMAIN name,
         \A m \in DOMAIN zone : m # ino[i] => ss[m] = size[m] /\ e[zone[m]] = d[zone[m]]
  PROVE  \A file : file # name[i] /\ There(d, file) => There(e, file)
<1>1. SUFFICES ASSUME NEW file, file # name[i], There(d, file) PROVE There(e, file)
  OBVIOUS
<1>2. PICK j \in DOMAIN name : /\ j <= k /\ name[j] = file /\ size[ino[j]] = 1
                               /\ d[zone[ino[j]]] = {<<"data", file>>}
  BY <1>1, ThereLemma
<1>3. ino[j] # ino[i]
  BY <1>1, <1>2 DEF Sound
<1>4. ino[j] \in DOMAIN zone
  BY FilesLemma
<1>5. ss[ino[j]] = 1 /\ e[zone[ino[j]]] = {<<"data", file>>}
  BY <1>2, <1>3, <1>4
<1>6. QED
  BY <1>2, <1>5, ThereLemma

\* Two sectors of two inodes.
LEMMA ZonesLemma ==
  ASSUME NEW sects, NEW inos, NEW k, NEW zone, NEW size, NEW name, NEW ino, NEW c,
         Sound(sects, inos, k, zone, size, name, ino, c)
  PROVE  /\ \A m \in DOMAIN zone : zone[m] \in Places /\ zone[m] # INODES
         /\ \A m, l \in DOMAIN zone : m # l => zone[m] # zone[l]
<1>1. \A m, l \in DOMAIN zone : m # l => zone[m] # zone[l]
  BY DEF Sound
<1>2. \A m \in DOMAIN zone : zone[m] \in FilePlaces
  <2>1. zone \in [DOMAIN zone -> sects] /\ sects \subseteq FilePlaces
    BY DEF Sound
  <2>2. QED
    BY <2>1
<1>3. \A z \in FilePlaces : z \in Places /\ z # INODES
  BY PlaceLemma, Metadata
<1>4. QED
  BY <1>1, <1>2, <1>3

\* The data of a file are written, and its size.
Written(d, d1, d2, zone, name, ino, i) ==
  /\ d1 = Put(d, zone[ino[i]], {<<"data", name[i]>>})
  /\ d2 = Put(d1, INODES, SyncInode(d[INODES], ino[i], zone[ino[i]], 1))

LEMMA FileWrittenLemma ==
  ASSUME NEW d, DOMAIN d = Places, TarFull(d),
         NEW sects, NEW inos, NEW k, NEW zone, NEW size, NEW name, NEW ino, NEW c,
         Holds(d, sects, inos, k, zone, size, name, ino),
         Sound(sects, inos, k, zone, size, name, ino, c),
         NEW i \in DOMAIN name, NEW d1, NEW d2, Written(d, d1, d2, zone, name, ino, i)
  PROVE  /\ IsFileSystem(d1, c) /\ TarFull(d1) /\ (Beyond(d1) <=> Beyond(d))
         /\ IsFileSystem(d2, c) /\ TarFull(d2) /\ (Beyond(d2) <=> Beyond(d))
         /\ \A file : file # name[i] /\ There(d, file) => There(d2, file)
         /\ ~ Beyond(d) => There(d2, name[i])
<1> DEFINE n == ino[i]
           f == name[i]
<1>a. d1 = Put(d, zone[n], {<<"data", f>>}) /\ d2 = Put(d1, INODES, SyncInode(d[INODES], n, zone[n], 1))
  BY DEF Written
<1>b. n = ino[i] /\ f = name[i]
  OBVIOUS
<1> HIDE DEF n, f
<1>1. n \in DOMAIN zone /\ k \in Nat /\ i \in 1 .. k + 1 /\ DOMAIN size = DOMAIN zone
  BY <1>b, FilesLemma
<1>2. /\ Holds(d1, sects, inos, k, zone, size, name, ino) /\ IsFileSystem(d1, c)
      /\ DOMAIN d1 = Places /\ TarFull(d1) /\ (Beyond(d1) <=> Beyond(d)) /\ zone[n] \in Places
      /\ \A y \in Places : d1[y] = IF y = zone[n] THEN {<<"data", f>>} ELSE d[y]
  BY <1>a, <1>1, DataLemma
<1>3. INODES \in Places /\ d1[INODES] = d[INODES]
  BY <1>2, PlaceLemma DEF Holds
<1> DEFINE ss == With(size, n, 1)
<1>4. /\ Holds(d2, sects, inos, k, zone, ss, name, ino)
      /\ Sound(sects, inos, k, zone, ss, name, ino, c)
      /\ IsFileSystem(d2, c) /\ TarFull(d2) /\ (Beyond(d2) <=> Beyond(d1))
      /\ \A y \in Places : y # INODES => d2[y] = d1[y]
  <2>1. PICK s \in Nat : s = 1
    OBVIOUS
  <2>2. Resized(d1, d2, n, zone[n], s)
    BY <1>3, <1>a, <2>1 DEF Resized
  <2>3. n \in DOMAIN zone
    BY <1>1
  <2>4. /\ Holds(d2, sects, inos, k, zone, With(size, n, s), name, ino)
        /\ Sound(sects, inos, k, zone, With(size, n, s), name, ino, c)
        /\ IsFileSystem(d2, c) /\ TarFull(d2) /\ (Beyond(d2) <=> Beyond(d1))
        /\ \A y \in Places : y # INODES => d2[y] = d1[y]
    <3>1. Sound(sects, inos, k, zone, size, name, ino, c) /\ DOMAIN d1 = Places /\ TarFull(d1)
          /\ Holds(d1, sects, inos, k, zone, size, name, ino) /\ s \in Nat
      BY <1>2
    <3>2. QED
      BY ONLY <3>1, <2>2, <2>3, ResizeLemma
  <2>5. QED
    BY <2>1, <2>4
<1>5. /\ \A m \in DOMAIN zone : zone[m] \in Places /\ zone[m] # INODES
      /\ \A m \in DOMAIN zone : m # n => zone[m] # zone[n]
  BY <1>1, ZonesLemma
<1>6. \A m \in DOMAIN zone : m # n => d2[zone[m]] = d[zone[m]]
  BY <1>2, <1>4, <1>5
<1>7. \A file : file # f /\ There(d, file) => There(d2, file)
  <2>1. \A m \in DOMAIN zone : m # ino[i] => ss[m] = size[m] /\ d2[zone[m]] = d[zone[m]]
    BY <1>b, <1>1, <1>6 DEF With
  <2> HIDE DEF ss
  <2>2. QED
    BY <1>b, <1>4, <2>1, OthersLemma
<1>8. ASSUME ~ Beyond(d) PROVE There(d2, f)
  <2>1. k + 1 \notin DOMAIN name
    BY <1>8, FilesLemma
  <2>2. i <= k
    <3>1. i # k + 1
      BY <2>1
    <3>2. QED
      BY <1>1, <3>1
  <2>3. d2[zone[n]] = {<<"data", f>>} /\ ss[n] = 1
    <3>1. d1[zone[n]] = {<<"data", f>>} /\ zone[n] \in Places /\ zone[n] # INODES
      BY <1>1, <1>2, <1>5
    <3>2. d2[zone[n]] = d1[zone[n]]
      BY <1>4, <3>1
    <3>3. ss[n] = 1
      BY DEF With
    <3>4. QED
      BY <3>1, <3>2, <3>3
  <2> HIDE DEF ss
  <2>4. ss[ino[i]] = 1 /\ d2[zone[ino[i]]] = {<<"data", f>>}
    BY <1>b, <2>3
  <2>5. i \in DOMAIN name /\ name[i] = f
    BY <1>b
  <2>6. QED
    BY ONLY <1>4, <2>2, <2>4, <2>5, ThereLemma
<1>9. QED
  BY <1>b, <1>2, <1>4, <1>7, <1>8

\* What INIT has opened.
LEMMA OpenedLemma ==
  ASSUME FsInv, req = NoReq, todo = <<>>, stage = "up", init.at = "write"
  PROVE  /\ init.nr \in 1 .. Len(Tar) /\ init.pos = 2 * init.nr /\ HasRoot(Root)
         /\ IsFileSystem(Root, crashes) /\ (slipped \/ ~ Beyond(Root)) /\ TarFull(Root)
         /\ OutIsOpen(Root, Context) /\ buf[0] = {<<"data", Tar[init.nr]>>}
         /\ \A i \in 1 .. init.nr : \/ slipped \/ There(Root, Tar[i])
                                    \/ Tar[i] = Tar[init.nr]
<1>1. /\ Bootable(Root, torn, crashes, slipped) /\ UntarAt(Root, Context)
      /\ Len(Tar) \in Nat /\ buf[0] = Root[TAR + init.pos - 1]
  BY UpSays
<1>2. /\ Unpacking(Root, Context) /\ init.pos = 2 * init.nr /\ init.nr > 0
      /\ OutIsOpen(Root, Context)
  BY <1>1, AtLemma
<1>3. /\ init.nr \in 0 .. Len(Tar) /\ HasRoot(Root)
      /\ init.nr > 0 => Root[TAR] = TarSector(1)
      /\ \A i \in 1 .. init.nr : slipped \/ There(Root, Tar[i]) \/ Tar[i] = Tar[init.nr]
  BY <1>2, ContextLemma DEF Unpacking
<1>4. IsFileSystem(Root, crashes) /\ (slipped \/ ~ Beyond(Root)) /\ TarKept(Root, slipped)
  BY <1>1, <1>3 DEF Bootable
<1>5. TarFull(Root)
  BY <1>2, <1>3, <1>4, TarFullLemma
<1>6. init.nr \in 1 .. Len(Tar) /\ init.nr \in Nat
  BY <1>1, <1>2, <1>3
<1>7. TAR \in Nat
  BY PlaceLemma
<1> DEFINE j == 2 * init.nr - 1
<1>8. j \in 0 .. 2 * Len(Tar) /\ j + 1 = 2 * init.nr /\ TAR + init.pos - 1 = TAR + j
  BY <1>1, <1>2, <1>6, <1>7
<1> HIDE DEF j
<1>9. buf[0] = TarSector(j + 1)
  BY <1>1, <1>5, <1>8 DEF TarFull
<1>10. buf[0] = {<<"data", Tar[init.nr]>>}
  BY <1>2, <1>3, <1>8, <1>9, TarSectorLemma
<1>11. QED
  BY <1>2, <1>3, <1>4, <1>5, <1>6, <1>10

LEMMA WriteDataHolds ==
  ASSUME IInv', FsInv, WriteData
  PROVE  FsInv'
<1>1. req = NoReq /\ todo = <<>> /\ stage = "up" /\ init.at = "write"
  BY DEF WriteData, Returned, Answered
<1>2. /\ Root[SUPER] = Super /\ crashes \in Nat /\ crashes <= Len(Tar) /\ DOMAIN Root = Places
      /\ init = [at |-> init.at, nr |-> init.nr, pos |-> init.pos, ino |-> init.ino]
  BY <1>1, UpSays
<1>3. /\ init.nr \in 1 .. Len(Tar) /\ init.pos = 2 * init.nr /\ HasRoot(Root)
      /\ IsFileSystem(Root, crashes) /\ (slipped \/ ~ Beyond(Root)) /\ TarFull(Root)
      /\ OutIsOpen(Root, Context) /\ buf[0] = {<<"data", Tar[init.nr]>>}
      /\ \A i \in 1 .. init.nr : slipped \/ There(Root, Tar[i]) \/ Tar[i] = Tar[init.nr]
  BY <1>1, OpenedLemma
<1>4. PICK sects, inos, k, zone, size, name, ino :
        /\ Holds(Root, sects, inos, k, zone, size, name, ino)
        /\ Sound(sects, inos, k, zone, size, name, ino, crashes)
  BY <1>3 DEF IsFileSystem
<1> DEFINE f == Tar[init.nr]
<1>5. PICK i \in DOMAIN name : name[i] = f /\ ino[i] = init.ino /\ size[ino[i]] = 0
  <2>1. OutIsOpen(Root, Context)
          <=> \E j \in DOMAIN name : /\ name[j] = Tar[Context.init.nr] /\ ino[j] = Context.init.ino
                                     /\ size[ino[j]] = 0
    BY <1>4, OutLemma
  <2>2. QED
    BY <1>3, <2>1, ContextLemma
<1> DEFINE n == ino[i]
<1>6. n \in DOMAIN zone /\ zone[n] \in Places
  <2>1. n \in DOMAIN zone
    BY <1>4, FilesLemma
  <2>2. QED
    BY <1>4, <2>1, ZonesLemma
<1>7. Inode(init.ino) = <<"inode", n, zone[n], 0>>
  <2>1. Inode(n) = <<"inode", n, zone[n], size[n]>>
    BY <1>2, <1>4, <1>6, ReadingLemma
  <2>2. QED
    BY <1>5, <2>1
<1> DEFINE to == [at |-> "next", nr |-> init.nr, pos |-> init.pos, ino |-> init.ino]
           v == {<<"data", f>>}
           z == zone[n]
           w == SyncInode(Root[INODES], n, z, 1)
           r == Wr(INODES, w)
           s == <<Wr(z, v)>> \o <<r>>
<1>8. Call(s, to)
  <2>1. [init EXCEPT !.at = "next"] = to
    BY <1>2, InitRecord
  <2>2. LET x == <<"inode", n, z, 0>>
        IN  Call(<<Wr(x[3], buf[0])>>
                   \o (IF x[4] < 1 THEN <<Wr(INODES, SyncInode(OnRoot(INODES), x[2], x[3], 1))>>
                       ELSE <<>>), to)
    BY <1>7, <2>1 DEF WriteData
  <2>3. /\ <<"inode", n, z, 0>>[2] = n /\ <<"inode", n, z, 0>>[3] = z
        /\ <<"inode", n, z, 0>>[4] = 0
    OBVIOUS
  <2>4. OnRoot(INODES) = Root[INODES]
    BY OnRootLemma, PlaceLemma
  <2> HIDE DEF z, n, to
  <2>5. Call(<<Wr(z, buf[0])>> \o <<Wr(INODES, SyncInode(OnRoot(INODES), n, z, 1))>>, to)
    BY <2>2, <2>3
  <2>6. QED
    BY <1>3, <2>4, <2>5
<1>9. /\ to.at = "next" /\ to.nr = init.nr /\ to.pos = init.pos
      /\ to = [at |-> to.at, nr |-> to.nr, pos |-> to.pos, ino |-> to.ino]
  OBVIOUS
<1>10. /\ \A j \in DOMAIN s : OneSector(s[j])
       /\ Asking(s) /\ s # <<>> /\ Head(s) = Wr(z, v) /\ Tail(s) = <<r>>
       /\ Asking(<<r>>) /\ <<r>> # <<>> /\ Head(<<r>>) = r /\ Tail(<<r>>) = <<>>
  <2>1. Asks(Wr(z, v)) /\ Asking(<<r>>)
    BY SectorLemma
  <2>2. OneSector(Wr(z, v)) /\ OneSector(r)
    BY <1>6, RequestLemma, PlaceLemma
  <2> HIDE DEF z, v, r
  <2>3. Asking(s) /\ s # <<>> /\ Head(s) = Wr(z, v) /\ Tail(s) = <<r>>
    BY <2>1, FirstLemma
  <2>4. DOMAIN s = 1 .. 2 /\ s[1] = Wr(z, v) /\ s[2] = r
    OBVIOUS
  <2>5. \A j \in 1 .. 2 : j = 1 \/ j = 2
    OBVIOUS
  <2>6. QED
    BY <2>1, <2>2, <2>3, <2>4, <2>5
<1> DEFINE x == Context'
<1>11. /\ x.stage = "up" /\ x.init = to /\ x.torn = torn /\ x.crashes = crashes
       /\ x.slipped = slipped
  BY <1>1, <1>8, CallContext
<1> DEFINE d1 == Put(Root, z, v)
           d2 == Put(d1, INODES, w)
<1>12. /\ IsFileSystem(d1, crashes) /\ TarFull(d1) /\ (Beyond(d1) <=> Beyond(Root))
       /\ IsFileSystem(d2, crashes) /\ TarFull(d2) /\ (Beyond(d2) <=> Beyond(Root))
       /\ \A file : file # f /\ There(Root, file) => There(d2, file)
       /\ ~ Beyond(Root) => There(d2, f)
  <2>1. Written(Root, d1, d2, zone, name, ino, i)
    BY <1>5 DEF Written
  <2>2. DOMAIN Root = Places /\ TarFull(Root) /\ i \in DOMAIN name /\ f = name[i]
    BY <1>2, <1>3, <1>5
  <2> HIDE DEF d1, d2, n, f
  <2>3. QED
    BY ONLY <1>4, <2>1, <2>2, FileWrittenLemma
<1> HIDE DEF d2
<1>13. d2 = Put(d1, INODES, w)
  BY DEF d2
<1> HIDE DEF s, x, to, d1, w, z, v, n
<1>14. \A d : x.slipped \/ ~ Beyond(d) <=> slipped \/ ~ Beyond(d)
  BY <1>11
<1>15. MayFail(Root, x) /\ MayFail(d1, x) /\ MayFail(d2, x) /\ (UntarAt(d2, x) => Ended(d2, x))
  <2>1. x.init.at # "run" /\ x.crashes \in Nat
    BY <1>2, <1>9, <1>11
  <2>2. /\ x.slipped \/ ~ Beyond(Root)
        /\ x.slipped \/ ~ Beyond(d1)
        /\ x.slipped \/ ~ Beyond(d2)
    BY <1>3, <1>11, <1>12
  <2>3. IsFileSystem(Root, x.crashes) /\ IsFileSystem(d1, x.crashes) /\ IsFileSystem(d2, x.crashes)
    BY <1>3, <1>11, <1>12
  <2>4. QED
    BY <1>3, <1>11, <1>12, <2>1, <2>2, <2>3, SettledLemma
<1>16. UntarAt(d2, x)
  <2>1. HasRoot(d2)
    BY <1>12, SuperLemma
  <2>2. d2[TAR] = TarSector(1)
    <3>1. TAR \in Nat /\ Len(Tar) \in Nat
      BY PlaceLemma
    <3>2. 0 \in 0 .. 2 * Len(Tar) /\ TAR + 0 = TAR /\ 0 + 1 = 1
      BY <3>1
    <3>3. d2[TAR + 0] = TarSector(0 + 1)
      BY <1>12, <3>2 DEF TarFull
    <3>4. QED
      BY <3>2, <3>3
  <2>3. ASSUME NEW j \in 1 .. init.nr PROVE slipped \/ There(d2, Tar[j])
    <3>1. CASE Tar[j] = f
      BY <1>3, <1>12, <3>1
    <3>2. CASE Tar[j] # f
      BY <1>3, <1>12, <3>2
    <3>3. QED
      BY <3>1, <3>2
  <2>4. init.nr \in 0 .. Len(Tar)
    BY <1>3
  <2>5. Unpacking(d2, x)
    BY <1>9, <1>11, <2>1, <2>2, <2>3, <2>4 DEF Unpacking
  <2>6. QED
    BY <1>3, <1>9, <1>11, <2>5 DEF UntarAt
<1>17. Runs(d2, <<>>, x)
  BY <1>15, <1>16, RunsEnd
<1>18. Runs(d1, <<r>>, x)
  BY <1>10, <1>13, <1>15, <1>17, RunsWrite
<1>19. Runs(Root, s, x)
  BY <1>10, <1>15, <1>18, RunsWrite DEF d1
<1>20. to.at # "assert" /\ to.at \notin {"header", "write"}
  BY <1>9
<1>21. QED
  BY <1>1, <1>8, <1>9, <1>10, <1>19, <1>20, CalledHolds DEF x

\* What open asks for when the header of the next file is read.
LEMMA ExtractSays ==
  ASSUME FsInv, Extract
  PROVE  LET f == Tar[init.nr + 1]
             n == IF Found(f) = {} THEN FreeInode ELSE (CHOOSE e \in Found(f) : TRUE)[4]
         IN  /\ req = NoReq /\ todo = <<>> /\ stage = "up" /\ init.at = "header" /\ buf[0] # {}
             /\ f \in Names /\ init.nr + 1 \in 1 .. Len(Tar)
             /\ Call(OpenOut(f), [at |-> "read", nr |-> init.nr + 1, pos |-> init.pos, ino |-> n])
<1> DEFINE f == Tar[init.nr + 1]
           n(g) == IF Found(g) = {} THEN FreeInode ELSE (CHOOSE e \in Found(g) : TRUE)[4]
           g == (CHOOSE x \in buf[0] : TRUE)[2]
<1>1. req = NoReq /\ todo = <<>> /\ stage = "up" /\ init.at = "header" /\ buf[0] # {}
  BY DEF Extract, Returned, Answered
<1>2. init = [at |-> init.at, nr |-> init.nr, pos |-> init.pos, ino |-> init.ino] /\ Len(Tar) \in Nat
  BY <1>1, UpSays
<1>3. init.nr \in 0 .. Len(Tar) /\ init.nr < Len(Tar) /\ buf[0] = {<<"header", f>>}
  BY <1>1, HeaderLemma
<1>4. init.nr + 1 \in 1 .. Len(Tar)
  BY <1>2, <1>3
<1>5. f \in Names
  BY <1>4 DEF Names
<1>6. g = f
  <2> HIDE DEF f
  <2> DEFINE h == <<"header", f>>
  <2>1. h[2] = f
    OBVIOUS
  <2>2. buf[0] = {h}
    BY <1>3
  <2> HIDE DEF h
  <2>3. (CHOOSE x \in buf[0] : TRUE) = h
    BY <2>2
  <2>4. QED
    BY <2>1, <2>3
<1>7. Call(OpenOut(g), [init EXCEPT !.at = "read", !.nr = @ + 1, !.ino = n(g)])
  BY DEF Extract
<1> HIDE DEF g, n
<1>8. Call(OpenOut(f), [init EXCEPT !.at = "read", !.nr = @ + 1, !.ino = n(f)])
  BY <1>6, <1>7
<1>9. [init EXCEPT !.at = "read", !.nr = @ + 1, !.ino = n(f)]
        = [at |-> "read", nr |-> init.nr + 1, pos |-> init.pos, ino |-> n(f)]
  BY <1>2, InitRecord
<1>10. Call(OpenOut(f), [at |-> "read", nr |-> init.nr + 1, pos |-> init.pos, ino |-> n(f)])
  BY <1>8, <1>9
<1>11. QED
  BY <1>1, <1>4, <1>5, <1>10 DEF n

\* The file is open, and the others are there that were.
LEMMA ReadAtLemma ==
  ASSUME NEW d, NEW x, NEW nr \in Nat, NEW n, NEW i, NEW z, nr + 1 \in 1 .. Len(Tar),
         x.init = [at |-> "read", nr |-> nr + 1, pos |-> 2 * nr + 1, ino |-> n],
         TarFull(d), HasRoot(d),
         \A j \in 1 .. nr : \/ x.slipped \/ There(d, Tar[j])
                            \/ Tar[j] = Tar[nr + 1],
         <<"entry", i, Tar[nr + 1], n>> \in d[ROOT], <<"inode", n, z, 0>> \in d[INODES]
  PROVE  UntarAt(d, x)
<1> DEFINE m == nr + 1
<1>1. /\ m \in Nat /\ m > 0 /\ 2 * nr + 1 = 2 * m - 1 /\ m \in 0 .. Len(Tar)
      /\ \A j \in 1 .. m : j = m \/ j \in 1 .. nr
  <2>1. Len(Tar) \in Nat
    BY PlaceLemma
  <2>2. m \in Nat /\ m > 0 /\ m \in 0 .. Len(Tar)
    BY <2>1
  <2>3. 2 * nr + 1 = 2 * m - 1
    OBVIOUS
  <2>4. \A j \in 1 .. m : j = m \/ j \in 1 .. nr
    OBVIOUS
  <2>5. QED
    BY <2>2, <2>3, <2>4
<1>2. x.init.at = "read" /\ x.init.nr = m /\ x.init.pos = 2 * m - 1 /\ x.init.ino = n
  BY <1>1
<1>3. d[TAR] = TarSector(1)
  <2>1. TAR \in Nat /\ Len(Tar) \in Nat
    BY PlaceLemma
  <2>2. 0 \in 0 .. 2 * Len(Tar) /\ TAR + 0 = TAR /\ 0 + 1 = 1
    BY <2>1
  <2>3. d[TAR + 0] = TarSector(0 + 1)
    BY <2>2 DEF TarFull
  <2>4. QED
    BY <2>2, <2>3
<1> HIDE DEF m
<1>4. \A j \in 1 .. nr : x.slipped \/ There(d, Tar[j]) \/ Tar[j] = Tar[m]
  BY DEF m
<1>5. <<"entry", i, Tar[m], n>> \in d[ROOT]
  BY DEF m
<1>6. Unpacking(d, x)
  BY <1>1, <1>2, <1>3, <1>4 DEF Unpacking
<1>7. OutIsOpen(d, x)
  BY <1>2, <1>5 DEF OutIsOpen
<1>8. QED
  BY <1>1, <1>2, <1>6, <1>7 DEF UntarAt

\* A request of a sector before others.
LEMMA MoreSectors ==
  ASSUME NEW r, OneSector(r), NEW s, Asking(s), \A j \in DOMAIN s : OneSector(s[j])
  PROVE  \A j \in DOMAIN (<<r>> \o s) : OneSector((<<r>> \o s)[j])
<1> DEFINE S == {s[i] : i \in DOMAIN s}
           T == S \cup {r}
<1>1. s \in Seq(S) /\ \A y \in S : OneSector(y)
  BY DEF Asking
<1> HIDE DEF S
<1>2. s \in Seq(T) /\ <<r>> \in Seq(T)
  BY <1>1
<1>3. \A y \in T : OneSector(y)
  BY <1>1
<1> HIDE DEF T
<1>4. <<r>> \o s \in Seq(T)
  BY <1>2
<1>5. QED
  BY <1>3, <1>4

\* What is not there yet is made.
LEMMA ExtractNew ==
  ASSUME IInv', FsInv, Extract, Found(Tar[init.nr + 1]) = {}
  PROVE  FsInv'
<1> DEFINE f == Tar[init.nr + 1]
           n == FreeInode
           z == FreeSect
           to == [at |-> "read", nr |-> init.nr + 1, pos |-> init.pos, ino |-> n]
           s == OpenOut(f)
<1>1. /\ req = NoReq /\ todo = <<>> /\ stage = "up" /\ init.at = "header" /\ buf[0] # {}
      /\ f \in Names /\ init.nr + 1 \in 1 .. Len(Tar) /\ Call(s, to)
  BY ExtractSays
<1>2. /\ Root[SUPER] = Super /\ crashes \in Nat /\ crashes <= Len(Tar) /\ DOMAIN Root = Places
  BY <1>1, UpSays
<1>3. /\ init.nr \in 0 .. Len(Tar) /\ init.pos = 2 * init.nr + 1 /\ HasRoot(Root)
      /\ IsFileSystem(Root, crashes) /\ (slipped \/ ~ Beyond(Root)) /\ TarFull(Root)
      /\ \A i \in 1 .. init.nr : slipped \/ There(Root, Tar[i])
  BY <1>1, HeaderLemma
<1>4. PICK sects, inos, k, zone, size, name, ino :
        /\ Holds(Root, sects, inos, k, zone, size, name, ino)
        /\ Sound(sects, inos, k, zone, size, name, ino, crashes)
  BY <1>3 DEF IsFileSystem
<1> HIDE DEF f
<1>5. /\ DirSize = k /\ Taken(IMAP, "ino") = inos /\ Taken(SMAP, "sect") = sects
      /\ \A i \in DOMAIN name : name[i] # f
  <2>1. \A g : Found(g) = {} <=> \A i \in DOMAIN name : name[i] # g
    BY <1>2, <1>4, ReadingLemma
  <2>2. QED
    BY <1>2, <1>4, <2>1, ReadingLemma DEF f
<1>6. k + 1 \in 0 .. Len(Tar) /\ FilePlaces \ sects # {} /\ (1 .. TAR) \ inos # {}
  BY <1>1, <1>2, <1>4, <1>5, RoomLemma
<1>7. n \in 1 .. TAR /\ n \notin inos /\ z \in FilePlaces /\ z \notin sects
  BY <1>5, <1>6, FreeLemma
<1> HIDE DEF n, z
<1> DEFINE b == NR_DIRECT_ZONE
           v1 == Root[IMAP] \cup {<<"ino", n>>}
           v2 == Root[SMAP] \cup {<<"sect", z>>}
           v3 == SyncInode(Root[INODES], n, z, b)
           v4 == {x \in Root[ROOT] : x[1] # "entry" \/ x[2] # k + 1} \cup {<<"entry", k + 1, f, n>>}
           v5 == SyncDir(v3, k + 1)
           v6 == SyncInode(v5, n, z, 0)
           s6 == <<Wr(INODES, v6)>>
           s5 == <<Wr(INODES, v5), Wr(INODES, v6)>>
           s4 == <<Wr(ROOT, v4), Wr(INODES, v5), Wr(INODES, v6)>>
           s3 == <<Wr(INODES, v3), Wr(ROOT, v4), Wr(INODES, v5), Wr(INODES, v6)>>
           s2 == <<Wr(SMAP, v2), Wr(INODES, v3), Wr(ROOT, v4), Wr(INODES, v5), Wr(INODES, v6)>>
           s1 == <<Wr(IMAP, v1), Wr(SMAP, v2), Wr(INODES, v3), Wr(ROOT, v4), Wr(INODES, v5),
                   Wr(INODES, v6)>>
           d1 == Put(Root, IMAP, v1)
           d2 == Put(d1, SMAP, v2)
           d3 == Put(d2, INODES, v3)
           d4 == Put(d3, ROOT, v4)
           d5 == Put(d4, INODES, v5)
           d6 == Put(d5, INODES, v6)
<1>8. /\ IsFileSystem(d1, crashes + 1) /\ IsFileSystem(d2, crashes + 1)
      /\ IsFileSystem(d3, crashes + 1) /\ IsFileSystem(d4, crashes + 1)
      /\ IsFileSystem(d5, crashes) /\ IsFileSystem(d6, crashes)
      /\ TarFull(d1) /\ TarFull(d2) /\ TarFull(d3) /\ TarFull(d4) /\ TarFull(d5) /\ TarFull(d6)
      /\ ~ Beyond(d6) /\ \A file : There(Root, file) => There(d6, file)
      /\ <<"entry", k + 1, f, n>> \in d6[ROOT] /\ <<"inode", n, z, 0>> \in d6[INODES]
  <2>1. MakesFile(Root, d1, d2, d3, d4, d5, d6, n, z, b, k, f)
    BY DEF MakesFile
  <2>2. b \in Nat
    BY UntarAssumption
  <2> HIDE DEF d1, d2, d3, d4, d5, d6, b
  <2>3. QED
    BY <1>1, <1>2, <1>3, <1>4, <1>5, <1>6, <1>7, <2>1, <2>2, CreatedLemma
<1>9. CreateFile(f) = s1
  <2>1. /\ OnRoot(IMAP) = Root[IMAP] /\ OnRoot(SMAP) = Root[SMAP] /\ OnRoot(INODES) = Root[INODES]
        /\ OnRoot(ROOT) = Root[ROOT]
    BY OnRootLemma, PlaceLemma
  <2>2. n = FreeInode /\ z = FreeSect
    BY DEF n, z
  <2>3. QED
    BY <1>5, <2>1, <2>2 DEF CreateFile
<1>10. s = <<Rd(ROOT)>> \o s1
  <2>1. Found(f) = {}
    BY DEF f
  <2> HIDE DEF s1
  <2>2. QED
    BY <1>9, <2>1 DEF OpenOut
<1>11. /\ s1 # <<>> /\ Head(s1) = Wr(IMAP, v1) /\ Tail(s1) = s2
       /\ s2 # <<>> /\ Head(s2) = Wr(SMAP, v2) /\ Tail(s2) = s3
       /\ s3 # <<>> /\ Head(s3) = Wr(INODES, v3) /\ Tail(s3) = s4
  <2> HIDE DEF v1, v2, v3, v4, v5, v6
  <2>1. QED
    OBVIOUS
<1>12. /\ s4 # <<>> /\ Head(s4) = Wr(ROOT, v4) /\ Tail(s4) = s5
       /\ s5 # <<>> /\ Head(s5) = Wr(INODES, v5) /\ Tail(s5) = s6
       /\ s6 # <<>> /\ Head(s6) = Wr(INODES, v6) /\ Tail(s6) = <<>>
  <2> HIDE DEF v1, v2, v3, v4, v5, v6
  <2>1. QED
    OBVIOUS
<1>13. \A j \in DOMAIN s : OneSector(s[j])
  <2>1. /\ IMAP \in Places /\ SMAP \in Places /\ INODES \in Places /\ ROOT \in Places
    BY PlaceLemma
  <2> HIDE DEF v1, v2, v3, v4, v5, v6
  <2>2. /\ OneSector(Rd(ROOT)) /\ OneSector(Wr(IMAP, v1)) /\ OneSector(Wr(SMAP, v2))
        /\ OneSector(Wr(INODES, v3)) /\ OneSector(Wr(ROOT, v4)) /\ OneSector(Wr(INODES, v5))
        /\ OneSector(Wr(INODES, v6))
    BY <2>1, RequestLemma
  <2>3. /\ DOMAIN s1 = 1 .. 6 /\ s1[1] = Wr(IMAP, v1) /\ s1[2] = Wr(SMAP, v2)
        /\ s1[3] = Wr(INODES, v3) /\ s1[4] = Wr(ROOT, v4) /\ s1[5] = Wr(INODES, v5)
        /\ s1[6] = Wr(INODES, v6)
    OBVIOUS
  <2>4. \A j \in 1 .. 6 : j = 1 \/ j = 2 \/ j = 3 \/ j = 4 \/ j = 5 \/ j = 6
    OBVIOUS
  <2>5. \A j \in DOMAIN s1 : OneSector(s1[j])
    BY <2>2, <2>3, <2>4
  <2>6. Asking(s1)
    BY <1>9, RequestsLemma
  <2> HIDE DEF s, s1
  <2>7. QED
    BY <1>10, <2>2, <2>5, <2>6, MoreSectors
<1>14. /\ d1 = Put(Root, IMAP, v1) /\ d2 = Put(d1, SMAP, v2) /\ d3 = Put(d2, INODES, v3)
       /\ d4 = Put(d3, ROOT, v4) /\ d5 = Put(d4, INODES, v5) /\ d6 = Put(d5, INODES, v6)
  OBVIOUS
<1> HIDE DEF s1, s2, s3, s4, s5, s6, d1, d2, d3, d4, d5, d6, v1, v2, v3, v4, v5, v6
<1>15. /\ Asking(s1) /\ Asking(s2) /\ Asking(s3) /\ Asking(s4) /\ Asking(s5) /\ Asking(s6)
  <2>1. Asking(s1)
    BY <1>9, RequestsLemma
  <2>2. QED
    BY <1>11, <1>12, <2>1, RestLemma
<1>16. /\ to.at = "read" /\ to = [at |-> to.at, nr |-> to.nr, pos |-> to.pos, ino |-> to.ino]
       /\ to = [at |-> "read", nr |-> init.nr + 1, pos |-> 2 * init.nr + 1, ino |-> n]
  BY <1>3
<1> DEFINE x == Context'
<1>17. /\ x.stage = "up" /\ x.init = to /\ x.torn = torn /\ x.crashes = crashes
       /\ x.slipped = slipped
  BY <1>1, CallContext
<1> HIDE DEF s, x, to
<1>18. MayFail(Root, x) /\ MayFail(d1, x) /\ MayFail(d2, x) /\ MayFail(d3, x) /\ MayFail(d4, x)
       /\ MayFail(d5, x)
  <2>1. /\ IsFileSystem(Root, crashes + 1) /\ IsFileSystem(d5, crashes + 1)
    <3> DEFINE c == crashes + 1
    <3>1. c \in Nat /\ crashes <= c
      BY <1>2
    <3> HIDE DEF c
    <3>2. IsFileSystem(Root, c) /\ IsFileSystem(d5, c)
      BY <1>2, <1>3, <1>8, <3>1, MoreLost
    <3>3. QED
      BY <3>2 DEF c
  <2>2. x.init.at = "read" /\ x.crashes + 1 = crashes + 1
    BY <1>16, <1>17
  <2>3. QED
    BY <1>3, <1>8, <1>17, <2>1, <2>2, BusyLemma
<1>19. UntarAt(d6, x)
  <2>1. HasRoot(d6)
    BY <1>8, SuperLemma
  <2>2. \A j \in 1 .. init.nr : x.slipped \/ There(d6, Tar[j])
    BY <1>3, <1>8, <1>17
  <2>3. init.nr \in Nat
    <3>1. Len(Tar) \in Nat
      BY PlaceLemma
    <3>2. QED
      BY <1>3, <3>1
  <2>4. <<"entry", k + 1, Tar[init.nr + 1], n>> \in d6[ROOT]
    BY <1>8 DEF f
  <2>5. x.init = [at |-> "read", nr |-> init.nr + 1, pos |-> 2 * init.nr + 1, ino |-> n]
    BY <1>16, <1>17
  <2> DEFINE i == k + 1
  <2>6. <<"entry", i, Tar[init.nr + 1], n>> \in d6[ROOT]
    BY <2>4
  <2> HIDE DEF i
  <2>7. QED
    BY <1>1, <1>8, <2>1, <2>2, <2>3, <2>5, <2>6, ReadAtLemma
<1>20. MayFail(d6, x) /\ Ended(d6, x)
  <2>1. x.init.at = "read"
    BY <1>16, <1>17
  <2>2. QED
    BY <1>2, <1>8, <1>17, <1>19, <2>1, SettledLemma
<1>21. Runs(d6, <<>>, x)
  BY <1>20, RunsEnd
<1>22. Runs(d5, s6, x)
  BY <1>12, <1>14, <1>15, <1>18, <1>21, RunsWrite
<1>23. Runs(d4, s5, x)
  BY <1>12, <1>14, <1>15, <1>18, <1>22, RunsWrite
<1>24. Runs(d3, s4, x)
  BY <1>12, <1>14, <1>15, <1>18, <1>23, RunsWrite
<1>25. Runs(d2, s3, x)
  BY <1>11, <1>14, <1>15, <1>18, <1>24, RunsWrite
<1>26. Runs(d1, s2, x)
  BY <1>11, <1>14, <1>15, <1>18, <1>25, RunsWrite
<1>27. Runs(Root, s1, x)
  BY <1>11, <1>14, <1>15, <1>18, <1>26, RunsWrite
<1>28. Runs(Root, s, x)
  <2>1. /\ s # <<>> /\ Asking(s) /\ Head(s) = Rd(ROOT) /\ Tail(s) = s1
    BY <1>10, <1>15, FirstLemma, SectorLemma
  <2>2. After(Root, Head(s)) = Root
    BY <2>1, RequestLemma
  <2>3. QED
    BY <1>18, <1>27, <2>1, <2>2, RunsRead
<1>29. to.at # "assert" /\ to.at \notin {"header", "write"}
  BY <1>16
<1>30. QED
  BY <1>1, <1>13, <1>16, <1>28, <1>29, CalledHolds DEF x

\* What is there is cut.
LEMMA ExtractOld ==
  ASSUME IInv', FsInv, Extract, Found(Tar[init.nr + 1]) # {}
  PROVE  FsInv'
<1> DEFINE f == Tar[init.nr + 1]
           n == (CHOOSE e \in Found(f) : TRUE)[4]
           to == [at |-> "read", nr |-> init.nr + 1, pos |-> init.pos, ino |-> n]
           s == OpenOut(f)
<1>1. /\ req = NoReq /\ todo = <<>> /\ stage = "up" /\ init.at = "header" /\ buf[0] # {}
      /\ f \in Names /\ init.nr + 1 \in 1 .. Len(Tar) /\ Call(s, to)
  BY ExtractSays
<1>2. /\ Root[SUPER] = Super /\ crashes \in Nat /\ crashes <= Len(Tar) /\ DOMAIN Root = Places
  BY <1>1, UpSays
<1>3. /\ init.nr \in 0 .. Len(Tar) /\ init.pos = 2 * init.nr + 1 /\ HasRoot(Root)
      /\ IsFileSystem(Root, crashes) /\ (slipped \/ ~ Beyond(Root)) /\ TarFull(Root)
      /\ \A i \in 1 .. init.nr : slipped \/ There(Root, Tar[i])
  BY <1>1, HeaderLemma
<1>4. PICK sects, inos, k, zone, size, name, ino :
        /\ Holds(Root, sects, inos, k, zone, size, name, ino)
        /\ Sound(sects, inos, k, zone, size, name, ino, crashes)
  BY <1>3 DEF IsFileSystem
<1>5. Found(f) # {}
  OBVIOUS
<1>6. f = Tar[init.nr + 1]
  OBVIOUS
<1> HIDE DEF f
<1>7. PICK i \in DOMAIN name : name[i] = f
  <2>1. \A g : Found(g) = {} <=> \A i \in DOMAIN name : name[i] # g
    BY <1>2, <1>4, ReadingLemma
  <2>2. QED
    BY <1>5, <2>1
<1>8. n = ino[i] /\ n \in DOMAIN zone
  <2>1. (CHOOSE e \in Found(name[i]) : TRUE) = <<"entry", i, name[i], ino[i]>>
    BY <1>2, <1>4, <1>7, ReadingLemma
  <2>2. <<"entry", i, name[i], ino[i]>>[4] = ino[i]
    OBVIOUS
  <2>3. n = ino[i]
    BY <1>7, <2>1, <2>2
  <2> HIDE DEF n
  <2>4. QED
    BY <1>4, <1>7, <2>3, FilesLemma
<1>9. n = (CHOOSE e \in Found(f) : TRUE)[4]
  OBVIOUS
<1> HIDE DEF n
<1>10. Inode(n)[3] = zone[n]
  <2>1. Inode(n) = <<"inode", n, zone[n], size[n]>>
    BY <1>2, <1>4, <1>8, ReadingLemma
  <2>2. <<"inode", n, zone[n], size[n]>>[3] = zone[n]
    OBVIOUS
  <2>3. QED
    BY <2>1, <2>2
<1> DEFINE w == SyncInode(Root[INODES], n, zone[n], 0)
           r == Wr(INODES, w)
           e == Put(Root, INODES, w)
<1>11. s = <<Rd(ROOT)>> \o <<r>>
  <2>1. OnRoot(INODES) = Root[INODES]
    BY OnRootLemma, PlaceLemma
  <2>2. s = <<Rd(ROOT)>> \o <<Wr(INODES, SyncInode(OnRoot(INODES), n, Inode(n)[3], 0))>>
    BY <1>5, <1>9 DEF OpenOut
  <2>3. QED
    BY <1>10, <2>1, <2>2
<1>12. PICK b \in Nat : b = 0
  OBVIOUS
<1>13. Resized(Root, e, n, zone[n], b)
  BY <1>12 DEF Resized
<1> HIDE DEF s, e
<1>14. e = Put(Root, INODES, w)
  BY DEF e
<1> HIDE DEF w
<1>15. PICK ss : ss = With(size, n, b)
  OBVIOUS
<1>16. /\ Holds(e, sects, inos, k, zone, ss, name, ino)
       /\ Sound(sects, inos, k, zone, ss, name, ino, crashes)
       /\ IsFileSystem(e, crashes) /\ TarFull(e) /\ (Beyond(e) <=> Beyond(Root))
       /\ \A y \in Places : y # INODES => e[y] = Root[y]
  <2>1. /\ Holds(e, sects, inos, k, zone, With(size, n, b), name, ino)
        /\ Sound(sects, inos, k, zone, With(size, n, b), name, ino, crashes)
        /\ IsFileSystem(e, crashes) /\ TarFull(e) /\ (Beyond(e) <=> Beyond(Root))
        /\ \A y \in Places : y # INODES => e[y] = Root[y]
    <3>1. DOMAIN Root = Places /\ TarFull(Root) /\ n \in DOMAIN zone /\ b \in Nat
      BY <1>2, <1>3, <1>8
    <3>2. QED
      BY ONLY <1>4, <1>13, <3>1, ResizeLemma
  <2>2. QED
    BY <1>15, <2>1
<1>17. \A m \in DOMAIN zone : m # ino[i] => ss[m] = size[m] /\ e[zone[m]] = Root[zone[m]]
  <2>1. DOMAIN size = DOMAIN zone
    BY <1>4, FilesLemma
  <2>2. \A m \in DOMAIN zone : zone[m] \in Places /\ zone[m] # INODES
    BY <1>4, ZonesLemma
  <2>3. \A m \in DOMAIN zone : m # ino[i] => ss[m] = size[m]
    BY <1>8, <1>15, <2>1 DEF With
  <2>4. \A m \in DOMAIN zone : e[zone[m]] = Root[zone[m]]
    BY <1>16, <2>2
  <2>5. QED
    BY <2>3, <2>4
<1>18. \A file : file # name[i] /\ There(Root, file) => There(e, file)
  BY ONLY <1>4, <1>7, <1>16, <1>17, OthersLemma
<1>19. <<"entry", i, f, n>> \in e[ROOT] /\ <<"inode", n, zone[n], 0>> \in e[INODES]
  <2>1. ss[n] = 0
    BY <1>12, <1>15 DEF With
  <2>2. QED
    BY <1>7, <1>8, <1>16, <2>1, FilesLemma
<1>20. /\ \A j \in DOMAIN s : OneSector(s[j])
       /\ s # <<>> /\ Asking(s) /\ Head(s) = Rd(ROOT) /\ Tail(s) = <<r>>
       /\ Asking(<<r>>) /\ <<r>> # <<>> /\ Head(<<r>>) = r /\ Tail(<<r>>) = <<>>
  <2>1. Asking(<<r>>) /\ Asks(Rd(ROOT))
    BY SectorLemma
  <2>2. OneSector(r) /\ OneSector(Rd(ROOT))
    BY RequestLemma, PlaceLemma
  <2> HIDE DEF r
  <2>3. <<r>> # <<>> /\ Head(<<r>>) = r /\ Tail(<<r>>) = <<>> /\ \A j \in DOMAIN <<r>> : OneSector(<<r>>[j])
    BY <2>2
  <2>4. \A j \in DOMAIN s : OneSector(s[j])
    BY <1>11, <2>1, <2>2, <2>3, MoreSectors
  <2>5. s # <<>> /\ Asking(s) /\ Head(s) = Rd(ROOT) /\ Tail(s) = <<r>>
    BY <1>11, <2>1, FirstLemma
  <2>6. QED
    BY <2>1, <2>3, <2>4, <2>5
<1>21. /\ to.at = "read" /\ to = [at |-> to.at, nr |-> to.nr, pos |-> to.pos, ino |-> to.ino]
       /\ to = [at |-> "read", nr |-> init.nr + 1, pos |-> 2 * init.nr + 1, ino |-> n]
  BY <1>3
<1> DEFINE x == Context'
<1>22. /\ x.stage = "up" /\ x.init = to /\ x.torn = torn /\ x.crashes = crashes
       /\ x.slipped = slipped
  BY <1>1, CallContext
<1> HIDE DEF x, to
<1>23. UntarAt(e, x)
  <2>1. HasRoot(e)
    BY <1>16, SuperLemma
  <2>2. \A j \in 1 .. init.nr : x.slipped \/ There(e, Tar[j]) \/ Tar[j] = Tar[init.nr + 1]
    <3>1. TAKE j \in 1 .. init.nr
    <3>2. CASE Tar[j] = f
      BY <1>6, <3>2
    <3>3. CASE Tar[j] # f
      BY <1>3, <1>7, <1>18, <1>22, <3>3
    <3>4. QED
      BY <3>2, <3>3
  <2>3. init.nr \in Nat
    <3>1. Len(Tar) \in Nat
      BY PlaceLemma
    <3>2. QED
      BY <1>3, <3>1
  <2>4. <<"entry", i, Tar[init.nr + 1], n>> \in e[ROOT]
    BY <1>6, <1>19
  <2>5. x.init = [at |-> "read", nr |-> init.nr + 1, pos |-> 2 * init.nr + 1, ino |-> n]
    BY <1>21, <1>22
  <2> DEFINE z == zone[n]
  <2>6. <<"inode", n, z, 0>> \in e[INODES]
    BY <1>19
  <2> HIDE DEF z
  <2>7. QED
    BY <1>1, <1>16, <2>1, <2>2, <2>3, <2>4, <2>5, <2>6, ReadAtLemma
<1>24. MayFail(Root, x) /\ MayFail(e, x) /\ Ended(e, x)
  <2>1. x.init.at = "read" /\ (x.slipped \/ ~ Beyond(Root))
    BY <1>3, <1>21, <1>22
  <2>2. x.slipped \/ ~ Beyond(e)
    BY <1>16, <2>1
  <2>3. QED
    BY <1>2, <1>3, <1>16, <1>22, <1>23, <2>1, <2>2, SettledLemma
<1>25. Runs(e, <<>>, x)
  BY <1>24, RunsEnd
<1>26. Runs(Root, <<r>>, x)
  BY <1>14, <1>20, <1>24, <1>25, RunsWrite
<1>27. Runs(Root, s, x)
  <2>1. After(Root, Head(s)) = Root
    BY <1>20, RequestLemma
  <2>2. QED
    BY <1>20, <1>24, <1>26, <2>1, RunsRead
<1>28. to.at # "assert" /\ to.at \notin {"header", "write"}
  BY <1>21
<1>29. QED
  BY <1>1, <1>20, <1>21, <1>27, <1>28, CalledHolds DEF x

LEMMA UntarHolds ==
  ASSUME IInv', FsInv, UntarStep
  PROVE  FsInv'
<1>1. CASE Extract
  BY <1>1, ExtractNew, ExtractOld
<1>2. QED
  BY <1>1, OpenTarHolds, ReadTarHolds, WriteDataHolds, FinishHolds DEF UntarStep
----------------------------------------------------------------------------
\* The theorems

LEMMA StillHolds ==
  ASSUME FsInv, UNCHANGED vars
  PROVE  FsInv'
<1>1. /\ UNCHANGED <<req, buf, disk, drive, job, pc, mask>>
      /\ UNCHANGED <<stage, todo, super_block, crashes, torn, init, slipped>>
  BY DEF vars, hdSysVars, fsVars, hdVars, devVars, bootVars, untarVars
<1>2. Held' = Held /\ Root' = Root /\ Context' = Context
  BY <1>1 DEF Held, Root, Context
<1>3. Done' = Done /\ Lba' = Lba
  BY <1>1 DEF Done, Begun, Lba
<1>4. RequestsFit' /\ Requested' /\ TodoFits'
  BY <1>1 DEF FsInv, RequestsFit, Requested, TodoFits
<1>5. Landed' /\ BufferDue' /\ Stages'
  BY <1>1, <1>3 DEF FsInv, Landed, BufferDue, Due, DuePlace, Stages
<1>6. MayFail(Root, Context)' /\ Runs(Held, todo, Context)'
  BY <1>1, <1>2 DEF FsInv
<1>7. QED
  BY <1>4, <1>5, <1>6 DEF FsInv

LEMMA FsStep ==
  ASSUME IInv, PInv, TInv, FsInv, [Next]_vars
  PROVE  FsInv'
<1>1. IInv'
  BY StepLemma
<1>2. CASE HdNext /\ UNCHANGED <<bootVars, untarVars>>
  BY <1>2, DriverHolds
<1>3. CASE InitFs /\ UNCHANGED untarVars
  BY <1>1, <1>3, AskHolds, ProbeHolds, SuperHolds, RootHolds DEF InitFs
<1>4. CASE UntarStep
  BY <1>1, <1>4, UntarHolds
<1>5. ASSUME NEW r \in Files, File(r), init.at = "run", UNCHANGED untarVars PROVE FsInv'
  BY <1>5, FileHolds
<1>6. CASE PowerOff
  BY <1>6, PowerFailsHolds
<1>7. CASE UNCHANGED vars
  BY <1>7, StillHolds
<1>8. QED
  BY <1>2, <1>3, <1>4, <1>5, <1>6, <1>7 DEF Next

LEMMA DiskStarts ==
  ASSUME Init
  PROVE  TInv /\ D!Init
<1>1. req = NoReq /\ pc = "recv" /\ crashes = 0 /\ DOMAIN buf = Slots /\ DOMAIN disk = Sectors
  BY DEF Init, BootInit, HdInit
<1>2. Wish = NoReq /\ Done = {}
  BY <1>1 DEF Wish, Done
<1>3. TInv
  BY <1>1 DEF TInv, Moving, Busy, Delivered
<1>4. QED
  BY <1>1, <1>2, <1>3 DEF D!Init

\* What FS has written of its file system and of the files of cmd.tar, for every archive and
\* however often the power fails: it asks for sectors that are there, and whatever is left of
\* the call it is in, the disk is one that it can start from, before and after each sector.
THEOREM FilesInvariant == Spec => [](FsInv /\ TInv)
<1>1. Init => FsInv /\ TInv
  BY StartHolds, DiskStarts
<1>2. IInv /\ PInv /\ FsInv /\ TInv /\ [Next]_vars => FsInv' /\ TInv'
  <2>1. SUFFICES ASSUME IInv, PInv, FsInv, TInv, [Next]_vars PROVE FsInv' /\ TInv'
    OBVIOUS
  <2>2. FsInv'
    BY <2>1, FsStep
  <2>3. RequestsFit /\ RequestsFit'
    BY <2>1, <2>2 DEF FsInv
  <2>4. QED
    BY <2>1, <2>2, <2>3, StepMoves
<1>3. Spec => [](IInv /\ PInv)
  BY DriverInvariant, DriverFindsPartitions, PTL
<1>4. QED
  BY <1>1, <1>2, <1>3, PTL DEF Spec

\* The driver does what module Disk promises TASK FS (rw_sector), for every layout, buffer size,
\* archive and time of the power failures: between the message and the answer each sector of the
\* request is moved once, between the place the layout gives it and its place in the buffer, and
\* nothing else on the disk or in the buffer changes.
THEOREM DriverImplementsDisk == Spec => ImplementsDisk
<1>1. Init => D!Init
  BY DiskStarts
<1>2. IInv /\ PInv /\ TInv /\ FsInv /\ FsInv' /\ [Next]_vars => [D!Next]_(D!vars)
  BY StepMoves DEF DiskStep, FsInv
<1>3. Spec => [](IInv /\ PInv)
  BY DriverInvariant, DriverFindsPartitions, PTL
<1>4. QED
  BY <1>1, <1>2, <1>3, FilesInvariant, PTL DEF Spec, ImplementsDisk, D!Spec

\* A file system on the root device is a whole one.
LEMMA WholeLemma ==
  ASSUME NEW c \in Nat, IsFileSystem(Root, c), NEW s \in DOMAIN Whole
  PROVE  Whole[s] \subseteq OnRoot(s)
<1>1. PICK sects, inos, k, zone, size, name, ino :
        Holds(Root, sects, inos, k, zone, size, name, ino)
  BY DEF IsFileSystem
<1>2. /\ Super \subseteq Root[SUPER] /\ <<"imap">> \in Root[IMAP] /\ <<"inodes">> \in Root[INODES]
      /\ <<"smap">> \in Root[SMAP] /\ <<"tar">> \in Root[SMAP] /\ <<"zones">> \in Root[SMAP]
      /\ <<"root">> \in Root[ROOT] /\ <<"zones">> \in Root[ZONES]
  BY <1>1 DEF Holds, InodesOf, EntriesOf
<1>3. /\ s \in {SUPER, IMAP, SMAP, INODES, ROOT, ZONES}
      /\ Whole[s] = CASE s = SUPER -> Super [] s = IMAP -> {<<"imap">>} [] s = INODES -> {<<"inodes">>}
                      [] s = SMAP -> {<<"smap">>, <<"tar">>, <<"zones">>}
                      [] s = ROOT -> {<<"root">>} [] OTHER -> {<<"zones">>}
  BY DEF Whole
<1>4. OnRoot(s) = Root[s]
  BY <1>3, OnRootLemma, PlaceLemma
<1>5. QED
  BY <1>2, <1>3, <1>4 DEF SUPER, IMAP, SMAP, INODES, ROOT, ZONES

LEMMA DiskLemma ==
  ASSUME FsInv
  PROVE  RequestsFit /\ SuperBlockLoaded /\ InitLeavesAFileSystem
<1>1. RequestsFit /\ SuperBlockLoaded
  BY DEF FsInv, Stages, SuperBlockLoaded
<1>2. ASSUME stage = "up", ~ torn, NEW s \in DOMAIN Whole PROVE Whole[s] \subseteq OnRoot(s)
  <2>1. crashes \in Nat
    BY PlaceLemma DEF FsInv, Stages
  <2>2. Root[SUPER] = Super /\ Bootable(Root, FALSE, crashes + 1, slipped \/ (init.at = "read" /\ Beyond(Root)))
    BY <1>2, ContextLemma DEF FsInv, MayFail
  <2>3. IsFileSystem(Root, crashes + 1)
    BY <2>2 DEF Bootable
  <2>4. QED
    BY <1>2, <2>1, <2>3, WholeLemma
<1>3. QED
  BY <1>1, <1>2 DEF InitLeavesAFileSystem

\* FS finds on the disk what it asks for and what it starts from: every request is for a device
\* that is there and fits in the buffer, the partitions are where the layout has them, the super
\* block is loaded before anyone needs it, and init_fs leaves a whole file system on the root
\* device, across power failures, but for the one that mkfs cannot survive.
THEOREM FsFindsDisk == Spec => []DiskIsFound
<1>1. FsInv /\ PartitionsFound => DiskIsFound
  BY DiskLemma DEF DiskIsFound
<1>2. QED
  BY <1>1, FilesInvariant, DriverFindsPartitions, PTL

\* A file that is there is unpacked.
LEMMA UnpackedLemma ==
  ASSUME NEW c \in Nat, IsFileSystem(Root, c), NEW file, There(Root, file)
  PROVE  Unpacked(file)
<1>1. PICK sects, inos, k, zone, size, name, ino :
        /\ Holds(Root, sects, inos, k, zone, size, name, ino)
        /\ Sound(sects, inos, k, zone, size, name, ino, c)
  BY DEF IsFileSystem
<1>2. PICK i \in DOMAIN name : /\ i <= k /\ name[i] = file /\ size[ino[i]] = 1
                               /\ Root[zone[ino[i]]] = {<<"data", file>>}
  BY <1>1, ThereLemma
<1>3. ino[i] \in DOMAIN zone /\ <<"entry", i, file, ino[i]>> \in Root[ROOT]
  BY <1>1, <1>2, FilesLemma
<1>4. zone[ino[i]] \in Places
  BY <1>1, <1>3, ZonesLemma
<1>5. DirSize = k /\ Inode(ino[i]) = <<"inode", ino[i], zone[ino[i]], size[ino[i]]>>
  BY <1>1, <1>3, ReadingLemma
<1>6. <<"entry", i, file, ino[i]>> \in Entries /\ OnRoot(zone[ino[i]]) = Root[zone[ino[i]]]
  BY <1>3, <1>4, OnRootLemma
<1>7. QED
  BY <1>2, <1>5, <1>6 DEF Unpacked

\* When INIT starts its shells every file of cmd.tar is in the directory with its data, for
\* every archive, wherever and however often the power failed while INIT unpacked it, but for a
\* failure between a directory entry and the size of the directory; and INIT's asserts hold.
THEOREM UntarUnpacksAll == Spec => []UnpackedIsWhole
<1>1. FsInv => UnpackedIsWhole
  <2>1. SUFFICES ASSUME FsInv PROVE UnpackedIsWhole
    OBVIOUS
  <2>2. ASSUME init.at = "run", ~ slipped, NEW i \in DOMAIN Tar PROVE Unpacked(Tar[i])
    <3>1. crashes \in Nat
      BY <2>1, PlaceLemma DEF FsInv, Stages
    <3>2. HasRoot(Root) /\ AllThere(Root) /\ IsFileSystem(Root, crashes + 1)
      BY <2>1, <2>2, ContextLemma DEF FsInv, MayFail, Bootable
    <3>3. i \in 1 .. Len(Tar)
      BY <2>2, RootAssumption
    <3>4. There(Root, Tar[i])
      BY <3>2, <3>3 DEF AllThere
    <3>5. QED
      BY <3>1, <3>2, <3>4, UnpackedLemma
  <2>3. init.at = "assert" => torn
    BY <2>1 DEF FsInv, Stages
  <2>4. QED
    BY <2>2, <2>3 DEF UnpackedIsWhole
<1>2. QED
  BY <1>1, FilesInvariant, PTL
=============================================================================
