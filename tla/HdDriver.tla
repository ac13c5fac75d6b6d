------------------------------ MODULE HdDriver ------------------------------
(***************************************************************************)
(* TASK HD, the disk driver (kernel/hd.c), and the disk drive.  For each       *)
(* message of TASK FS the driver gives the drive a command, and sector by     *)
(* sector waits for its interrupt, which the kernel latches in has_int_msg    *)
(* when HD does not wait for it yet.  A latched interrupt that nobody waits    *)
(* for would be received by HD's main loop as a message it does not know.    *)
(* waitfor polls the status register, which clears an interrupt not yet      *)
(* taken, and gives up after HD_TIMEOUT ticks.                              *)
(***************************************************************************)
EXTENDS Integers, Sequences, FiniteSetsExt

CONSTANTS
  Layout,           \* the primary partitions: kind ("none", "plain", "extended"), base, size, subs
  DiskSize,         \* the number of sectors of the disk
  Slots,            \* the sectors the buffer of FS holds, 0 ..
  Identity,         \* what the drive says of itself, as a sector
  MINOR_hd1a,       \* the first minor number of the logical partitions (16)
  NR_SUB_PER_PART,  \* logical partitions of a primary one (16)
  HD_TIMEOUT        \* in ticks

NoReq == [type |-> "NONE"]

NR_PART_PER_DRIVE == Len(Layout)
NR_SUB_PER_DRIVE == NR_SUB_PER_PART * NR_PART_PER_DRIVE
MAX_PRIM == 2 * (NR_PART_PER_DRIVE + 1) - 1
Sectors == 0 .. DiskSize - 1

ASSUME HdAssumption ==
  /\ DiskSize \in Nat /\ HD_TIMEOUT \in Nat
  /\ NR_SUB_PER_PART \in Nat \ {0} /\ MINOR_hd1a \in Nat /\ MINOR_hd1a >= MAX_PRIM
  /\ Slots = 0 .. Max(Slots)

VARIABLES
  req,       \* the message FS waits for the answer of, or NoReq
  buf,       \* the buffer of FS
  geo,       \* the geometry FS has been told
  pc,        \* where HD is
  mask,      \* what waitfor waits for: "BSY" (cleared) or "DRQ"
  job,       \* the command HD is at, what it is for, and bytes_left in sectors
  walk,      \* where partition() is: extended partition j, number k in it, sector s
  hd_info,   \* open_cnt and the partitions found
  waited,    \* ticks since waitfor was called
  irq,       \* the drive's interrupt request, not yet taken
  has_int,   \* has_int_msg of HD: taken, not yet received
  drive,     \* the drive: its state, command, sectors to go and data register
  disk       \* the content of the sectors

hdVars == <<pc, mask, job, walk, hd_info, waited>>
devVars == <<irq, drive, disk>>
fsVars == <<req, buf, geo>>
hdSysVars == <<fsVars, hdVars, has_int, devVars>>

----------------------------------------------------------------------------
(* The partition tables on the disk, as a partitioning program writes them:   *)
(* the tables of the logical partitions are a chain, whose links count from   *)
(* the start of the extended partition.                                     *)

Entry(id, start, size) == [sys_id |-> id, start_sect |-> start, nr_sects |-> size]
NoEntry == Entry("NO_PART", 0, 0)

PrimaryTable ==
  [i \in 1 .. NR_PART_PER_DRIVE |->
     CASE Layout[i].kind = "none" -> NoEntry
       [] Layout[i].kind = "plain" -> Entry("ORANGES_PART", Layout[i].base, Layout[i].size)
       [] OTHER -> Entry("EXT_PART", Layout[i].base, Layout[i].size)]

Extended == {i \in 1 .. NR_PART_PER_DRIVE : Layout[i].kind = "extended"}

\* What such a program leaves: no table is in sector 0 or in the place of another, the
\* chain starts where its extended partition does, and it is not too long for hd_info.
ASSUME LayoutAssumption ==
  /\ Layout \in Seq([kind : {"none", "plain", "extended"}, base : Nat, size : Nat,
                     subs : Seq([table : Nat \ {0}, base : Nat, size : Nat])])
  /\ \A i \in Extended :
       /\ Len(Layout[i].subs) \in 1 .. NR_SUB_PER_PART
       /\ Layout[i].subs[1].table = Layout[i].base
       /\ \A j \in Extended, k \in DOMAIN Layout[i].subs : \A l \in DOMAIN Layout[j].subs :
            Layout[i].subs[k].table = Layout[j].subs[l].table => i = j /\ k = l
SubTable(p, k) ==
  <<Entry("ORANGES_PART", p.subs[k].base - p.subs[k].table, p.subs[k].size),
    IF k = Len(p.subs) THEN NoEntry
    ELSE Entry("EXT_PART", p.subs[k + 1].table - p.base, p.subs[k + 1].size + 1)>>

\* get_part_table: the table in a sector.
TableAt(s) ==
  IF s = 0 THEN PrimaryTable
  ELSE LET at == CHOOSE x \in Extended \X (1 .. NR_SUB_PER_PART) :
                   /\ x[2] <= Len(Layout[x[1]].subs)
                   /\ Layout[x[1]].subs[x[2]].table = s
       IN SubTable(Layout[at[1]], at[2])

----------------------------------------------------------------------------
(* The drive                                                                *)

IdleDrive == [st |-> "idle", cmd |-> "NONE", lba |-> 0, n |-> 0, full |-> FALSE, data |-> Identity]

\* Data is ready, or the drive is ready for data, or the data are on the disk.
DriveReady ==
  /\ drive.st = "busy"
  /\ IF drive.cmd = "WRITE"
     THEN IF drive.full
          THEN /\ disk' = [disk EXCEPT ![drive.lba] = drive.data]
               /\ drive' = [drive EXCEPT !.st = IF drive.n = 1 THEN "idle" ELSE "drq",
                                         !.lba = @ + 1, !.n = @ - 1, !.full = FALSE]
               /\ irq' = TRUE
          ELSE drive' = [drive EXCEPT !.st = "drq"] /\ UNCHANGED <<disk, irq>>
     ELSE /\ drive' = [drive EXCEPT !.st = "drq",
                         !.data = IF drive.cmd = "IDENTIFY" THEN Identity ELSE disk[drive.lba]]
          /\ irq' = TRUE
          /\ UNCHANGED disk
  /\ UNCHANGED <<fsVars, hdVars, has_int>>

\* hd_handler and inform_int.
HdHandler ==
  /\ irq
  /\ irq' = FALSE /\ has_int' = TRUE
  /\ UNCHANGED <<fsVars, hdVars, drive, disk>>

\* The clock, while waitfor looks at it.
Tick ==
  /\ pc \in {"wait", "status"} /\ waited < HD_TIMEOUT
  /\ waited' = waited + 1
  /\ UNCHANGED <<fsVars, pc, mask, job, walk, hd_info, has_int, devVars>>

----------------------------------------------------------------------------
(* TASK HD                                                                  *)

Waitfor(m) == pc' = "wait" /\ mask' = m /\ waited' = 0

\* hd_cmd_out: a command is to be given once the drive is not busy.
Command(cmd, lba, n, use) ==
  /\ Waitfor("BSY")
  /\ job' = [cmd |-> cmd, lba |-> lba, left |-> n, use |-> use]

PartOf(dev) == IF dev < MAX_PRIM THEN hd_info.primary[dev]
               ELSE hd_info.logical[(dev - MINOR_hd1a) % NR_SUB_PER_DRIVE]

\* The main loop receives a message; an interrupt would come first.
Receive == pc = "recv" /\ ~has_int /\ req # NoReq

HdOpen ==
  /\ Receive /\ req.type = "DEV_OPEN"
  /\ Command("IDENTIFY", 0, 1, "identify")
  /\ UNCHANGED <<fsVars, walk, hd_info, has_int, devVars>>

HdRdwt ==
  /\ Receive /\ req.type \in {"DEV_READ", "DEV_WRITE"}
  /\ Command(IF req.type = "DEV_READ" THEN "READ" ELSE "WRITE",
             req.pos + PartOf(req.dev).base, req.cnt, "rdwt")
  /\ UNCHANGED <<fsVars, walk, hd_info, has_int, devVars>>

HdIoctl ==
  /\ Receive /\ req.type = "DEV_IOCTL"
  /\ geo' = PartOf(req.dev)
  /\ pc' = "reply"
  /\ UNCHANGED <<req, buf, mask, job, walk, hd_info, waited, has_int, devVars>>

\* dump_msg and spin.
UnknownMsg ==
  /\ pc = "recv" /\ has_int
  /\ pc' = "spin" /\ has_int' = FALSE
  /\ UNCHANGED <<fsVars, mask, job, walk, hd_info, waited, devVars>>

\* waitfor: the time, asked of TASK SYS, and then the status.
GetTicks ==
  /\ pc = "wait"
  /\ pc' = IF waited < HD_TIMEOUT THEN "status" ELSE "panic"
  /\ UNCHANGED <<fsVars, mask, job, walk, hd_info, waited, has_int, devVars>>

StatusNot ==
  /\ pc = "status"
  /\ IF mask = "BSY" THEN drive.st = "busy" ELSE drive.st # "drq"
  /\ pc' = "wait" /\ irq' = FALSE
  /\ UNCHANGED <<fsVars, mask, job, walk, hd_info, waited, has_int, drive, disk>>

HdCmdOutNoDrq ==
  /\ pc = "status" /\ mask = "BSY" /\ drive.st # "busy"
  /\ irq' = FALSE
  /\ drive' = [st |-> "busy", cmd |-> job.cmd, lba |-> job.lba, n |-> job.left,
               full |-> FALSE, data |-> drive.data]
  /\ pc' = "int"
  /\ UNCHANGED <<fsVars, mask, job, walk, hd_info, waited, has_int, disk>>

\* The rest of hd_cmd_out.
HdCmdOut ==
  /\ pc = "status" /\ mask = "BSY" /\ drive.st # "busy"
  /\ irq' = FALSE
  /\ drive' = [st |-> "busy", cmd |-> job.cmd, lba |-> job.lba, n |-> job.left,
               full |-> FALSE, data |-> drive.data]
  /\ IF job.cmd = "WRITE" THEN Waitfor("DRQ")
     ELSE pc' = "int" /\ UNCHANGED <<mask, waited>>
  /\ UNCHANGED <<fsVars, job, walk, hd_info, has_int, disk>>

\* port_write of the next sector of the buffer.
PortWrite ==
  /\ pc = "status" /\ mask = "DRQ" /\ drive.st = "drq"
  /\ irq' = FALSE
  /\ drive' = [drive EXCEPT !.st = "busy", !.full = TRUE, !.data = buf[req.cnt - job.left]]
  /\ pc' = "int"
  /\ UNCHANGED <<fsVars, mask, job, walk, hd_info, waited, has_int, disk>>

\* interrupt_wait returns, and the drive has taken or given a sector.
InterruptKept == pc = "int" /\ has_int /\ UNCHANGED has_int
Interrupt == pc = "int" /\ has_int /\ has_int' = FALSE
PortRead == drive' = [drive EXCEPT !.st = IF drive.n > 1 THEN "busy" ELSE "idle",
                                   !.lba = @ + 1, !.n = @ - 1]

ReadSector ==
  /\ Interrupt /\ job.use = "rdwt" /\ job.cmd = "READ"
  /\ PortRead
  /\ buf' = [buf EXCEPT ![req.cnt - job.left] = drive.data]
  /\ job' = [job EXCEPT !.left = @ - 1]
  /\ pc' = IF job.left = 1 THEN "reply" ELSE "int"
  /\ UNCHANGED <<req, geo, mask, walk, hd_info, waited, irq, disk>>

SectorWrittenShort ==
  /\ Interrupt /\ job.cmd = "WRITE"
  /\ job' = [job EXCEPT !.left = @ - 1]
  /\ IF job.left <= 2 THEN pc' = "reply" /\ UNCHANGED <<mask, waited>> ELSE Waitfor("DRQ")
  /\ UNCHANGED <<fsVars, walk, hd_info, devVars>>
SectorWritten ==
  /\ Interrupt /\ job.cmd = "WRITE"
  /\ job' = [job EXCEPT !.left = @ - 1]
  /\ IF job.left = 1 THEN pc' = "reply" /\ UNCHANGED <<mask, waited>> ELSE Waitfor("DRQ")
  /\ UNCHANGED <<fsVars, walk, hd_info, devVars>>

\* hd_identify; the partitions are read at the first open only.
Identified ==
  /\ Interrupt /\ job.use = "identify"
  /\ PortRead
  /\ hd_info' = [hd_info EXCEPT !.primary[0] = [base |-> 0, size |-> DiskSize],
                                !.open_cnt = @ + 1]
  /\ IF hd_info.open_cnt = 0
     THEN Command("READ", 0, 1, "table") /\ walk' = [j |-> 0, k |-> 0, s |-> 0]
     ELSE pc' = "reply" /\ UNCHANGED <<mask, job, waited, walk>>
  /\ UNCHANGED <<fsVars, irq, disk>>

\* partition goes on with the first table of the next extended partition.
NextExtended(table, j) ==
  LET more == {i \in j + 1 .. NR_PART_PER_DRIVE : table[i].sys_id = "EXT_PART"}
  IN IF more = {} THEN pc' = "reply" /\ UNCHANGED <<mask, job, waited, walk>>
     ELSE /\ walk' = [j |-> Min(more), k |-> 0, s |-> table[Min(more)].start_sect]
          /\ Command("READ", walk'.s, 1, "table")

\* P_PRIMARY: the partitions of the first table.
PrimaryRead ==
  /\ Interrupt /\ job.use = "table" /\ walk.j = 0
  /\ PortRead
  /\ hd_info' = [hd_info EXCEPT !.primary = [i \in DOMAIN @ |->
                   IF i = 0 \/ TableAt(0)[i].sys_id = "NO_PART" THEN @[i]
                   ELSE [base |-> TableAt(0)[i].start_sect, size |-> TableAt(0)[i].nr_sects]]]
  /\ NextExtended(TableAt(0), 0)
  /\ UNCHANGED <<fsVars, irq, disk>>

SubReadFromStart ==
  LET t == TableAt(job.lba)
      nr == (walk.j - 1) * NR_SUB_PER_PART + walk.k
      s == hd_info.primary[walk.j].base + t[2].start_sect
  IN /\ Interrupt /\ job.use = "table" /\ walk.j # 0
     /\ PortRead
     /\ hd_info' = [hd_info EXCEPT !.logical[nr] =
          [base |-> hd_info.primary[walk.j].base + t[1].start_sect, size |-> t[1].nr_sects]]
     /\ IF t[2].sys_id = "NO_PART" \/ walk.k + 1 = NR_SUB_PER_PART
        THEN NextExtended(TableAt(0), walk.j)
        ELSE /\ walk' = [walk EXCEPT !.k = @ + 1, !.s = s]
             /\ Command("READ", s, 1, "table")
     /\ UNCHANGED <<fsVars, irq, disk>>

\* P_EXTENDED: the next of the chain of tables of an extended partition.
SubRead ==
  LET t == TableAt(job.lba)
      nr == (walk.j - 1) * NR_SUB_PER_PART + walk.k
      s == hd_info.primary[walk.j].base + t[2].start_sect
  IN /\ Interrupt /\ job.use = "table" /\ walk.j # 0
     /\ PortRead
     /\ hd_info' = [hd_info EXCEPT !.logical[nr] = [base |-> walk.s + t[1].start_sect,
                                                    size |-> t[1].nr_sects]]
     /\ IF t[2].sys_id = "NO_PART" \/ walk.k + 1 = NR_SUB_PER_PART
        THEN NextExtended(TableAt(0), walk.j)
        ELSE /\ walk' = [walk EXCEPT !.k = @ + 1, !.s = s]
             /\ Command("READ", s, 1, "table")
     /\ UNCHANGED <<fsVars, irq, disk>>

Reply ==
  /\ pc = "reply"
  /\ pc' = "recv" /\ req' = NoReq
  /\ UNCHANGED <<buf, geo, mask, job, walk, hd_info, waited, has_int, devVars>>

----------------------------------------------------------------------------

\* init_hd.
Unknown == [base |-> 0, size |-> 0]
NoJob == [cmd |-> "NONE", lba |-> 0, left |-> 0, use |-> "none"]
NoWalk == [j |-> 0, k |-> 0, s |-> 0]
NoInfo == [open_cnt |-> 0, primary |-> [i \in 0 .. NR_PART_PER_DRIVE |-> Unknown],
           logical |-> [i \in 0 .. NR_SUB_PER_DRIVE - 1 |-> Unknown]]
HdInit ==
  /\ req = NoReq /\ geo = Unknown
  /\ pc = "recv" /\ mask = "BSY" /\ waited = 0
  /\ job = NoJob /\ walk = NoWalk /\ hd_info = NoInfo
  /\ irq = FALSE /\ has_int = FALSE /\ drive = IdleDrive

Hd == \/ HdOpen \/ HdRdwt \/ HdIoctl \/ UnknownMsg \/ GetTicks \/ StatusNot \/ HdCmdOut
      \/ PortWrite \/ ReadSector \/ SectorWritten \/ Identified \/ PrimaryRead \/ SubRead
      \/ Reply

HdNext == Hd \/ HdHandler \/ DriveReady \/ Tick

\* A message of FS, with what its buffer holds.
Submit(r, b) ==
  /\ req = NoReq
  /\ req' = r /\ buf' = b
  /\ UNCHANGED <<geo, hdVars, has_int, devVars>>

----------------------------------------------------------------------------
\* Properties

\* The interrupts the drive raises and those HD waits for match one to one: HD
\* waits for exactly one that is to come, is raised or is latched, and none is raised
\* or latched when HD does anything else; so that none wakes the main loop as an
\* unknown message, none is cleared by a poll of the status, and two are never
\* latched as one.
Coming == /\ drive.st = "busy"
          /\ drive.cmd = "WRITE" => drive.full
InterruptsPaired ==
  /\ pc # "spin"
  /\ ~(irq /\ has_int)
  /\ Coming => ~irq /\ ~has_int
  /\ (irq \/ has_int \/ Coming) <=> pc = "int"

\* Once the device is open, every partition is known where it was laid out.
PartitionsFound ==
  hd_info.open_cnt > 0 /\ pc = "recv" =>
    \A i \in 1 .. NR_PART_PER_DRIVE :
      /\ Layout[i].kind # "none" =>
           hd_info.primary[i] = [base |-> Layout[i].base, size |-> Layout[i].size]
      /\ i \in Extended =>
           \A k \in 1 .. Len(Layout[i].subs) :
             hd_info.logical[(i - 1) * NR_SUB_PER_PART + k - 1]
               = [base |-> Layout[i].subs[k].base, size |-> Layout[i].subs[k].size]

\* A request is answered, unless waitfor gave up.
RequestsAnswered == req # NoReq ~> req = NoReq \/ pc = "panic"

\* The devices there are, and where they start, by the layout.
IsDevice(dev) ==
  \/ dev = 0
  \/ dev \in 1 .. NR_PART_PER_DRIVE /\ Layout[dev].kind # "none"
  \/ \E i \in Extended : \E k \in DOMAIN Layout[i].subs :
       dev = MINOR_hd1a + (i - 1) * NR_SUB_PER_PART + (k - 1)
Where(dev) ==
  IF dev = 0 THEN 0 ELSE IF dev < MAX_PRIM THEN Layout[dev].base
  ELSE LET n == dev - MINOR_hd1a
       IN Layout[n \div NR_SUB_PER_PART + 1].subs[(n % NR_SUB_PER_PART) + 1].base
Wish == IF req = NoReq THEN NoReq
        ELSE [type |-> req.type, lba |-> Where(req.dev) + req.pos, cnt |-> req.cnt]
Begun == job.use = "rdwt" /\ (mask = "DRQ" \/ pc \in {"int", "reply"})
Done == IF req = NoReq \/ pc = "recv" \/ ~Begun THEN {}
        ELSE IF req.type = "DEV_READ" THEN 0 .. req.cnt - job.left - 1
        ELSE IF req.type = "DEV_WRITE" THEN 0 .. req.cnt - drive.n - 1
        ELSE {}
=============================================================================
