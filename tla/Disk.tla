-------------------------------- MODULE Disk --------------------------------
(***************************************************************************)
(* What the disk driver promises TASK FS (rw_sector, fs/main.c): the sectors *)
(* asked for go between the disk and the buffer, each exactly once, before    *)
(* the answer, and nothing else on the disk or in the buffer changes; only a   *)
(* power failure ends a request before.  HdDriver implements it: FsBoot.      *)
(***************************************************************************)
EXTENDS Integers

CONSTANTS
  Sectors,     \* the sectors of the disk
  Slots,       \* the sectors a buffer holds, from 0
  NoReq        \* no request

VARIABLES
  disk,   \* the content of each sector
  buf,    \* the buffer of TASK FS
  req,    \* the request: type, first sector and number of sectors
  done,   \* the sectors of the request that are transferred
  boots   \* how often the power has failed

vars == <<disk, buf, req, done, boots>>

Kinds == {"DEV_OPEN", "DEV_IOCTL", "DEV_READ", "DEV_WRITE"}
Requests == [type : Kinds, lba : Nat, cnt : Nat]
Wanted == IF req.type \in {"DEV_READ", "DEV_WRITE"} THEN 0 .. req.cnt - 1 ELSE {}

Submit ==
  /\ req = NoReq
  /\ req' \in Requests
  /\ DOMAIN buf' = Slots
  /\ UNCHANGED <<disk, done, boots>>

Move(i) ==
  /\ req # NoReq
  /\ i \in Wanted \ done
  /\ IF req.type = "DEV_READ"
     THEN buf' = [buf EXCEPT ![i] = disk[req.lba + i]] /\ UNCHANGED disk
     ELSE disk' = [disk EXCEPT ![req.lba + i] = buf[i]] /\ UNCHANGED buf
  /\ done' = done \cup {i}
  /\ UNCHANGED <<req, boots>>

Answer ==
  /\ req # NoReq /\ done = Wanted
  /\ req' = NoReq /\ done' = {}
  /\ UNCHANGED <<disk, buf, boots>>

\* Power fails: the disk keeps what it has.
Crash == boots' = boots + 1 /\ req' = NoReq /\ done' = {} /\ UNCHANGED <<disk, buf>>

Init ==
  /\ DOMAIN disk = Sectors /\ DOMAIN buf = Slots
  /\ req = NoReq /\ done = {} /\ boots = 0

Next == Submit \/ (\E i \in Slots : Move(i)) \/ Answer \/ Crash

Spec == Init /\ [][Next]_vars
=============================================================================
