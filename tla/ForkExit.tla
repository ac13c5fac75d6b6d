------------------------------ MODULE ForkExit ------------------------------
(***************************************************************************)
(* Birth and death of processes: do_fork, do_exit, cleanup and do_wait of    *)
(* TASK MM (mm/forkexit.c), the library calls fork, exit and wait their      *)
(* clients make, and the part TASK FS plays (fs_fork and fs_exit).           *)
(*                                                                         *)
(* MM serves one request at a time, and what it touches of a client is the   *)
(* client's entry of proc_table, the same p_flags the kernel schedules and   *)
(* unblocks by.  A client may be preempted between the SEND and the RECEIVE  *)
(* of send_recv(BOTH): MM then serves it while its p_flags is 0.  The        *)
(* messages obey module Ipc: SEND blocks until the receiver takes it and MM's *)
(* callers queue in order.  The files a program opens and closes itself are  *)
(* those of module FsDir.                                                  *)
(***************************************************************************)
EXTENDS Naturals, Sequences, FiniteSetsExt

CONSTANTS
  Slots,      \* the entries fork may fill, numbers as in proc_table
  NrForks,    \* shells INIT forks before it does nothing but wait
  Status,     \* the values exit is called with
  Desc,       \* the entries of f_desc_table INIT opens before it forks
  NO_TASK, TASK_TTY   \* the p_parent of INIT, and of an entry never used (0)

INIT == 5      \* the process INIT's entry of proc_table

ASSUME ForkExitAssumption ==
  /\ Slots \subseteq Nat /\ IsFiniteSet(Slots)
  /\ INIT \notin Slots
  /\ NrForks \in Nat /\ Status \subseteq Nat
  /\ {NO_TASK, TASK_TTY} \cap (Slots \cup {INIT}) = {}

Proc == Slots \cup {INIT}

VARIABLES
  p_flags,      \* flags set in each entry of proc_table; {} is runnable
  p_parent,     \* the parent of each entry
  exit_status,  \* what the process passed to exit
  filp,         \* the descriptors each entry has open
  fd_cnt,       \* the references FS counts to each descriptor
  mem,          \* whose memory the entry's LDT names: its own, a parent's, none
  call,         \* the library call a process is in
  q_sending,    \* the clients that wait for MM to take their request
  mm,           \* where TASK MM is, and its local variables
  forks_left,   \* what remains of INIT's loop of forks
  told          \* ghost: the entries whose process's end has been reported

clientVars == <<p_parent, exit_status, filp, fd_cnt, mem>>
vars == <<p_flags, p_parent, exit_status, filp, fd_cnt, mem, call, q_sending,
          mm, forks_left, told>>

Flags == {"SENDING", "RECEIVING", "WAITING", "HANGING", "FREE_SLOT"}
NoCall == [type |-> "none"]
Failed == [type |-> "assertion failed"]   \* the process spins for ever
ForkCall == [type |-> "FORK"]
WaitCall == [type |-> "WAIT"]
Calls == {NoCall, Failed, ForkCall, WaitCall}
           \cup [type : {"EXIT"}, STATUS : Status]

InUse(p)    == "FREE_SLOT" \notin p_flags[p]
Runnable(p) == p_flags[p] = {}
Children(p) == {c \in Proc : p_parent[c] = p}
WaitersIn(S) == {c \in S : "WAITING" \in p_flags[c]}
Zombies(S)  == {c \in S : "HANGING" \in p_flags[c]}

----------------------------------------------------------------------------
(* The clients.  INIT forks its shells and then waits for ever.             *)

MayCall(p, what) ==
  IF p = INIT
  THEN what = IF forks_left > 0 THEN ForkCall ELSE WaitCall
  ELSE what \in Calls \ {NoCall, Failed}

\* The SEND half of send_recv(BOTH, TASK_MM, ..).
Call(p, what) ==
  /\ Runnable(p) /\ call[p] = NoCall
  /\ MayCall(p, what)
  /\ call' = [call EXCEPT ![p] = what]
  /\ p_flags' = [p_flags EXCEPT ![p] = {"SENDING"}]
  /\ q_sending' = Append(q_sending, p)
  /\ forks_left' = IF p = INIT /\ what = ForkCall THEN forks_left - 1
                   ELSE forks_left
  /\ UNCHANGED <<clientVars, mm, told>>

\* The RECEIVE half.
Receive(p) ==
  /\ Runnable(p) /\ call[p] \notin {NoCall, Failed}
  /\ p_flags' = [p_flags EXCEPT ![p] = {"RECEIVING"}]
  /\ UNCHANGED <<clientVars, call, q_sending, mm, forks_left, told>>

----------------------------------------------------------------------------
(* TASK MM                                                                  *)

\* mm.at is the statement MM is at, mm.src its client; the other fields are
\* the locals of the routine it is in.
Receiving == [at |-> "receive"]
At(label) == mm.at = label

\* A blocked send_recv(SEND, to, msg) and where MM goes when it returns.
SendTo(to, msg, next) == [at |-> "send", to |-> to, msg |-> msg, next |-> next]

\* cleanup(): tell the parent, then give up the entry.
CleanupKeepsSlot(c, parent, next) ==
  SendTo(parent, [PID |-> c, STATUS |-> exit_status[c]], next)
Cleanup(c, parent, next) ==
  SendTo(parent, [PID |-> c, STATUS |-> exit_status[c]],
         [at |-> "free slot", child |-> c, next |-> next])

\* task_mm takes the first request and branches on its type.
Take ==
  /\ At("receive") /\ q_sending # <<>>
  /\ LET p == Head(q_sending)
     IN /\ p_flags' = [p_flags EXCEPT ![p] = @ \ {"SENDING"}]
        /\ mm' = [at |-> call[p].type, src |-> p]
  /\ q_sending' = Tail(q_sending)
  /\ UNCHANGED <<clientVars, call, forks_left, told>>

FreeSlots == {c \in Slots : p_flags[c] = {"FREE_SLOT"}}

\* do_fork copies the caller's entry to the first free one, and with it the
\* saved registers: the child, too, is in a call of fork.
CopyEntry(next) ==
  /\ At("FORK") /\ FreeSlots # {}
  /\ LET p == mm.src
         c == Min(FreeSlots)
     IN /\ p_flags' = [p_flags EXCEPT ![c] = p_flags[p]]
        /\ p_parent' = [p_parent EXCEPT ![c] = p]
        /\ exit_status' = [exit_status EXCEPT ![c] = exit_status[p]]
        /\ filp' = [filp EXCEPT ![c] = filp[p]]
        /\ mem' = [mem EXCEPT ![c] = "parent's"]
        /\ call' = [call EXCEPT ![c] = call[p]]
        /\ mm' = [at |-> next, src |-> p, child |-> c]
        /\ told' = told \ {c}
  /\ UNCHANGED <<fd_cnt, q_sending, forks_left>>

ForkCopyShares == CopyEntry("fork fs")
ForkCopy == CopyEntry("fork memory")

\* The table is full: do_fork returns -1, which task_mm sends to the caller.
ForkNoSlot ==
  /\ At("FORK") /\ FreeSlots = {}
  /\ mm' = SendTo(mm.src, [RETVAL |-> "-1"], Receiving)
  /\ UNCHANGED <<p_flags, clientVars, call, q_sending, forks_left, told>>

\* alloc_mem, the copy of the image, and the child's own descriptors.
ForkMemory ==
  /\ At("fork memory")
  /\ mem' = [mem EXCEPT ![mm.child] = "own"]
  /\ mm' = [mm EXCEPT !.at = "fork fs"]
  /\ UNCHANGED <<p_flags, p_parent, exit_status, filp, fd_cnt, call, q_sending,
                 forks_left, told>>

\* fs_fork counts the child's references.  MM then sends the child its birth
\* message, and task_mm the reply to the parent.
BirthOnly == SendTo(mm.child, [RETVAL |-> "0", PID |-> 0], Receiving)
Birth == SendTo(mm.child, [RETVAL |-> "0", PID |-> 0],
                SendTo(mm.src, [RETVAL |-> "0", PID |-> mm.child], Receiving))
ForkFs ==
  /\ At("fork fs") /\ mm' = Birth
  /\ fd_cnt' = [d \in Desc |-> IF d \in filp[mm.child] THEN fd_cnt[d] + 1
                               ELSE fd_cnt[d]]
  /\ UNCHANGED <<p_flags, p_parent, exit_status, filp, mem, call, q_sending,
                 forks_left, told>>

\* The message MM sends tells a parent that a child has ended.
Reports == At("send") /\ "STATUS" \in DOMAIN mm.msg

\* A blocked SEND completes when the receiver is in its RECEIVE: the message is
\* copied and the call it ends returns.  fork() asserts RETVAL = 0.
Deliver ==
  /\ At("send") /\ "RECEIVING" \in p_flags[mm.to]
  /\ p_flags' = [p_flags EXCEPT ![mm.to] = @ \ {"RECEIVING"}]
  /\ call' = [call EXCEPT ![mm.to] =
                IF @ = ForkCall /\ mm.msg.RETVAL # "0" THEN Failed ELSE NoCall]
  /\ mm' = mm.next
  /\ told' = IF Reports THEN told \cup {mm.msg.PID} ELSE told
  /\ UNCHANGED <<clientVars, q_sending, forks_left>>

\* do_exit: FS drops the caller's descriptors.
ExitFs ==
  /\ At("EXIT")
  /\ fd_cnt' = [d \in Desc |-> IF d \in filp[mm.src] THEN fd_cnt[d] - 1
                               ELSE fd_cnt[d]]
  /\ filp' = [filp EXCEPT ![mm.src] = {}]
  /\ mm' = [mm EXCEPT !.at = "exit memory"]
  /\ UNCHANGED <<p_flags, p_parent, exit_status, mem, call, q_sending,
                 forks_left, told>>

\* Its memory is freed; a waiting parent is told, else the process hangs.
EndAndTell(cleared) ==
  /\ At("exit memory")
  /\ LET p == mm.src
         parent == p_parent[p]
         orphans == [at |-> "orphans", src |-> p]
     IN /\ mem' = [mem EXCEPT ![p] = "none"]
        /\ exit_status' = [exit_status EXCEPT ![p] = call[p].STATUS]
        /\ IF "WAITING" \in p_flags[parent]
           THEN /\ p_flags' = [p_flags EXCEPT ![parent] = @ \ cleared]
                /\ mm' = SendTo(parent, [PID |-> p, STATUS |-> call[p].STATUS],
                                [at |-> "free slot", child |-> p,
                                 next |-> orphans])
           ELSE /\ p_flags' = [p_flags EXCEPT ![p] = @ \cup {"HANGING"}]
                /\ mm' = orphans
  /\ UNCHANGED <<p_parent, filp, fd_cnt, call, q_sending, forks_left, told>>

ExitMemoryKeepsWaiting == EndAndTell({})
ExitMemory == EndAndTell({"WAITING"})

\* The end of cleanup().
FreeSlot ==
  /\ At("free slot")
  /\ p_flags' = [p_flags EXCEPT ![mm.child] = {"FREE_SLOT"}]
  /\ mm' = mm.next
  /\ UNCHANGED <<clientVars, call, q_sending, forks_left, told>>

\* One round of the loop that makes INIT the parent of the exiting process's
\* children, and lets a waiting INIT know of one that hangs.
AdoptSilently ==
  /\ At("orphans") /\ Children(mm.src) # {}
  /\ p_parent' = [p_parent EXCEPT ![Min(Children(mm.src))] = INIT]
  /\ UNCHANGED <<p_flags, exit_status, filp, fd_cnt, mem, call, q_sending, mm,
                 forks_left, told>>

AdoptOne ==
  /\ At("orphans") /\ Children(mm.src) # {}
  /\ LET c == Min(Children(mm.src))
     IN /\ p_parent' = [p_parent EXCEPT ![c] = INIT]
        /\ IF "WAITING" \in p_flags[INIT] /\ "HANGING" \in p_flags[c]
           THEN /\ p_flags' = [p_flags EXCEPT ![INIT] = @ \ {"WAITING"}]
                /\ mm' = Cleanup(c, INIT, mm)
           ELSE UNCHANGED <<p_flags, mm>>
  /\ UNCHANGED <<exit_status, filp, fd_cnt, mem, call, q_sending, forks_left, told>>

ExitDone ==
  /\ At("orphans") /\ Children(mm.src) = {}
  /\ mm' = Receiving
  /\ UNCHANGED <<p_flags, clientVars, call, q_sending, forks_left, told>>

\* do_wait: a child that hangs is cleaned up, a caller with other children
\* waits, and one that has none is told so.
WaitZombie ==
  /\ At("WAIT")
  /\ LET zombies == Zombies(Children(mm.src))
     IN zombies # {} /\ mm' = Cleanup(Min(zombies), mm.src, Receiving)
  /\ UNCHANGED <<p_flags, clientVars, call, q_sending, forks_left, told>>

WaitBlocks ==
  /\ At("WAIT")
  /\ Children(mm.src) # {} /\ Zombies(Children(mm.src)) = {}
  /\ p_flags' = [p_flags EXCEPT ![mm.src] = @ \cup {"WAITING"}]
  /\ mm' = Receiving
  /\ UNCHANGED <<clientVars, call, q_sending, forks_left, told>>

WaitNoChild ==
  /\ At("WAIT") /\ Children(mm.src) = {}
  /\ mm' = SendTo(mm.src, [PID |-> NO_TASK], Receiving)
  /\ UNCHANGED <<p_flags, clientVars, call, q_sending, forks_left, told>>

----------------------------------------------------------------------------
Init ==
  /\ p_flags = [p \in Proc |-> IF p = INIT THEN {} ELSE {"FREE_SLOT"}]
  /\ p_parent = [p \in Proc |-> IF p = INIT THEN NO_TASK ELSE TASK_TTY]
  /\ exit_status = [p \in Proc |-> 0]
  /\ filp = [p \in Proc |-> IF p = INIT THEN Desc ELSE {}] /\ fd_cnt = [d \in Desc |-> 1]
  /\ mem = [p \in Proc |-> IF p = INIT THEN "own" ELSE "none"]
  /\ call = [p \in Proc |-> NoCall]
  /\ q_sending = <<>> /\ mm = Receiving /\ forks_left = NrForks
  /\ told = {}

MM == \/ Take \/ ForkCopy \/ ForkNoSlot \/ ForkMemory \/ ForkFs \/ Deliver
      \/ ExitFs \/ ExitMemory \/ FreeSlot \/ AdoptOne \/ ExitDone
      \/ WaitZombie \/ WaitBlocks \/ WaitNoChild

Next ==
  \/ MM
  \/ \E p \in Proc : \/ \E what \in Calls : Call(p, what)
                     \/ Receive(p)

\* MM is scheduled before users, and a runnable user in its turn (module
\* Sched); a program need not make any call, except that INIT's loop waits.
Fairness ==
  /\ WF_vars(MM)
  /\ \A p \in Proc : WF_vars(Receive(p))
  /\ WF_vars(\E what \in Calls : Call(INIT, what))

Spec == Init /\ [][Next]_vars /\ Fairness

----------------------------------------------------------------------------
(* Properties                                                               *)

Forking(c) == mm.at \in {"fork memory", "fork fs"} /\ mm.child = c

\* The entries and MM's requests are of the shapes the actions give them: an
\* entry is free, or a process with its own call, parent and memory.
TypeOK ==
  /\ p_flags \in [Proc -> SUBSET Flags]
  /\ p_parent \in [Proc -> Proc \cup {NO_TASK, TASK_TTY}]
  /\ exit_status \in [Proc -> Status \cup {0}]
  /\ filp \in [Proc -> SUBSET Desc] /\ fd_cnt \in [Desc -> Nat]
  /\ mem \in [Proc -> {"own", "parent's", "none"}]
  /\ call \in [Proc -> Calls] /\ told \subseteq Proc
  /\ forks_left \in 0..NrForks
  /\ \A p \in Proc : ("SENDING" \in p_flags[p])
                      <=> \E i \in 1..Len(q_sending) : q_sending[i] = p

\* do_wait and do_exit between them lose no death: no process waits while a
\* child of it hangs, whether the child hung first, died last, or was adopted.
NoUnheardZombie ==
  \A p \in Proc : "WAITING" \in p_flags[p] => Zombies(Children(p)) = {}

\* MM's SENDs (replies, births, cleanup) only ever block on a client that goes
\* on to its RECEIVE: MM, and with it every other client, is not held up.
MmCanReply ==
  At("send") => /\ call[mm.to] \notin {NoCall, Failed}
                /\ p_flags[mm.to] \subseteq {"RECEIVING"}

\* Only a process of its own memory, with its descriptors counted, executes the
\* code after its library call: the child leaves fork() at its birth.  fs_fork and
\* fs_exit keep fd_cnt the number of entries that hold the descriptor, but for a
\* child that do_fork has copied and FS not heard of.
UserCodeIsWhole ==
  /\ TypeOK
  /\ \A p \in Proc : InUse(p) /\ call[p] = NoCall => mem[p] = "own" /\ ~Forking(p)
  /\ \A d \in Desc :
       fd_cnt[d] = Cardinality({p \in Proc : d \in filp[p] /\ ~Forking(p)})

\* What wait() returns is the end of a child of the caller, with the status the
\* child exited with, and no end is reported twice.  -1 means there is no child.
WaitTellsTheTruth ==
  [][ Deliver /\ call[mm.to] = WaitCall =>
      LET c == mm.msg.PID
      IN IF c = NO_TASK THEN \A p \in Children(mm.to) : ~InUse(p)
         ELSE /\ p_parent[c] = mm.to /\ c \notin told
              /\ call[c] = [type |-> "EXIT", STATUS |-> mm.msg.STATUS] ]_vars

\* fork() returns, in the parent and the child, or fails its assertion.
ForkReturns == \A p \in Proc : (call[p] = ForkCall) ~> (call[p] # ForkCall)

\* INIT's loop of wait() frees the entry of every process it has adopted, unless
\* INIT itself was stopped by the assertion in fork().  do_wait serves the lowest
\* entry first: one that hangs may be passed over while lower ones keep ending.
Reapable(c) == "HANGING" \in p_flags[c] /\ p_parent[c] = INIT
OrphansAreReaped ==
  \A c \in Slots :
    Reapable(c) ~> (\/ ~InUse(c) \/ call[INIT] = Failed
                    \/ \E b \in Slots : b < c /\ Reapable(b))

\* What MM owes its clients comes to pass: no fork() waits for ever, and no orphan
\* stays a zombie.
CallsEnd == ForkReturns /\ OrphansAreReaped
=============================================================================
