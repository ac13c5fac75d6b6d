------------------------------- MODULE TtyFs -------------------------------
(***************************************************************************)
(* A terminal: programs that read and write it through TASK FS, the driver   *)
(* TASK TTY (kernel/tty.c), the keyboard handler and the clock handler that   *)
(* tells TTY of a key.  A read is answered twice: TTY has FS suspend the      *)
(* reader (SUSPEND_PROC), and when a line is complete sends FS, unasked,      *)
(* RESUME_PROC.  FS and TTY thus send to each other, and proc.c panics on a   *)
(* cycle of SENDs.                                                          *)
(*                                                                         *)
(* One of the terminals is modelled, the one of the current console.         *)
(* Messages obey module Ipc: a SEND blocks until its receiver takes it, and   *)
(* senders wait in order.  An interrupt may come at any step.                *)
(***************************************************************************)
EXTENDS Naturals, Sequences

CONSTANTS
  User,          \* the programs that use the terminal
  Reader,        \* those of them that read it
  Lens,          \* the counts they pass to read() and write()
  KB_IN_BYTES,   \* the size of the keyboard buffer (32)
  TTY_IN_BYTES,  \* the size of the terminal's input buffer (256)
  MaxKeys,       \* bound: keys pressed in a behaviour, so that typing stops
  TTY            \* the task TTY as a sender

\* A terminal has one reader, its shell, which asks for 70 characters (main.c:267): the
\* note of a second reader would replace the first's, and a read of none never ends.
ASSUME TtyFsAssumption ==
  /\ Reader \subseteq User /\ \A u, v \in Reader : u = v
  /\ Lens \subseteq Nat \ {0}
  /\ MaxKeys \in Nat
  /\ KB_IN_BYTES \in Nat \ {0} /\ TTY_IN_BYTES \in Nat \ {0}
  /\ TTY \notin User

VARIABLES
  user,          \* what each program is doing
  fs,            \* where TASK FS is, and its fs_msg
  fs_queue,      \* the senders FS has not received from, in order
  tty,           \* where TASK TTY is
  ibuf,          \* the terminal's input buffer
  reading,       \* tty_procnr, tty_left_cnt and tty_trans_cnt
  kb_in,         \* the keyboard buffer
  key_pressed,   \* set by the keyboard handler, cleared by TTY
  has_int_msg,   \* clock_handler has informed TTY, which has not received it
  typed,         \* the keys pressed so far
  deadlock       \* msg_send has found a cycle and stopped the machine

ttyVars == <<tty, ibuf, reading>>
intVars == <<kb_in, key_pressed, has_int_msg, typed>>
vars == <<user, fs, fs_queue, ttyVars, intVars, deadlock>>

\* A printable key, Backspace, and Enter.
Keys == {"char", "bs", "nl"}
Types == {"READ", "WRITE"}
Requests(u) == [type : IF u \in Reader THEN Types ELSE {"WRITE"}, CNT : Lens]
Idle == [at |-> "running"]

----------------------------------------------------------------------------
(* The programs: read() and write() of lib/                                 *)

Request(u, r) ==
  /\ user[u] = Idle /\ r \in Requests(u)
  /\ user' = [user EXCEPT ![u] = [at |-> "sending", req |-> r]]
  /\ fs_queue' = Append(fs_queue, u)
  /\ UNCHANGED <<fs, ttyVars, intVars, deadlock>>

\* The RECEIVE half of send_recv(BOTH, TASK_FS, ..).
Receive(u) ==
  /\ user[u].at = "sent"
  /\ user' = [user EXCEPT ![u].at = "receiving"]
  /\ UNCHANGED <<fs, fs_queue, ttyVars, intVars, deadlock>>

----------------------------------------------------------------------------
(* The interrupts                                                           *)

\* keyboard_handler drops a key when the buffer is full.
Key(k) ==
  /\ typed < MaxKeys /\ typed' = typed + 1
  /\ kb_in' = IF Len(kb_in) < KB_IN_BYTES THEN Append(kb_in, k) ELSE kb_in
  /\ key_pressed' = TRUE
  /\ UNCHANGED <<user, fs, fs_queue, ttyVars, has_int_msg, deadlock>>

\* clock_handler: inform_int(TASK_TTY).
Tick ==
  /\ key_pressed
  /\ has_int_msg' = TRUE
  /\ UNCHANGED <<user, fs, fs_queue, ttyVars, kb_in, key_pressed, typed, deadlock>>

----------------------------------------------------------------------------
(* TASK FS                                                                  *)

FsAt(label) == fs.at = label

\* What TTY tells FS when the line is complete.
ResumeIgnored == [at |-> "receive"]
Resume == [at |-> "reply", src |-> reading.procnr, CNT |-> reading.trans]

\* task_fs receives from ANY: a request, or RESUME_PROC, which makes src the
\* suspended reader, and lets TTY go on.
FsTake ==
  /\ FsAt("receive") /\ fs_queue # <<>>
  /\ LET src == Head(fs_queue)
     IN IF src = TTY
        THEN /\ fs' = Resume
             /\ tty' = "sent"
             /\ UNCHANGED user
        ELSE /\ fs' = [at |-> "do_rdwt", src |-> src, req |-> user[src].req]
             /\ user' = [user EXCEPT ![src].at = "sent"]
             /\ UNCHANGED tty
  /\ fs_queue' = Tail(fs_queue)
  /\ UNCHANGED <<ibuf, reading, intVars, deadlock>>

\* do_rdwt sends DEV_READ or DEV_WRITE to the driver.
FsSend ==
  /\ FsAt("do_rdwt")
  /\ IF tty = "sending" THEN deadlock' = TRUE /\ UNCHANGED fs
     ELSE fs' = [fs EXCEPT !.at = "sending"] /\ UNCHANGED deadlock
  /\ UNCHANGED <<user, fs_queue, ttyVars, intVars>>

\* The driver's answer is in fs_msg: FS asserts its count, and does not reply
\* to a reader that is to be suspended.
FsAnsweredAlways ==
  /\ FsAt("answered")
  /\ fs' = [at |-> "reply", src |-> fs.src, CNT |-> fs.CNT]
  /\ UNCHANGED <<user, fs_queue, ttyVars, intVars, deadlock>>
FsAnswered ==
  /\ FsAt("answered")
  /\ fs' = IF fs.type = "SUSPEND_PROC" THEN [at |-> "receive"]
           ELSE [at |-> "reply", src |-> fs.src, CNT |-> fs.CNT]
  /\ UNCHANGED <<user, fs_queue, ttyVars, intVars, deadlock>>

FsReply ==
  /\ FsAt("reply") /\ user[fs.src].at = "receiving"
  /\ user' = [user EXCEPT ![fs.src] = Idle]
  /\ fs' = [at |-> "receive"]
  /\ UNCHANGED <<fs_queue, ttyVars, intVars, deadlock>>

----------------------------------------------------------------------------
(* TASK TTY                                                                 *)

\* RECEIVE from ANY takes a waiting interrupt before a process's message.  TTY
\* clears key_pressed and goes to the top of its loop.
TakeInt(next) ==
  /\ tty = "receive" /\ has_int_msg
  /\ has_int_msg' = FALSE /\ key_pressed' = FALSE
  /\ tty' = next
  /\ UNCHANGED <<user, fs, fs_queue, ibuf, reading, kb_in, typed, deadlock>>

TtyIntSkipsRead == TakeInt("receive")
TtyInt == TakeInt("keyboard_read")

\* The program fs serves, the driver's answer to it, and the count in it.
Answer(type) ==
  [at |-> "answered", src |-> fs.src, req |-> fs.req, type |-> type,
   CNT |-> fs.req.CNT]

\* tty_do_read notes who reads and how much, over what was noted before.
TtyDoRead ==
  /\ tty = "receive" /\ ~has_int_msg
  /\ FsAt("sending") /\ fs.req.type = "READ"
  /\ reading' = [procnr |-> fs.src, left |-> fs.req.CNT, trans |-> 0]
  /\ fs' = Answer("SUSPEND_PROC")
  /\ tty' = "keyboard_read"
  /\ UNCHANGED <<user, fs_queue, ibuf, intVars, deadlock>>

DoWrite(answer, note) ==
  /\ tty = "receive" /\ ~has_int_msg
  /\ FsAt("sending") /\ fs.req.type = "WRITE"
  /\ fs' = Answer(answer) /\ reading' = note
  /\ tty' = "keyboard_read"
  /\ UNCHANGED <<user, fs_queue, ibuf, intVars, deadlock>>

TtyDoWriteNotes == DoWrite("SYSCALL_RET", [reading EXCEPT !.procnr = fs.src])
TtyDoWrite == DoWrite("SYSCALL_RET", reading)

\* put_key drops a key that finds the buffer full.
PutKey(k) == ibuf' = IF Len(ibuf) < TTY_IN_BYTES THEN Append(ibuf, k) ELSE ibuf

\* tty_dev_read: keyboard_read, until the keyboard buffer is empty.
TtyDevRead ==
  /\ tty = "keyboard_read"
  /\ IF kb_in = <<>>
     THEN tty' = "dev_write" /\ UNCHANGED <<ibuf, kb_in>>
     ELSE /\ PutKey(Head(kb_in))
          /\ kb_in' = Tail(kb_in)
          /\ UNCHANGED tty
  /\ UNCHANGED <<user, fs, fs_queue, reading, key_pressed, has_int_msg, typed,
                 deadlock>>

\* The counts after a key.  Backspace takes back a character transferred.
Transferred(k) ==
  IF k = "char" THEN [reading EXCEPT !.trans = @ + 1, !.left = @ - 1]
  ELSE IF k = "bs" /\ reading.trans > 0
       THEN [reading EXCEPT !.trans = @ - 1, !.left = @ + 1]
       ELSE reading

\* tty_dev_write: a key for no reader is dropped; the one that ends the line
\* has RESUME_PROC sent to FS.
TtyDevWrite ==
  /\ tty = "dev_write"
  /\ IF ibuf = <<>> THEN tty' = "receive" /\ UNCHANGED <<ibuf, reading, fs_queue, deadlock>>
     ELSE /\ ibuf' = Tail(ibuf)
          /\ IF reading.left = 0 THEN UNCHANGED <<tty, reading, fs_queue, deadlock>>
             ELSE LET next == Transferred(Head(ibuf))
                  IN /\ reading' = next
                     /\ IF Head(ibuf) # "nl" /\ next.left # 0
                        THEN UNCHANGED <<tty, fs_queue, deadlock>>
                        ELSE IF FsAt("sending")
                        THEN deadlock' = TRUE /\ UNCHANGED <<tty, fs_queue>>
                        ELSE /\ tty' = "sending"
                             /\ fs_queue' = Append(fs_queue, TTY)
                             /\ UNCHANGED deadlock
  /\ UNCHANGED <<user, fs, intVars>>

\* The statement after the SEND of RESUME_PROC.
TtyLineDone ==
  /\ tty = "sent"
  /\ reading' = [reading EXCEPT !.left = 0]
  /\ tty' = "dev_write"
  /\ UNCHANGED <<user, fs, fs_queue, ibuf, intVars, deadlock>>

----------------------------------------------------------------------------
Init ==
  /\ user = [u \in User |-> Idle]
  /\ fs = [at |-> "receive"] /\ fs_queue = <<>>
  /\ tty = "keyboard_read" /\ ibuf = <<>>
  /\ reading = [procnr |-> TTY, left |-> 0, trans |-> 0]
  /\ kb_in = <<>> /\ key_pressed = FALSE /\ has_int_msg = FALSE
  /\ typed = 0 /\ deadlock = FALSE

Fs == FsTake \/ FsSend \/ FsAnswered \/ FsReply
Tty == TtyInt \/ TtyDoRead \/ TtyDoWrite \/ TtyDevRead \/ TtyDevWrite \/ TtyLineDone

Next ==
  /\ ~deadlock
  /\ \/ Fs \/ Tty \/ Tick
     \/ \E k \in Keys : Key(k)
     \/ \E u \in User : Receive(u) \/ \E r \in Requests(u) : Request(u, r)

\* The clock ticks, the tasks are scheduled before the programs, and a program
\* that has sent its request runs on to its RECEIVE.  Nobody has to type.
Fairness ==
  /\ WF_vars(~deadlock /\ Fs) /\ WF_vars(~deadlock /\ Tty)
  /\ WF_vars(~deadlock /\ Tick)
  /\ \A u \in User : WF_vars(~deadlock /\ Receive(u))

Spec == Init /\ [][Next]_vars /\ Fairness

----------------------------------------------------------------------------
(* Properties                                                               *)

\* The counts, buffers and program counters stay in their ranges: what is
\* transferred and what is left is what the last reader asked for.
TypeOK ==
  /\ \A u \in User : user[u].at \in {"running", "sending", "sent", "receiving"}
  /\ fs.at \in {"receive", "do_rdwt", "sending", "answered", "reply"}
  /\ tty \in {"receive", "keyboard_read", "dev_write", "sending", "sent"}
  /\ ibuf \in Seq(Keys) /\ Len(ibuf) <= TTY_IN_BYTES
  /\ kb_in \in Seq(Keys) /\ Len(kb_in) <= KB_IN_BYTES
  /\ reading.left \in Nat /\ reading.trans \in Nat
  /\ reading.left > 0 /\ tty # "sent" =>
                         /\ reading.procnr \in Reader
                         /\ reading.left + reading.trans
                              = user[reading.procnr].req.CNT

\* FS has nothing more to do for program u's request but what TTY will start.
Suspended(u) ==
  /\ user[u].at \in {"sent", "receiving"}
  /\ ~(fs.at # "receive" /\ fs.src = u)
  /\ ~(tty = "sending" /\ reading.procnr = u)

\* read.c:36 says that "the number of bytes read are returned": a reader that
\* FS has suspended is the one TTY collects a line for, and a line that is
\* still to be completed.
SuspendedIsServed ==
  /\ TypeOK
  /\ ~deadlock =>
       \A u \in User : Suspended(u) => reading.procnr = u /\ reading.left > 0

\* A reader is resumed once for its read, with the characters it asked for at
\* most: FS never replies to a program that is not in a call of FS, and the
\* assertion on the driver's count holds (read_write.c:286).
RepliesMatchCalls ==
  /\ FsAt("reply") => /\ user[fs.src].at \in {"sent", "receiving"}
                      /\ fs.CNT <= user[fs.src].req.CNT
  /\ FsAt("answered") => /\ fs.CNT = fs.req.CNT
                         /\ user[fs.src].at \in {"sent", "receiving"}

\* TTY clears key_pressed before it empties the buffer, so that no key stays in
\* it until another is pressed.
KeysAreRead == (kb_in # <<>>) ~> (kb_in = <<>> \/ deadlock)

\* An Enter that TTY takes from the keyboard while a program reads ends the read.
EnterEndsRead ==
  \A u \in Reader :
    (/\ tty = "dev_write" /\ ibuf # <<>> /\ Head(ibuf) = "nl"
     /\ reading.procnr = u /\ reading.left > 0)
      ~> (user[u] = Idle \/ deadlock)

=============================================================================
