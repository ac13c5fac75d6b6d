-------------------------------- MODULE Ipc --------------------------------
(***************************************************************************)
(* The message-passing core of the microkernel, kernel/proc.c: sys_sendrec,  *)
(* msg_send, msg_receive, deadlock and inform_int, called by a most general  *)
(* set of processes.  A process that is runnable (p_flags = {}) may make any *)
(* call sys_sendrec accepts; send_recv(BOTH) of lib/misc.c is a SEND that     *)
(* obliges the caller to a later RECEIVE from the same process.              *)
(*                                                                         *)
(* Here a hardware interrupt is taken between two system calls.  Module      *)
(* IpcWindow lets it in between the steps of one call, as the `sti' of       *)
(* kernel.asm does.  A failed assertion or panic() stops the machine.        *)
(***************************************************************************)
EXTENDS Naturals, Sequences

CONSTANTS
  Proc,       \* the slots of proc_table that hold a process
  IntTask,    \* the tasks inform_int is called for: TTY (keyboard), HD (disk)
  MaxSends,   \* bound: SENDs a process makes in a behaviour
  ANY, INTERRUPT, NO_TASK   \* the special values of p_recvfrom and p_sendto

ASSUME IpcAssumption ==
  /\ IntTask \subseteq Proc
  /\ MaxSends \in Nat
  /\ {ANY, INTERRUPT, NO_TASK} \cap Proc = {}
  /\ ANY # INTERRUPT /\ ANY # NO_TASK /\ INTERRUPT # NO_TASK

VARIABLES
  p_flags,      \* flags set in each proc_table entry; {} is runnable
  p_sendto,     \* whom a SENDING process sends to
  p_recvfrom,   \* whom a RECEIVING process accepts
  p_msg,        \* the caller's MESSAGE, 0 when not blocked
  q_sending,    \* per destination, the blocked senders in order of arrival
  has_int_msg,  \* an interrupt is waiting for the task to ask for it
  inbox,        \* the MESSAGE last copied into each process's buffer
  replyFrom,    \* between the two halves of BOTH, the server called
  sent,         \* ghost: SENDs begun by each process
  taken,        \* ghost: messages of each process copied to a receiver
  halted        \* "no", or what stopped the machine

vars == <<p_flags, p_sendto, p_recvfrom, p_msg, q_sending, has_int_msg,
          inbox, replyFrom, sent, taken, halted>>

\* What a buffer can hold: a process's n-th message, HARD_INT, or nothing yet.
Messages == [source : Proc, to : Proc, n : 1..MaxSends]
HardInt  == [source |-> INTERRUPT]
Null     == [source |-> NO_TASK]   \* also the null MESSAGE pointer
Buffer   == [source |-> ANY]       \* an empty buffer a receiver waits with

Sources == Proc \cup {ANY, INTERRUPT}

\* The sources of which a RECEIVE from src accepts a message.
Accepted(src) == IF src = ANY THEN Proc \cup {INTERRUPT} ELSE {src}

----------------------------------------------------------------------------
\* Conditions the code tests

Sending(p)   == "SENDING" \in p_flags[p]
Receiving(p) == "RECEIVING" \in p_flags[p]
Running(p)   == halted = "no" /\ p_flags[p] = {}

\* msg_send's test that p_dest is waiting for this sender.
WaitsForAnyone(d, s) == Receiving(d)
WaitsFor(d, s) == Receiving(d) /\ p_recvfrom[d] \in {s, ANY}

\* inform_int's test that the task is waiting for an interrupt.
WaitsForIntOnly(t) == Receiving(t) /\ p_recvfrom[t] = INTERRUPT
WaitsForInt(t) == Receiving(t) /\ p_recvfrom[t] \in {INTERRUPT, ANY}

\* The processes deadlock() meets when it follows p_sendto from dest.
ClosedUnderSendto(R) ==
  \A p \in R : Sending(p) => p_sendto[p] \in R
Chain(dest) ==
  {p \in Proc : \A R \in SUBSET Proc :
                   dest \in R /\ ClosedUnderSendto(R) => p \in R}
DeadlockDirectOnly(src, dest) == Sending(dest) /\ p_sendto[dest] = src
Deadlock(src, dest) == src \in Chain(dest)

\* Position of s in d's queue, and that queue without its i-th entry.
Position(q, s) == CHOOSE i \in DOMAIN q : q[i] = s
UnlinkTail(q, i) == SubSeq(q, 1, Len(q) - 1)
Unlink(q, i) ==
  [j \in 1..(Len(q) - 1) |-> IF j < i THEN q[j] ELSE q[j + 1]]

\* A new sender goes to the end of the list.
EnqueueFront(q, s) == <<s>> \o q
Enqueue(q, s) == Append(q, s)

\* The fields block() and unblock() and the checks around them assert.
IdleFields(p) ==
  /\ p_flags[p] = {}
  /\ p_msg[p] = Null
  /\ p_recvfrom[p] = NO_TASK
  /\ p_sendto[p] = NO_TASK

SenderFields(s, d) ==
  /\ p_flags[s] = {"SENDING"}
  /\ p_msg[s] # Null
  /\ p_recvfrom[s] = NO_TASK
  /\ p_sendto[s] = d

----------------------------------------------------------------------------
\* What a call does

\* The message handed to d; a message of a process counts as taken.
CopyToOnce(d, m) ==
  IF inbox[d] = Null
  THEN /\ inbox' = [inbox EXCEPT ![d] = m]
       /\ taken' = IF m.source \in Proc
                   THEN [taken EXCEPT ![m.source] = @ + 1] ELSE taken
  ELSE UNCHANGED <<inbox, taken>>
CopyTo(d, m) ==
  /\ inbox' = [inbox EXCEPT ![d] = m]
  /\ taken' = IF m.source \in Proc
              THEN [taken EXCEPT ![m.source] = @ + 1] ELSE taken

\* A receiver that waited for this message is made runnable.
WakeReceiverKeepsSource(d) ==
  /\ p_msg' = [p_msg EXCEPT ![d] = Null]
  /\ p_flags' = [p_flags EXCEPT ![d] = @ \ {"RECEIVING"}]
  /\ UNCHANGED p_recvfrom
WakeReceiver(d) ==
  /\ p_msg' = [p_msg EXCEPT ![d] = Null]
  /\ p_flags' = [p_flags EXCEPT ![d] = @ \ {"RECEIVING"}]
  /\ p_recvfrom' = [p_recvfrom EXCEPT ![d] = NO_TASK]

\* panic() and a failed assert() stop the machine.
Halt(why) ==
  /\ halted' = why
  /\ UNCHANGED <<p_flags, p_sendto, p_recvfrom, p_msg, q_sending, has_int_msg,
                 inbox, replyFrom, sent, taken>>

NextMessage(s, d) == [source |-> s, to |-> d, n |-> sent[s] + 1]

\* The user side of a SEND: the call is counted and BOTH fixes the RECEIVE.
BeginSend(s, d, both) ==
  /\ Running(s)
  /\ s # d
  /\ replyFrom[s] = NO_TASK
  /\ sent[s] < MaxSends

CountSend(s, d, both) ==
  /\ sent' = [sent EXCEPT ![s] = @ + 1]
  /\ replyFrom' = IF both THEN [replyFrom EXCEPT ![s] = d] ELSE replyFrom

\* msg_send finds that waiting for dest would close a cycle of senders.
SendPanics(s, d, both) ==
  /\ BeginSend(s, d, both)
  /\ Deadlock(s, d)
  /\ Halt("deadlock")

\* msg_send: dest waits for this message.
SendDelivers(s, d, both) ==
  /\ BeginSend(s, d, both)
  /\ ~Deadlock(s, d)
  /\ WaitsFor(d, s)
  /\ IF /\ p_msg[d] # Null
        /\ p_flags[d] = {"RECEIVING"}
        /\ p_sendto[d] = NO_TASK
        /\ IdleFields(s)
     THEN /\ CopyTo(d, NextMessage(s, d))
          /\ WakeReceiver(d)
          /\ CountSend(s, d, both)
          /\ UNCHANGED <<p_sendto, q_sending, has_int_msg, halted>>
     ELSE Halt("assert")

\* msg_send: dest is not waiting; the caller is queued and blocks.
SendQueues(s, d, both) ==
  /\ BeginSend(s, d, both)
  /\ ~Deadlock(s, d)
  /\ ~WaitsFor(d, s)
  /\ IF p_recvfrom[s] = NO_TASK
     THEN /\ p_flags' = [p_flags EXCEPT ![s] = @ \cup {"SENDING"}]
          /\ p_sendto' = [p_sendto EXCEPT ![s] = d]
          /\ p_msg' = [p_msg EXCEPT ![s] = NextMessage(s, d)]
          /\ q_sending' = [q_sending EXCEPT ![d] = Enqueue(@, s)]
          /\ CountSend(s, d, both)
          /\ UNCHANGED <<p_recvfrom, has_int_msg, inbox, taken, halted>>
     ELSE Halt("assert")

\* The user side of a RECEIVE: the second half of BOTH is from its server.
BeginReceive(r, src) ==
  /\ Running(r)
  /\ r # src
  /\ replyFrom[r] \in {NO_TASK, src}

EndReceive(r) == replyFrom' = [replyFrom EXCEPT ![r] = NO_TASK]

IntPending(r, src) == has_int_msg[r] /\ src \in {ANY, INTERRUPT}

\* The senders from which a RECEIVE can fetch now.  RECEIVE from INTERRUPT
\* reads proc_table[INTERRUPT], memory in front of the table, and takes it
\* for a process that is not sending.
Fetchable(r, src) ==
  IF src = ANY
  THEN IF q_sending[r] # <<>> THEN {q_sending[r][1]} ELSE {}
  ELSE {s \in Proc : s = src /\ Sending(s) /\ p_sendto[s] = r}

\* The message fetched from the sender s that was chosen.
Fetched(r, s) == p_msg[s]

\* msg_receive: an interrupt is waiting and the caller accepts it.
ReceiveInt(r, src) ==
  /\ BeginReceive(r, src)
  /\ IntPending(r, src)
  /\ IF p_flags[r] = {} /\ p_msg[r] = Null /\ p_sendto[r] = NO_TASK
     THEN /\ CopyTo(r, HardInt)
          /\ has_int_msg' = [has_int_msg EXCEPT ![r] = FALSE]
          /\ EndReceive(r)
          /\ UNCHANGED <<p_flags, p_sendto, p_recvfrom, p_msg, q_sending,
                         sent, halted>>
     ELSE Halt("assert")

\* msg_receive: a sender is waiting in the caller's queue.
ReceiveFetches(r, src) ==
  /\ BeginReceive(r, src)
  /\ ~IntPending(r, src)
  /\ \E s \in Fetchable(r, src) :
       IF /\ IdleFields(r)
          /\ q_sending[r] # <<>>
          /\ SenderFields(s, r)
          /\ \E i \in DOMAIN q_sending[r] : q_sending[r][i] = s
       THEN /\ q_sending' = [q_sending EXCEPT
                               ![r] = Unlink(@, Position(@, s))]
            /\ CopyTo(r, Fetched(r, s))
            /\ p_msg' = [p_msg EXCEPT ![s] = Null]
            /\ p_sendto' = [p_sendto EXCEPT ![s] = NO_TASK]
            /\ p_flags' = [p_flags EXCEPT ![s] = @ \ {"SENDING"}]
            /\ EndReceive(r)
            /\ UNCHANGED <<p_recvfrom, has_int_msg, sent, halted>>
       ELSE Halt("assert")

\* msg_receive: nothing to fetch; the caller blocks.  The last assertion of
\* the function demands that no interrupt is waiting for the caller.
ReceiveBlocks(r, src) ==
  /\ BeginReceive(r, src)
  /\ ~IntPending(r, src)
  /\ Fetchable(r, src) = {}
  /\ IF has_int_msg[r]
     THEN Halt("int pending")
     ELSE IF p_sendto[r] # NO_TASK THEN Halt("assert")
     ELSE /\ p_flags' = [p_flags EXCEPT ![r] = @ \cup {"RECEIVING"}]
          /\ p_msg' = [p_msg EXCEPT ![r] = Buffer]
          /\ p_recvfrom' = [p_recvfrom EXCEPT ![r] = src]
          /\ EndReceive(r)
          /\ UNCHANGED <<p_sendto, q_sending, has_int_msg, inbox, sent,
                         taken, halted>>

\* inform_int, called by keyboard_handler's clock poll and by hd_handler.
InformInt(t) ==
  /\ halted = "no"
  /\ IF WaitsForInt(t)
     THEN IF p_flags[t] = {"RECEIVING"} /\ p_sendto[t] = NO_TASK
          THEN /\ CopyTo(t, HardInt)
               /\ WakeReceiver(t)
               /\ has_int_msg' = [has_int_msg EXCEPT ![t] = FALSE]
               /\ UNCHANGED <<p_sendto, q_sending, replyFrom, sent, halted>>
          ELSE Halt("assert")
     ELSE /\ has_int_msg' = [has_int_msg EXCEPT ![t] = TRUE]
          /\ UNCHANGED <<p_flags, p_sendto, p_recvfrom, p_msg, q_sending,
                         inbox, replyFrom, sent, taken, halted>>

----------------------------------------------------------------------------
\* kernel_main: every entry starts runnable and detached.
Init ==
  /\ p_flags = [p \in Proc |-> {}]
  /\ p_sendto = [p \in Proc |-> NO_TASK]
  /\ p_recvfrom = [p \in Proc |-> NO_TASK]
  /\ p_msg = [p \in Proc |-> Null]
  /\ q_sending = [p \in Proc |-> <<>>]
  /\ has_int_msg = [p \in Proc |-> FALSE]
  /\ inbox = [p \in Proc |-> Null]
  /\ replyFrom = [p \in Proc |-> NO_TASK]
  /\ sent = [p \in Proc |-> 0]
  /\ taken = [p \in Proc |-> 0]
  /\ halted = "no"

Next ==
  \/ \E s, d \in Proc, both \in BOOLEAN :
       \/ SendPanics(s, d, both)
       \/ SendDelivers(s, d, both)
       \/ SendQueues(s, d, both)
  \/ \E r \in Proc, src \in Sources :
       \/ ReceiveInt(r, src)
       \/ ReceiveFetches(r, src)
       \/ ReceiveBlocks(r, src)
  \/ \E t \in IntTask : InformInt(t)

Spec == Init /\ [][Next]_vars

----------------------------------------------------------------------------
\* Properties

\* Every variable has its type: the shape of the proc_table entries.
TypeOK ==
  /\ p_flags \in [Proc -> SUBSET {"SENDING", "RECEIVING"}]
  /\ p_sendto \in [Proc -> Proc \cup {NO_TASK}]
  /\ p_recvfrom \in [Proc -> Sources \cup {NO_TASK}]
  /\ p_msg \in [Proc -> Messages \cup {Null, Buffer}]
  /\ q_sending \in [Proc -> Seq(Proc)]
  /\ has_int_msg \in [Proc -> BOOLEAN]
  /\ inbox \in [Proc -> Messages \cup {Null, [source |-> INTERRUPT]}]
  /\ replyFrom \in [Proc -> Proc \cup {NO_TASK}]
  /\ sent \in [Proc -> 0..MaxSends]
  /\ taken \in [Proc -> 0..MaxSends]
  /\ halted \in {"no", "deadlock", "assert", "int pending"}

\* A runnable process has none of the fields of a blocked one; a sender and a
\* receiver have exactly theirs, so no flag outlives its buffer or its partner.
FieldsMatchFlags ==
  \A p \in Proc :
    \/ IdleFields(p)
    \/ /\ p_flags[p] = {"SENDING"}
       /\ p_sendto[p] \in Proc \ {p}
       /\ p_recvfrom[p] = NO_TASK
       /\ p_msg[p] \in Messages
    \/ /\ p_flags[p] = {"RECEIVING"}
       /\ p_recvfrom[p] \in Sources \ {p}
       /\ p_sendto[p] = NO_TASK
       /\ p_msg[p] = Buffer
       /\ replyFrom[p] = NO_TASK

\* The lists threaded through next_sending hold exactly the processes that are
\* SENDING to their owner, each of them once: no sender is lost from a queue,
\* left behind in one, or linked into two.
QueueMatchesSenders ==
  \A d \in Proc :
    /\ \A p \in Proc :
         (Sending(p) /\ p_sendto[p] = d)
           <=> \E i \in DOMAIN q_sending[d] : q_sending[d][i] = p
    /\ \A i, j \in DOMAIN q_sending[d] :
         q_sending[d][i] = q_sending[d][j] => i = j

\* The table of processes as a whole: what the flags of an entry, its fields and the
\* queue it is linked into say of it agrees.
WellFormed == TypeOK /\ FieldsMatchFlags /\ QueueMatchesSenders

\* No set of processes wait for each other in SEND, of any length of cycle;
\* this is also why the while (1) of deadlock() ends.
NoSendCycle ==
  \A S \in (SUBSET Proc) \ {{}} : \E p \in S : ~(Sending(p) /\ p_sendto[p] \in S)

\* A process blocked in RECEIVE never waits for a message that is there: no
\* process it accepts is blocked sending to it (no lost wakeup).
NoMissedRendezvous ==
  \A d, s \in Proc : Receiving(d) /\ Sending(s) /\ p_sendto[s] = d
                       => p_recvfrom[d] \notin {s, ANY}

\* A task never sleeps in a RECEIVE that accepts an interrupt while one is
\* latched in has_int_msg.
NoLostInterrupt ==
  \A t \in Proc : has_int_msg[t]
                    => ~(Receiving(t) /\ p_recvfrom[t] \in {ANY, INTERRUPT})

\* Nobody is left asleep in a RECEIVE by whom it waits for, process or interrupt.
NobodySleepsInVain == NoMissedRendezvous /\ NoLostInterrupt

\* The assertions of msg_send, msg_receive, inform_int, block and unblock hold
\* in every call any process can make (the one on has_int_msg excepted, which
\* stops the machine with "int pending").
AssertsHold == halted # "assert"

\* Of the messages a process began to send, all but the one it is blocked on
\* have been copied to a receiver, and each once.
ExactlyOnce ==
  \A s \in Proc :
    IF Sending(s)
    THEN p_msg[s] = [source |-> s, to |-> p_sendto[s], n |-> sent[s]]
         /\ taken[s] + 1 = sent[s]
    ELSE taken[s] = sent[s]

\* The RECEIVE half of BOTH returns with the called server's message: neither
\* an interrupt nor another sender gets in between.
ReplyStep ==
  \A p \in Proc :
    inbox'[p] # inbox[p]
      => /\ replyFrom[p] # NO_TASK => inbox'[p].source = replyFrom[p]
         /\ Receiving(p) /\ p_recvfrom[p] # ANY
               => inbox'[p].source = p_recvfrom[p]
ReplyIsFromServer == [][ReplyStep]_vars

\* Senders that stay in a queue keep their order, and whoever joins it does so
\* behind them.
KeepsOrder(q, new) ==
  \A k, l \in DOMAIN new :
    k < l => \A j \in DOMAIN q :
      new[l] = q[j] => \E i \in 1..(j - 1) : new[k] = q[i]
OrderStep == \A d \in Proc : KeepsOrder(q_sending[d], q_sending'[d])
ArrivalOrderKept == [][OrderStep]_vars

\* Messages reach whom they are meant for in the order in which they came.
MessagesInOrder == ReplyIsFromServer /\ ArrivalOrderKept

\* The abstract promise: rendezvous of one sender with one receiver.
absOffer == [p \in Proc |-> IF Sending(p) THEN p_msg[p] ELSE Null]
absWant  == [p \in Proc |-> IF Receiving(p) THEN Accepted(p_recvfrom[p]) ELSE {}]
absAlive == halted = "no"

A == INSTANCE Rendezvous WITH
       offer <- absOffer, want <- absWant, latch <- has_int_msg, alive <- absAlive

\* The queues, flags and pointers of proc.c implement rendezvous.
ImplementsRendezvous == A!Spec
============================================================================
