----------------------------- MODULE IpcWindow -----------------------------
(***************************************************************************)
(* The same system calls as Ipc with the interrupts where kernel.asm lets    *)
(* them in.  sys_call executes `sti' before it calls sys_sendrec, so a clock *)
(* or disk interrupt, and inform_int with it, may run between any two        *)
(* statements of msg_send and msg_receive.  Nothing else runs in between:    *)
(* clock_handler returns at k_reenter before it could schedule.             *)
(*                                                                         *)
(* Only the paths that touch the fields inform_int touches are split; kcall *)
(* holds the call that is inside one of them.  owed and dropped are history  *)
(* variables: which interrupts the tasks have not been told of, and which of *)
(* those the two windows of msg_send lose.                                   *)
(***************************************************************************)
EXTENDS Ipc

VARIABLES
  kcall,     \* the call in progress in the kernel, or NoCall
  owed,      \* ghost: tasks informed of an interrupt and not handed HARD_INT since
  dropped    \* ghost: those of owed whose HARD_INT went where msg_send lets it go

ghosts == <<owed, dropped>>
wvars == <<vars, kcall, owed, dropped>>

NoCall == [stage |-> "none"]
Call(stage, who, other, both) ==
  [stage |-> stage, who |-> who, other |-> other, both |-> both]

InKernel(stage) == halted = "no" /\ kcall.stage = stage
Advance(stage) == kcall' = [kcall EXCEPT !.stage = stage]

\* t has its HARD_INT; t's HARD_INT is latched; t's HARD_INT is lost.
Tell(t) == owed' = owed \ {t} /\ dropped' = dropped \ {t}
Owe(t)  == owed' = owed \cup {t} /\ dropped' = dropped \ {t}
Drop(t) == owed' = owed \cup {t} /\ dropped' = dropped \cup {t}

\* A call whose path inform_int does not disturb is still one step.
Undisturbed ==
  /\ kcall = NoCall
  /\ UNCHANGED <<kcall, ghosts>>
  /\ \/ \E s, d \in Proc, both \in BOOLEAN :
          SendPanics(s, d, both) \/ SendQueues(s, d, both)
     \/ \E r \in Proc, src \in Sources : ReceiveFetches(r, src)

----------------------------------------------------------------------------
\* msg_receive, the path that takes a latched interrupt

\* has_int_msg is seen and HARD_INT copied to the caller.
IntCopy(r, src) ==
  /\ kcall = NoCall
  /\ BeginReceive(r, src)
  /\ IntPending(r, src)
  /\ CopyTo(r, HardInt)
  /\ kcall' = Call("given", r, src, FALSE)
  /\ UNCHANGED <<p_flags, p_sendto, p_recvfrom, p_msg, q_sending, has_int_msg,
                 replyFrom, sent, halted, ghosts>>

\* has_int_msg = 0, which takes an interrupt that came since the test with it:
\* the caller has not run yet and finds the device as that interrupt left it.
IntClear ==
  LET r == kcall.who
  IN /\ InKernel("given")
     /\ has_int_msg' = [has_int_msg EXCEPT ![r] = FALSE]
     /\ Tell(r)
     /\ Advance("taken")
     /\ UNCHANGED <<p_flags, p_sendto, p_recvfrom, p_msg, q_sending, inbox,
                    replyFrom, sent, taken, halted>>

\* The assertions that end the path, has_int_msg == 0 the last of them.
IntDone ==
  LET r == kcall.who
  IN /\ InKernel("taken")
     /\ UNCHANGED ghosts
     /\ IF /\ p_flags[r] = {}
           /\ p_msg[r] = Null
           /\ p_sendto[r] = NO_TASK
           /\ ~has_int_msg[r]
        THEN /\ EndReceive(r)
             /\ kcall' = NoCall
             /\ UNCHANGED <<p_flags, p_sendto, p_recvfrom, p_msg, q_sending,
                            has_int_msg, inbox, sent, taken, halted>>
        ELSE Halt("assert") /\ UNCHANGED kcall

----------------------------------------------------------------------------
\* msg_receive, the path that blocks

\* has_int_msg is tested and the queue searched.
BlockStart(r, src) ==
  /\ kcall = NoCall
  /\ BeginReceive(r, src)
  /\ ~IntPending(r, src)
  /\ Fetchable(r, src) = {}
  /\ kcall' = Call("chosen", r, src, FALSE)
  /\ UNCHANGED <<vars, ghosts>>

\* p_flags |= RECEIVING, p_msg = m
BlockFlag ==
  LET r == kcall.who
  IN /\ InKernel("chosen")
     /\ p_flags' = [p_flags EXCEPT ![r] = @ \cup {"RECEIVING"}]
     /\ p_msg' = [p_msg EXCEPT ![r] = Buffer]
     /\ Advance("flagged")
     /\ UNCHANGED <<p_sendto, p_recvfrom, q_sending, has_int_msg, inbox,
                    replyFrom, sent, taken, halted, ghosts>>

\* p_recvfrom = src
BlockFrom ==
  LET r == kcall.who
  IN /\ InKernel("flagged")
     /\ p_recvfrom' = [p_recvfrom EXCEPT ![r] = kcall.other]
     /\ Advance("armed")
     /\ UNCHANGED <<p_flags, p_sendto, p_msg, q_sending, has_int_msg, inbox,
                    replyFrom, sent, taken, halted, ghosts>>

\* The assertions of block() and those that follow it in msg_receive.
BlockedAssertsNoInt(r) ==
  /\ p_flags[r] = {"RECEIVING"}
  /\ p_msg[r] # Null
  /\ p_recvfrom[r] # NO_TASK
  /\ p_sendto[r] = NO_TASK
BlockedAsserts(r) ==
  /\ p_flags[r] = {"RECEIVING"}
  /\ p_msg[r] # Null
  /\ p_recvfrom[r] # NO_TASK
  /\ p_sendto[r] = NO_TASK
  /\ ~has_int_msg[r]

BlockDoneClears ==
  LET r == kcall.who
  IN /\ InKernel("armed")
     /\ UNCHANGED ghosts
     /\ IF BlockedAssertsNoInt(r)
        THEN /\ EndReceive(r)
             /\ has_int_msg' = [has_int_msg EXCEPT ![r] = FALSE]
             /\ kcall' = NoCall
             /\ UNCHANGED <<p_flags, p_sendto, p_recvfrom, p_msg, q_sending,
                            inbox, sent, taken, halted>>
        ELSE Halt("assert") /\ UNCHANGED kcall
BlockDone ==
  LET r == kcall.who
  IN /\ InKernel("armed")
     /\ UNCHANGED ghosts
     /\ IF BlockedAsserts(r)
        THEN /\ EndReceive(r)
             /\ kcall' = NoCall
             /\ UNCHANGED <<p_flags, p_sendto, p_recvfrom, p_msg, q_sending,
                            has_int_msg, inbox, sent, taken, halted>>
        ELSE Halt("assert") /\ UNCHANGED kcall

----------------------------------------------------------------------------
\* msg_send, the path that delivers

\* The destination is found waiting for the message.
DeliverStart(s, d, both) ==
  /\ kcall = NoCall
  /\ BeginSend(s, d, both)
  /\ ~Deadlock(s, d)
  /\ WaitsFor(d, s)
  /\ kcall' = Call("matched", s, d, both)
  /\ UNCHANGED <<vars, ghosts>>

\* assert(p_dest->p_msg)
DeliverAssert ==
  /\ InKernel("matched")
  /\ UNCHANGED ghosts
  /\ IF p_msg[kcall.other] # Null
     THEN Advance("checked") /\ UNCHANGED vars
     ELSE Halt("assert") /\ UNCHANGED kcall

\* The arguments of phys_copy: p_dest->p_msg is read, which is 0 when an
\* interrupt has woken the destination since the assertion.
DeliverAim ==
  /\ InKernel("checked")
  /\ Advance(IF p_msg[kcall.other] # Null THEN "aimed" ELSE "astray")
  /\ UNCHANGED <<vars, ghosts>>

\* phys_copy to where the pointer showed.  A destination that was woken after
\* the pointer was read loses the HARD_INT in its buffer to the message; one
\* that was woken before loses the message, which lands at address 0.
DeliverCopy ==
  LET s == kcall.who
      d == kcall.other
  IN /\ \/ InKernel("aimed") /\ CopyTo(d, NextMessage(s, d))
        \/ /\ InKernel("astray")
           /\ taken' = [taken EXCEPT ![s] = @ + 1]
           /\ UNCHANGED inbox
     /\ IF kcall.stage = "aimed" /\ ~Receiving(d)
        THEN Drop(d)
        ELSE UNCHANGED ghosts
     /\ Advance("copied")
     /\ UNCHANGED <<p_flags, p_sendto, p_recvfrom, p_msg, q_sending,
                    has_int_msg, replyFrom, sent, halted>>

\* p_dest->p_msg = 0
DeliverUnset ==
  /\ InKernel("copied")
  /\ p_msg' = [p_msg EXCEPT ![kcall.other] = Null]
  /\ Advance("unset")
  /\ UNCHANGED <<p_flags, p_sendto, p_recvfrom, q_sending, has_int_msg, inbox,
                 replyFrom, sent, taken, halted, ghosts>>

\* p_dest->p_flags &= ~RECEIVING
DeliverUnflag ==
  /\ InKernel("unset")
  /\ p_flags' = [p_flags EXCEPT ![kcall.other] = @ \ {"RECEIVING"}]
  /\ Advance("unflagged")
  /\ UNCHANGED <<p_sendto, p_recvfrom, p_msg, q_sending, has_int_msg, inbox,
                 replyFrom, sent, taken, halted, ghosts>>

\* p_dest->p_recvfrom = NO_TASK; the assertions on it and on the sender.
DeliverDone ==
  LET s == kcall.who
      d == kcall.other
  IN /\ InKernel("unflagged")
     /\ UNCHANGED ghosts
     /\ IF p_flags[d] = {} /\ p_msg[d] = Null /\ p_sendto[d] = NO_TASK /\ IdleFields(s)
        THEN /\ p_recvfrom' = [p_recvfrom EXCEPT ![d] = NO_TASK]
             /\ CountSend(s, d, kcall.both)
             /\ kcall' = NoCall
             /\ UNCHANGED <<p_flags, p_sendto, p_msg, q_sending, has_int_msg,
                            inbox, taken, halted>>
        ELSE Halt("assert") /\ UNCHANGED kcall

----------------------------------------------------------------------------
\* inform_int

\* A destination whose p_msg msg_send has just cleared still looks as if it
\* waited: HARD_INT is written to address 0 and the task woken without it.
InformZero(t) ==
  /\ halted = "no"
  /\ WaitsForInt(t)
  /\ p_msg[t] = Null
  /\ IF p_flags[t] = {"RECEIVING"} /\ p_sendto[t] = NO_TASK
     THEN /\ WakeReceiver(t)
          /\ has_int_msg' = [has_int_msg EXCEPT ![t] = FALSE]
          /\ Drop(t)
          /\ UNCHANGED <<p_sendto, q_sending, inbox, replyFrom, sent, taken, halted>>
     ELSE Halt("assert") /\ UNCHANGED ghosts

\* An interrupt between any two statements.
Interrupt(t) ==
  /\ UNCHANGED kcall
  /\ \/ InformZero(t)
     \/ /\ WaitsForInt(t) => p_msg[t] # Null
        /\ InformInt(t)
        /\ IF WaitsForInt(t) THEN Tell(t) ELSE Owe(t)

----------------------------------------------------------------------------
WInit == Init /\ kcall = NoCall /\ owed = {} /\ dropped = {}

WNext ==
  \/ Undisturbed
  \/ \E r \in Proc, src \in Sources : IntCopy(r, src) \/ BlockStart(r, src)
  \/ IntClear
  \/ IntDone
  \/ BlockFlag
  \/ BlockFrom
  \/ BlockDone
  \/ \E s, d \in Proc, both \in BOOLEAN : DeliverStart(s, d, both)
  \/ DeliverAssert
  \/ DeliverAim
  \/ DeliverCopy
  \/ DeliverUnset
  \/ DeliverUnflag
  \/ DeliverDone
  \/ \E t \in IntTask : Interrupt(t)

WSpec == WInit /\ [][WNext]_wvars

----------------------------------------------------------------------------
\* Properties

\* Whatever the moment of the interrupts, the table is whole whenever no call is
\* half done: fields, flags and queues agree, no blocked receiver overlooks a
\* sender (not even in between), and a task asleep in a RECEIVE that accepts
\* interrupts has none latched: the race in msg_receive ends in its last
\* assertion (kernel/proc.c:488), never in a silent lost wakeup.
WindowKeepsTheTable ==
  halted = "no" =>
    /\ NoMissedRendezvous
    /\ kcall = NoCall => FieldsMatchFlags /\ QueueMatchesSenders /\ NoLostInterrupt

\* No task sleeps through an interrupt of which it has not been told since it came,
\* the two moments excepted in which msg_send to that task loses its HARD_INT:
\* between the read of its p_msg and the copy, and between p_msg = 0 and the flag.
InterruptsAreTold ==
  halted = "no" /\ kcall = NoCall => \A t \in owed \ dropped : ~WaitsForInt(t)

\* What an interrupt between two statements of msg_send or msg_receive leaves true:
\* the table is whole, and no task sleeps through it but in those two moments.
WindowIsSound == WindowKeepsTheTable /\ InterruptsAreTold

\* What the code does not keep; README, section 5, says how it comes.

\* What inform_int is for ("Inform a proc that an interrupt has occured",
\* kernel/proc.c:498), the exception left out: the code does not keep it.
EveryInterruptIsTold ==
  halted = "no" /\ kcall = NoCall => \A t \in owed : ~WaitsForInt(t)

\* "dest has received the msg" (kernel/proc.c:279): when msg_send clears the flag,
\* the buffer of the destination holds the message of this call.
DestHasTheMessage ==
  InKernel("unset") => inbox[kcall.other] = NextMessage(kcall.who, kcall.other)

============================================================================
