----------------------------- MODULE Rendezvous -----------------------------
(***************************************************************************)
(* What sendrec promises, without queues, flags or pointers: a process       *)
(* offers one message at a time, a process that wants messages names the     *)
(* sources it accepts, and an offer meets a want as soon as both are there.  *)
(* An interrupt for a task that does not want it is latched, once.           *)
(***************************************************************************)
EXTENDS Naturals

CONSTANTS Proc, IntTask, MaxSends, ANY, INTERRUPT, NO_TASK

VARIABLES
  offer,   \* the message each process is blocked offering, or Null
  want,    \* the sources each process is blocked wanting, or {}
  latch,   \* an interrupt not yet seen by the task
  inbox,   \* the message each process received last
  alive    \* FALSE once the machine has stopped

absVars == <<offer, want, latch, inbox, alive>>

Null    == [source |-> NO_TASK]
HardInt == [source |-> INTERRUPT]

\* A process that is blocked neither offering nor wanting.
Free(p) == alive /\ offer[p] = Null /\ want[p] = {}

OffersTo(s, d) == offer[s] # Null /\ offer[s].to = d

\* What a RECEIVE can ask for: one source, or all of them.
Wants == {{x} : x \in Proc \cup {INTERRUPT}} \cup {Proc \cup {INTERRUPT}}

\* A message meets a receiver that wants it, or is offered.
Send(m) ==
  LET s == m.source
      d == m.to
  IN /\ Free(s)
     /\ s # d
     /\ \/ /\ s \in want[d]
           /\ inbox' = [inbox EXCEPT ![d] = m]
           /\ want' = [want EXCEPT ![d] = {}]
           /\ UNCHANGED offer
        \/ /\ s \notin want[d]
           /\ offer' = [offer EXCEPT ![s] = m]
           /\ UNCHANGED <<inbox, want>>
     /\ UNCHANGED <<latch, alive>>

\* A receiver takes an offer it accepts; a latched interrupt comes first.
Take(d, s, W) ==
  /\ Free(d)
  /\ OffersTo(s, d)
  /\ s \in W
  /\ ~(latch[d] /\ INTERRUPT \in W)
  /\ inbox' = [inbox EXCEPT ![d] = offer[s]]
  /\ offer' = [offer EXCEPT ![s] = Null]
  /\ UNCHANGED <<want, latch, alive>>

\* A receiver takes the latched interrupt.
TakeInt(d, W) ==
  /\ Free(d)
  /\ latch[d]
  /\ INTERRUPT \in W
  /\ inbox' = [inbox EXCEPT ![d] = HardInt]
  /\ latch' = [latch EXCEPT ![d] = FALSE]
  /\ UNCHANGED <<offer, want, alive>>

\* Only a receiver that nothing is there for waits.
Await(d, W) ==
  /\ Free(d)
  /\ ~latch[d]
  /\ \A s \in W : s \in Proc => ~OffersTo(s, d)
  /\ want' = [want EXCEPT ![d] = W]
  /\ UNCHANGED <<offer, latch, inbox, alive>>

Interrupt(t) ==
  /\ alive
  /\ \/ /\ INTERRUPT \in want[t]
        /\ inbox' = [inbox EXCEPT ![t] = HardInt]
        /\ want' = [want EXCEPT ![t] = {}]
        /\ UNCHANGED latch
     \/ /\ INTERRUPT \notin want[t]
        /\ latch' = [latch EXCEPT ![t] = TRUE]
        /\ UNCHANGED <<inbox, want>>
  /\ UNCHANGED <<offer, alive>>

\* The machine stops only when an offer of s would complete a cycle of offers
\* (every set of processes that holds some d and, with a process, the one it
\* offers to, holds s), or when a task with an interrupt latched would wait
\* for something else.
Stop ==
  /\ alive
  /\ alive' = FALSE
  /\ \/ \E s, d \in Proc :
          /\ Free(s) /\ s # d
          /\ \A R \in SUBSET Proc :
               d \in R /\ (\A p \in R : offer[p] # Null => offer[p].to \in R)
                 => s \in R
     \/ \E t \in Proc : Free(t) /\ latch[t]
  /\ UNCHANGED <<offer, want, latch, inbox>>

Init ==
  /\ offer = [p \in Proc |-> Null]
  /\ want = [p \in Proc |-> {}]
  /\ latch = [p \in Proc |-> FALSE]
  /\ inbox = [p \in Proc |-> Null]
  /\ alive = TRUE

Next ==
  \/ \E m \in [source : Proc, to : Proc, n : 1..MaxSends] : Send(m)
  \/ \E d \in Proc, W \in Wants :
       \/ \E s \in Proc : Take(d, s, W)
       \/ TakeInt(d, W)
       \/ Await(d, W)
  \/ \E t \in IntTask : Interrupt(t)
  \/ Stop

Spec == Init /\ [][Next]_absVars
=============================================================================
