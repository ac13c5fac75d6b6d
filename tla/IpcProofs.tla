----------------------------- MODULE IpcProofs -----------------------------
(***************************************************************************)
(* Proofs about Ipc and IpcWindow for every set of processes, every set of   *)
(* interrupt tasks and every bound on the number of messages: first the      *)
(* system calls in one step, then the same calls with an interrupt between   *)
(* any two of their statements.                                             *)
(***************************************************************************)
EXTENDS IpcWindow, TLAPS

\* The inductive invariant: the safety invariants hold each other up.  A queue
\* entry is needed to know that a fetched sender has a message, the fields to
\* know that a woken process is runnable, and the queues to know that an empty
\* one means that nobody sends.
IInv ==
  /\ TypeOK
  /\ FieldsMatchFlags
  /\ QueueMatchesSenders
  /\ NoMissedRendezvous
  /\ NoLostInterrupt
  /\ ExactlyOnce
  /\ AssertsHold

----------------------------------------------------------------------------
\* Lemmas about the list operations

\* Appending to a list adds exactly the new sender, and keeps a list of
\* distinct senders distinct.
LEMMA EnqueueLemma ==
  ASSUME NEW S, NEW q \in Seq(S), NEW s \in S
  PROVE  /\ Enqueue(q, s) \in Seq(S)
         /\ \A x : (\E i \in DOMAIN Enqueue(q, s) : Enqueue(q, s)[i] = x)
                     <=> x = s \/ \E i \in DOMAIN q : q[i] = x
         /\ (/\ \A i, j \in DOMAIN q : q[i] = q[j] => i = j
             /\ \A i \in DOMAIN q : q[i] # s)
              => \A i, j \in DOMAIN Enqueue(q, s) :
                   Enqueue(q, s)[i] = Enqueue(q, s)[j] => i = j
<1> DEFINE e == Enqueue(q, s)
<1>1. e \in Seq(S) /\ Len(e) = Len(q) + 1 /\ DOMAIN e = 1..(Len(q) + 1)
  BY DEF Enqueue
<1>2. DOMAIN q = 1..Len(q) /\ Len(q) \in Nat
  OBVIOUS
<1>3. \A i \in 1..Len(q) : e[i] = q[i]
  BY DEF Enqueue
<1>4. e[Len(q) + 1] = s
  BY DEF Enqueue
<1> HIDE DEF e
<1>5. \A x : (\E i \in DOMAIN e : e[i] = x)
               <=> x = s \/ \E i \in DOMAIN q : q[i] = x
  BY <1>1, <1>2, <1>3, <1>4
<1>6. ASSUME \A i, j \in DOMAIN q : q[i] = q[j] => i = j,
             \A i \in DOMAIN q : q[i] # s
      PROVE  \A i, j \in DOMAIN e : e[i] = e[j] => i = j
  BY <1>1, <1>2, <1>3, <1>4, <1>6
<1>7. QED
  BY <1>1, <1>5, <1>6 DEF e

\* Unlinking removes one position: the other senders stay, each once.
LEMMA UnlinkLemma ==
  ASSUME NEW S, NEW q \in Seq(S), NEW n \in DOMAIN q,
         \A i, j \in DOMAIN q : q[i] = q[j] => i = j
  PROVE  /\ Unlink(q, n) \in Seq(S)
         /\ \A x : (\E i \in DOMAIN Unlink(q, n) : Unlink(q, n)[i] = x)
                     <=> x # q[n] /\ \E i \in DOMAIN q : q[i] = x
         /\ \A i, j \in DOMAIN Unlink(q, n) :
              Unlink(q, n)[i] = Unlink(q, n)[j] => i = j
<1> DEFINE u == Unlink(q, n)
<1>1. DOMAIN q = 1..Len(q) /\ Len(q) \in Nat /\ n \in 1..Len(q)
  OBVIOUS
<1>2. \A i \in 1..Len(q) : q[i] \in S
  OBVIOUS
<1>3. u = [j \in 1..(Len(q) - 1) |-> IF j < n THEN q[j] ELSE q[j + 1]]
  BY DEF Unlink
<1>4. u \in [1..(Len(q) - 1) -> S]
  BY <1>1, <1>2, <1>3
<1>5. u \in Seq(S) /\ DOMAIN u = 1..(Len(q) - 1)
  BY <1>1, <1>3, <1>4
<1>6. \A j \in 1..(Len(q) - 1) : u[j] = IF j < n THEN q[j] ELSE q[j + 1]
  BY <1>3
<1> HIDE DEF u
<1>7. ASSUME NEW i \in 1..Len(q), i # n
      PROVE  \E j \in 1..(Len(q) - 1) : u[j] = q[i]
  <2>1. CASE i < n
    BY <2>1, <1>1, <1>6
  <2>2. CASE i > n
    <3>1. i - 1 \in 1..(Len(q) - 1) /\ ~(i - 1 < n) /\ (i - 1) + 1 = i
      BY <2>2, <1>1
    <3>2. QED
      BY <3>1, <1>6
  <2>3. QED
    BY <2>1, <2>2, <1>1, <1>7
<1>8. ASSUME NEW j \in 1..(Len(q) - 1)
      PROVE  \E i \in 1..Len(q) : i # n /\ u[j] = q[i]
  <2>1. CASE j < n
    BY <2>1, <1>1, <1>6
  <2>2. CASE ~(j < n)
    <3>1. j + 1 \in 1..Len(q) /\ j + 1 # n
      BY <2>2, <1>1
    <3>2. QED
      BY <3>1, <2>2, <1>6
  <2>3. QED
    BY <2>1, <2>2
<1>9. ASSUME NEW x
      PROVE  (\E i \in DOMAIN u : u[i] = x)
               <=> x # q[n] /\ \E i \in DOMAIN q : q[i] = x
  <2>1. ASSUME NEW j \in DOMAIN u, u[j] = x
        PROVE  x # q[n] /\ \E i \in DOMAIN q : q[i] = x
    <3>1. PICK i \in 1..Len(q) : i # n /\ u[j] = q[i]
      BY <1>5, <1>8
    <3>2. q[i] # q[n]
      BY <1>1, <3>1
    <3>3. QED
      BY <1>1, <2>1, <3>1, <3>2
  <2>2. ASSUME NEW i \in DOMAIN q, q[i] = x, x # q[n]
        PROVE  \E j \in DOMAIN u : u[j] = x
    <3>1. i \in 1..Len(q) /\ i # n
      BY <1>1, <2>2
    <3>2. PICK j \in 1..(Len(q) - 1) : u[j] = q[i]
      BY <1>7, <3>1
    <3>3. QED
      BY <1>5, <2>2, <3>2
  <2>3. QED
    BY <2>1, <2>2
<1>10. ASSUME NEW i \in DOMAIN u, NEW j \in DOMAIN u, u[i] = u[j]
       PROVE  i = j
  <2> DEFINE at(k) == IF k < n THEN k ELSE k + 1
  <2>1. at(i) \in 1..Len(q) /\ at(j) \in 1..Len(q)
    BY <1>1, <1>5
  <2>2. q[at(i)] = q[at(j)]
    BY <1>5, <1>6, <1>10
  <2>3. at(i) = at(j)
    BY <1>1, <2>1, <2>2
  <2>4. QED
    BY <1>1, <1>5, <2>3
<1>11. QED
  BY <1>5, <1>9, <1>10 DEF u
----------------------------------------------------------------------------
\* The initial state and the steps that stop the machine

\* At boot no process is blocked, no queue has a sender and nothing has been
\* sent: kernel_main leaves every entry as IdleFields has it.
LEMMA InitIInv == Init => IInv
<1> SUFFICES ASSUME Init PROVE IInv
  OBVIOUS
<1> USE IpcAssumption
<1>1. \A p \in Proc : IdleFields(p)
  BY DEF Init, IdleFields
<1>2. \A p \in Proc : ~Sending(p) /\ ~Receiving(p)
  BY DEF Init, Sending, Receiving
<1>3. \A d \in Proc : DOMAIN q_sending[d] = {}
  BY DEF Init
<1>4. TypeOK
  BY DEF Init, TypeOK, Messages, Null, Buffer, Sources
<1>5. FieldsMatchFlags
  BY <1>1 DEF FieldsMatchFlags
<1>6. QueueMatchesSenders
  BY <1>2, <1>3 DEF QueueMatchesSenders
<1>7. NoMissedRendezvous /\ NoLostInterrupt
  BY <1>2 DEF NoMissedRendezvous, NoLostInterrupt
<1>8. ExactlyOnce
  BY <1>2 DEF Init, ExactlyOnce
<1>9. AssertsHold
  BY DEF Init, AssertsHold
<1>10. QED
  BY <1>4, <1>5, <1>6, <1>7, <1>8, <1>9 DEF IInv

\* A panic in msg_send, or an assertion that fails, stops the machine and
\* changes no entry: what held before still holds.
LEMMA HaltIInv ==
  ASSUME IInv, NEW why \in {"deadlock", "int pending"}, Halt(why)
  PROVE  IInv'
<1>1. TypeOK' /\ AssertsHold'
  BY DEF Halt, IInv, TypeOK, AssertsHold
<1>2. FieldsMatchFlags'
  BY DEF Halt, IInv, FieldsMatchFlags, IdleFields
<1>3. QueueMatchesSenders'
  <2>1. /\ \A p \in Proc : Sending(p)' <=> Sending(p)
        /\ q_sending' = q_sending /\ p_sendto' = p_sendto
    BY DEF Halt, Sending
  <2>2. ASSUME NEW d \in Proc
        PROVE  (QueueMatchesSenders!(d))'
    <3>1. QueueMatchesSenders!(d)
      BY DEF IInv, QueueMatchesSenders
    <3>2. QED
      BY <2>1, <3>1, Zenon
  <2>3. QED
    BY <2>2 DEF QueueMatchesSenders
<1>4. NoMissedRendezvous' /\ NoLostInterrupt'
  BY DEF Halt, IInv, NoMissedRendezvous, NoLostInterrupt, Sending, Receiving
<1>5. ExactlyOnce'
  BY DEF Halt, IInv, ExactlyOnce, Sending
<1>6. QED
  BY <1>1, <1>2, <1>3, <1>4, <1>5 DEF IInv

----------------------------------------------------------------------------
\* What the invariant says of a runnable, a sending and a receiving process

\* A process that runs has the fields block() and unblock() leave it with.
LEMMA RunnableFields ==
  ASSUME FieldsMatchFlags, NEW p \in Proc, p_flags[p] = {}
  PROVE  IdleFields(p) /\ ~Sending(p) /\ ~Receiving(p)
BY DEF FieldsMatchFlags, IdleFields, Sending, Receiving

\* A process blocked in msg_send waits for another process, and only sends.
LEMMA SendingFields ==
  ASSUME FieldsMatchFlags, NEW p \in Proc, Sending(p)
  PROVE  /\ p_flags[p] = {"SENDING"}
         /\ p_sendto[p] \in Proc \ {p}
         /\ p_recvfrom[p] = NO_TASK
         /\ p_msg[p] \in Messages
         /\ ~Receiving(p)
BY DEF FieldsMatchFlags, IdleFields, Sending, Receiving

\* A process blocked in msg_receive waits for an accepted source, and only
\* receives.
LEMMA ReceivingFields ==
  ASSUME FieldsMatchFlags, NEW p \in Proc, Receiving(p)
  PROVE  /\ p_flags[p] = {"RECEIVING"}
         /\ p_recvfrom[p] \in Sources \ {p}
         /\ p_sendto[p] = NO_TASK
         /\ p_msg[p] = Buffer
         /\ replyFrom[p] = NO_TASK
         /\ ~Sending(p)
BY DEF FieldsMatchFlags, IdleFields, Sending, Receiving

\* The message of a send that the bound still allows is one of Messages.
LEMMA NextMessageType ==
  ASSUME TypeOK, NEW s \in Proc, NEW d \in Proc, sent[s] < MaxSends
  PROVE  /\ NextMessage(s, d) \in Messages
         /\ sent[s] + 1 \in 0..MaxSends
<1>1. sent[s] \in 0..MaxSends /\ MaxSends \in Nat
  BY IpcAssumption DEF TypeOK
<1>2. sent[s] + 1 \in 1..MaxSends
  BY <1>1
<1>3. QED
  BY <1>2 DEF NextMessage, Messages

----------------------------------------------------------------------------
\* Each call preserves the invariant

\* msg_send, when the destination waits for the message, preserves IInv.
LEMMA SendDeliversIInv ==
  ASSUME IInv, NEW s \in Proc, NEW d \in Proc, NEW both \in BOOLEAN,
         SendDelivers(s, d, both)
  PROVE  IInv'
<1> USE IpcAssumption
<1> DEFINE m == NextMessage(s, d)
<1>1. /\ halted = "no" /\ p_flags[s] = {} /\ s # d
      /\ replyFrom[s] = NO_TASK /\ sent[s] < MaxSends
      /\ Receiving(d) /\ p_recvfrom[d] \in {s, ANY}
  BY DEF SendDelivers, BeginSend, Running, WaitsFor
<1>2. IdleFields(s) /\ ~Sending(s) /\ ~Receiving(s)
  BY <1>1, RunnableFields DEF IInv
<1>3. /\ p_flags[d] = {"RECEIVING"} /\ p_sendto[d] = NO_TASK
      /\ p_msg[d] = Buffer /\ replyFrom[d] = NO_TASK /\ ~Sending(d)
  BY <1>1, ReceivingFields DEF IInv
<1>4. /\ CopyTo(d, m)
      /\ WakeReceiver(d)
      /\ CountSend(s, d, both)
      /\ UNCHANGED <<p_sendto, q_sending, has_int_msg, halted>>
  BY <1>2, <1>3 DEF SendDelivers, Buffer, Null
<1>5. m.source = s /\ m \in Messages /\ sent[s] + 1 \in 0..MaxSends
  BY <1>1, NextMessageType DEF IInv, NextMessage
<1>6. /\ inbox' = [inbox EXCEPT ![d] = m]
      /\ taken' = [taken EXCEPT ![s] = @ + 1]
      /\ sent' = [sent EXCEPT ![s] = @ + 1]
      /\ p_msg' = [p_msg EXCEPT ![d] = Null]
      /\ p_flags' = [p_flags EXCEPT ![d] = {}]
      /\ p_recvfrom' = [p_recvfrom EXCEPT ![d] = NO_TASK]
  BY <1>3, <1>4, <1>5 DEF CopyTo, WakeReceiver, CountSend, IInv, TypeOK
<1> HIDE DEF m
<1>7. taken[s] = sent[s]
  BY <1>2 DEF IInv, ExactlyOnce
<1>8. TypeOK'
  <2>1. replyFrom' \in [Proc -> Proc \cup {NO_TASK}]
    BY <1>4 DEF CountSend, IInv, TypeOK
  <2>2. sent' \in [Proc -> 0..MaxSends] /\ taken' \in [Proc -> 0..MaxSends]
    BY <1>5, <1>6, <1>7 DEF IInv, TypeOK
  <2>3. QED
    BY <1>4, <1>5, <1>6, <2>1, <2>2 DEF IInv, TypeOK
<1>9. /\ \A p \in Proc : Sending(p)' <=> Sending(p)
      /\ \A p \in Proc : Receiving(p)' <=> p # d /\ Receiving(p)
  BY <1>3, <1>6 DEF IInv, TypeOK, Sending, Receiving
<1>10. FieldsMatchFlags'
  <2> SUFFICES ASSUME NEW p \in Proc
               PROVE  (FieldsMatchFlags!(p))'
    BY DEF FieldsMatchFlags
  <2>1. CASE p = d
    BY <2>1, <1>3, <1>4, <1>6 DEF IInv, TypeOK, IdleFields
  <2>2. CASE p = s
    BY <2>2, <1>1, <1>2, <1>4, <1>6 DEF IInv, TypeOK, IdleFields
  <2>3. CASE p # d /\ p # s
    <3>1. replyFrom'[p] = replyFrom[p]
      BY <2>3, <1>4 DEF CountSend, IInv, TypeOK
    <3>2. QED
      BY <2>3, <3>1, <1>4, <1>6 DEF IInv, TypeOK, IdleFields, FieldsMatchFlags
  <2>4. QED
    BY <2>1, <2>2, <2>3
<1>11. QueueMatchesSenders'
  BY <1>4, <1>9 DEF IInv, QueueMatchesSenders
<1>12. NoMissedRendezvous'
  BY <1>4, <1>6, <1>9 DEF IInv, TypeOK, NoMissedRendezvous
<1>13. NoLostInterrupt'
  BY <1>4, <1>6, <1>9 DEF IInv, TypeOK, NoLostInterrupt
<1>14. ExactlyOnce'
  BY <1>2, <1>3, <1>4, <1>6, <1>7, <1>9 DEF IInv, TypeOK, ExactlyOnce
<1>15. AssertsHold'
  BY <1>4 DEF IInv, AssertsHold
<1>16. QED
  BY <1>8, <1>10, <1>11, <1>12, <1>13, <1>14, <1>15 DEF IInv

\* msg_send, when the caller joins the destination's queue, preserves IInv;
\* that deadlock() found no cycle is what keeps NoSendCycle.
LEMMA SendQueuesIInv ==
  ASSUME IInv, NEW s \in Proc, NEW d \in Proc, NEW both \in BOOLEAN,
         SendQueues(s, d, both)
  PROVE  IInv'
<1> USE IpcAssumption
<1> DEFINE m == NextMessage(s, d)
<1>1. /\ halted = "no" /\ p_flags[s] = {} /\ s # d
      /\ sent[s] < MaxSends /\ ~WaitsFor(d, s)
  BY DEF SendQueues, BeginSend, Running
<1>2. IdleFields(s) /\ ~Sending(s) /\ ~Receiving(s)
  BY <1>1, RunnableFields DEF IInv
<1>3. /\ p_flags' = [p_flags EXCEPT ![s] = @ \cup {"SENDING"}]
      /\ p_sendto' = [p_sendto EXCEPT ![s] = d]
      /\ p_msg' = [p_msg EXCEPT ![s] = m]
      /\ q_sending' = [q_sending EXCEPT ![d] = Enqueue(@, s)]
      /\ CountSend(s, d, both)
      /\ UNCHANGED <<p_recvfrom, has_int_msg, inbox, taken, halted>>
  BY <1>2 DEF SendQueues, IdleFields
<1>4. p_flags' = [p_flags EXCEPT ![s] = {"SENDING"}]
  BY <1>1, <1>3 DEF IInv, TypeOK
<1>5. m \in Messages /\ sent[s] + 1 \in 0..MaxSends
      /\ m = [source |-> s, to |-> d, n |-> sent[s] + 1]
  BY <1>1, NextMessageType DEF IInv, NextMessage
<1>6. sent' = [sent EXCEPT ![s] = @ + 1]
  BY <1>3 DEF CountSend
<1>7. /\ \A p \in Proc : Sending(p)' <=> p = s \/ Sending(p)
      /\ \A p \in Proc : Receiving(p)' <=> Receiving(p)
  BY <1>2, <1>4 DEF IInv, TypeOK, Sending, Receiving
<1> HIDE DEF m
<1>8. TypeOK'
  <2>1. replyFrom' \in [Proc -> Proc \cup {NO_TASK}]
    BY <1>3 DEF CountSend, IInv, TypeOK
  <2>2. q_sending' \in [Proc -> Seq(Proc)]
    <3>1. q_sending[d] \in Seq(Proc)
      BY DEF IInv, TypeOK
    <3>2. Enqueue(q_sending[d], s) \in Seq(Proc)
      BY <3>1, EnqueueLemma
    <3>3. QED
      BY <3>2, <1>3 DEF IInv, TypeOK
  <2>3. sent' \in [Proc -> 0..MaxSends]
    BY <1>5, <1>6 DEF IInv, TypeOK
  <2>4. /\ p_flags' \in [Proc -> SUBSET {"SENDING", "RECEIVING"}]
        /\ p_sendto' \in [Proc -> Proc \cup {NO_TASK}]
        /\ p_msg' \in [Proc -> Messages \cup {Null, Buffer}]
    <3>1. p_flags' \in [Proc -> SUBSET {"SENDING", "RECEIVING"}]
      BY <1>4 DEF IInv, TypeOK
    <3>2. p_sendto' \in [Proc -> Proc \cup {NO_TASK}]
      BY <1>3 DEF IInv, TypeOK
    <3>3. m \in Messages /\ p_msg' = [p_msg EXCEPT ![s] = m]
      BY <1>3, <1>5
    <3>4. p_msg' \in [Proc -> Messages \cup {Null, Buffer}]
      BY <3>3 DEF IInv, TypeOK
    <3>5. QED
      BY <3>1, <3>2, <3>4
  <2>5. QED
    BY <1>3, <2>1, <2>2, <2>3, <2>4 DEF IInv, TypeOK
<1>9. FieldsMatchFlags'
  <2> SUFFICES ASSUME NEW p \in Proc
               PROVE  (FieldsMatchFlags!(p))'
    BY DEF FieldsMatchFlags
  <2>1. CASE p = s
    BY <2>1, <1>1, <1>2, <1>3, <1>4, <1>5 DEF IInv, TypeOK, IdleFields
  <2>2. CASE p # s
    <3>1. replyFrom'[p] = replyFrom[p]
      BY <2>2, <1>3 DEF CountSend, IInv, TypeOK
    <3>2. QED
      BY <2>2, <3>1, <1>3, <1>4 DEF IInv, TypeOK, IdleFields, FieldsMatchFlags
  <2>3. QED
    BY <2>1, <2>2
<1>10. QueueMatchesSenders'
  <2> SUFFICES ASSUME NEW e \in Proc
               PROVE  (QueueMatchesSenders!(e))'
    BY DEF QueueMatchesSenders
  <2>1. /\ \A p \in Proc :
             (Sending(p) /\ p_sendto[p] = e)
               <=> \E i \in DOMAIN q_sending[e] : q_sending[e][i] = p
        /\ \A i, j \in DOMAIN q_sending[e] :
             q_sending[e][i] = q_sending[e][j] => i = j
    BY DEF IInv, QueueMatchesSenders
  <2>2. \A p \in Proc : p # s => p_sendto'[p] = p_sendto[p]
    BY <1>3 DEF IInv, TypeOK
  <2>3. p_sendto'[s] = d
    BY <1>3 DEF IInv, TypeOK
  <2>4. q_sending[e] \in Seq(Proc)
    BY DEF IInv, TypeOK
  <2>5. CASE e # d
    <3>1. q_sending'[e] = q_sending[e]
      BY <2>5, <1>3 DEF IInv, TypeOK
    <3>2. QED
      BY <2>1, <2>2, <2>3, <2>5, <3>1, <1>2, <1>7
  <2>6. CASE e = d
    <3>1. q_sending'[e] = Enqueue(q_sending[e], s)
      BY <2>6, <1>3 DEF IInv, TypeOK
    <3>2. \A i \in DOMAIN q_sending[e] : q_sending[e][i] # s
      BY <2>1, <1>2
    <3>3. DEFINE q == q_sending[e]
    <3>4. \A x : (\E i \in DOMAIN Enqueue(q, s) : Enqueue(q, s)[i] = x)
                   <=> x = s \/ \E i \in DOMAIN q : q[i] = x
      BY <2>4, EnqueueLemma
    <3>5. \A i, j \in DOMAIN Enqueue(q, s) :
            Enqueue(q, s)[i] = Enqueue(q, s)[j] => i = j
      BY <2>1, <2>4, <3>2, EnqueueLemma
    <3>6. QED
      BY <2>1, <2>2, <2>3, <2>6, <3>1, <3>4, <3>5, <1>2, <1>7
  <2>7. QED
    BY <2>5, <2>6
<1>11. NoMissedRendezvous'
  BY <1>1, <1>3, <1>7 DEF IInv, TypeOK, NoMissedRendezvous, WaitsFor
<1>12. NoLostInterrupt'
  BY <1>3, <1>7 DEF IInv, NoLostInterrupt
<1>13. ExactlyOnce'
  <2> SUFFICES ASSUME NEW p \in Proc
               PROVE  (ExactlyOnce!(p))'
    BY DEF ExactlyOnce
  <2>1. CASE p = s
    <3>1. taken[s] = sent[s]
      BY <1>2 DEF IInv, ExactlyOnce
    <3>2. p_msg'[s] = m /\ p_sendto'[s] = d /\ sent'[s] = sent[s] + 1
          /\ taken'[s] = taken[s]
      BY <1>3, <1>6 DEF IInv, TypeOK
    <3>3. QED
      BY <2>1, <3>1, <3>2, <1>5, <1>7
  <2>2. CASE p # s
    <3>1. p_msg'[p] = p_msg[p] /\ p_sendto'[p] = p_sendto[p]
          /\ sent'[p] = sent[p] /\ taken'[p] = taken[p]
      BY <2>2, <1>3, <1>6 DEF IInv, TypeOK
    <3>2. QED
      BY <2>2, <3>1, <1>7 DEF IInv, ExactlyOnce
  <2>3. QED
    BY <2>1, <2>2
<1>14. AssertsHold'
  BY <1>3 DEF IInv, AssertsHold
<1>15. QED
  BY <1>8, <1>9, <1>10, <1>11, <1>12, <1>13, <1>14 DEF IInv

\* Taking a latched interrupt changes neither flags nor queues.
LEMMA ReceiveIntIInv ==
  ASSUME IInv, NEW r \in Proc, NEW src \in Sources, ReceiveInt(r, src)
  PROVE  IInv'
<1> USE IpcAssumption
<1>1. p_flags[r] = {} /\ IdleFields(r) /\ ~Sending(r) /\ ~Receiving(r)
  BY RunnableFields DEF ReceiveInt, BeginReceive, Running, IInv
<1>2. /\ CopyTo(r, HardInt)
      /\ has_int_msg' = [has_int_msg EXCEPT ![r] = FALSE]
      /\ replyFrom' = [replyFrom EXCEPT ![r] = NO_TASK]
      /\ UNCHANGED <<p_flags, p_sendto, p_recvfrom, p_msg, q_sending,
                     sent, halted>>
  BY <1>1 DEF ReceiveInt, EndReceive, IdleFields
<1>3. inbox' = [inbox EXCEPT ![r] = [source |-> INTERRUPT]] /\ taken' = taken
  BY <1>2 DEF CopyTo, HardInt
<1>4. \A p \in Proc : (Sending(p)' <=> Sending(p)) /\ (Receiving(p)' <=> Receiving(p))
  BY <1>2 DEF Sending, Receiving
<1>5. TypeOK'
  BY <1>2, <1>3 DEF IInv, TypeOK
<1>6. FieldsMatchFlags'
  BY <1>1, <1>2 DEF IInv, TypeOK, FieldsMatchFlags, IdleFields
<1>7. QueueMatchesSenders' /\ NoMissedRendezvous'
  BY <1>2, <1>4 DEF IInv, QueueMatchesSenders, NoMissedRendezvous
<1>8. NoLostInterrupt'
  BY <1>2, <1>4 DEF IInv, TypeOK, NoLostInterrupt
<1>9. ExactlyOnce' /\ AssertsHold'
  BY <1>2, <1>3, <1>4 DEF IInv, ExactlyOnce, AssertsHold
<1>10. QED
  BY <1>5, <1>6, <1>7, <1>8, <1>9 DEF IInv

\* Whoever msg_receive picks is a sender of the caller, and in its queue.
LEMMA FetchableIsQueued ==
  ASSUME IInv, NEW r \in Proc, NEW src \in Sources, NEW s \in Fetchable(r, src)
  PROVE  /\ s \in Proc /\ Sending(s) /\ p_sendto[s] = r
         /\ q_sending[r] # <<>>
         /\ \E i \in DOMAIN q_sending[r] : q_sending[r][i] = s
<1>1. q_sending[r] \in Seq(Proc)
  BY DEF IInv, TypeOK
<1>2. \A p \in Proc : (Sending(p) /\ p_sendto[p] = r)
                        <=> \E i \in DOMAIN q_sending[r] : q_sending[r][i] = p
  BY DEF IInv, QueueMatchesSenders
<1>3. CASE src = ANY
  <2>1. q_sending[r] # <<>> /\ s = q_sending[r][1]
    BY <1>3 DEF Fetchable
  <2>2. 1 \in DOMAIN q_sending[r] /\ s \in Proc
    BY <1>1, <2>1
  <2>3. QED
    BY <1>2, <2>1, <2>2
<1>4. CASE src # ANY
  <2>1. s \in Proc /\ Sending(s) /\ p_sendto[s] = r
    BY <1>4 DEF Fetchable
  <2>2. PICK i \in DOMAIN q_sending[r] : q_sending[r][i] = s
    BY <1>2, <2>1
  <2>3. QED
    BY <1>1, <2>1, <2>2
<1>5. QED
  BY <1>3, <1>4

\* msg_receive, when it takes a sender out of the queue, preserves IInv: the
\* sender is unblocked and the queue keeps the others in order.
LEMMA ReceiveFetchesIInv ==
  ASSUME IInv, NEW r \in Proc, NEW src \in Sources, ReceiveFetches(r, src)
  PROVE  IInv'
<1> USE IpcAssumption
<1>1. p_flags[r] = {} /\ IdleFields(r) /\ ~Sending(r) /\ ~Receiving(r)
  BY RunnableFields DEF ReceiveFetches, BeginReceive, Running, IInv
<1>2. PICK s \in Fetchable(r, src) :
        IF /\ IdleFields(r)
           /\ q_sending[r] # <<>>
           /\ SenderFields(s, r)
           /\ \E i \in DOMAIN q_sending[r] : q_sending[r][i] = s
        THEN /\ q_sending' = [q_sending EXCEPT
                                ![r] = Unlink(@, Position(@, s))]
             /\ CopyTo(r, Fetched(r, s))
             /\ p_msg' = [p_msg EXCEPT ![s] = Null]
             /\ p_sendto' = [p_sendto EXCEPT ![s] = NO_TASK]
             /\ p_flags' = [p_flags EXCEPT ![s] = @ \ {"SENDING"}]
             /\ EndReceive(r)
             /\ UNCHANGED <<p_recvfrom, has_int_msg, sent, halted>>
        ELSE Halt("assert")
  BY DEF ReceiveFetches
<1>3. /\ s \in Proc /\ Sending(s) /\ p_sendto[s] = r /\ s # r
      /\ q_sending[r] # <<>>
      /\ \E i \in DOMAIN q_sending[r] : q_sending[r][i] = s
  BY <1>1, FetchableIsQueued
<1>4. /\ p_flags[s] = {"SENDING"} /\ p_recvfrom[s] = NO_TASK
      /\ p_msg[s] \in Messages /\ ~Receiving(s)
  BY <1>3, SendingFields DEF IInv
<1>5. p_msg[s] # Null /\ p_msg[s].source = s
  <2>1. p_msg[s] = [source |-> s, to |-> p_sendto[s], n |-> sent[s]]
    BY <1>3 DEF IInv, ExactlyOnce
  <2>2. s # NO_TASK
    BY <1>3
  <2>3. QED
    BY <2>1, <2>2 DEF Null
<1>6. SenderFields(s, r)
  BY <1>3, <1>4, <1>5 DEF SenderFields
<1>7. /\ q_sending' = [q_sending EXCEPT ![r] = Unlink(@, Position(@, s))]
      /\ CopyTo(r, p_msg[s])
      /\ p_msg' = [p_msg EXCEPT ![s] = Null]
      /\ p_sendto' = [p_sendto EXCEPT ![s] = NO_TASK]
      /\ p_flags' = [p_flags EXCEPT ![s] = @ \ {"SENDING"}]
      /\ replyFrom' = [replyFrom EXCEPT ![r] = NO_TASK]
      /\ UNCHANGED <<p_recvfrom, has_int_msg, sent, halted>>
  BY <1>1, <1>2, <1>3, <1>6 DEF Fetched, EndReceive
<1>8. /\ p_flags' = [p_flags EXCEPT ![s] = {}]
      /\ inbox' = [inbox EXCEPT ![r] = p_msg[s]]
      /\ taken' = [taken EXCEPT ![s] = @ + 1]
  BY <1>3, <1>4, <1>5, <1>7 DEF CopyTo
<1>9. taken[s] + 1 = sent[s]
  BY <1>3 DEF IInv, ExactlyOnce
<1>10. /\ \A p \in Proc : Sending(p)' <=> p # s /\ Sending(p)
       /\ \A p \in Proc : Receiving(p)' <=> Receiving(p)
  BY <1>3, <1>4, <1>8 DEF IInv, TypeOK, Sending, Receiving
<1> DEFINE q == q_sending[r]
           n == Position(q, s)
<1>11. q \in Seq(Proc) /\ n \in DOMAIN q /\ q[n] = s
  BY <1>3 DEF IInv, TypeOK, Position
<1>12. \A i, j \in DOMAIN q : q[i] = q[j] => i = j
  BY DEF IInv, QueueMatchesSenders
<1>13. Unlink(q, n) \in Seq(Proc)
  BY <1>11, <1>12, UnlinkLemma
<1>14. \A x : (\E i \in DOMAIN Unlink(q, n) : Unlink(q, n)[i] = x)
                <=> x # s /\ \E i \in DOMAIN q : q[i] = x
  <2> HIDE DEF q
  <2>1. \A x : (\E i \in DOMAIN Unlink(q, n) : Unlink(q, n)[i] = x)
                 <=> x # q[n] /\ \E i \in DOMAIN q : q[i] = x
    BY <1>11, <1>12, UnlinkLemma
  <2>2. QED
    BY <2>1, <1>11, Zenon
<1>15. \A i, j \in DOMAIN Unlink(q, n) :
         Unlink(q, n)[i] = Unlink(q, n)[j] => i = j
  BY <1>11, <1>12, UnlinkLemma
<1>16. q_sending' = [q_sending EXCEPT ![r] = Unlink(q, n)]
  BY <1>7 DEF IInv, TypeOK
<1> HIDE DEF n
<1>17. TypeOK'
  <2>1. taken' \in [Proc -> 0..MaxSends]
    BY <1>3, <1>8, <1>9 DEF IInv, TypeOK
  <2>2. q_sending' \in [Proc -> Seq(Proc)]
    BY <1>13, <1>16 DEF IInv, TypeOK
  <2>3. inbox' \in [Proc -> Messages \cup {Null, [source |-> INTERRUPT]}]
    BY <1>4, <1>8 DEF IInv, TypeOK
  <2>4. QED
    BY <1>7, <1>8, <2>1, <2>2, <2>3 DEF IInv, TypeOK
<1>18. FieldsMatchFlags'
  <2> SUFFICES ASSUME NEW p \in Proc
               PROVE  (FieldsMatchFlags!(p))'
    BY DEF FieldsMatchFlags
  <2>1. CASE p = s
    BY <2>1, <1>3, <1>4, <1>7, <1>8 DEF IInv, TypeOK, IdleFields
  <2>2. CASE p # s
    BY <2>2, <1>1, <1>7, <1>8 DEF IInv, TypeOK, IdleFields, FieldsMatchFlags
  <2>3. QED
    BY <2>1, <2>2
<1>19. QueueMatchesSenders'
  <2> SUFFICES ASSUME NEW e \in Proc
               PROVE  (QueueMatchesSenders!(e))'
    BY DEF QueueMatchesSenders
  <2>1. /\ \A p \in Proc :
             (Sending(p) /\ p_sendto[p] = e)
               <=> \E i \in DOMAIN q_sending[e] : q_sending[e][i] = p
        /\ \A i, j \in DOMAIN q_sending[e] :
             q_sending[e][i] = q_sending[e][j] => i = j
    BY DEF IInv, QueueMatchesSenders
  <2>2. \A p \in Proc : p # s => p_sendto'[p] = p_sendto[p]
    BY <1>7 DEF IInv, TypeOK
  <2>3. CASE e # r
    <3>1. q_sending'[e] = q_sending[e]
      BY <2>3, <1>7 DEF IInv, TypeOK
    <3>2. \A i \in DOMAIN q_sending[e] : q_sending[e][i] # s
      BY <2>1, <2>3, <1>3
    <3>3. QED
      BY <2>1, <2>2, <3>1, <3>2, <1>10
  <2>4. CASE e = r
    <3>1. q_sending'[e] = Unlink(q, n)
      BY <2>4, <1>16 DEF IInv, TypeOK
    <3>2. QED
      BY <2>1, <2>2, <2>4, <3>1, <1>10, <1>14, <1>15
  <2>5. QED
    BY <2>3, <2>4
<1>20. NoMissedRendezvous'
  <2>1. \A p \in Proc : p # s => p_sendto'[p] = p_sendto[p]
    BY <1>7 DEF IInv, TypeOK
  <2>2. QED
    BY <2>1, <1>7, <1>10 DEF IInv, NoMissedRendezvous
<1>21. NoLostInterrupt'
  BY <1>7, <1>10 DEF IInv, NoLostInterrupt
<1>22. ExactlyOnce'
  <2> SUFFICES ASSUME NEW p \in Proc
               PROVE  (ExactlyOnce!(p))'
    BY DEF ExactlyOnce
  <2>1. CASE p = s
    <3>1. taken'[s] = taken[s] + 1 /\ sent'[s] = sent[s]
      BY <1>3, <1>7, <1>8 DEF IInv, TypeOK
    <3>2. QED
      BY <2>1, <3>1, <1>9, <1>10
  <2>2. CASE p # s
    <3>1. p_msg'[p] = p_msg[p] /\ p_sendto'[p] = p_sendto[p]
          /\ sent'[p] = sent[p] /\ taken'[p] = taken[p]
      BY <2>2, <1>7, <1>8 DEF IInv, TypeOK
    <3>2. QED
      BY <2>2, <3>1, <1>10 DEF IInv, ExactlyOnce
  <2>3. QED
    BY <2>1, <2>2
<1>23. AssertsHold'
  BY <1>7 DEF IInv, AssertsHold
<1>24. QED
  BY <1>17, <1>18, <1>19, <1>20, <1>21, <1>22, <1>23 DEF IInv

\* msg_receive, when nobody it accepts is sending, preserves IInv: no
\* rendezvous is missed by the caller that goes to sleep.
LEMMA ReceiveBlocksIInv ==
  ASSUME IInv, NEW r \in Proc, NEW src \in Sources, ReceiveBlocks(r, src)
  PROVE  IInv'
<1> USE IpcAssumption
<1>1. p_flags[r] = {} /\ IdleFields(r) /\ ~Sending(r) /\ ~Receiving(r) /\ r # src
  BY RunnableFields DEF ReceiveBlocks, BeginReceive, Running, IInv
<1>2. CASE has_int_msg[r]
  BY <1>2, HaltIInv DEF ReceiveBlocks
<1>3. CASE ~has_int_msg[r]
  <2>1. /\ p_flags' = [p_flags EXCEPT ![r] = @ \cup {"RECEIVING"}]
        /\ p_msg' = [p_msg EXCEPT ![r] = Buffer]
        /\ p_recvfrom' = [p_recvfrom EXCEPT ![r] = src]
        /\ replyFrom' = [replyFrom EXCEPT ![r] = NO_TASK]
        /\ UNCHANGED <<p_sendto, q_sending, has_int_msg, inbox, sent,
                       taken, halted>>
    BY <1>1, <1>3 DEF ReceiveBlocks, EndReceive, IdleFields
  <2>2. p_flags' = [p_flags EXCEPT ![r] = {"RECEIVING"}]
    BY <1>1, <2>1 DEF IInv, TypeOK
  <2>3. Fetchable(r, src) = {}
    BY DEF ReceiveBlocks
  <2>4. /\ \A p \in Proc : Sending(p)' <=> Sending(p)
        /\ \A p \in Proc : Receiving(p)' <=> p = r \/ Receiving(p)
    BY <1>1, <2>2 DEF IInv, TypeOK, Sending, Receiving
  <2>5. TypeOK'
    <3>1. p_msg' \in [Proc -> Messages \cup {Null, Buffer}]
      BY <2>1 DEF IInv, TypeOK
    <3>2. /\ p_flags' \in [Proc -> SUBSET {"SENDING", "RECEIVING"}]
          /\ p_recvfrom' \in [Proc -> Sources \cup {NO_TASK}]
      <4>1. p_flags' \in [Proc -> SUBSET {"SENDING", "RECEIVING"}]
        BY <2>2 DEF IInv, TypeOK
      <4>2. p_recvfrom' \in [Proc -> Sources \cup {NO_TASK}]
        BY <2>1 DEF IInv, TypeOK
      <4>3. QED
        BY <4>1, <4>2
    <3>3. QED
      BY <2>1, <3>1, <3>2 DEF IInv, TypeOK
  <2>6. FieldsMatchFlags'
    <3> SUFFICES ASSUME NEW p \in Proc
                 PROVE  (FieldsMatchFlags!(p))'
      BY DEF FieldsMatchFlags
    <3>1. CASE p = r
      BY <3>1, <1>1, <2>1, <2>2 DEF IInv, TypeOK, IdleFields
    <3>2. CASE p # r
      BY <3>2, <2>1, <2>2 DEF IInv, TypeOK, IdleFields, FieldsMatchFlags
    <3>3. QED
      BY <3>1, <3>2
  <2>7. QueueMatchesSenders'
    BY <2>1, <2>4 DEF IInv, QueueMatchesSenders
  <2>8. NoMissedRendezvous'
    <3> SUFFICES ASSUME NEW d \in Proc, NEW s \in Proc,
                        Receiving(d)', Sending(s)', p_sendto'[s] = d
                 PROVE  p_recvfrom'[d] \notin {s, ANY}
      BY DEF NoMissedRendezvous
    <3>1. CASE d # r
      BY <3>1, <2>1, <2>4 DEF IInv, TypeOK, NoMissedRendezvous
    <3>2. CASE d = r
      <4>1. Sending(s) /\ p_sendto[s] = r /\ p_recvfrom'[d] = src
        BY <3>2, <2>1, <2>4 DEF IInv, TypeOK
      <4>2. src # s
        BY <4>1, <2>3 DEF Fetchable
      <4>3. \E i \in DOMAIN q_sending[r] : q_sending[r][i] = s
        BY <4>1 DEF IInv, QueueMatchesSenders
      <4>4. q_sending[r] # <<>>
        BY <4>3
      <4>5. src # ANY
        BY <4>4, <2>3 DEF Fetchable
      <4>6. QED
        BY <4>1, <4>2, <4>5
    <3>3. QED
      BY <3>1, <3>2
  <2>9. NoLostInterrupt'
    BY <1>3, <2>1, <2>4 DEF IInv, TypeOK, NoLostInterrupt
  <2>10. ExactlyOnce'
    BY <1>1, <2>1, <2>4 DEF IInv, TypeOK, ExactlyOnce
  <2>11. AssertsHold'
    BY <2>1 DEF IInv, AssertsHold
  <2>12. QED
    BY <2>5, <2>6, <2>7, <2>8, <2>9, <2>10, <2>11 DEF IInv
<1>4. QED
  BY <1>2, <1>3

\* inform_int preserves IInv: it wakes a task that waits for it, or latches.
LEMMA InformIntIInv ==
  ASSUME IInv, NEW t \in Proc, InformInt(t)
  PROVE  IInv'
<1> USE IpcAssumption
<1>1. CASE WaitsForInt(t)
  <2>1. /\ p_flags[t] = {"RECEIVING"} /\ p_sendto[t] = NO_TASK
        /\ replyFrom[t] = NO_TASK /\ ~Sending(t) /\ Receiving(t)
    BY <1>1, ReceivingFields DEF IInv, WaitsForInt
  <2>2. /\ CopyTo(t, HardInt)
        /\ WakeReceiver(t)
        /\ has_int_msg' = [has_int_msg EXCEPT ![t] = FALSE]
        /\ UNCHANGED <<p_sendto, q_sending, replyFrom, sent, halted>>
    BY <1>1, <2>1 DEF InformInt
  <2>3. /\ inbox' = [inbox EXCEPT ![t] = [source |-> INTERRUPT]]
        /\ taken' = taken
        /\ p_msg' = [p_msg EXCEPT ![t] = Null]
        /\ p_flags' = [p_flags EXCEPT ![t] = {}]
        /\ p_recvfrom' = [p_recvfrom EXCEPT ![t] = NO_TASK]
    BY <2>1, <2>2 DEF CopyTo, WakeReceiver, HardInt, IInv, TypeOK
  <2>4. /\ \A p \in Proc : Sending(p)' <=> Sending(p)
        /\ \A p \in Proc : Receiving(p)' <=> p # t /\ Receiving(p)
    BY <2>1, <2>3 DEF IInv, TypeOK, Sending, Receiving
  <2>5. TypeOK'
    <3>1. p_msg' \in [Proc -> Messages \cup {Null, Buffer}]
      BY <2>3 DEF IInv, TypeOK
    <3>2. QED
      BY <2>2, <2>3, <3>1 DEF IInv, TypeOK
  <2>6. FieldsMatchFlags'
    <3> SUFFICES ASSUME NEW p \in Proc
                 PROVE  (FieldsMatchFlags!(p))'
      BY DEF FieldsMatchFlags
    <3>1. CASE p = t
      BY <3>1, <2>1, <2>2, <2>3 DEF IInv, TypeOK, IdleFields
    <3>2. CASE p # t
      BY <3>2, <2>2, <2>3 DEF IInv, TypeOK, IdleFields, FieldsMatchFlags
    <3>3. QED
      BY <3>1, <3>2
  <2>7. QueueMatchesSenders'
    BY <2>2, <2>4 DEF IInv, QueueMatchesSenders
  <2>8. NoMissedRendezvous'
    BY <2>2, <2>3, <2>4 DEF IInv, TypeOK, NoMissedRendezvous
  <2>9. NoLostInterrupt'
    BY <2>2, <2>3, <2>4 DEF IInv, TypeOK, NoLostInterrupt
  <2>10. ExactlyOnce' /\ AssertsHold'
    BY <2>1, <2>2, <2>3, <2>4 DEF IInv, TypeOK, ExactlyOnce, AssertsHold
  <2>11. QED
    BY <2>5, <2>6, <2>7, <2>8, <2>9, <2>10 DEF IInv
<1>2. CASE ~WaitsForInt(t)
  <2>1. /\ has_int_msg' = [has_int_msg EXCEPT ![t] = TRUE]
        /\ UNCHANGED <<p_flags, p_sendto, p_recvfrom, p_msg, q_sending,
                       inbox, replyFrom, sent, taken, halted>>
    BY <1>2 DEF InformInt
  <2>2. \A p \in Proc : (Sending(p)' <=> Sending(p))
                          /\ (Receiving(p)' <=> Receiving(p))
    BY <2>1 DEF Sending, Receiving
  <2>3. TypeOK'
    BY <2>1 DEF IInv, TypeOK
  <2>4. FieldsMatchFlags'
    BY <2>1 DEF IInv, FieldsMatchFlags, IdleFields
  <2>5. QueueMatchesSenders' /\ NoMissedRendezvous'
    BY <2>1, <2>2 DEF IInv, QueueMatchesSenders, NoMissedRendezvous
  <2>6. NoLostInterrupt'
    BY <1>2, <2>1, <2>2 DEF IInv, TypeOK, NoLostInterrupt, WaitsForInt
  <2>7. ExactlyOnce' /\ AssertsHold'
    BY <2>1, <2>2 DEF IInv, ExactlyOnce, AssertsHold
  <2>8. QED
    BY <2>3, <2>4, <2>5, <2>6, <2>7 DEF IInv
<1>3. QED
  BY <1>1, <1>2

\* IInv depends on the variables of the specification alone.
LEMMA StutterIInv ==
  ASSUME IInv, UNCHANGED vars
  PROVE  IInv'
<1>1. TypeOK' /\ AssertsHold'
  BY DEF vars, IInv, TypeOK, AssertsHold
<1>2. FieldsMatchFlags'
  BY DEF vars, IInv, FieldsMatchFlags, IdleFields
<1>3. \A p \in Proc : (Sending(p)' <=> Sending(p))
                        /\ (Receiving(p)' <=> Receiving(p))
  BY DEF vars, Sending, Receiving
<1>4. QueueMatchesSenders'
  <2> SUFFICES ASSUME NEW d \in Proc
               PROVE  (QueueMatchesSenders!(d))'
    BY DEF QueueMatchesSenders
  <2>1. QueueMatchesSenders!(d)
    BY DEF IInv, QueueMatchesSenders
  <2>2. q_sending' = q_sending /\ p_sendto' = p_sendto
    BY DEF vars
  <2>3. QED
    BY <2>1, <2>2, <1>3, Zenon
<1>5. NoMissedRendezvous'
  BY <1>3 DEF vars, IInv, NoMissedRendezvous
<1>6. NoLostInterrupt' /\ ExactlyOnce'
  BY <1>3 DEF vars, IInv, NoLostInterrupt, ExactlyOnce
<1>7. QED
  BY <1>1, <1>2, <1>4, <1>5, <1>6 DEF IInv

----------------------------------------------------------------------------
\* The invariant holds throughout

\* IInv is inductive: every system call and every interrupt preserves it.
LEMMA NextIInv == IInv /\ [Next]_vars => IInv'
<1> SUFFICES ASSUME IInv, [Next]_vars PROVE IInv'
  OBVIOUS
<1>1. ASSUME NEW s \in Proc, NEW d \in Proc, NEW both \in BOOLEAN,
             SendPanics(s, d, both)
      PROVE  IInv'
  BY <1>1, HaltIInv DEF SendPanics
<1>2. ASSUME NEW s \in Proc, NEW d \in Proc, NEW both \in BOOLEAN,
             SendDelivers(s, d, both)
      PROVE  IInv'
  BY <1>2, SendDeliversIInv
<1>3. ASSUME NEW s \in Proc, NEW d \in Proc, NEW both \in BOOLEAN,
             SendQueues(s, d, both)
      PROVE  IInv'
  BY <1>3, SendQueuesIInv
<1>4. ASSUME NEW r \in Proc, NEW src \in Sources, ReceiveInt(r, src)
      PROVE  IInv'
  BY <1>4, ReceiveIntIInv
<1>5. ASSUME NEW r \in Proc, NEW src \in Sources, ReceiveFetches(r, src)
      PROVE  IInv'
  BY <1>5, ReceiveFetchesIInv
<1>6. ASSUME NEW r \in Proc, NEW src \in Sources, ReceiveBlocks(r, src)
      PROVE  IInv'
  BY <1>6, ReceiveBlocksIInv
<1>7. ASSUME NEW t \in IntTask, InformInt(t)
      PROVE  IInv'
  BY <1>7, InformIntIInv, IpcAssumption
<1>8. CASE UNCHANGED vars
  BY <1>8, StutterIInv
<1>9. QED
  BY <1>1, <1>2, <1>3, <1>4, <1>5, <1>6, <1>7, <1>8 DEF Next

\* In every state of the kernel's message passing, whatever the processes
\* call: the variables are typed, the sending queues hold exactly the blocked
\* senders, no blocked receiver overlooks a sender or an interrupt, every
\* message begun is taken once or still offered, and the assertions hold.
THEOREM IpcInvariant == Spec => []IInv
<1>1. QED
  BY InitIInv, NextIInv, PTL DEF Spec

\* Type correctness, for every table of processes.
THEOREM IpcTypeOK == Spec => []TypeOK
<1>1. IInv => TypeOK
  BY DEF IInv
<1>2. QED
  BY <1>1, IpcInvariant, PTL

\* The linked lists of senders agree with p_flags and p_sendto.
THEOREM IpcQueues == Spec => []QueueMatchesSenders
<1>1. IInv => QueueMatchesSenders
  BY DEF IInv
<1>2. QED
  BY <1>1, IpcInvariant, PTL

\* The flags, fields and queues of proc_table agree.
THEOREM IpcWellFormed == Spec => []WellFormed
<1>1. IInv => WellFormed
  BY DEF IInv, WellFormed
<1>2. QED
  BY <1>1, IpcInvariant, PTL

\* No wakeup is lost between a sender and a receiver that accept each other.
THEOREM IpcNoMissedRendezvous == Spec => []NoMissedRendezvous
<1>1. IInv => NoMissedRendezvous
  BY DEF IInv
<1>2. QED
  BY <1>1, IpcInvariant, PTL

\* Every message is copied to a receiver once.
THEOREM IpcExactlyOnce == Spec => []ExactlyOnce
<1>1. IInv => ExactlyOnce
  BY DEF IInv
<1>2. QED
  BY <1>1, IpcInvariant, PTL

\* No assertion of proc.c but the one on has_int_msg (line 488) can fail; that one stops
\* the machine when a task with an interrupt latched calls RECEIVE from one process and
\* has to wait, which Ipc records as "int pending".
THEOREM IpcAssertsHold == Spec => []AssertsHold
<1>1. IInv => AssertsHold
  BY DEF IInv
<1>2. QED
  BY <1>1, IpcInvariant, PTL

----------------------------------------------------------------------------
\* Acyclicity of the senders: what deadlock() is for

\* Steps that add no sender add no cycle.
LEMMA FewerSenders ==
  ASSUME NoSendCycle,
         \A p \in Proc : Sending(p)' => Sending(p) /\ p_sendto'[p] = p_sendto[p]
  PROVE  NoSendCycle'
<1> SUFFICES ASSUME NEW S \in (SUBSET Proc) \ {{}}
             PROVE  \E p \in S : ~(Sending(p)' /\ p_sendto'[p] \in S)
  BY DEF NoSendCycle
<1>1. PICK p \in S : ~(Sending(p) /\ p_sendto[p] \in S)
  BY DEF NoSendCycle
<1>2. QED
  BY <1>1

\* A sender that deadlock() lets through closes no cycle: the chain that starts
\* at its destination does not come back to it, and inside that chain the old
\* senders form no cycle.
LEMMA SendQueuesAcyclic ==
  ASSUME IInv, NoSendCycle, NEW s \in Proc, NEW d \in Proc, NEW both \in BOOLEAN,
         SendQueues(s, d, both)
  PROVE  NoSendCycle'
<1>1. /\ p_flags[s] = {} /\ ~Deadlock(s, d) /\ IdleFields(s)
  BY RunnableFields DEF SendQueues, BeginSend, Running, IInv
<1>2. /\ p_flags' = [p_flags EXCEPT ![s] = @ \cup {"SENDING"}]
      /\ p_sendto' = [p_sendto EXCEPT ![s] = d]
  BY <1>1 DEF SendQueues, IdleFields
<1>3. \A p \in Proc \ {s} : /\ Sending(p)' <=> Sending(p)
                            /\ p_sendto'[p] = p_sendto[p]
  BY <1>2 DEF IInv, TypeOK, Sending
<1>4. p_sendto'[s] = d
  BY <1>2 DEF IInv, TypeOK
<1>5. PICK R \in SUBSET Proc : d \in R /\ ClosedUnderSendto(R) /\ s \notin R
  BY <1>1 DEF Deadlock, Chain
<1> SUFFICES ASSUME NEW S \in (SUBSET Proc) \ {{}},
                    \A p \in S : Sending(p)' /\ p_sendto'[p] \in S
             PROVE  FALSE
  BY DEF NoSendCycle
<1>6. CASE s \notin S
  <2>1. \A p \in S : Sending(p) /\ p_sendto[p] \in S
    BY <1>3, <1>6
  <2>2. QED
    BY <2>1 DEF NoSendCycle
<1>7. CASE s \in S
  <2>1. d \in R \cap S
    BY <1>4, <1>5, <1>7
  <2>2. \A p \in R \cap S : Sending(p) /\ p_sendto[p] \in S
    BY <1>3, <1>5
  <2>3. \A p \in R \cap S : p_sendto[p] \in R
    BY <2>2, <1>5 DEF ClosedUnderSendto
  <2>4. R \cap S \in (SUBSET Proc) \ {{}}
    BY <2>1
  <2>5. QED
    BY <2>2, <2>3, <2>4 DEF NoSendCycle
<1>8. QED
  BY <1>6, <1>7

\* No cycle of processes that send to each other ever forms, of any length:
\* deadlock() finds the sender that would close it, and always returns.
THEOREM IpcNoSendCycle == Spec => []NoSendCycle
<1>1. Init => NoSendCycle
  <2> SUFFICES ASSUME Init, NEW S \in (SUBSET Proc) \ {{}}
               PROVE  \E p \in S : ~(Sending(p) /\ p_sendto[p] \in S)
    BY DEF NoSendCycle
  <2>1. PICK p \in S : p \in Proc
    OBVIOUS
  <2>2. QED
    BY <2>1 DEF Init, Sending
<1>2. IInv /\ NoSendCycle /\ [Next]_vars => NoSendCycle'
  <2> SUFFICES ASSUME IInv, NoSendCycle, [Next]_vars PROVE NoSendCycle'
    OBVIOUS
  <2>1. ASSUME NEW s \in Proc, NEW d \in Proc, NEW both \in BOOLEAN,
               SendQueues(s, d, both)
        PROVE  NoSendCycle'
    BY <2>1, SendQueuesAcyclic
  <2>2. ASSUME UNCHANGED <<p_flags, p_sendto>>
        PROVE  NoSendCycle'
    BY <2>2, FewerSenders DEF Sending
  <2>3. ASSUME NEW s \in Proc, NEW d \in Proc, NEW both \in BOOLEAN,
               SendPanics(s, d, both)
        PROVE  NoSendCycle'
    BY <2>2, <2>3 DEF SendPanics, Halt
  <2>4. ASSUME NEW d \in Proc, WakeReceiver(d), p_sendto' = p_sendto
        PROVE  NoSendCycle'
    <3>1. \A p \in Proc : Sending(p)' => Sending(p)
      BY <2>4 DEF WakeReceiver, IInv, TypeOK, Sending
    <3>2. QED
      BY <2>4, <3>1, FewerSenders
  <2>5. ASSUME NEW s \in Proc, NEW d \in Proc, NEW both \in BOOLEAN,
               SendDelivers(s, d, both)
        PROVE  NoSendCycle'
    BY <2>2, <2>4, <2>5 DEF SendDelivers, Halt
  <2>6. ASSUME NEW r \in Proc, NEW src \in Sources, ReceiveInt(r, src)
        PROVE  NoSendCycle'
    BY <2>2, <2>6 DEF ReceiveInt, Halt
  <2>7. ASSUME NEW r \in Proc, NEW src \in Sources, ReceiveFetches(r, src)
        PROVE  NoSendCycle'
    <3>1. CASE Halt("assert")
      BY <3>1, <2>2 DEF Halt
    <3>2. CASE ~Halt("assert")
      <4>1. PICK s \in Fetchable(r, src) :
              /\ p_sendto' = [p_sendto EXCEPT ![s] = NO_TASK]
              /\ p_flags' = [p_flags EXCEPT ![s] = @ \ {"SENDING"}]
        BY <3>2, <2>7 DEF ReceiveFetches
      <4>2. \A p \in Proc : Sending(p)' => Sending(p) /\ p_sendto'[p] = p_sendto[p]
        BY <4>1, <2>7, FetchableIsQueued DEF IInv, TypeOK, Sending
      <4>3. QED
        BY <4>2, FewerSenders
    <3>3. QED
      BY <3>1, <3>2
  <2>8. ASSUME NEW r \in Proc, NEW src \in Sources, ReceiveBlocks(r, src)
        PROVE  NoSendCycle'
    <3>1. \/ Halt("assert") \/ Halt("int pending")
          \/ /\ p_flags' = [p_flags EXCEPT ![r] = @ \cup {"RECEIVING"}]
             /\ p_sendto' = p_sendto
      BY <2>8 DEF ReceiveBlocks
    <3>2. CASE Halt("assert") \/ Halt("int pending")
      BY <3>2, <2>2 DEF Halt
    <3>3. CASE /\ p_flags' = [p_flags EXCEPT ![r] = @ \cup {"RECEIVING"}]
               /\ p_sendto' = p_sendto
      <4>1. \A p \in Proc : Sending(p)' => Sending(p)
        BY <3>3 DEF IInv, TypeOK, Sending
      <4>2. QED
        BY <3>3, <4>1, FewerSenders
    <3>4. QED
      BY <3>1, <3>2, <3>3
  <2>9. ASSUME NEW t \in IntTask, InformInt(t)
        PROVE  NoSendCycle'
    BY <2>2, <2>4, <2>9, IpcAssumption DEF InformInt, Halt
  <2>10. QED
    BY <2>1, <2>2, <2>3, <2>5, <2>6, <2>7, <2>8, <2>9 DEF Next, vars
<1>3. QED
  BY <1>1, <1>2, IpcInvariant, PTL DEF Spec

\* A task is never asleep with an interrupt latched that would wake it.
THEOREM IpcNoLostInterrupt == Spec => []NoLostInterrupt
<1>1. IInv => NoLostInterrupt
  BY DEF IInv
<1>2. QED
  BY <1>1, IpcInvariant, PTL

\* No receiver sleeps while what it waits for is there.
THEOREM IpcNobodySleepsInVain == Spec => []NobodySleepsInVain
<1>1. NoMissedRendezvous /\ NoLostInterrupt => NobodySleepsInVain
  BY DEF NobodySleepsInVain
<1>2. QED
  BY <1>1, IpcNoMissedRendezvous, IpcNoLostInterrupt, PTL

----------------------------------------------------------------------------
\* Ipc implements Rendezvous

\* How the refinement mapping reads a runnable, a sending and a receiving
\* process.
LEMMA AbsFields ==
  ASSUME IInv, NEW p \in Proc
  PROVE  /\ absOffer[p] = IF Sending(p) THEN p_msg[p] ELSE Null
         /\ absWant[p] = IF Receiving(p) THEN Accepted(p_recvfrom[p]) ELSE {}
         /\ absOffer[p] # Null <=> Sending(p)
         /\ Sending(p) => absOffer[p].to = p_sendto[p]
         /\ halted = "no" /\ p_flags[p] = {} => A!Free(p)
<1>1. /\ absOffer[p] = IF Sending(p) THEN p_msg[p] ELSE Null
      /\ absWant[p] = IF Receiving(p) THEN Accepted(p_recvfrom[p]) ELSE {}
  BY DEF absOffer, absWant
<1>2. ASSUME Sending(p)
      PROVE  p_msg[p] # Null /\ p_msg[p].to = p_sendto[p]
  <2>1. p_msg[p] = [source |-> p, to |-> p_sendto[p], n |-> sent[p]]
    BY <1>2 DEF IInv, ExactlyOnce
  <2>2. p # NO_TASK
    BY IpcAssumption
  <2>3. QED
    BY <2>1, <2>2 DEF Null
<1>3. ASSUME halted = "no", p_flags[p] = {}
      PROVE  A!Free(p)
  <2>1. ~Sending(p) /\ ~Receiving(p)
    BY <1>3, RunnableFields DEF IInv
  <2>2. QED
    BY <1>1, <1>3, <2>1 DEF A!Free, A!Null, Null, absAlive
<1>4. QED
  BY <1>1, <1>2, <1>3

\* msg_send, delivering or queueing, is the SEND of the abstract rendezvous.
LEMMA SendRefines ==
  ASSUME IInv, IInv', NEW s \in Proc, NEW d \in Proc, NEW both \in BOOLEAN,
         SendDelivers(s, d, both) \/ SendQueues(s, d, both)
  PROVE  A!Next
<1> DEFINE m == NextMessage(s, d)
<1>1. /\ halted = "no" /\ p_flags[s] = {} /\ s # d /\ sent[s] < MaxSends
  BY DEF SendDelivers, SendQueues, BeginSend, Running
<1>2. m \in [source : Proc, to : Proc, n : 1..MaxSends]
      /\ m = [source |-> s, to |-> d, n |-> sent[s] + 1]
      /\ m.source = s /\ m.to = d
  BY <1>1, NextMessageType DEF IInv, Messages, NextMessage
<1>3. IdleFields(s) /\ ~Sending(s) /\ ~Receiving(s) /\ A!Free(s)
  BY <1>1, RunnableFields, AbsFields DEF IInv
<1> HIDE DEF m
<1>4. CASE SendDelivers(s, d, both)
  <2>1. Receiving(d) /\ p_recvfrom[d] \in {s, ANY}
    BY <1>4 DEF SendDelivers, WaitsFor
  <2>2. /\ p_flags[d] = {"RECEIVING"} /\ p_sendto[d] = NO_TASK
        /\ p_msg[d] = Buffer /\ ~Sending(d)
    BY <2>1, ReceivingFields DEF IInv
  <2>3. /\ CopyTo(d, m) /\ WakeReceiver(d)
        /\ UNCHANGED <<has_int_msg, halted>>
    BY <1>3, <1>4, <2>2, IpcAssumption DEF SendDelivers, Buffer, Null, m
  <2>4. \A p \in Proc : /\ Sending(p)' <=> Sending(p)
                        /\ Receiving(p)' <=> p # d /\ Receiving(p)
    BY <2>2, <2>3 DEF WakeReceiver, IInv, TypeOK, Sending, Receiving
  <2>5. inbox' = [inbox EXCEPT ![d] = m]
    BY <2>3 DEF CopyTo
  <2>6. absOffer' = absOffer
    BY <2>2, <2>3, <2>4 DEF WakeReceiver, IInv, TypeOK, absOffer
  <2>7. absWant' = [absWant EXCEPT ![d] = {}]
    BY <2>2, <2>3, <2>4 DEF WakeReceiver, IInv, TypeOK, absWant
  <2>8. s \in absWant[d]
    BY <2>1, AbsFields DEF Accepted
  <2>9. A!Send(m)
    BY <1>1, <1>2, <1>3, <2>3, <2>5, <2>6, <2>7, <2>8 DEF A!Send, absAlive
  <2>10. QED
    BY <1>2, <2>9 DEF A!Next
<1>5. CASE SendQueues(s, d, both)
  <2>1. /\ p_flags' = [p_flags EXCEPT ![s] = @ \cup {"SENDING"}]
        /\ p_msg' = [p_msg EXCEPT ![s] = m]
        /\ UNCHANGED <<p_recvfrom, has_int_msg, inbox, halted>>
    BY <1>3, <1>5 DEF SendQueues, IdleFields, m
  <2>2. \A p \in Proc : /\ Sending(p)' <=> p = s \/ Sending(p)
                        /\ Receiving(p)' <=> Receiving(p)
    BY <2>1 DEF IInv, TypeOK, Sending, Receiving
  <2>3. absOffer' = [absOffer EXCEPT ![s] = m]
    BY <2>1, <2>2 DEF IInv, TypeOK, absOffer
  <2>4. absWant' = absWant
    BY <2>1, <2>2 DEF IInv, TypeOK, absWant
  <2>5. s \notin absWant[d]
    <3>1. ~(Receiving(d) /\ p_recvfrom[d] \in {s, ANY})
      BY <1>5 DEF SendQueues, WaitsFor
    <3>2. QED
      BY <3>1, AbsFields DEF Accepted
  <2>6. A!Send(m)
    BY <1>1, <1>2, <1>3, <2>1, <2>3, <2>4, <2>5 DEF A!Send, absAlive
  <2>7. QED
    BY <1>2, <2>6 DEF A!Next
<1>6. QED
  BY <1>4, <1>5

\* The machine stops for the two reasons the abstraction allows.
LEMMA PanicRefines ==
  ASSUME IInv, NEW s \in Proc, NEW d \in Proc, NEW both \in BOOLEAN,
         SendPanics(s, d, both)
  PROVE  A!Next
<1>1. /\ halted = "no" /\ p_flags[s] = {} /\ s # d
      /\ Deadlock(s, d) /\ Halt("deadlock")
  BY DEF SendPanics, BeginSend, Running
<1>2. A!Free(s)
  BY <1>1, AbsFields
<1>3. UNCHANGED <<absOffer, absWant, has_int_msg, inbox>>
  BY <1>1 DEF Halt, absOffer, absWant, Sending, Receiving
<1>4. absAlive /\ ~absAlive'
  BY <1>1 DEF Halt, absAlive
<1>5. ASSUME NEW R \in SUBSET Proc, d \in R,
             \A p \in R : absOffer[p] # A!Null => absOffer[p].to \in R
      PROVE  s \in R
  <2>1. \A p \in R : Sending(p) => p_sendto[p] \in R
    BY <1>5, AbsFields DEF A!Null, Null
  <2>2. QED
    BY <1>1, <1>5, <2>1 DEF Deadlock, Chain, ClosedUnderSendto
<1>6. A!Stop
  BY <1>1, <1>2, <1>3, <1>4, <1>5 DEF A!Stop
<1>7. QED
  BY <1>6 DEF A!Next

\* msg_receive, when it finds has_int_msg set, takes the abstract interrupt.
LEMMA ReceiveIntRefines ==
  ASSUME IInv, NEW r \in Proc, NEW src \in Sources, ReceiveInt(r, src)
  PROVE  A!Next
<1>1. p_flags[r] = {} /\ halted = "no" /\ has_int_msg[r]
      /\ src \in {ANY, INTERRUPT} /\ r # src
  BY DEF ReceiveInt, BeginReceive, Running, IntPending
<1>2. A!Free(r) /\ IdleFields(r)
  BY <1>1, AbsFields, RunnableFields DEF IInv
<1>3. /\ inbox' = [inbox EXCEPT ![r] = HardInt]
      /\ has_int_msg' = [has_int_msg EXCEPT ![r] = FALSE]
      /\ UNCHANGED <<p_flags, p_recvfrom, p_msg, halted>>
  BY <1>1, <1>2 DEF ReceiveInt, CopyTo, IdleFields
<1>4. UNCHANGED <<absOffer, absWant, absAlive>>
  BY <1>3 DEF absOffer, absWant, absAlive, Sending, Receiving
<1>5. A!TakeInt(r, Accepted(src))
  BY <1>1, <1>2, <1>3, <1>4 DEF A!TakeInt, A!HardInt, HardInt, Accepted
<1>6. Accepted(src) \in A!Wants
  BY <1>1 DEF Accepted, A!Wants
<1>7. QED
  BY <1>5, <1>6 DEF A!Next

\* What a RECEIVE from src accepts is a set the abstract receiver may want.
LEMMA AcceptedWants ==
  ASSUME NEW src \in Sources
  PROVE  Accepted(src) \in A!Wants
BY DEF Accepted, A!Wants, Sources

\* msg_receive, when it fetches, is an abstract RECEIVE that meets a sender.
LEMMA ReceiveFetchesRefines ==
  ASSUME IInv, NEW r \in Proc, NEW src \in Sources, ReceiveFetches(r, src)
  PROVE  A!Next
<1>1. /\ halted = "no" /\ p_flags[r] = {} /\ r # src
      /\ ~(has_int_msg[r] /\ src \in {ANY, INTERRUPT})
  BY DEF ReceiveFetches, BeginReceive, Running, IntPending
<1>2. A!Free(r) /\ IdleFields(r) /\ ~Sending(r) /\ ~Receiving(r)
  BY <1>1, AbsFields, RunnableFields DEF IInv
<1>3. PICK s \in Fetchable(r, src) :
        IF /\ IdleFields(r)
           /\ q_sending[r] # <<>>
           /\ SenderFields(s, r)
           /\ \E i \in DOMAIN q_sending[r] : q_sending[r][i] = s
        THEN /\ CopyTo(r, p_msg[s])
             /\ p_msg' = [p_msg EXCEPT ![s] = Null]
             /\ p_flags' = [p_flags EXCEPT ![s] = @ \ {"SENDING"}]
             /\ UNCHANGED <<p_recvfrom, has_int_msg, halted>>
        ELSE Halt("assert")
  BY DEF ReceiveFetches, Fetched
<1>4. /\ s \in Proc /\ Sending(s) /\ p_sendto[s] = r /\ s # r
      /\ q_sending[r] # <<>>
      /\ \E i \in DOMAIN q_sending[r] : q_sending[r][i] = s
  BY <1>2, FetchableIsQueued
<1>5. SenderFields(s, r)
  <2>1. p_msg[s] # Null
    BY <1>4, AbsFields
  <2>2. QED
    BY <1>4, <2>1, SendingFields DEF IInv, SenderFields
<1>6. /\ inbox' = [inbox EXCEPT ![r] = p_msg[s]]
      /\ p_msg' = [p_msg EXCEPT ![s] = Null]
      /\ p_flags' = [p_flags EXCEPT ![s] = @ \ {"SENDING"}]
      /\ UNCHANGED <<p_recvfrom, has_int_msg, halted>>
  BY <1>2, <1>3, <1>4, <1>5 DEF CopyTo
<1>7. \A p \in Proc : /\ Sending(p)' <=> p # s /\ Sending(p)
                      /\ Receiving(p)' <=> Receiving(p)
  BY <1>4, <1>6 DEF IInv, TypeOK, Sending, Receiving
<1>8. absOffer' = [absOffer EXCEPT ![s] = Null]
  BY <1>4, <1>6, <1>7 DEF IInv, TypeOK, absOffer
<1>9. absWant' = absWant /\ absAlive' = absAlive
  BY <1>6, <1>7 DEF absWant, absAlive
<1>10. s \in Accepted(src)
  BY <1>3, <1>4 DEF Fetchable, Accepted
<1>11. absOffer[s] # Null /\ absOffer[s].to = r /\ absOffer[s] = p_msg[s]
  BY <1>4, AbsFields
<1>12. ~(has_int_msg[r] /\ INTERRUPT \in Accepted(src))
  BY <1>1 DEF Accepted
<1>13. A!Take(r, s, Accepted(src))
  BY <1>2, <1>4, <1>6, <1>8, <1>9, <1>10, <1>11, <1>12
     DEF A!Take, A!OffersTo, A!Null, Null
<1>14. QED
  BY <1>4, <1>13, AcceptedWants DEF A!Next

\* msg_receive, when it blocks, is an abstract RECEIVE that finds nobody.
LEMMA ReceiveBlocksRefines ==
  ASSUME IInv, NEW r \in Proc, NEW src \in Sources, ReceiveBlocks(r, src)
  PROVE  A!Next
<1>1. /\ halted = "no" /\ p_flags[r] = {} /\ r # src /\ Fetchable(r, src) = {}
  BY DEF ReceiveBlocks, BeginReceive, Running
<1>2. A!Free(r) /\ IdleFields(r) /\ ~Sending(r) /\ ~Receiving(r)
  BY <1>1, AbsFields, RunnableFields DEF IInv
<1>3. CASE has_int_msg[r]
  <2>1. Halt("int pending")
    BY <1>3 DEF ReceiveBlocks
  <2>2. UNCHANGED <<absOffer, absWant, has_int_msg, inbox>>
    BY <2>1 DEF Halt, absOffer, absWant, Sending, Receiving
  <2>3. absAlive /\ ~absAlive'
    BY <1>1, <2>1 DEF Halt, absAlive
  <2>4. A!Stop
    BY <1>2, <1>3, <2>2, <2>3 DEF A!Stop
  <2>5. QED
    BY <2>4 DEF A!Next
<1>4. CASE ~has_int_msg[r]
  <2>1. /\ p_flags' = [p_flags EXCEPT ![r] = @ \cup {"RECEIVING"}]
        /\ p_msg' = [p_msg EXCEPT ![r] = Buffer]
        /\ p_recvfrom' = [p_recvfrom EXCEPT ![r] = src]
        /\ UNCHANGED <<has_int_msg, inbox, halted>>
    BY <1>2, <1>4 DEF ReceiveBlocks, IdleFields
  <2>2. \A p \in Proc : /\ Sending(p)' <=> Sending(p)
                        /\ Receiving(p)' <=> p = r \/ Receiving(p)
    BY <2>1 DEF IInv, TypeOK, Sending, Receiving
  <2>3. absOffer' = absOffer
    BY <1>2, <2>1, <2>2 DEF IInv, TypeOK, absOffer
  <2>4. absWant' = [absWant EXCEPT ![r] = Accepted(src)]
    BY <2>1, <2>2 DEF IInv, TypeOK, absWant
  <2>5. ASSUME NEW s \in Accepted(src), s \in Proc
        PROVE  ~A!OffersTo(s, r)
    <3> SUFFICES ASSUME A!OffersTo(s, r) PROVE FALSE
      OBVIOUS
    <3>1. Sending(s) /\ p_sendto[s] = r
      BY <2>5, AbsFields DEF A!OffersTo, A!Null, Null
    <3>2. \E i \in DOMAIN q_sending[r] : q_sending[r][i] = s
      BY <2>5, <3>1 DEF IInv, QueueMatchesSenders
    <3>3. q_sending[r] # <<>>
      BY <3>2
    <3>4. QED
      BY <1>1, <2>5, <3>1, <3>3 DEF Fetchable, Accepted
  <2>6. A!Await(r, Accepted(src))
    BY <1>1, <1>2, <1>4, <2>1, <2>3, <2>4, <2>5 DEF A!Await, absAlive
  <2>7. QED
    BY <2>6, AcceptedWants DEF A!Next
<1>5. QED
  BY <1>3, <1>4

\* inform_int is the abstract interrupt: taken by a waiting task or latched.
LEMMA InformIntRefines ==
  ASSUME IInv, NEW t \in IntTask, InformInt(t)
  PROVE  A!Next
<1>1. halted = "no" /\ t \in Proc
  BY IpcAssumption DEF InformInt
<1>2. INTERRUPT \in absWant[t] <=> WaitsForInt(t)
  BY <1>1, AbsFields, IpcAssumption DEF WaitsForInt, Accepted
<1>3. CASE WaitsForInt(t)
  <2>1. /\ p_flags[t] = {"RECEIVING"} /\ p_sendto[t] = NO_TASK /\ ~Sending(t)
    BY <1>1, <1>3, ReceivingFields DEF IInv, WaitsForInt
  <2>2. /\ inbox' = [inbox EXCEPT ![t] = HardInt]
        /\ WakeReceiver(t)
        /\ has_int_msg' = [has_int_msg EXCEPT ![t] = FALSE]
        /\ UNCHANGED halted
    BY <1>3, <2>1 DEF InformInt, CopyTo
  <2>3. \A p \in Proc : /\ Sending(p)' <=> Sending(p)
                        /\ Receiving(p)' <=> p # t /\ Receiving(p)
    BY <2>1, <2>2 DEF WakeReceiver, IInv, TypeOK, Sending, Receiving
  <2>4. absOffer' = absOffer
    BY <2>1, <2>2, <2>3 DEF WakeReceiver, IInv, TypeOK, absOffer
  <2>5. absWant' = [absWant EXCEPT ![t] = {}]
    BY <1>1, <2>2, <2>3 DEF WakeReceiver, IInv, TypeOK, absWant
  <2>6. has_int_msg[t] = FALSE
    BY <1>1, <1>3 DEF IInv, TypeOK, NoLostInterrupt, WaitsForInt
  <2>7. has_int_msg' = has_int_msg
    BY <2>2, <2>6 DEF IInv, TypeOK
  <2>8. A!Interrupt(t)
    BY <1>1, <1>2, <1>3, <2>2, <2>4, <2>5, <2>7
       DEF A!Interrupt, A!HardInt, HardInt, absAlive
  <2>9. QED
    BY <2>8 DEF A!Next
<1>4. CASE ~WaitsForInt(t)
  <2>1. /\ has_int_msg' = [has_int_msg EXCEPT ![t] = TRUE]
        /\ UNCHANGED <<p_flags, p_recvfrom, p_msg, inbox, halted>>
    BY <1>4 DEF InformInt
  <2>2. UNCHANGED <<absOffer, absWant, absAlive>>
    BY <2>1 DEF absOffer, absWant, absAlive, Sending, Receiving
  <2>3. A!Interrupt(t)
    BY <1>1, <1>2, <1>4, <2>1, <2>2 DEF A!Interrupt, absAlive
  <2>4. QED
    BY <2>3 DEF A!Next
<1>5. QED
  BY <1>3, <1>4

\* The queues, flags and pointers of proc.c implement the rendezvous of
\* module Rendezvous, for every table of processes.
THEOREM IpcImplementsRendezvous == Spec => ImplementsRendezvous
<1>1. Init => A!Init
  <2> SUFFICES ASSUME Init PROVE A!Init
    OBVIOUS
  <2>1. \A p \in Proc : ~Sending(p) /\ ~Receiving(p)
    BY DEF Init, Sending, Receiving
  <2>2. QED
    BY <2>1 DEF Init, A!Init, absOffer, absWant, absAlive, A!Null, Null
<1>2. IInv /\ IInv' /\ [Next]_vars => [A!Next]_(A!absVars)
  <2> SUFFICES ASSUME IInv, IInv', [Next]_vars
               PROVE  A!Next \/ UNCHANGED A!absVars
    OBVIOUS
  <2>1. CASE UNCHANGED vars
    BY <2>1 DEF vars, A!absVars, absOffer, absWant, absAlive, Sending, Receiving
  <2>2. CASE Next
    BY <2>2, PanicRefines, SendRefines, ReceiveIntRefines,
       ReceiveFetchesRefines, ReceiveBlocksRefines, InformIntRefines DEF Next
  <2>3. QED
    BY <2>1, <2>2
<1>3. QED
  BY <1>1, <1>2, IpcInvariant, PTL DEF Spec, A!Spec, ImplementsRendezvous

----------------------------------------------------------------------------
\* The order of the messages

\* A queue that stays as it is keeps its order, and so does one that a process not
\* in it joins at the end, and one that a sender leaves.
LEMMA OrderLemma ==
  ASSUME NEW S, NEW q \in Seq(S),
         \A i, j \in DOMAIN q : q[i] = q[j] => i = j
  PROVE  /\ KeepsOrder(q, q)
         /\ \A s \in S : (\A i \in DOMAIN q : q[i] # s) => KeepsOrder(q, Enqueue(q, s))
         /\ \A n \in DOMAIN q : KeepsOrder(q, Unlink(q, n))
<1>1. DOMAIN q = 1..Len(q) /\ Len(q) \in Nat
  OBVIOUS
<1>2. KeepsOrder(q, q)
  BY <1>1 DEF KeepsOrder
<1>3. ASSUME NEW s \in S, \A i \in DOMAIN q : q[i] # s
      PROVE  KeepsOrder(q, Enqueue(q, s))
  <2> DEFINE e == Enqueue(q, s)
  <2>1. /\ DOMAIN e = 1..(Len(q) + 1) /\ e[Len(q) + 1] = s
        /\ \A i \in 1..Len(q) : e[i] = q[i]
    BY <1>1 DEF Enqueue
  <2> HIDE DEF e
  <2>2. SUFFICES ASSUME NEW k \in DOMAIN e, NEW l \in DOMAIN e, k < l,
                        NEW j \in DOMAIN q, e[l] = q[j]
                 PROVE  \E i \in 1..(j - 1) : e[k] = q[i]
    BY DEF KeepsOrder, e
  <2>3. l \in 1..Len(q) /\ k \in 1..Len(q)
    BY <1>1, <1>3, <2>1, <2>2
  <2>4. l = j
    BY <1>1, <2>1, <2>2, <2>3
  <2>5. QED
    BY <1>1, <2>1, <2>2, <2>3, <2>4
<1>4. ASSUME NEW n \in DOMAIN q
      PROVE  KeepsOrder(q, Unlink(q, n))
  <2> DEFINE u == Unlink(q, n)
             at(k) == IF k < n THEN k ELSE k + 1
  <2>1. /\ DOMAIN u = 1..(Len(q) - 1)
        /\ \A k \in 1..(Len(q) - 1) : u[k] = q[at(k)]
    BY DEF Unlink
  <2> HIDE DEF u
  <2>2. SUFFICES ASSUME NEW k \in DOMAIN u, NEW l \in DOMAIN u, k < l,
                        NEW j \in DOMAIN q, u[l] = q[j]
                 PROVE  \E i \in 1..(j - 1) : u[k] = q[i]
    BY DEF KeepsOrder, u
  <2>3. at(k) \in 1..Len(q) /\ at(l) \in 1..Len(q) /\ at(k) < at(l)
    BY <1>1, <2>1, <2>2
  <2>4. at(l) = j
    BY <1>1, <2>1, <2>2, <2>3
  <2>5. at(k) \in 1..(j - 1) /\ u[k] = q[at(k)]
    BY <1>1, <2>1, <2>2, <2>3, <2>4
  <2>6. QED
    BY <2>5
<1>5. QED
  BY <1>2, <1>3, <1>4

\* A process receives only from whom it waits for, and in the second half of BOTH
\* only from the process it has called.
LEMMA ReplyLemma == IInv /\ [Next]_vars => [ReplyStep]_vars
<1> SUFFICES ASSUME IInv, Next PROVE ReplyStep
  BY DEF ReplyStep
<1> USE IpcAssumption
<1>1. ASSUME NEW d \in Proc, NEW m,
             inbox' = [inbox EXCEPT ![d] = m],
             replyFrom[d] # NO_TASK => m.source = replyFrom[d],
             Receiving(d) /\ p_recvfrom[d] # ANY => m.source = p_recvfrom[d]
      PROVE  ReplyStep
  <2>1. inbox \in [Proc -> Messages \cup {Null, [source |-> INTERRUPT]}]
    BY DEF IInv, TypeOK
  <2>2. QED
    BY <1>1, <2>1 DEF ReplyStep
<1>2. inbox' = inbox => ReplyStep
  BY DEF ReplyStep
<1>3. \A p \in Proc : replyFrom[p] \in Proc \cup {NO_TASK}
  BY DEF IInv, TypeOK
<1>4. ASSUME NEW s \in Proc, NEW d \in Proc, NEW both \in BOOLEAN,
             SendDelivers(s, d, both), inbox' # inbox
      PROVE  ReplyStep
  <2>1. /\ WaitsFor(d, s)
        /\ inbox' = [inbox EXCEPT ![d] = NextMessage(s, d)]
    BY <1>4 DEF SendDelivers, CopyTo, Halt
  <2>2. Receiving(d) /\ p_recvfrom[d] \in {s, ANY} /\ replyFrom[d] = NO_TASK
    BY <2>1, ReceivingFields DEF WaitsFor, IInv
  <2>3. NextMessage(s, d).source = s
    BY DEF NextMessage
  <2>4. QED
    BY <1>1, <2>1, <2>2, <2>3
<1>5. ASSUME NEW r \in Proc, NEW src \in Sources, ReceiveInt(r, src), inbox' # inbox
      PROVE  ReplyStep
  <2>1. /\ p_flags[r] = {} /\ replyFrom[r] \in {NO_TASK, src}
        /\ src \in {ANY, INTERRUPT}
        /\ inbox' = [inbox EXCEPT ![r] = HardInt]
    BY <1>5 DEF ReceiveInt, BeginReceive, Running, IntPending, CopyTo, Halt
  <2>2. replyFrom[r] = NO_TASK /\ ~ Receiving(r)
    BY <1>3, <2>1 DEF Receiving
  <2>3. QED
    BY <1>1, <2>1, <2>2
<1>6. ASSUME NEW r \in Proc, NEW src \in Sources, ReceiveFetches(r, src), inbox' # inbox
      PROVE  ReplyStep
  <2>1. PICK s \in Fetchable(r, src) : inbox' = [inbox EXCEPT ![r] = p_msg[s]]
    BY <1>6 DEF ReceiveFetches, CopyTo, Fetched, Halt
  <2>2. p_flags[r] = {} /\ replyFrom[r] \in {NO_TASK, src}
    BY <1>6 DEF ReceiveFetches, BeginReceive, Running
  <2>3. s \in Proc /\ Sending(s)
    BY FetchableIsQueued
  <2>4. p_msg[s].source = s
    <3>1. p_msg[s] = [source |-> s, to |-> p_sendto[s], n |-> sent[s]]
      <4>1. ExactlyOnce
        BY DEF IInv
      <4>2. QED
        BY <2>3, <4>1, Zenon DEF ExactlyOnce
    <3>2. QED
      BY <3>1
  <2>5. replyFrom[r] # NO_TASK => s = replyFrom[r]
    BY <1>3, <2>2 DEF Fetchable
  <2>6. ~ Receiving(r)
    BY <2>2 DEF Receiving
  <2>7. QED
    BY <1>1, <2>1, <2>4, <2>5, <2>6
<1>7. ASSUME NEW r \in Proc, NEW src \in Sources, ReceiveBlocks(r, src)
      PROVE  inbox' = inbox
  BY <1>7 DEF ReceiveBlocks, Halt
<1>8. ASSUME NEW t \in IntTask, InformInt(t), inbox' # inbox
      PROVE  ReplyStep
  <2>1. t \in Proc /\ WaitsForInt(t) /\ inbox' = [inbox EXCEPT ![t] = HardInt]
    BY <1>8 DEF InformInt, CopyTo, Halt
  <2>2. Receiving(t) /\ p_recvfrom[t] \in {INTERRUPT, ANY} /\ replyFrom[t] = NO_TASK
    BY <2>1, ReceivingFields DEF WaitsForInt, IInv
  <2>3. HardInt.source = INTERRUPT
    BY DEF HardInt
  <2>4. QED
    BY <1>1, <2>1, <2>2, <2>3
<1>9. ASSUME NEW s \in Proc, NEW d \in Proc, NEW both \in BOOLEAN,
             SendPanics(s, d, both) \/ SendQueues(s, d, both)
      PROVE  inbox' = inbox
  BY <1>9 DEF SendPanics, SendQueues, Halt
<1>10. QED
  BY <1>2, <1>4, <1>5, <1>6, <1>7, <1>8, <1>9 DEF Next

\* Senders leave a queue from wherever they are, join it at the end and do not
\* change places in it.
LEMMA OrderKeptLemma == IInv /\ [Next]_vars => [OrderStep]_vars
<1> SUFFICES ASSUME IInv, Next PROVE OrderStep
  BY DEF OrderStep
<1>1. \A d \in Proc : /\ q_sending[d] \in Seq(Proc)
                      /\ \A i, j \in DOMAIN q_sending[d] :
                           q_sending[d][i] = q_sending[d][j] => i = j
  BY DEF IInv, TypeOK, QueueMatchesSenders
<1>2. \A d \in Proc : KeepsOrder(q_sending[d], q_sending[d])
  BY <1>1, OrderLemma
<1>3. q_sending' = q_sending => OrderStep
  BY <1>2 DEF OrderStep
<1>4. ASSUME NEW d \in Proc, NEW q, q_sending' = [q_sending EXCEPT ![d] = q],
             KeepsOrder(q_sending[d], q)
      PROVE  OrderStep
  <2>1. \A e \in Proc : q_sending'[e] = IF e = d THEN q ELSE q_sending[e]
    BY <1>4 DEF IInv, TypeOK
  <2>2. QED
    BY <1>2, <1>4, <2>1 DEF OrderStep
<1>5. ASSUME NEW s \in Proc, NEW d \in Proc, NEW both \in BOOLEAN,
             SendQueues(s, d, both), q_sending' # q_sending
      PROVE  OrderStep
  <2>1. /\ p_flags[s] = {}
        /\ q_sending' = [q_sending EXCEPT ![d] = Enqueue(q_sending[d], s)]
    BY <1>5 DEF SendQueues, BeginSend, Running, Halt
  <2>2. \A i \in DOMAIN q_sending[d] : q_sending[d][i] # s
    BY <2>1, RunnableFields DEF IInv, QueueMatchesSenders
  <2>3. KeepsOrder(q_sending[d], Enqueue(q_sending[d], s))
    BY <1>1, <2>2, OrderLemma
  <2>4. QED
    BY <1>4, <2>1, <2>3
<1>6. ASSUME NEW r \in Proc, NEW src \in Sources, ReceiveFetches(r, src),
             q_sending' # q_sending
      PROVE  OrderStep
  <2>1. PICK s \in Fetchable(r, src) :
          q_sending' = [q_sending EXCEPT ![r] = Unlink(q_sending[r], Position(q_sending[r], s))]
    BY <1>6 DEF ReceiveFetches, Halt
  <2>2. Position(q_sending[r], s) \in DOMAIN q_sending[r]
    BY FetchableIsQueued DEF Position
  <2>3. KeepsOrder(q_sending[r], Unlink(q_sending[r], Position(q_sending[r], s)))
    BY <1>1, <2>2, OrderLemma
  <2>4. QED
    BY <1>4, <2>1, <2>3
<1>7. /\ \A s, d \in Proc, both \in BOOLEAN :
           SendPanics(s, d, both) \/ SendDelivers(s, d, both) => q_sending' = q_sending
      /\ \A r \in Proc, src \in Sources :
           ReceiveInt(r, src) \/ ReceiveBlocks(r, src) => q_sending' = q_sending
      /\ \A t \in IntTask : InformInt(t) => q_sending' = q_sending
  BY DEF SendPanics, SendDelivers, ReceiveInt, ReceiveBlocks, InformInt, Halt
<1>8. QED
  BY <1>3, <1>5, <1>6, <1>7 DEF Next

\* Messages reach whom they are meant for, in the order in which they came: the
\* two halves of send_recv(BOTH) belong together, and the lists of proc.c are queues.
THEOREM IpcMessagesInOrder == Spec => MessagesInOrder
<1>1. QED
  BY IpcInvariant, ReplyLemma, OrderKeptLemma, PTL
     DEF Spec, MessagesInOrder, ReplyIsFromServer, ArrivalOrderKept
----------------------------------------------------------------------------
(* Interrupts between the statements of a call                              *)

\* The invariant of the calls made in one step, but for the entries in R, whose fields
\* a call is changing, and the counts of those in S, whose message is on its way.
FieldsOK(p) ==
  \/ IdleFields(p)
  \/ /\ p_flags[p] = {"SENDING"} /\ p_sendto[p] \in Proc \ {p}
     /\ p_recvfrom[p] = NO_TASK /\ p_msg[p] \in Messages
  \/ /\ p_flags[p] = {"RECEIVING"} /\ p_recvfrom[p] \in Sources \ {p}
     /\ p_sendto[p] = NO_TASK /\ p_msg[p] = Buffer /\ replyFrom[p] = NO_TASK
CountsOK(p) ==
  IF Sending(p)
  THEN p_msg[p] = [source |-> p, to |-> p_sendto[p], n |-> sent[p]] /\ taken[p] + 1 = sent[p]
  ELSE taken[p] = sent[p]
InvBut(R, S) ==
  /\ TypeOK /\ QueueMatchesSenders /\ NoMissedRendezvous
  /\ \A p \in Proc \ R : FieldsOK(p) /\ ~ (has_int_msg[p] /\ WaitsForInt(p))
  /\ \A p \in Proc \ S : CountsOK(p)

\* The caller of a RECEIVE between its statements: its flag and its buffer are set, and
\* from is what it has for p_recvfrom.
Blocking(r, from) ==
  /\ p_flags[r] = {"RECEIVING"} /\ p_msg[r] = Buffer
  /\ p_sendto[r] = NO_TASK /\ p_recvfrom[r] = from

\* The destination of a SEND whose p_msg is cleared and whose flag is not yet.
Unready(d, s) ==
  /\ p_flags[d] = {"RECEIVING"} /\ p_msg[d] = Null
  /\ p_sendto[d] = NO_TASK /\ p_recvfrom[d] \in {s, ANY}

\* What holds at each stage of the call in progress.
Between == kcall = NoCall /\ InvBut({}, {})
Chosen ==
  \E r \in Proc, src \in Sources :
    /\ kcall = Call("chosen", r, src, FALSE) /\ InvBut({}, {})
    /\ BeginReceive(r, src) /\ Fetchable(r, src) = {}
Flagged ==
  \E r \in Proc, src \in Sources :
    /\ kcall = Call("flagged", r, src, FALSE) /\ InvBut({r}, {})
    /\ r # src /\ Fetchable(r, src) = {} /\ Blocking(r, NO_TASK)
Armed ==
  \E r \in Proc, src \in Sources :
    /\ kcall = Call("armed", r, src, FALSE) /\ InvBut({r}, {})
    /\ r # src /\ (IdleFields(r) \/ Blocking(r, src))
Taking ==
  \E r \in Proc, src \in Sources, stage \in {"given", "taken"} :
    /\ kcall = Call(stage, r, src, FALSE) /\ InvBut({}, {})
    /\ BeginReceive(r, src)
Matched ==
  \E s, d \in Proc, both \in BOOLEAN, stage \in {"matched", "checked", "aimed", "astray"} :
    /\ kcall = Call(stage, s, d, both) /\ InvBut({}, {})
    /\ BeginSend(s, d, both) /\ (WaitsFor(d, s) \/ IdleFields(d))
Copied ==
  \E s, d \in Proc, both \in BOOLEAN :
    /\ kcall = Call("copied", s, d, both) /\ InvBut({}, {s})
    /\ BeginSend(s, d, both) /\ (WaitsFor(d, s) \/ IdleFields(d))
    /\ taken[s] = sent[s] + 1

Unset ==
  \E s, d \in Proc, both \in BOOLEAN :
    /\ kcall = Call("unset", s, d, both) /\ InvBut({d}, {s})
    /\ BeginSend(s, d, both) /\ (Unready(d, s) \/ IdleFields(d))
    /\ taken[s] = sent[s] + 1
Unflagged ==
  \E s, d \in Proc, both \in BOOLEAN :
    /\ kcall = Call("unflagged", s, d, both) /\ InvBut({d}, {s})
    /\ BeginSend(s, d, both)
    /\ p_flags[d] = {} /\ p_msg[d] = Null /\ p_sendto[d] = NO_TASK
    /\ taken[s] = sent[s] + 1

InsideSend == Matched \/ Copied \/ Unset \/ Unflagged
InsideReceive == Taking \/ Chosen \/ Flagged \/ Armed

\* The inductive invariant: nothing is claimed of a machine that has stopped.
WInv == halted = "no" => Between \/ InsideReceive \/ InsideSend

\* Whoever is owed an interrupt and not struck by one of msg_send's two windows has it
\* latched.
Told ==
  halted = "no" => owed \subseteq Proc /\ \A t \in owed \ dropped : has_int_msg[t]

\* inform_int, wherever p_msg points.
Informs(t) == InformInt(t) \/ InformZero(t)

----------------------------------------------------------------------------
\* Lemmas

\* With no call in progress the invariant is that of the one-step calls.
LEMMA BetweenLemma ==
  ASSUME halted = "no"
  PROVE  InvBut({}, {}) <=> IInv
<1>1. FieldsMatchFlags <=> \A p \in Proc : FieldsOK(p)
  BY DEF FieldsMatchFlags, FieldsOK
<1>2. NoLostInterrupt <=> \A p \in Proc : ~ (has_int_msg[p] /\ WaitsForInt(p))
  BY DEF NoLostInterrupt, WaitsForInt
<1>3. ExactlyOnce <=> \A p \in Proc : CountsOK(p)
  BY DEF ExactlyOnce, CountsOK
<1>4. AssertsHold
  BY DEF AssertsHold
<1>5. QED
  BY <1>1, <1>2, <1>3, <1>4 DEF InvBut, IInv

LEMMA CallLemma ==
  ASSUME NEW st, NEW s, NEW d, NEW b, kcall = Call(st, s, d, b)
  PROVE  kcall.stage = st /\ kcall.who = s /\ kcall.other = d /\ kcall.both = b
BY DEF Call

\* The stage the kernel is in says which of the cases holds.
LEMMA StageLemma ==
  ASSUME WInv, halted = "no"
  PROVE  \/ kcall.stage = "none" /\ Between
         \/ kcall.stage = "chosen" /\ Chosen
         \/ kcall.stage = "flagged" /\ Flagged
         \/ kcall.stage = "armed" /\ Armed
         \/ kcall.stage \in {"given", "taken"} /\ Taking
         \/ kcall.stage \in {"matched", "checked", "aimed", "astray"} /\ Matched
         \/ kcall.stage = "copied" /\ Copied
         \/ kcall.stage = "unset" /\ Unset
         \/ kcall.stage = "unflagged" /\ Unflagged
<1>1. CASE Between
  BY <1>1 DEF Between, NoCall
<1>2. CASE Chosen
  BY <1>2, CallLemma DEF Chosen
<1>3. CASE Flagged
  BY <1>3, CallLemma DEF Flagged
<1>4. CASE Armed
  BY <1>4, CallLemma DEF Armed
<1>5. CASE Matched
  BY <1>5, CallLemma DEF Matched
<1>6. CASE Copied
  BY <1>6, CallLemma DEF Copied
<1>7. CASE Taking
  BY <1>7, CallLemma DEF Taking
<1>8. CASE Unset
  BY <1>8, CallLemma DEF Unset
<1>9. CASE Unflagged
  BY <1>9, CallLemma DEF Unflagged
<1>10. QED
  BY <1>1, <1>2, <1>3, <1>4, <1>5, <1>6, <1>7, <1>8, <1>9 DEF WInv, InsideReceive, InsideSend

\* With the table half written or not, its entries have their types.
LEMMA WTypeLemma ==
  ASSUME WInv, halted = "no"
  PROVE  TypeOK
BY DEF WInv, InsideReceive, InsideSend, Between, Taking, Chosen, Flagged, Armed, Matched, Copied,
       Unset, Unflagged, InvBut

\* What inform_int does to a task whose entry is sound where it looks.
LEMMA InformEffect ==
  ASSUME TypeOK, halted = "no", NEW t \in Proc, Informs(t),
         WaitsForInt(t) => p_flags[t] = {"RECEIVING"} /\ p_sendto[t] = NO_TASK
  PROVE  \/ /\ WaitsForInt(t) /\ UNCHANGED <<p_sendto, q_sending, replyFrom, sent, taken, halted>>
            /\ inbox' = [inbox EXCEPT ![t] = HardInt] \/ inbox' = inbox
            /\ p_msg' = [p_msg EXCEPT ![t] = Null]
            /\ p_flags' = [p_flags EXCEPT ![t] = {}]
            /\ p_recvfrom' = [p_recvfrom EXCEPT ![t] = NO_TASK]
            /\ has_int_msg' = [has_int_msg EXCEPT ![t] = FALSE]
         \/ /\ ~ WaitsForInt(t) /\ has_int_msg' = [has_int_msg EXCEPT ![t] = TRUE]
            /\ UNCHANGED <<p_flags, p_sendto, p_recvfrom, p_msg, q_sending, inbox,
                           replyFrom, sent, taken, halted>>
<1>1. CASE WaitsForInt(t)
  <2>1. p_flags[t] \ {"RECEIVING"} = {}
    BY <1>1
  <2>2. HardInt.source \notin Proc
    BY IpcAssumption DEF HardInt
  <2>3. CASE InformInt(t)
    <3>1. /\ CopyTo(t, HardInt) /\ WakeReceiver(t)
          /\ has_int_msg' = [has_int_msg EXCEPT ![t] = FALSE]
          /\ UNCHANGED <<p_sendto, q_sending, replyFrom, sent, halted>>
      BY <1>1, <2>3 DEF InformInt
    <3>2. QED
      BY <1>1, <2>1, <2>2, <3>1 DEF CopyTo, WakeReceiver
  <2>4. CASE InformZero(t)
    <3>1. /\ WakeReceiver(t) /\ has_int_msg' = [has_int_msg EXCEPT ![t] = FALSE]
          /\ UNCHANGED <<p_sendto, q_sending, inbox, replyFrom, sent, taken, halted>>
      BY <1>1, <2>4 DEF InformZero
    <3>2. QED
      BY <1>1, <2>1, <3>1 DEF WakeReceiver
  <2>5. QED
    BY <2>3, <2>4 DEF Informs
<1>2. CASE ~ WaitsForInt(t)
  BY <1>2 DEF Informs, InformInt, InformZero
<1>3. QED
  BY <1>1, <1>2

\* inform_int between two statements of a call keeps what holds of everybody else.
LEMMA InformKeeps ==
  ASSUME NEW R \in SUBSET Proc, NEW S \in SUBSET Proc, InvBut(R, S),
         halted = "no", NEW t \in Proc, Informs(t),
         t \in R /\ WaitsForInt(t) => p_flags[t] = {"RECEIVING"} /\ p_sendto[t] = NO_TASK
  PROVE  /\ InvBut(R, S)' /\ halted' = "no"
         /\ UNCHANGED <<p_sendto, q_sending, replyFrom, sent, taken>>
         /\ \A p \in Proc : Sending(p)' <=> Sending(p)
         /\ \A p \in Proc : p # t \/ ~ WaitsForInt(p)
              => /\ p_flags'[p] = p_flags[p] /\ p_msg'[p] = p_msg[p]
                 /\ p_recvfrom'[p] = p_recvfrom[p]
         /\ WaitsForInt(t) => p_flags'[t] = {} /\ p_msg'[t] = Null /\ p_recvfrom'[t] = NO_TASK
<1>1. TypeOK
  BY DEF InvBut
<1>2. WaitsForInt(t) => p_flags[t] = {"RECEIVING"} /\ p_sendto[t] = NO_TASK
  BY DEF InvBut, FieldsOK, IdleFields, WaitsForInt, Receiving
<1>3. CASE /\ WaitsForInt(t)
           /\ UNCHANGED <<p_sendto, q_sending, replyFrom, sent, taken, halted>>
           /\ inbox' = [inbox EXCEPT ![t] = HardInt] \/ inbox' = inbox
           /\ p_msg' = [p_msg EXCEPT ![t] = Null]
           /\ p_flags' = [p_flags EXCEPT ![t] = {}]
           /\ p_recvfrom' = [p_recvfrom EXCEPT ![t] = NO_TASK]
           /\ has_int_msg' = [has_int_msg EXCEPT ![t] = FALSE]
  <2>1. /\ p_flags'[t] = {} /\ p_msg'[t] = Null /\ p_recvfrom'[t] = NO_TASK /\ ~ has_int_msg'[t]
        /\ \A p \in Proc \ {t} :
             /\ p_flags'[p] = p_flags[p] /\ p_msg'[p] = p_msg[p]
             /\ p_recvfrom'[p] = p_recvfrom[p] /\ has_int_msg'[p] = has_int_msg[p]
    BY <1>1, <1>3 DEF TypeOK
  <2>2. /\ \A p \in Proc : Sending(p)' <=> Sending(p)
        /\ \A p \in Proc : Receiving(p)' <=> p # t /\ Receiving(p)
    BY <1>2, <1>3, <2>1 DEF Sending, Receiving
  <2>3. TypeOK'
    <3>1. p_msg' \in [Proc -> Messages \cup {Null, Buffer}]
      BY <1>1, <1>3 DEF TypeOK
    <3>2. QED
      BY <1>1, <1>3, <3>1 DEF TypeOK, HardInt
  <2>4. QueueMatchesSenders'
    BY <1>3, <2>2 DEF InvBut, QueueMatchesSenders
  <2>5. NoMissedRendezvous'
    BY <1>3, <2>1, <2>2 DEF InvBut, NoMissedRendezvous
  <2>6. ASSUME NEW p \in Proc \ R PROVE (FieldsOK(p) /\ ~ (has_int_msg[p] /\ WaitsForInt(p)))'
    <3>1. CASE p = t
      BY <1>2, <1>3, <2>1, <3>1 DEF FieldsOK, IdleFields
    <3>2. CASE p # t
      BY <1>3, <2>1, <3>2 DEF InvBut, FieldsOK, IdleFields, WaitsForInt, Receiving
    <3>3. QED
      BY <3>1, <3>2
  <2>7. ASSUME NEW p \in Proc \ S PROVE CountsOK(p)'
    BY <1>2, <1>3, <2>1, <2>2 DEF InvBut, CountsOK, Sending
  <2>8. QED
    BY <1>3, <2>1, <2>2, <2>3, <2>4, <2>5, <2>6, <2>7 DEF InvBut
<1>4. CASE /\ ~ WaitsForInt(t) /\ has_int_msg' = [has_int_msg EXCEPT ![t] = TRUE]
           /\ UNCHANGED <<p_flags, p_sendto, p_recvfrom, p_msg, q_sending, inbox,
                          replyFrom, sent, taken, halted>>
  <2>1. \A p \in Proc : (Sending(p)' <=> Sending(p)) /\ (Receiving(p)' <=> Receiving(p))
    BY <1>4 DEF Sending, Receiving
  <2>2. TypeOK'
    BY <1>1, <1>4 DEF TypeOK
  <2>3. QueueMatchesSenders' /\ NoMissedRendezvous'
    BY <1>4, <2>1 DEF InvBut, QueueMatchesSenders, NoMissedRendezvous
  <2>4. ASSUME NEW p \in Proc \ R PROVE (FieldsOK(p) /\ ~ (has_int_msg[p] /\ WaitsForInt(p)))'
    BY <1>1, <1>4, <2>1 DEF InvBut, TypeOK, FieldsOK, IdleFields, WaitsForInt
  <2>5. ASSUME NEW p \in Proc \ S PROVE CountsOK(p)'
    BY <1>4, <2>1 DEF InvBut, CountsOK
  <2>6. QED
    BY <1>4, <2>1, <2>2, <2>3, <2>4, <2>5 DEF InvBut
<1>5. QED
  BY <1>1, <1>2, <1>3, <1>4, InformEffect

LEMMA InformKeepsAll ==
  ASSUME NEW S \in SUBSET Proc, InvBut({}, S), halted = "no", NEW t \in Proc, Informs(t)
  PROVE  /\ InvBut({}, S)' /\ halted' = "no"
         /\ UNCHANGED <<p_sendto, q_sending, replyFrom, sent, taken>>
         /\ \A p \in Proc : p # t \/ ~ WaitsForInt(p)
              => /\ p_flags'[p] = p_flags[p] /\ p_msg'[p] = p_msg[p]
                 /\ p_recvfrom'[p] = p_recvfrom[p]
         /\ WaitsForInt(t) => p_flags'[t] = {} /\ p_msg'[t] = Null /\ p_recvfrom'[t] = NO_TASK
<1>1. PICK R \in SUBSET Proc : R = {}
  OBVIOUS
<1>2. InvBut(R, S) /\ t \notin R
  BY <1>1
<1>3. InvBut(R, S)'
  BY <1>2, InformKeeps
<1>4. InvBut({}, S)'
  BY <1>1, <1>3
<1>5. QED
  BY <1>2, <1>4, InformKeeps

----------------------------------------------------------------------------
\* Each statement preserves the invariant

LEMMA UndisturbedLemma ==
  ASSUME WInv, Undisturbed
  PROVE  WInv'
<1> SUFFICES ASSUME halted' = "no" PROVE Between'
  BY DEF WInv
<1>1. halted = "no" /\ kcall = NoCall /\ kcall' = NoCall
  BY DEF Undisturbed, SendPanics, SendQueues, ReceiveFetches, BeginSend,
         BeginReceive, Running
<1>2. IInv
  <2>1. kcall.stage = "none"
    BY <1>1 DEF NoCall
  <2>2. Between
    BY <1>1, <2>1, StageLemma
  <2>3. QED
    BY <1>1, <2>2, BetweenLemma DEF Between
<1>3. IInv'
  <2>1. ASSUME NEW s \in Proc, NEW d \in Proc, NEW both \in BOOLEAN, SendPanics(s, d, both)
        PROVE  FALSE
    BY <2>1 DEF SendPanics, Halt
  <2>2. ASSUME NEW s \in Proc, NEW d \in Proc, NEW both \in BOOLEAN, SendQueues(s, d, both)
        PROVE  IInv'
    BY <1>2, <2>2, SendQueuesIInv
  <2>3. ASSUME NEW r \in Proc, NEW src \in Sources, ReceiveFetches(r, src)
        PROVE  IInv'
    BY <1>2, <2>3, ReceiveFetchesIInv
  <2>4. QED
    BY <2>1, <2>2, <2>3 DEF Undisturbed
<1>4. InvBut({}, {})'
  <2>1. (halted = "no" => (InvBut({}, {}) <=> IInv))'
    BY BetweenLemma, PTL
  <2>2. QED
    BY <1>3, <2>1
<1>5. QED
  BY <1>1, <1>4 DEF Between

LEMMA KeptLemma ==
  ASSUME NEW R, NEW S, InvBut(R, S), UNCHANGED vars
  PROVE  InvBut(R, S)'
<1>1. \A p : (Sending(p)' <=> Sending(p)) /\ (Receiving(p)' <=> Receiving(p))
  BY DEF vars, Sending, Receiving
<1>2. TypeOK'
  BY DEF vars, InvBut, TypeOK
<1>3. QueueMatchesSenders' /\ NoMissedRendezvous'
  BY <1>1 DEF vars, InvBut, QueueMatchesSenders, NoMissedRendezvous
<1>4. \A p \in Proc \ R : (FieldsOK(p) /\ ~ (has_int_msg[p] /\ WaitsForInt(p)))'
  BY <1>1 DEF vars, InvBut, FieldsOK, IdleFields, WaitsForInt
<1>5. \A p \in Proc \ S : CountsOK(p)'
  BY <1>1 DEF vars, InvBut, CountsOK
<1>6. QED
  BY <1>2, <1>3, <1>4, <1>5 DEF InvBut

LEMMA BlockStartLemma ==
  ASSUME WInv, NEW r \in Proc, NEW src \in Sources, BlockStart(r, src)
  PROVE  WInv'
<1>1. halted = "no" /\ kcall.stage = "none"
  BY DEF BlockStart, BeginReceive, Running, NoCall
<1>2. InvBut({}, {})
  BY <1>1, StageLemma DEF Between
<1>3. InvBut({}, {})'
  BY <1>2, KeptLemma DEF BlockStart
<1>4. BeginReceive(r, src)' /\ (Fetchable(r, src) = {})'
  BY DEF BlockStart, BeginReceive, Running, Fetchable, Sending, vars
<1>5. QED
  BY <1>3, <1>4 DEF BlockStart, WInv, InsideReceive, Chosen

LEMMA BlockFlagLemma ==
  ASSUME WInv, BlockFlag
  PROVE  WInv'
<1>1. halted = "no" /\ kcall.stage = "chosen"
  BY DEF BlockFlag, InKernel
<1>2. PICK r \in Proc, src \in Sources :
        /\ kcall = Call("chosen", r, src, FALSE) /\ InvBut({}, {})
        /\ BeginReceive(r, src) /\ Fetchable(r, src) = {}
  BY <1>1, StageLemma DEF Chosen
<1>3. /\ p_flags' = [p_flags EXCEPT ![r] = @ \cup {"RECEIVING"}]
      /\ p_msg' = [p_msg EXCEPT ![r] = Buffer]
      /\ kcall' = Call("flagged", r, src, FALSE)
      /\ UNCHANGED <<p_sendto, p_recvfrom, q_sending, has_int_msg, inbox,
                     replyFrom, sent, taken, halted>>
  BY <1>2, CallLemma DEF BlockFlag, Advance, Call
<1>4. /\ p_flags[r] = {} /\ r # src /\ IdleFields(r)
  BY <1>2 DEF BeginReceive, Running, InvBut, FieldsOK, IdleFields
<1>5. /\ p_flags'[r] = {"RECEIVING"} /\ p_msg'[r] = Buffer
      /\ \A p \in Proc \ {r} : p_flags'[p] = p_flags[p] /\ p_msg'[p] = p_msg[p]
  BY <1>2, <1>3, <1>4 DEF InvBut, TypeOK
<1>6. /\ \A p \in Proc : Sending(p)' <=> Sending(p)
      /\ \A p \in Proc \ {r} : Receiving(p)' <=> Receiving(p)
  BY <1>4, <1>5 DEF Sending, Receiving
<1>7. InvBut({r}, {})'
  <2>1. TypeOK'
    BY <1>2, <1>3 DEF InvBut, TypeOK
  <2>2. QueueMatchesSenders'
    BY <1>2, <1>3, <1>6 DEF InvBut, QueueMatchesSenders
  <2>3. NoMissedRendezvous'
    <3>1. ASSUME NEW s \in Proc PROVE p_recvfrom[r] \notin {s, ANY}
      BY <1>4, IpcAssumption DEF IdleFields
    <3>2. QED
      BY <1>2, <1>3, <1>6, <3>1 DEF InvBut, NoMissedRendezvous
  <2>4. \A p \in Proc \ {r} : (FieldsOK(p) /\ ~ (has_int_msg[p] /\ WaitsForInt(p)))'
    BY <1>2, <1>3, <1>5, <1>6 DEF InvBut, FieldsOK, IdleFields, WaitsForInt
  <2>5. \A p \in Proc : CountsOK(p)'
    BY <1>2, <1>3, <1>4, <1>5, <1>6 DEF InvBut, CountsOK, Sending
  <2>6. QED
    BY <2>1, <2>2, <2>3, <2>4, <2>5 DEF InvBut
<1>8. (Fetchable(r, src) = {})'
  BY <1>2, <1>3, <1>6 DEF Fetchable
<1>9. Blocking(r, NO_TASK)'
  BY <1>3, <1>4, <1>5 DEF Blocking, IdleFields
<1>10. Flagged'
  BY <1>3, <1>4, <1>7, <1>8, <1>9 DEF Flagged
<1>11. QED
  BY <1>10 DEF WInv, InsideReceive

LEMMA BlockFromLemma ==
  ASSUME WInv, BlockFrom
  PROVE  WInv'
<1>1. halted = "no" /\ kcall.stage = "flagged"
  BY DEF BlockFrom, InKernel
<1>2. PICK r \in Proc, src \in Sources :
        /\ kcall = Call("flagged", r, src, FALSE) /\ InvBut({r}, {})
        /\ r # src /\ Fetchable(r, src) = {} /\ Blocking(r, NO_TASK)
  BY <1>1, StageLemma DEF Flagged
<1>3. /\ p_recvfrom' = [p_recvfrom EXCEPT ![r] = src]
      /\ kcall' = Call("armed", r, src, FALSE)
      /\ UNCHANGED <<p_flags, p_sendto, p_msg, q_sending, has_int_msg, inbox,
                     replyFrom, sent, taken, halted>>
  BY <1>2, CallLemma DEF BlockFrom, Advance, Call
<1>4. p_recvfrom'[r] = src /\ \A p \in Proc \ {r} : p_recvfrom'[p] = p_recvfrom[p]
  BY <1>2, <1>3 DEF InvBut, TypeOK
<1>5. \A p \in Proc : (Sending(p)' <=> Sending(p)) /\ (Receiving(p)' <=> Receiving(p))
  BY <1>3 DEF Sending, Receiving
<1>6. InvBut({r}, {})'
  <2>1. TypeOK'
    BY <1>2, <1>3 DEF InvBut, TypeOK
  <2>2. QueueMatchesSenders'
    BY <1>2, <1>3, <1>5 DEF InvBut, QueueMatchesSenders
  <2>3. NoMissedRendezvous'
    <3>1. ASSUME NEW s \in Proc, Sending(s), p_sendto[s] = r PROVE src \notin {s, ANY}
      <4>1. src # s
        BY <1>2, <3>1, IpcAssumption DEF Fetchable
      <4>2. PICK i \in DOMAIN q_sending[r] : q_sending[r][i] = s
        BY <1>2, <3>1 DEF InvBut, QueueMatchesSenders
      <4>3. q_sending[r] # <<>>
        BY <4>2
      <4>4. src # ANY
        BY <1>2, <4>3 DEF Fetchable
      <4>5. QED
        BY <4>1, <4>4
    <3>2. QED
      BY <1>2, <1>3, <1>4, <1>5, <3>1 DEF InvBut, NoMissedRendezvous
  <2>4. \A p \in Proc \ {r} : (FieldsOK(p) /\ ~ (has_int_msg[p] /\ WaitsForInt(p)))'
    BY <1>2, <1>3, <1>4, <1>5 DEF InvBut, FieldsOK, IdleFields, WaitsForInt
  <2>5. \A p \in Proc : CountsOK(p)'
    BY <1>2, <1>3, <1>5 DEF InvBut, CountsOK
  <2>6. QED
    BY <2>1, <2>2, <2>3, <2>4, <2>5 DEF InvBut
<1>7. Blocking(r, src)'
  BY <1>2, <1>3, <1>4 DEF Blocking
<1>8. Armed'
  BY <1>2, <1>3, <1>6, <1>7 DEF Armed
<1>9. QED
  BY <1>8 DEF WInv, InsideReceive

LEMMA BlockDoneLemma ==
  ASSUME WInv, BlockDone
  PROVE  WInv'
<1> SUFFICES ASSUME halted' = "no" PROVE Between'
  BY DEF WInv
<1>1. halted = "no" /\ kcall.stage = "armed"
  BY DEF BlockDone, InKernel
<1>2. PICK r \in Proc, src \in Sources :
        /\ kcall = Call("armed", r, src, FALSE) /\ InvBut({r}, {})
        /\ r # src /\ (IdleFields(r) \/ Blocking(r, src))
  BY <1>1, StageLemma DEF Armed
<1>3. /\ BlockedAsserts(r) /\ replyFrom' = [replyFrom EXCEPT ![r] = NO_TASK] /\ kcall' = NoCall
      /\ UNCHANGED <<p_flags, p_sendto, p_recvfrom, p_msg, q_sending,
                     has_int_msg, inbox, sent, taken, halted>>
  BY <1>2, CallLemma DEF BlockDone, EndReceive, Halt
<1>4. Blocking(r, src) /\ ~ has_int_msg[r]
  BY <1>2, <1>3 DEF BlockedAsserts, IdleFields
<1>5. replyFrom'[r] = NO_TASK /\ \A p \in Proc \ {r} : replyFrom'[p] = replyFrom[p]
  BY <1>2, <1>3 DEF InvBut, TypeOK
<1>6. \A p \in Proc : (Sending(p)' <=> Sending(p)) /\ (Receiving(p)' <=> Receiving(p))
  BY <1>3 DEF Sending, Receiving
<1>7. InvBut({}, {})'
  <2>1. TypeOK'
    BY <1>2, <1>3 DEF InvBut, TypeOK
  <2>2. QueueMatchesSenders' /\ NoMissedRendezvous'
    BY <1>2, <1>3, <1>6 DEF InvBut, QueueMatchesSenders, NoMissedRendezvous
  <2>3. ASSUME NEW p \in Proc PROVE (FieldsOK(p) /\ ~ (has_int_msg[p] /\ WaitsForInt(p)))'
    <3>1. CASE p = r
      BY <1>2, <1>3, <1>4, <1>5, <3>1 DEF Blocking, FieldsOK
    <3>2. CASE p # r
      BY <1>2, <1>3, <1>5, <1>6, <3>2 DEF InvBut, FieldsOK, IdleFields, WaitsForInt
    <3>3. QED
      BY <3>1, <3>2
  <2>4. \A p \in Proc : CountsOK(p)'
    BY <1>2, <1>3, <1>6 DEF InvBut, CountsOK
  <2>5. QED
    BY <2>1, <2>2, <2>3, <2>4 DEF InvBut
<1>8. QED
  BY <1>3, <1>7 DEF Between

LEMMA DeliverStartLemma ==
  ASSUME WInv, NEW s \in Proc, NEW d \in Proc, NEW both \in BOOLEAN, DeliverStart(s, d, both)
  PROVE  WInv'
<1>1. halted = "no" /\ kcall.stage = "none"
  BY DEF DeliverStart, BeginSend, Running, NoCall
<1>2. InvBut({}, {})
  BY <1>1, StageLemma DEF Between
<1>3. InvBut({}, {})'
  BY <1>2, KeptLemma DEF DeliverStart
<1>4. BeginSend(s, d, both)' /\ WaitsFor(d, s)'
  BY DEF DeliverStart, BeginSend, Running, WaitsFor, Receiving, vars
<1>5. QED
  BY <1>3, <1>4 DEF DeliverStart, WInv, InsideSend, Matched

LEMMA DeliverAssertLemma ==
  ASSUME WInv, DeliverAssert
  PROVE  WInv'
<1> SUFFICES ASSUME halted' = "no" PROVE Matched'
  BY DEF WInv, InsideSend
<1>1. halted = "no" /\ kcall.stage = "matched"
  BY DEF DeliverAssert, InKernel
<1>2. PICK s \in Proc, d \in Proc, both \in BOOLEAN, stage \in {"matched", "checked", "aimed", "astray"} :
        /\ kcall = Call(stage, s, d, both) /\ InvBut({}, {})
        /\ BeginSend(s, d, both) /\ (WaitsFor(d, s) \/ IdleFields(d))
  BY <1>1, StageLemma DEF Matched
<1>3. kcall' = Call("checked", s, d, both) /\ UNCHANGED vars
  BY <1>2 DEF DeliverAssert, Advance, Call, Halt
<1>4. InvBut({}, {})'
  BY <1>2, <1>3, KeptLemma
<1>5. BeginSend(s, d, both)' /\ (WaitsFor(d, s) \/ IdleFields(d))'
  BY <1>2, <1>3 DEF BeginSend, Running, WaitsFor, Receiving, IdleFields, vars
<1>6. QED
  BY <1>3, <1>4, <1>5 DEF Matched

LEMMA DeliverAimLemma ==
  ASSUME WInv, DeliverAim
  PROVE  WInv'
<1>1. halted = "no" /\ kcall.stage = "checked" /\ UNCHANGED vars
  BY DEF DeliverAim, InKernel
<1>2. PICK s \in Proc, d \in Proc, both \in BOOLEAN, stage \in {"matched", "checked", "aimed", "astray"} :
        /\ kcall = Call(stage, s, d, both) /\ InvBut({}, {})
        /\ BeginSend(s, d, both) /\ (WaitsFor(d, s) \/ IdleFields(d))
  BY <1>1, StageLemma DEF Matched
<1>3. kcall' = Call("aimed", s, d, both) \/ kcall' = Call("astray", s, d, both)
  BY <1>2 DEF DeliverAim, Advance, Call
<1>4. InvBut({}, {})'
  BY <1>1, <1>2, KeptLemma
<1>5. BeginSend(s, d, both)' /\ (WaitsFor(d, s) \/ IdleFields(d))'
  BY <1>1, <1>2 DEF BeginSend, Running, WaitsFor, Receiving, IdleFields, vars
<1>6. Matched'
  BY <1>3, <1>4, <1>5 DEF Matched
<1>7. QED
  BY <1>6 DEF WInv, InsideSend

LEMMA DeliverCopyLemma ==
  ASSUME WInv, DeliverCopy
  PROVE  WInv'
<1>1. halted = "no" /\ kcall.stage \in {"aimed", "astray"}
  BY DEF DeliverCopy, InKernel
<1>2. PICK s \in Proc, d \in Proc, both \in BOOLEAN, stage \in {"matched", "checked", "aimed", "astray"} :
        /\ kcall = Call(stage, s, d, both) /\ InvBut({}, {})
        /\ BeginSend(s, d, both) /\ (WaitsFor(d, s) \/ IdleFields(d))
  BY <1>1, StageLemma DEF Matched
<1>3. /\ taken' = [taken EXCEPT ![s] = @ + 1]
      /\ inbox' = [inbox EXCEPT ![d] = NextMessage(s, d)] \/ inbox' = inbox
      /\ kcall' = Call("copied", s, d, both)
      /\ UNCHANGED <<p_flags, p_sendto, p_recvfrom, p_msg, q_sending,
                     has_int_msg, replyFrom, sent, halted>>
  <2>1. NextMessage(s, d).source = s
    BY DEF NextMessage
  <2>2. QED
    BY <1>2, <2>1, CallLemma DEF DeliverCopy, CopyTo, Advance, Call
<1>4. /\ \A p \in Proc : (Sending(p)' <=> Sending(p)) /\ (Receiving(p)' <=> Receiving(p))
      /\ ~ Sending(s)
  BY <1>2, <1>3 DEF Sending, Receiving, BeginSend, Running
<1>5. /\ taken[s] = sent[s] /\ taken'[s] = sent[s] + 1 /\ taken'[s] \in 0..MaxSends
      /\ \A p \in Proc \ {s} : taken'[p] = taken[p]
  <2>1. taken[s] = sent[s] /\ sent[s] < MaxSends
    BY <1>2, <1>4 DEF InvBut, CountsOK, BeginSend
  <2>2. sent[s] + 1 \in 0..MaxSends
    BY <1>2, <2>1, NextMessageType DEF InvBut
  <2>3. QED
    BY <1>2, <1>3, <2>1, <2>2 DEF InvBut, TypeOK
<1>6. InvBut({}, {s})'
  <2>1. TypeOK'
    <3>1. NextMessage(s, d) \in Messages
      BY <1>2, NextMessageType DEF InvBut, BeginSend
    <3>2. inbox' \in [Proc -> Messages \cup {Null, [source |-> INTERRUPT]}]
      BY <1>2, <1>3, <3>1 DEF InvBut, TypeOK
    <3>3. taken' \in [Proc -> 0..MaxSends]
      BY <1>2, <1>3, <1>5 DEF InvBut, TypeOK
    <3>4. QED
      BY <1>2, <1>3, <3>2, <3>3 DEF InvBut, TypeOK
  <2>2. QueueMatchesSenders' /\ NoMissedRendezvous'
    BY <1>2, <1>3, <1>4 DEF InvBut, QueueMatchesSenders, NoMissedRendezvous
  <2>3. \A p \in Proc : (FieldsOK(p) /\ ~ (has_int_msg[p] /\ WaitsForInt(p)))'
    BY <1>2, <1>3, <1>4 DEF InvBut, FieldsOK, IdleFields, WaitsForInt
  <2>4. \A p \in Proc \ {s} : CountsOK(p)'
    BY <1>2, <1>3, <1>4, <1>5 DEF InvBut, CountsOK
  <2>5. QED
    BY <2>1, <2>2, <2>3, <2>4 DEF InvBut
<1>7. BeginSend(s, d, both)' /\ (WaitsFor(d, s) \/ IdleFields(d))'
  BY <1>2, <1>3, <1>4 DEF BeginSend, Running, WaitsFor, IdleFields
<1>8. Copied'
  BY <1>3, <1>5, <1>6, <1>7 DEF Copied
<1>9. QED
  BY <1>8 DEF WInv, InsideSend

LEMMA DeliverUnsetLemma ==
  ASSUME WInv, DeliverUnset
  PROVE  WInv'
<1>1. halted = "no" /\ kcall.stage = "copied"
  BY DEF DeliverUnset, InKernel
<1>2. PICK s \in Proc, d \in Proc, both \in BOOLEAN :
        /\ kcall = Call("copied", s, d, both) /\ InvBut({}, {s})
        /\ BeginSend(s, d, both) /\ (WaitsFor(d, s) \/ IdleFields(d))
        /\ taken[s] = sent[s] + 1
  BY <1>1, StageLemma DEF Copied
<1>3. /\ p_msg' = [p_msg EXCEPT ![d] = Null] /\ kcall' = Call("unset", s, d, both)
      /\ UNCHANGED <<p_flags, p_sendto, p_recvfrom, q_sending, has_int_msg, inbox,
                     replyFrom, sent, taken, halted>>
  BY <1>2, CallLemma DEF DeliverUnset, Advance, Call
<1>4. s # d /\ p_flags[s] = {} /\ ~ Sending(d)
  BY <1>2 DEF BeginSend, Running, InvBut, FieldsOK, WaitsFor, IdleFields, Sending, Receiving
<1>5. p_msg'[d] = Null /\ \A p \in Proc \ {d} : p_msg'[p] = p_msg[p]
  BY <1>2, <1>3 DEF InvBut, TypeOK
<1>6. \A p \in Proc : (Sending(p)' <=> Sending(p)) /\ (Receiving(p)' <=> Receiving(p))
  BY <1>3 DEF Sending, Receiving
<1>7. InvBut({d}, {s})'
  <2>1. TypeOK'
    BY <1>2, <1>3 DEF InvBut, TypeOK
  <2>2. QueueMatchesSenders' /\ NoMissedRendezvous'
    BY <1>2, <1>3, <1>6 DEF InvBut, QueueMatchesSenders, NoMissedRendezvous
  <2>3. \A p \in Proc \ {d} : (FieldsOK(p) /\ ~ (has_int_msg[p] /\ WaitsForInt(p)))'
    BY <1>2, <1>3, <1>5, <1>6 DEF InvBut, FieldsOK, IdleFields, WaitsForInt
  <2>4. \A p \in Proc \ {s} : CountsOK(p)'
    BY <1>2, <1>3, <1>4, <1>5, <1>6 DEF InvBut, CountsOK
  <2>5. QED
    BY <2>1, <2>2, <2>3, <2>4 DEF InvBut
<1>8. (Unready(d, s) \/ IdleFields(d))'
  <2>1. CASE WaitsFor(d, s)
    <3>1. p_flags[d] = {"RECEIVING"} /\ p_sendto[d] = NO_TASK
      BY <1>2, <2>1 DEF InvBut, FieldsOK, IdleFields, WaitsFor, Receiving
    <3>2. QED
      BY <1>3, <1>5, <2>1, <3>1 DEF Unready, WaitsFor
  <2>2. CASE IdleFields(d)
    BY <1>3, <1>5, <2>2 DEF IdleFields
  <2>3. QED
    BY <1>2, <2>1, <2>2
<1>9. BeginSend(s, d, both)'
  BY <1>2, <1>3 DEF BeginSend, Running
<1>10. Unset'
  BY <1>2, <1>3, <1>7, <1>8, <1>9 DEF Unset
<1>11. QED
  BY <1>10 DEF WInv, InsideSend

LEMMA DeliverUnflagLemma ==
  ASSUME WInv, DeliverUnflag
  PROVE  WInv'
<1>1. halted = "no" /\ kcall.stage = "unset"
  BY DEF DeliverUnflag, InKernel
<1>2. PICK s \in Proc, d \in Proc, both \in BOOLEAN :
        /\ kcall = Call("unset", s, d, both) /\ InvBut({d}, {s})
        /\ BeginSend(s, d, both) /\ (Unready(d, s) \/ IdleFields(d))
        /\ taken[s] = sent[s] + 1
  BY <1>1, StageLemma DEF Unset
<1>3. /\ p_flags' = [p_flags EXCEPT ![d] = @ \ {"RECEIVING"}]
      /\ kcall' = Call("unflagged", s, d, both)
      /\ UNCHANGED <<p_sendto, p_recvfrom, p_msg, q_sending, has_int_msg, inbox,
                     replyFrom, sent, taken, halted>>
  BY <1>2, CallLemma DEF DeliverUnflag, Advance, Call
<1>4. s # d /\ p_flags[s] = {} /\ ~ Sending(d) /\ p_msg[d] = Null /\ p_sendto[d] = NO_TASK
  BY <1>2 DEF BeginSend, Running, Unready, IdleFields, Sending
<1>5. p_flags'[d] = {} /\ \A p \in Proc \ {d} : p_flags'[p] = p_flags[p]
  BY <1>2, <1>3 DEF InvBut, TypeOK, Unready, IdleFields
<1>6. /\ \A p \in Proc : Sending(p)' <=> Sending(p)
      /\ \A p \in Proc : Receiving(p)' <=> p # d /\ Receiving(p)
  BY <1>4, <1>5 DEF Sending, Receiving
<1>7. InvBut({d}, {s})'
  <2>1. TypeOK'
    BY <1>2, <1>3 DEF InvBut, TypeOK
  <2>2. QueueMatchesSenders' /\ NoMissedRendezvous'
    BY <1>2, <1>3, <1>6 DEF InvBut, QueueMatchesSenders, NoMissedRendezvous
  <2>3. \A p \in Proc \ {d} : (FieldsOK(p) /\ ~ (has_int_msg[p] /\ WaitsForInt(p)))'
    BY <1>2, <1>3, <1>5, <1>6 DEF InvBut, FieldsOK, IdleFields, WaitsForInt
  <2>4. \A p \in Proc \ {s} : CountsOK(p)'
    BY <1>2, <1>3, <1>6 DEF InvBut, CountsOK
  <2>5. QED
    BY <2>1, <2>2, <2>3, <2>4 DEF InvBut
<1>8. BeginSend(s, d, both)'
  BY <1>2, <1>3, <1>4, <1>5 DEF BeginSend, Running
<1>9. Unflagged'
  BY <1>2, <1>3, <1>4, <1>5, <1>7, <1>8 DEF Unflagged
<1>10. QED
  BY <1>9 DEF WInv, InsideSend

LEMMA DeliverDoneLemma ==
  ASSUME WInv, DeliverDone
  PROVE  WInv'
<1> SUFFICES ASSUME halted' = "no" PROVE Between'
  BY DEF WInv
<1>1. halted = "no" /\ kcall.stage = "unflagged"
  BY DEF DeliverDone, InKernel
<1>2. PICK s \in Proc, d \in Proc, both \in BOOLEAN :
        /\ kcall = Call("unflagged", s, d, both) /\ InvBut({d}, {s})
        /\ BeginSend(s, d, both)
        /\ p_flags[d] = {} /\ p_msg[d] = Null /\ p_sendto[d] = NO_TASK
        /\ taken[s] = sent[s] + 1
  BY <1>1, StageLemma DEF Unflagged
<1>3. /\ p_recvfrom' = [p_recvfrom EXCEPT ![d] = NO_TASK]
      /\ CountSend(s, d, both) /\ kcall' = NoCall
      /\ UNCHANGED <<p_flags, p_sendto, p_msg, q_sending, has_int_msg, inbox, taken, halted>>
      /\ IdleFields(s)
  BY <1>2, CallLemma DEF DeliverDone, Halt
<1>4. s # d /\ ~ Sending(s) /\ p_flags[s] = {} /\ ~ Sending(d) /\ sent[s] < MaxSends
  BY <1>2, <1>3 DEF BeginSend, Running, Sending
<1>5. /\ p_flags'[d] = {} /\ p_msg'[d] = Null /\ p_recvfrom'[d] = NO_TASK
      /\ \A p \in Proc \ {d} : p_recvfrom'[p] = p_recvfrom[p]
  BY <1>2, <1>3 DEF InvBut, TypeOK
<1>6. /\ sent'[s] = sent[s] + 1
      /\ \A p \in Proc \ {s} : sent'[p] = sent[p] /\ replyFrom'[p] = replyFrom[p]
  BY <1>2, <1>3 DEF InvBut, TypeOK, CountSend
<1>7. \A p \in Proc : (Sending(p)' <=> Sending(p)) /\ (Receiving(p)' <=> Receiving(p))
  BY <1>3 DEF Sending, Receiving
<1>8. InvBut({}, {})'
  <2>1. TypeOK'
    <3>1. sent' \in [Proc -> 0..MaxSends]
      <4>1. sent[s] + 1 \in 0..MaxSends
        BY <1>2, <1>4, NextMessageType DEF InvBut
      <4>2. QED
        BY <1>2, <1>3, <4>1 DEF InvBut, TypeOK, CountSend
    <3>2. replyFrom' \in [Proc -> Proc \cup {NO_TASK}]
      BY <1>2, <1>3 DEF InvBut, TypeOK, CountSend
    <3>3. QED
      BY <1>2, <1>3, <3>1, <3>2 DEF InvBut, TypeOK
  <2>2. QueueMatchesSenders'
    BY <1>2, <1>3, <1>7 DEF InvBut, QueueMatchesSenders
  <2>3. NoMissedRendezvous'
    BY <1>2, <1>3, <1>5, <1>7 DEF InvBut, NoMissedRendezvous, Receiving
  <2>4. ASSUME NEW p \in Proc PROVE (FieldsOK(p) /\ ~ (has_int_msg[p] /\ WaitsForInt(p)))'
    <3>1. CASE p = d
      BY <1>2, <1>3, <1>5, <3>1 DEF FieldsOK, IdleFields, WaitsForInt, Receiving
    <3>2. CASE p = s
      BY <1>3, <1>4, <1>5, <1>7, <3>2 DEF FieldsOK, IdleFields, WaitsForInt, Receiving
    <3>3. CASE p # d /\ p # s
      BY <1>2, <1>3, <1>5, <1>6, <1>7, <3>3 DEF InvBut, FieldsOK, IdleFields, WaitsForInt
    <3>4. QED
      BY <3>1, <3>2, <3>3
  <2>5. ASSUME NEW p \in Proc PROVE CountsOK(p)'
    <3>1. CASE p = s
      BY <1>2, <1>3, <1>4, <1>6, <1>7, <3>1 DEF CountsOK
    <3>2. CASE p # s
      BY <1>2, <1>3, <1>6, <1>7, <3>2 DEF InvBut, CountsOK
    <3>3. QED
      BY <3>1, <3>2
  <2>6. QED
    BY <2>1, <2>2, <2>3, <2>4, <2>5 DEF InvBut
<1>9. QED
  BY <1>3, <1>8 DEF Between

LEMMA IntCopyLemma ==
  ASSUME WInv, NEW r \in Proc, NEW src \in Sources, IntCopy(r, src)
  PROVE  WInv'
<1>1. halted = "no" /\ kcall.stage = "none"
  BY DEF IntCopy, BeginReceive, Running, NoCall
<1>2. InvBut({}, {})
  BY <1>1, StageLemma DEF Between
<1>3. /\ inbox' = [inbox EXCEPT ![r] = HardInt] /\ kcall' = Call("given", r, src, FALSE)
      /\ UNCHANGED <<p_flags, p_sendto, p_recvfrom, p_msg, q_sending, has_int_msg,
                     replyFrom, sent, taken, halted>>
  <2>1. HardInt.source \notin Proc
    BY IpcAssumption DEF HardInt
  <2>2. QED
    BY <2>1 DEF IntCopy, CopyTo
<1>4. \A p \in Proc : (Sending(p)' <=> Sending(p)) /\ (Receiving(p)' <=> Receiving(p))
  BY <1>3 DEF Sending, Receiving
<1>5. InvBut({}, {})'
  <2>1. TypeOK'
    BY <1>2, <1>3 DEF InvBut, TypeOK, HardInt
  <2>2. QueueMatchesSenders' /\ NoMissedRendezvous'
    BY <1>2, <1>3, <1>4 DEF InvBut, QueueMatchesSenders, NoMissedRendezvous
  <2>3. \A p \in Proc : (FieldsOK(p) /\ ~ (has_int_msg[p] /\ WaitsForInt(p)))'
    BY <1>2, <1>3, <1>4 DEF InvBut, FieldsOK, IdleFields, WaitsForInt
  <2>4. \A p \in Proc : CountsOK(p)'
    BY <1>2, <1>3, <1>4 DEF InvBut, CountsOK
  <2>5. QED
    BY <2>1, <2>2, <2>3, <2>4 DEF InvBut
<1>6. BeginReceive(r, src)'
  BY <1>3 DEF IntCopy, BeginReceive, Running
<1>7. Taking'
  BY <1>3, <1>5, <1>6 DEF Taking
<1>8. QED
  BY <1>7 DEF WInv, InsideReceive

LEMMA IntClearLemma ==
  ASSUME WInv, IntClear
  PROVE  WInv'
<1>1. halted = "no" /\ kcall.stage = "given"
  BY DEF IntClear, InKernel
<1>2. PICK r \in Proc, src \in Sources, stage \in {"given", "taken"} :
        /\ kcall = Call(stage, r, src, FALSE) /\ InvBut({}, {}) /\ BeginReceive(r, src)
  BY <1>1, StageLemma DEF Taking
<1>3. /\ has_int_msg' = [has_int_msg EXCEPT ![r] = FALSE] /\ kcall' = Call("taken", r, src, FALSE)
      /\ UNCHANGED <<p_flags, p_sendto, p_recvfrom, p_msg, q_sending, inbox,
                     replyFrom, sent, taken, halted>>
  BY <1>2, CallLemma DEF IntClear, Advance, Call
<1>4. \A p \in Proc : (Sending(p)' <=> Sending(p)) /\ (Receiving(p)' <=> Receiving(p))
  BY <1>3 DEF Sending, Receiving
<1>5. \A p \in Proc : has_int_msg'[p] => has_int_msg[p]
  BY <1>2, <1>3 DEF InvBut, TypeOK
<1>6. InvBut({}, {})'
  <2>1. TypeOK'
    BY <1>2, <1>3 DEF InvBut, TypeOK
  <2>2. QueueMatchesSenders' /\ NoMissedRendezvous'
    BY <1>2, <1>3, <1>4 DEF InvBut, QueueMatchesSenders, NoMissedRendezvous
  <2>3. \A p \in Proc : (FieldsOK(p) /\ ~ (has_int_msg[p] /\ WaitsForInt(p)))'
    BY <1>2, <1>3, <1>4, <1>5 DEF InvBut, FieldsOK, IdleFields, WaitsForInt
  <2>4. \A p \in Proc : CountsOK(p)'
    BY <1>2, <1>3, <1>4 DEF InvBut, CountsOK
  <2>5. QED
    BY <2>1, <2>2, <2>3, <2>4 DEF InvBut
<1>7. BeginReceive(r, src)'
  BY <1>2, <1>3 DEF BeginReceive, Running
<1>8. Taking'
  BY <1>3, <1>6, <1>7 DEF Taking
<1>9. QED
  BY <1>8 DEF WInv, InsideReceive

LEMMA IntDoneLemma ==
  ASSUME WInv, IntDone
  PROVE  WInv'
<1> SUFFICES ASSUME halted' = "no" PROVE Between'
  BY DEF WInv
<1>1. halted = "no" /\ kcall.stage = "taken"
  BY DEF IntDone, InKernel
<1>2. PICK r \in Proc, src \in Sources, stage \in {"given", "taken"} :
        /\ kcall = Call(stage, r, src, FALSE) /\ InvBut({}, {}) /\ BeginReceive(r, src)
  BY <1>1, StageLemma DEF Taking
<1>3. /\ replyFrom' = [replyFrom EXCEPT ![r] = NO_TASK] /\ kcall' = NoCall
      /\ UNCHANGED <<p_flags, p_sendto, p_recvfrom, p_msg, q_sending, has_int_msg, inbox,
                     sent, taken, halted>>
  BY <1>2, CallLemma DEF IntDone, EndReceive, Halt
<1>4. \A p \in Proc : (Sending(p)' <=> Sending(p)) /\ (Receiving(p)' <=> Receiving(p))
  BY <1>3 DEF Sending, Receiving
<1>5. \A p \in Proc : replyFrom'[p] = replyFrom[p] \/ replyFrom'[p] = NO_TASK
  BY <1>2, <1>3 DEF InvBut, TypeOK
<1>6. InvBut({}, {})'
  <2>1. TypeOK'
    BY <1>2, <1>3 DEF InvBut, TypeOK
  <2>2. QueueMatchesSenders' /\ NoMissedRendezvous'
    BY <1>2, <1>3, <1>4 DEF InvBut, QueueMatchesSenders, NoMissedRendezvous
  <2>3. \A p \in Proc : (FieldsOK(p) /\ ~ (has_int_msg[p] /\ WaitsForInt(p)))'
    BY <1>2, <1>3, <1>4, <1>5 DEF InvBut, FieldsOK, IdleFields, WaitsForInt
  <2>4. \A p \in Proc : CountsOK(p)'
    BY <1>2, <1>3, <1>4 DEF InvBut, CountsOK
  <2>5. QED
    BY <2>1, <2>2, <2>3, <2>4 DEF InvBut
<1>7. QED
  BY <1>3, <1>6 DEF Between

\* An interrupt at any moment: it may wake the receiver of the call in progress, never
\* anybody whose entry is half written.
LEMMA InterruptLemma ==
  ASSUME WInv, NEW t \in Proc, Informs(t), UNCHANGED kcall
  PROVE  WInv'
<1>1. halted = "no"
  BY DEF Informs, InformInt, InformZero
<1>2. CASE Between
  BY <1>1, <1>2, InformKeeps DEF Between, WInv
<1>3. CASE Chosen
  <2>1. PICK r \in Proc, src \in Sources :
          /\ kcall = Call("chosen", r, src, FALSE) /\ InvBut({}, {})
          /\ BeginReceive(r, src) /\ Fetchable(r, src) = {}
    BY <1>3 DEF Chosen
  <2>2. /\ InvBut({}, {})' /\ halted' = "no" /\ UNCHANGED <<p_sendto, q_sending, replyFrom>>
        /\ \A p \in Proc : Sending(p)' <=> Sending(p)
        /\ p_flags'[r] = p_flags[r]
    BY <1>1, <2>1, InformKeeps DEF BeginReceive, Running, WaitsForInt, Receiving
  <2>3. BeginReceive(r, src)' /\ (Fetchable(r, src) = {})'
    BY <2>1, <2>2 DEF BeginReceive, Running, Fetchable
  <2>4. QED
    BY <2>1, <2>2, <2>3 DEF WInv, InsideReceive, Chosen
<1>4. CASE Flagged
  <2>1. PICK r \in Proc, src \in Sources :
          /\ kcall = Call("flagged", r, src, FALSE) /\ InvBut({r}, {})
          /\ r # src /\ Fetchable(r, src) = {} /\ Blocking(r, NO_TASK)
    BY <1>4 DEF Flagged
  <2>2. ~ WaitsForInt(r)
    BY <2>1, IpcAssumption DEF Blocking, WaitsForInt
  <2>3. /\ InvBut({r}, {})' /\ halted' = "no" /\ UNCHANGED <<p_sendto, q_sending>>
        /\ \A p \in Proc : Sending(p)' <=> Sending(p)
        /\ p_flags'[r] = p_flags[r] /\ p_msg'[r] = p_msg[r] /\ p_recvfrom'[r] = p_recvfrom[r]
    <3>1. {r} \in SUBSET Proc /\ {} \in SUBSET Proc /\ ~ (t \in {r} /\ WaitsForInt(t))
      BY <2>2
    <3>2. /\ InvBut({r}, {})' /\ halted' = "no" /\ UNCHANGED <<p_sendto, q_sending>>
          /\ \A p \in Proc : Sending(p)' <=> Sending(p)
          /\ \A p \in Proc : p # t \/ ~ WaitsForInt(p)
               => /\ p_flags'[p] = p_flags[p] /\ p_msg'[p] = p_msg[p]
                  /\ p_recvfrom'[p] = p_recvfrom[p]
      BY <1>1, <2>1, <3>1, InformKeeps
    <3>3. QED
      BY <2>2, <3>2
  <2>4. Blocking(r, NO_TASK)' /\ (Fetchable(r, src) = {})'
    BY <2>1, <2>3 DEF Blocking, Fetchable
  <2>5. QED
    BY <2>1, <2>3, <2>4 DEF WInv, InsideReceive, Flagged
<1>5. CASE Armed
  <2>1. PICK r \in Proc, src \in Sources :
          /\ kcall = Call("armed", r, src, FALSE) /\ InvBut({r}, {})
          /\ r # src /\ (IdleFields(r) \/ Blocking(r, src))
    BY <1>5 DEF Armed
  <2>2. WaitsForInt(r) => p_flags[r] = {"RECEIVING"} /\ p_sendto[r] = NO_TASK
    BY <2>1 DEF WaitsForInt, Receiving, IdleFields, Blocking
  <2>3. /\ InvBut({r}, {})' /\ halted' = "no" /\ p_sendto' = p_sendto
        /\ r # t \/ ~ WaitsForInt(r)
             => /\ p_flags'[r] = p_flags[r] /\ p_msg'[r] = p_msg[r]
                /\ p_recvfrom'[r] = p_recvfrom[r]
        /\ r = t /\ WaitsForInt(r)
             => p_flags'[r] = {} /\ p_msg'[r] = Null /\ p_recvfrom'[r] = NO_TASK
    <3>1. /\ {r} \in SUBSET Proc /\ {} \in SUBSET Proc
          /\ t \in {r} /\ WaitsForInt(t) => p_flags[t] = {"RECEIVING"} /\ p_sendto[t] = NO_TASK
      BY <2>2
    <3>2. /\ InvBut({r}, {})' /\ halted' = "no" /\ p_sendto' = p_sendto
          /\ \A p \in Proc : p # t \/ ~ WaitsForInt(p)
               => /\ p_flags'[p] = p_flags[p] /\ p_msg'[p] = p_msg[p]
                  /\ p_recvfrom'[p] = p_recvfrom[p]
          /\ WaitsForInt(t) => p_flags'[t] = {} /\ p_msg'[t] = Null /\ p_recvfrom'[t] = NO_TASK
      BY <1>1, <2>1, <3>1, InformKeeps
    <3>3. QED
      BY <3>2
  <2>4. (IdleFields(r) \/ Blocking(r, src))'
    BY <2>1, <2>2, <2>3 DEF IdleFields, Blocking
  <2>5. QED
    BY <2>1, <2>3, <2>4 DEF WInv, InsideReceive, Armed
<1>6. ASSUME NEW s \in Proc, NEW d \in Proc, NEW both \in BOOLEAN, NEW S \in SUBSET Proc,
             InvBut({}, S), BeginSend(s, d, both), WaitsFor(d, s) \/ IdleFields(d)
      PROVE  /\ InvBut({}, S)' /\ BeginSend(s, d, both)' /\ (WaitsFor(d, s) \/ IdleFields(d))'
             /\ UNCHANGED <<sent, taken>>
  <2>1. /\ InvBut({}, S)' /\ halted' = "no"
        /\ UNCHANGED <<p_sendto, q_sending, replyFrom, sent, taken>>
        /\ p_flags'[s] = p_flags[s]
        /\ d # t \/ ~ WaitsForInt(d)
             => /\ p_flags'[d] = p_flags[d] /\ p_msg'[d] = p_msg[d]
                /\ p_recvfrom'[d] = p_recvfrom[d]
        /\ d = t /\ WaitsForInt(d)
             => p_flags'[d] = {} /\ p_msg'[d] = Null /\ p_recvfrom'[d] = NO_TASK
    <3>1. /\ InvBut({}, S)' /\ halted' = "no"
          /\ UNCHANGED <<p_sendto, q_sending, replyFrom, sent, taken>>
          /\ \A p \in Proc : p # t \/ ~ WaitsForInt(p)
               => /\ p_flags'[p] = p_flags[p] /\ p_msg'[p] = p_msg[p]
                  /\ p_recvfrom'[p] = p_recvfrom[p]
          /\ WaitsForInt(t) => p_flags'[t] = {} /\ p_msg'[t] = Null /\ p_recvfrom'[t] = NO_TASK
      BY <1>1, <1>6, InformKeepsAll
    <3>2. ~ WaitsForInt(s)
      BY <1>6 DEF BeginSend, Running, WaitsForInt, Receiving
    <3>3. QED
      BY <3>1, <3>2
  <2>2. BeginSend(s, d, both)'
    BY <1>6, <2>1 DEF BeginSend, Running
  <2>3. (WaitsFor(d, s) \/ IdleFields(d))'
    <3>1. WaitsForInt(d) => p_sendto[d] = NO_TASK
      BY <1>6 DEF InvBut, FieldsOK, IdleFields, WaitsForInt, Receiving
    <3>2. QED
      BY <1>6, <2>1, <3>1 DEF WaitsFor, IdleFields, Receiving
  <2>4. QED
    BY <2>1, <2>2, <2>3
<1>7. CASE Matched
  <2>1. PICK s \in Proc, d \in Proc, both \in BOOLEAN, stage \in {"matched", "checked", "aimed", "astray"} :
          /\ kcall = Call(stage, s, d, both) /\ InvBut({}, {})
          /\ BeginSend(s, d, both) /\ (WaitsFor(d, s) \/ IdleFields(d))
    BY <1>7 DEF Matched
  <2>2. InvBut({}, {})' /\ BeginSend(s, d, both)' /\ (WaitsFor(d, s) \/ IdleFields(d))'
    BY <1>6, <2>1
  <2>3. Matched'
    BY <2>1, <2>2 DEF Matched
  <2>4. QED
    BY <2>3 DEF WInv, InsideSend
<1>8. CASE Copied
  <2>1. PICK s \in Proc, d \in Proc, both \in BOOLEAN :
          /\ kcall = Call("copied", s, d, both) /\ InvBut({}, {s})
          /\ BeginSend(s, d, both) /\ (WaitsFor(d, s) \/ IdleFields(d))
          /\ taken[s] = sent[s] + 1
    BY <1>8 DEF Copied
  <2>2. /\ InvBut({}, {s})' /\ BeginSend(s, d, both)' /\ (WaitsFor(d, s) \/ IdleFields(d))'
        /\ UNCHANGED <<sent, taken>>
    BY <1>6, <2>1
  <2>3. Copied'
    BY <2>1, <2>2 DEF Copied
  <2>4. QED
    BY <2>3 DEF WInv, InsideSend
<1>9. CASE Taking
  <2>1. PICK r \in Proc, src \in Sources, stage \in {"given", "taken"} :
          /\ kcall = Call(stage, r, src, FALSE) /\ InvBut({}, {}) /\ BeginReceive(r, src)
    BY <1>9 DEF Taking
  <2>2. /\ InvBut({}, {})' /\ halted' = "no" /\ replyFrom' = replyFrom
        /\ p_flags'[r] = p_flags[r]
    BY <1>1, <2>1, InformKeeps DEF BeginReceive, Running, WaitsForInt, Receiving
  <2>3. BeginReceive(r, src)'
    BY <2>1, <2>2 DEF BeginReceive, Running
  <2>4. QED
    BY <2>1, <2>2, <2>3 DEF WInv, InsideReceive, Taking
<1>10. ASSUME NEW s \in Proc, NEW d \in Proc, NEW both \in BOOLEAN,
              InvBut({d}, {s}), BeginSend(s, d, both), taken[s] = sent[s] + 1,
              WaitsForInt(d) => p_flags[d] = {"RECEIVING"} /\ p_sendto[d] = NO_TASK
       PROVE  /\ InvBut({d}, {s})' /\ BeginSend(s, d, both)' /\ taken'[s] = sent'[s] + 1
              /\ p_sendto' = p_sendto
              /\ d # t \/ ~ WaitsForInt(d)
                   => /\ p_flags'[d] = p_flags[d] /\ p_msg'[d] = p_msg[d]
                      /\ p_recvfrom'[d] = p_recvfrom[d]
              /\ d = t /\ WaitsForInt(d)
                   => p_flags'[d] = {} /\ p_msg'[d] = Null /\ p_recvfrom'[d] = NO_TASK
  <2>1. /\ {d} \in SUBSET Proc /\ {s} \in SUBSET Proc
        /\ t \in {d} /\ WaitsForInt(t) => p_flags[t] = {"RECEIVING"} /\ p_sendto[t] = NO_TASK
    BY <1>10
  <2>2. /\ InvBut({d}, {s})' /\ halted' = "no"
        /\ UNCHANGED <<p_sendto, q_sending, replyFrom, sent, taken>>
        /\ \A p \in Proc : p # t \/ ~ WaitsForInt(p)
             => /\ p_flags'[p] = p_flags[p] /\ p_msg'[p] = p_msg[p]
                /\ p_recvfrom'[p] = p_recvfrom[p]
        /\ WaitsForInt(t) => p_flags'[t] = {} /\ p_msg'[t] = Null /\ p_recvfrom'[t] = NO_TASK
    BY <1>1, <1>10, <2>1, InformKeeps
  <2>3. ~ WaitsForInt(s)
    BY <1>10 DEF BeginSend, Running, WaitsForInt, Receiving
  <2>4. BeginSend(s, d, both)'
    BY <1>10, <2>2, <2>3 DEF BeginSend, Running
  <2>5. QED
    BY <1>10, <2>2, <2>4
<1>11. CASE Unset
  <2>1. PICK s \in Proc, d \in Proc, both \in BOOLEAN :
          /\ kcall = Call("unset", s, d, both) /\ InvBut({d}, {s})
          /\ BeginSend(s, d, both) /\ (Unready(d, s) \/ IdleFields(d))
          /\ taken[s] = sent[s] + 1
    BY <1>11 DEF Unset
  <2>2. WaitsForInt(d) => p_flags[d] = {"RECEIVING"} /\ p_sendto[d] = NO_TASK
    BY <2>1 DEF Unready, IdleFields, WaitsForInt, Receiving
  <2>3. /\ InvBut({d}, {s})' /\ BeginSend(s, d, both)' /\ taken'[s] = sent'[s] + 1
        /\ p_sendto' = p_sendto
        /\ d # t \/ ~ WaitsForInt(d)
             => /\ p_flags'[d] = p_flags[d] /\ p_msg'[d] = p_msg[d]
                /\ p_recvfrom'[d] = p_recvfrom[d]
        /\ d = t /\ WaitsForInt(d)
             => p_flags'[d] = {} /\ p_msg'[d] = Null /\ p_recvfrom'[d] = NO_TASK
    BY <1>10, <2>1, <2>2
  <2>4. (Unready(d, s) \/ IdleFields(d))'
    BY <2>1, <2>2, <2>3 DEF Unready, IdleFields
  <2>5. Unset'
    BY <2>1, <2>3, <2>4 DEF Unset
  <2>6. QED
    BY <2>5 DEF WInv, InsideSend
<1>12. CASE Unflagged
  <2>1. PICK s \in Proc, d \in Proc, both \in BOOLEAN :
          /\ kcall = Call("unflagged", s, d, both) /\ InvBut({d}, {s})
          /\ BeginSend(s, d, both)
          /\ p_flags[d] = {} /\ p_msg[d] = Null /\ p_sendto[d] = NO_TASK
          /\ taken[s] = sent[s] + 1
    BY <1>12 DEF Unflagged
  <2>2. ~ WaitsForInt(d)
    BY <2>1 DEF WaitsForInt, Receiving
  <2>3. /\ InvBut({d}, {s})' /\ BeginSend(s, d, both)' /\ taken'[s] = sent'[s] + 1
        /\ p_sendto' = p_sendto /\ p_flags'[d] = p_flags[d] /\ p_msg'[d] = p_msg[d]
    BY <1>10, <2>1, <2>2
  <2>4. Unflagged'
    BY <2>1, <2>3 DEF Unflagged
  <2>5. QED
    BY <2>4 DEF WInv, InsideSend
<1>13. QED
  BY <1>1, <1>2, <1>3, <1>4, <1>5, <1>7, <1>8, <1>9, <1>11, <1>12
     DEF WInv, InsideReceive, InsideSend

----------------------------------------------------------------------------
\* The theorems

LEMMA WInitLemma == WInit => WInv
<1> SUFFICES ASSUME WInit PROVE WInv
  OBVIOUS
<1>1. IInv /\ halted = "no"
  BY InitIInv DEF WInit, Init
<1>2. InvBut({}, {})
  BY <1>1, BetweenLemma
<1>3. QED
  BY <1>2 DEF WInit, WInv, Between

\* A stuttering step keeps what holds of the call in progress.
LEMMA WStutterLemma ==
  ASSUME WInv, UNCHANGED wvars
  PROVE  WInv'
<1>1. SUFFICES ASSUME halted' = "no" PROVE (Between \/ InsideReceive \/ InsideSend)'
  BY DEF WInv
<1>2. UNCHANGED vars /\ kcall' = kcall /\ halted = "no"
  BY <1>1 DEF wvars, vars
<1>3. \A R, S : InvBut(R, S) => InvBut(R, S)'
  BY <1>2, KeptLemma
<1>4. /\ \A r \in Proc, src \in Sources : BeginReceive(r, src) => BeginReceive(r, src)'
      /\ \A r \in Proc, src \in Sources : Fetchable(r, src)' = Fetchable(r, src)
      /\ \A r \in Proc, from \in Sources \cup {NO_TASK} : Blocking(r, from) => Blocking(r, from)'
  BY <1>2 DEF vars, BeginReceive, Running, Fetchable, Sending, Blocking
<1>5. /\ \A s, d \in Proc, both \in BOOLEAN : BeginSend(s, d, both) => BeginSend(s, d, both)'
      /\ \A s, d \in Proc : (WaitsFor(d, s) => WaitsFor(d, s)') /\ (Unready(d, s) => Unready(d, s)')
      /\ \A p \in Proc : IdleFields(p) => IdleFields(p)'
  BY <1>2 DEF vars, BeginSend, Running, WaitsFor, Receiving, Unready, IdleFields
<1>6. UNCHANGED <<p_flags, p_msg, p_sendto, taken, sent, kcall>>
  BY <1>2 DEF vars
<1>7. CASE Between
  BY <1>3, <1>6, <1>7 DEF Between
<1>8. CASE InsideReceive
  <2>1. Taking => Taking'
    BY <1>3, <1>4, <1>6 DEF Taking
  <2>2. Chosen => Chosen'
    BY <1>3, <1>4, <1>6 DEF Chosen
  <2>3. Flagged => Flagged'
    BY <1>3, <1>4, <1>6 DEF Flagged
  <2>4. Armed => Armed'
    BY <1>3, <1>4, <1>5, <1>6 DEF Armed
  <2>5. QED
    BY <1>8, <2>1, <2>2, <2>3, <2>4 DEF InsideReceive
<1>9. CASE InsideSend
  <2>1. Matched => Matched'
    BY <1>3, <1>5, <1>6 DEF Matched
  <2>2. Copied => Copied'
    BY <1>3, <1>5, <1>6 DEF Copied
  <2>3. Unset => Unset'
    BY <1>3, <1>5, <1>6 DEF Unset
  <2>4. Unflagged => Unflagged'
    BY <1>3, <1>5, <1>6 DEF Unflagged
  <2>5. QED
    BY <1>9, <2>1, <2>2, <2>3, <2>4 DEF InsideSend
<1>10. QED
  BY <1>2, <1>7, <1>8, <1>9 DEF WInv

LEMMA WNextLemma == WInv /\ [WNext]_wvars => WInv'
<1> SUFFICES ASSUME WInv, [WNext]_wvars PROVE WInv'
  OBVIOUS
<1>1. ASSUME NEW t \in IntTask, Interrupt(t) PROVE WInv'
  BY <1>1, InterruptLemma, IpcAssumption DEF Interrupt, Informs
<1>2. QED
  BY <1>1, WStutterLemma, UndisturbedLemma, IntCopyLemma, IntClearLemma, IntDoneLemma,
     BlockStartLemma, BlockFlagLemma, BlockFromLemma, BlockDoneLemma, DeliverStartLemma,
     DeliverAssertLemma, DeliverAimLemma, DeliverCopyLemma, DeliverUnsetLemma,
     DeliverUnflagLemma, DeliverDoneLemma DEF WNext

\* Every step keeps account of the interrupts a task was not told of.
LEMMA ToldLemma ==
  ASSUME WInv, Told, [WNext]_wvars
  PROVE  Told'
<1> SUFFICES ASSUME halted' = "no"
             PROVE  (owed \subseteq Proc /\ \A t \in owed \ dropped : has_int_msg[t])'
  BY DEF Told
<1> USE DEF Tell, Owe, Drop, ghosts
<1>1. halted = "no"
  BY DEF WNext, wvars, vars, Undisturbed, SendPanics, SendQueues, ReceiveFetches, IntCopy,
         IntClear, IntDone, BlockStart, BlockFlag, BlockFrom, BlockDone, DeliverStart,
         DeliverAssert, DeliverAim, DeliverCopy, DeliverUnset, DeliverUnflag, DeliverDone,
         Interrupt, InformZero, InformInt, BeginSend, BeginReceive, Running, InKernel
<1>2. /\ owed \subseteq Proc /\ \A t \in owed \ dropped : has_int_msg[t]
      /\ has_int_msg \in [Proc -> BOOLEAN]
  BY <1>1, WTypeLemma DEF Told, TypeOK
<1>3. CASE UNCHANGED <<has_int_msg, ghosts>>
  BY <1>2, <1>3
<1>4. CASE UNCHANGED wvars \/ Undisturbed
  <2>1. Undisturbed => UNCHANGED <<has_int_msg, ghosts>>
    BY DEF Undisturbed, SendPanics, SendQueues, ReceiveFetches, Halt
  <2>2. QED
    BY <1>3, <1>4, <2>1 DEF wvars, vars
<1>5. CASE IntClear
  <2>1. /\ has_int_msg' = [has_int_msg EXCEPT ![kcall.who] = FALSE]
        /\ owed' = owed \ {kcall.who} /\ dropped' = dropped \ {kcall.who}
    BY <1>5 DEF IntClear
  <2>2. QED
    BY <1>2, <2>1
<1>6. CASE (\E r \in Proc, src \in Sources : IntCopy(r, src) \/ BlockStart(r, src))
           \/ IntDone \/ BlockFlag \/ BlockFrom \/ BlockDone
  <2>1. UNCHANGED <<has_int_msg, ghosts>>
    BY <1>6 DEF vars, IntCopy, BlockStart, IntDone, BlockFlag, BlockFrom, BlockDone, Halt
  <2>2. QED
    BY <1>3, <2>1
<1>7. CASE (\E s, d \in Proc, both \in BOOLEAN : DeliverStart(s, d, both))
           \/ DeliverAssert \/ DeliverAim \/ DeliverUnset \/ DeliverUnflag \/ DeliverDone
  <2>1. UNCHANGED <<has_int_msg, ghosts>>
    BY <1>7 DEF vars, DeliverStart, DeliverAssert, DeliverAim, DeliverUnset, DeliverUnflag,
                DeliverDone, Halt
  <2>2. QED
    BY <1>3, <2>1
<1>8. CASE DeliverCopy
  <2>1. /\ has_int_msg' = has_int_msg
        /\ \/ owed' = owed \cup {kcall.other} /\ dropped' = dropped \cup {kcall.other}
           \/ owed' = owed /\ dropped' = dropped
    BY <1>8 DEF DeliverCopy
  <2>2. kcall.other \in Proc
    <3>1. kcall.stage \in {"aimed", "astray"}
      BY <1>8 DEF DeliverCopy, InKernel
    <3>2. Matched
      BY <1>1, <3>1, StageLemma
    <3>3. QED
      BY <3>2, CallLemma DEF Matched
  <2>3. QED
    BY <1>2, <2>1, <2>2
<1>9. ASSUME NEW t \in IntTask, Interrupt(t)
      PROVE  (owed \subseteq Proc /\ \A u \in owed \ dropped : has_int_msg[u])'
  <2>1. t \in Proc
    BY IpcAssumption
  <2>2. CASE InformZero(t)
    <3>1. /\ has_int_msg' = [has_int_msg EXCEPT ![t] = FALSE]
          /\ owed' = owed \cup {t} /\ dropped' = dropped \cup {t}
      BY <1>1, <2>2 DEF InformZero, Halt
    <3>2. QED
      BY <1>2, <2>1, <3>1
  <2>3. CASE InformInt(t) /\ WaitsForInt(t) /\ Tell(t)
    <3>1. /\ has_int_msg' = [has_int_msg EXCEPT ![t] = FALSE]
          /\ owed' = owed \ {t} /\ dropped' = dropped \ {t}
      BY <1>1, <2>3 DEF InformInt, Halt
    <3>2. QED
      BY <1>2, <2>1, <3>1
  <2>4. CASE InformInt(t) /\ ~ WaitsForInt(t) /\ Owe(t)
    <3>1. /\ has_int_msg' = [has_int_msg EXCEPT ![t] = TRUE]
          /\ owed' = owed \cup {t} /\ dropped' = dropped \ {t}
      BY <2>4 DEF InformInt
    <3>2. QED
      BY <1>2, <2>1, <3>1
  <2>5. QED
    BY <1>9, <2>2, <2>3, <2>4 DEF Interrupt
<1>10. QED
  BY <1>4, <1>5, <1>6, <1>7, <1>8, <1>9 DEF WNext

\* Whatever the statements between which interrupts come, the entries of proc_table are
\* sound but for that of the process a half done call is blocking or waking.
THEOREM WindowInvariant == WSpec => []WInv
BY WInitLemma, WNextLemma, PTL DEF WSpec

\* Interrupts between the statements of msg_send and msg_receive (kernel/proc.c) leave
\* the table whole whenever no call is half done, overlook no sender and leave no
\* interrupt latched for a task that sleeps waiting for it.
THEOREM WindowTable == WSpec => []WindowKeepsTheTable
<1>1. WInv => WindowKeepsTheTable
  <2>1. ASSUME WInv, halted = "no", kcall = NoCall
        PROVE  FieldsMatchFlags /\ QueueMatchesSenders /\ NoLostInterrupt
    <3>1. kcall.stage = "none"
      BY <2>1 DEF NoCall
    <3>2. IInv
      BY <2>1, <3>1, StageLemma, BetweenLemma DEF Between
    <3>3. QED
      BY <3>2 DEF IInv
  <2>2. ASSUME WInv, halted = "no"
        PROVE  NoMissedRendezvous
    BY <2>2 DEF WInv, InsideReceive, InsideSend, Between, Taking, Chosen, Flagged, Armed,
                Matched, Copied, Unset, Unflagged, InvBut
  <2>3. QED
    BY <2>1, <2>2 DEF WindowKeepsTheTable
<1>2. QED
  BY <1>1, WindowInvariant, PTL

\* A task never sleeps through an interrupt, but one whose HARD_INT fell into one of the
\* two windows of msg_send (kernel/proc.c:275 and 278-279).
THEOREM WindowTells == WSpec => []InterruptsAreTold
<1>1. WInit => Told
  BY DEF WInit, Told
<1>2. WInv /\ Told => InterruptsAreTold
  <2>1. SUFFICES ASSUME WInv, Told, halted = "no", kcall = NoCall, NEW t \in owed \ dropped,
                        WaitsForInt(t)
                 PROVE  FALSE
    BY DEF InterruptsAreTold
  <2>2. t \in Proc /\ has_int_msg[t]
    BY <2>1 DEF Told
  <2>3. kcall.stage = "none"
    BY <2>1 DEF NoCall
  <2>4. InvBut({}, {})
    BY <2>1, <2>3, StageLemma DEF Between
  <2>5. QED
    BY <2>1, <2>2, <2>4 DEF InvBut
<1>3. QED
  BY <1>1, <1>2, ToldLemma, WindowInvariant, PTL DEF WSpec

\* Both, of the calls with interrupts between their statements (kernel/proc.c:247-508).
THEOREM WindowHolds == WSpec => []WindowIsSound
<1>1. WindowKeepsTheTable /\ InterruptsAreTold => WindowIsSound
  BY DEF WindowIsSound
<1>2. QED
  BY <1>1, WindowTable, WindowTells, PTL
=============================================================================
