--------------------------- MODULE ForkExitProofs ---------------------------
(***************************************************************************)
(* Proofs about the birth and death of processes, for every set of entries,  *)
(* descriptors and statuses, and every number of shells.                    *)
(***************************************************************************)
EXTENDS ForkExit, FiniteSetTheorems, WellFoundedInduction, TLAPS

Requests == Calls \ {NoCall, Failed}
Exits == [type : {"EXIT"}, STATUS : Status]

\* The entry p as MM leaves it.
Free(p)    == p_flags[p] = {"FREE_SLOT"} /\ filp[p] = {} /\ p # INIT
AtWork(p)  == p_flags[p] = {} /\ call[p] \in {NoCall, Failed}
Queued(p)  == p_flags[p] = {"SENDING"} /\ call[p] \in Requests
Waiting(p) == p_flags[p] \ {"RECEIVING"} = {"WAITING"} /\ call[p] = WaitCall
Hanging(p) == /\ p_flags[p] \ {"RECEIVING"} = {"HANGING"} /\ filp[p] = {}
              /\ call[p] \in Exits /\ exit_status[p] = call[p].STATUS
InHand(p)  == p_flags[p] \subseteq {"RECEIVING"} /\ call[p] \in Requests
ClientOK(p) ==
  /\ Free(p) \/ AtWork(p) \/ Queued(p) \/ Waiting(p) \/ Hanging(p) \/ InHand(p)
  /\ InUse(p) /\ p # INIT => p_parent[p] \in Proc
  /\ InUse(p) /\ call[p] \notin Exits /\ ~(At("fork memory") /\ mm.child = p)
       => mem[p] = "own"

\* INIT has no parent and does not exit.
InitOK == p_parent[INIT] = NO_TASK /\ call[INIT] \notin Exits

\* Nobody is twice in MM's queue.
QueueOK ==
  /\ q_sending \in Seq(Proc)
  /\ \A i, j \in 1..Len(q_sending) : q_sending[i] = q_sending[j] => i = j

\* p is in the call, its request taken, and blocked at most in its RECEIVE.
Served(p, S) == p \in Proc /\ call[p] \in S /\ p_flags[p] \subseteq {"RECEIVING"}

\* The process that has ended, and where MM goes after its end is reported.
Ended(c) == /\ c \in Slots /\ call[c] \in Exits /\ filp[c] = {}
            /\ exit_status[c] = call[c].STATUS
            /\ p_flags[c] \ {"RECEIVING"} \subseteq {"HANGING"}
After == {Receiving} \cup [at : {"orphans"}, src : Slots]

\* What MM may be sending.
SendsBirth ==
  \E p \in Proc :
    /\ mm = SendTo(mm.to, [RETVAL |-> "0", PID |-> 0],
                   SendTo(p, [RETVAL |-> "0", PID |-> mm.to], Receiving))
    /\ Served(mm.to, {ForkCall}) /\ Served(p, {ForkCall}) /\ mm.to # p
SendsReply ==
  /\ mm = SendTo(mm.to, mm.msg, Receiving)
  /\ mm.msg \in {[RETVAL |-> "-1"]} \cup [RETVAL : {"0"}, PID : Proc]
  /\ Served(mm.to, {ForkCall})
SendsNoChild ==
  /\ mm = SendTo(mm.to, [PID |-> NO_TASK], Receiving)
  /\ Served(mm.to, {WaitCall}) /\ Children(mm.to) = {}
SendsReport ==
  \E c \in Slots, next \in After :
    /\ Ended(c) /\ p_parent[c] = mm.to /\ c \notin told /\ Served(mm.to, {WaitCall})
    /\ mm = SendTo(mm.to, [PID |-> c, STATUS |-> call[c].STATUS],
                   [at |-> "free slot", child |-> c, next |-> next])

\* MM's locals, and the clients it has in hand, at each of its statements.
MmOK ==
  /\ mm.at \in {"receive", "FORK", "EXIT", "WAIT", "fork memory", "fork fs", "send",
                "exit memory", "free slot", "orphans"}
  /\ At("receive") => mm = Receiving
  /\ At("FORK") => mm = [at |-> "FORK", src |-> mm.src] /\ Served(mm.src, {ForkCall})
  /\ At("WAIT") => mm = [at |-> "WAIT", src |-> mm.src] /\ Served(mm.src, {WaitCall})
  /\ At("EXIT") => /\ mm = [at |-> "EXIT", src |-> mm.src]
                   /\ Served(mm.src, Exits) /\ mm.src # INIT
  /\ At("exit memory") => /\ mm = [at |-> "exit memory", src |-> mm.src]
                          /\ Served(mm.src, Exits) /\ mm.src # INIT /\ filp[mm.src] = {}
  /\ mm.at \in {"fork memory", "fork fs"} =>
       /\ mm = [at |-> mm.at, src |-> mm.src, child |-> mm.child]
       /\ Served(mm.src, {ForkCall}) /\ Served(mm.child, {ForkCall})
       /\ mm.child \in Slots /\ mm.child # mm.src
  /\ At("send") => SendsBirth \/ SendsReply \/ SendsNoChild \/ SendsReport
  /\ At("free slot") => /\ mm = [at |-> "free slot", child |-> mm.child, next |-> mm.next]
                        /\ Ended(mm.child) /\ mm.next \in After
  /\ At("orphans") => mm = [at |-> "orphans", src |-> mm.src] /\ mm.src \in Slots

\* Whose end was reported is free, or about to be.
ToldOK == \A c \in told : Free(c) \/ (At("free slot") /\ mm.child = c)

DescriptorsOK ==
  \A d \in Desc : fd_cnt[d] = Cardinality({p \in Proc : d \in filp[p] /\ ~Forking(p)})

\* The inductive invariant.
IInv == /\ TypeOK /\ (\A p \in Proc : ClientOK(p)) /\ InitOK /\ QueueOK /\ MmOK
        /\ ToldOK /\ DescriptorsOK /\ NoUnheardZombie

----------------------------------------------------------------------------
\* Lemmas

\* A set of numbers that is not empty has a least one: the scans of proc_table find it.
LEMMA MinLemma ==
  ASSUME NEW S \in SUBSET Nat, S # {}
  PROVE  Min(S) \in S
<1> DEFINE R == OpToRel(<, Nat)
<1>1. R = {r \in Nat \X Nat : r[1] < r[2]}
  BY DEF OpToRel
<1>2. IsWellFoundedOn(R, Nat)
  BY NatLessThanWellFounded
<1> HIDE DEF R
<1>3. PICK x \in S : \A y \in S : ~ (<<y, x>> \in R)
  BY <1>2, WFMin
<1>4. ASSUME NEW y \in S PROVE x <= y
  <2>1. ~ (y < x)
    BY <1>1, <1>3
  <2>2. QED
    BY <2>1
<1>5. QED
  BY <1>4 DEF Min

LEMMA FiniteProc == IsFiniteSet(Proc) /\ Proc \subseteq Nat
  BY ForkExitAssumption, FS_AddElement DEF Proc, INIT

LEMMA StartLemma == Init => IInv
<1> SUFFICES ASSUME Init PROVE IInv
  OBVIOUS
<1>1. TypeOK
  BY ForkExitAssumption DEF Init, TypeOK, Calls, Flags, Proc
<1>2. \A p \in Proc : ClientOK(p)
  BY DEF Init, ClientOK, Free, AtWork, InUse, Proc, At, Receiving
<1>3. InitOK /\ QueueOK /\ ToldOK
  BY DEF Init, InitOK, QueueOK, ToldOK, Proc, Exits, NoCall
<1>4. MmOK
  BY DEF Init, MmOK, At, Receiving
<1>5. DescriptorsOK
  <2>1. \A d \in Desc : {p \in Proc : d \in filp[p] /\ ~Forking(p)} = {INIT}
    BY DEF Init, Forking, Receiving, Proc
  <2>2. QED
    BY <2>1, FS_Singleton DEF Init, DescriptorsOK
<1>6. NoUnheardZombie
  BY DEF Init, NoUnheardZombie, Zombies, Children
<1>7. QED
  BY <1>1, <1>2, <1>3, <1>4, <1>5, <1>6 DEF IInv

\* The calls of the library are told apart by their type.
LEMMA RequestsLemma ==
  /\ ForkCall \in Requests /\ WaitCall \in Requests /\ Exits \subseteq Requests
  /\ ForkCall # WaitCall /\ ForkCall \notin Exits /\ WaitCall \notin Exits
  /\ NoCall \notin Exits /\ Failed \notin Exits
  /\ Requests = {ForkCall, WaitCall} \cup Exits /\ NoCall # Failed
<1>1. /\ NoCall.type = "none" /\ Failed.type = "assertion failed"
      /\ ForkCall.type = "FORK" /\ WaitCall.type = "WAIT"
  BY DEF NoCall, Failed, ForkCall, WaitCall
<1>2. \A e \in Exits : e.type = "EXIT"
  BY DEF Exits
<1>3. ForkCall \in Calls /\ WaitCall \in Calls /\ Exits \subseteq Calls
  BY DEF Calls, Exits
<1>4. QED
  BY <1>1, <1>2, <1>3 DEF Requests, Calls, Exits

\* A step that leaves MM alone, and the clients whose requests MM has taken but for
\* their RECEIVE, leaves MM's business as it is.
LEMMA HoldLemma ==
  ASSUME IInv, UNCHANGED <<clientVars, mm, told>>,
         \A q \in Proc : call[q] \in Requests =>
            call'[q] = call[q] /\ (p_flags[q] \subseteq {"RECEIVING", "HANGING"}
                                   => p_flags'[q] \subseteq p_flags[q] \cup {"RECEIVING"})
  PROVE  MmOK'
<1> USE DEF clientVars
<1>1. \A c : Ended(c) => Ended(c)' /\ call'[c] = call[c]
  <2>1. \A c : Ended(c) => c \in Proc /\ call[c] \in Requests
    BY RequestsLemma DEF Ended, Proc
  <2>2. QED
    BY <2>1 DEF Ended
<1>2. /\ \A q : Served(q, {ForkCall}) => Served(q, {ForkCall})'
      /\ \A q : Served(q, {WaitCall}) => Served(q, {WaitCall})'
      /\ \A q : Served(q, Exits) => Served(q, Exits)'
  BY RequestsLemma DEF Served
<1>3. MmOK
  BY DEF IInv
<1>4. At("send")' => (SendsBirth \/ SendsReply \/ SendsNoChild \/ SendsReport)'
  <2>1. SendsBirth => SendsBirth'
    BY <1>2 DEF SendsBirth
  <2>2. SendsReply => SendsReply'
    BY <1>2 DEF SendsReply
  <2>3. SendsNoChild => SendsNoChild'
    BY <1>2 DEF SendsNoChild, Children
  <2>4. SendsReport => SendsReport'
    BY <1>1, <1>2 DEF SendsReport
  <2>5. QED
    BY <1>3, <2>1, <2>2, <2>3, <2>4 DEF MmOK, At
<1>5. At("free slot")' => /\ mm' = [at |-> "free slot", child |-> mm'.child, next |-> mm'.next]
                          /\ Ended(mm.child)' /\ (mm.next \in After)'
  BY <1>1, <1>3 DEF MmOK, At, After
<1>6. QED
  BY <1>2, <1>3, <1>4, <1>5 DEF MmOK, At

LEMMA ReceiveLemma ==
  ASSUME IInv, NEW p \in Proc, Receive(p)
  PROVE  IInv'
<1> USE DEF Receive, clientVars, Runnable
<1>1. TypeOK'
  BY DEF IInv, TypeOK, Flags
<1>2. ASSUME NEW q \in Proc PROVE ClientOK(q)'
  <2>1. ClientOK(q)
    BY DEF IInv
  <2>2. CASE q # p
    <3>1. p_flags'[q] = p_flags[q]
      BY <2>2 DEF IInv, TypeOK
    <3>2. QED
      BY <2>1, <3>1 DEF ClientOK, Free, AtWork, Queued, Waiting, Hanging, InHand, InUse, At
  <2>3. CASE q = p
    <3>1. p_flags'[p] = {"RECEIVING"} /\ call[p] \in Requests
      BY DEF IInv, TypeOK, Requests
    <3>2. InHand(p)' /\ InUse(p)
      BY <3>1 DEF InHand, InUse
    <3>3. QED
      BY <2>1, <2>3, <3>2 DEF ClientOK, At
  <2>4. QED
    BY <2>2, <2>3
<1>3. InitOK' /\ QueueOK'
  BY DEF IInv, InitOK, QueueOK
<1>4. MmOK'
  <2>1. \A q \in Proc : call'[q] = call[q] /\ p_flags'[q] \subseteq p_flags[q] \cup {"RECEIVING"}
    BY DEF IInv, TypeOK
  <2>2. QED
    BY <2>1, HoldLemma
<1>5. ToldOK'
  BY DEF IInv, ToldOK, TypeOK, Free, At
<1>6. DescriptorsOK'
  BY DEF IInv, DescriptorsOK, Forking
<1>7. NoUnheardZombie'
  BY DEF IInv, TypeOK, NoUnheardZombie, Zombies, Children
<1>8. QED
  BY <1>1, <1>2, <1>3, <1>4, <1>5, <1>6, <1>7 DEF IInv

\* Each flag but RECEIVING says what the process is doing.
LEMMA FlagsLemma ==
  ASSUME NEW p \in Proc, ClientOK(p)
  PROVE  /\ "SENDING" \in p_flags[p] => Queued(p)
         /\ "WAITING" \in p_flags[p] => Waiting(p)
         /\ "HANGING" \in p_flags[p] => Hanging(p)
         /\ "FREE_SLOT" \in p_flags[p] => Free(p)
<1>1. Free(p) => p_flags[p] \cap {"SENDING", "WAITING", "HANGING"} = {}
  BY DEF Free
<1>2. AtWork(p) => p_flags[p] = {}
  BY DEF AtWork
<1>3. Queued(p) => p_flags[p] \cap {"FREE_SLOT", "WAITING", "HANGING"} = {}
  BY DEF Queued
<1>4. Waiting(p) => p_flags[p] \cap {"FREE_SLOT", "SENDING", "HANGING"} = {}
  <2>1. \A f : f \in p_flags[p] /\ f # "RECEIVING" => f \in p_flags[p] \ {"RECEIVING"}
    OBVIOUS
  <2>2. QED
    BY <2>1 DEF Waiting
<1>5. Hanging(p) => p_flags[p] \cap {"FREE_SLOT", "SENDING", "WAITING"} = {}
  <2>1. \A f : f \in p_flags[p] /\ f # "RECEIVING" => f \in p_flags[p] \ {"RECEIVING"}
    OBVIOUS
  <2>2. QED
    BY <2>1 DEF Hanging
<1>6. InHand(p) => p_flags[p] \cap {"FREE_SLOT", "SENDING", "WAITING", "HANGING"} = {}
  BY DEF InHand
<1>7. QED
  BY <1>1, <1>2, <1>3, <1>4, <1>5, <1>6 DEF ClientOK

\* Whose end was reported is in no call MM answers.
LEMMA ToldLemma ==
  ASSUME IInv, NEW c \in told
  PROVE  c \in Proc /\ (Free(c) \/ (At("free slot") /\ mm.child = c /\ call[c] \in Exits))
BY DEF IInv, TypeOK, ToldOK, MmOK, Ended

LEMMA CallLemma ==
  ASSUME IInv, NEW p \in Proc, NEW what \in Calls, Call(p, what)
  PROVE  IInv'
<1> USE DEF Call, clientVars, Runnable
<1>1. what \in Requests /\ (p = INIT => what \notin Exits)
  BY RequestsLemma DEF MayCall, Requests
<1>2. /\ p_flags[p] = {} /\ p_flags'[p] = {"SENDING"} /\ call[p] = NoCall /\ call'[p] = what
      /\ \A q \in Proc \ {p} : p_flags'[q] = p_flags[q] /\ call'[q] = call[q]
  BY DEF IInv, TypeOK
<1>3. ~ \E i \in 1..Len(q_sending) : q_sending[i] = p
  BY <1>2 DEF IInv, TypeOK
<1>4. /\ q_sending' \in Seq(Proc) /\ Len(q_sending') = Len(q_sending) + 1
      /\ q_sending'[Len(q_sending) + 1] = p
      /\ \A i \in 1..Len(q_sending) : q_sending'[i] = q_sending[i]
  BY DEF IInv, QueueOK
<1>5. TypeOK'
  <2>1. \A q \in Proc : ("SENDING" \in p_flags'[q])
                        <=> \E i \in 1..Len(q_sending') : q_sending'[i] = q
    BY <1>2, <1>4 DEF IInv, TypeOK, QueueOK
  <2>2. forks_left' \in 0..NrForks
    BY ForkExitAssumption, RequestsLemma DEF IInv, TypeOK, MayCall
  <2>3. QED
    BY <2>1, <2>2 DEF IInv, TypeOK, Flags
<1>6. ASSUME NEW q \in Proc PROVE ClientOK(q)'
  <2>1. ClientOK(q)
    BY DEF IInv
  <2>2. CASE q # p
    BY <1>2, <2>1, <2>2 DEF ClientOK, Free, AtWork, Queued, Waiting, Hanging, InHand, InUse, At
  <2>3. CASE q = p
    <3>1. ~ (At("fork memory") /\ mm.child = p)
      BY <1>2, RequestsLemma DEF IInv, MmOK, At, Served, Requests
    <3>2. QED
      BY <1>1, <1>2, <2>1, <2>3, <3>1, RequestsLemma DEF ClientOK, Queued, InUse, At
  <2>4. QED
    BY <2>2, <2>3
<1>7. InitOK'
  BY <1>1, <1>2 DEF IInv, InitOK, Proc
<1>8. QueueOK'
  BY <1>3, <1>4 DEF IInv, QueueOK
<1>9. MmOK'
  BY <1>2, HoldLemma DEF Requests
<1>10. ToldOK'
  <2>1. ASSUME NEW c \in told, Free(c) PROVE Free(c)'
    BY <1>2, <2>1, ToldLemma DEF Free
  <2>2. QED
    BY <2>1 DEF IInv, ToldOK, At
<1>11. DescriptorsOK'
  BY DEF IInv, DescriptorsOK, Forking
<1>12. NoUnheardZombie'
  BY <1>2 DEF IInv, NoUnheardZombie, Zombies, Children
<1>13. QED
  BY <1>5, <1>6, <1>7, <1>8, <1>9, <1>10, <1>11, <1>12 DEF IInv

LEMMA TakeLemma ==
  ASSUME IInv, Take
  PROVE  IInv'
<1> DEFINE p == Head(q_sending)
<1> USE DEF clientVars
<1>1. /\ p = q_sending[1] /\ p \in Proc /\ Tail(q_sending) \in Seq(Proc)
      /\ Len(Tail(q_sending)) = Len(q_sending) - 1 /\ Len(q_sending) \in Nat \ {0}
      /\ \A i \in 1..Len(Tail(q_sending)) : Tail(q_sending)[i] = q_sending[i + 1]
  BY DEF Take, IInv, QueueOK
<1>2. "SENDING" \in p_flags[p]
  BY <1>1 DEF IInv, TypeOK
<1>3. ClientOK(p)
  BY <1>1 DEF IInv
<1>4. p_flags[p] = {"SENDING"} /\ call[p] \in Requests
  BY <1>1, <1>2, <1>3, FlagsLemma DEF Queued
<1>5. /\ p_flags'[p] = {} /\ call' = call /\ q_sending' = Tail(q_sending)
      /\ mm' = [at |-> call[p].type, src |-> p]
      /\ \A q \in Proc \ {p} : p_flags'[q] = p_flags[q]
  BY <1>1, <1>4 DEF Take, IInv, TypeOK
<1>6. call[p].type \in {"FORK", "WAIT", "EXIT"}
  BY <1>4, RequestsLemma DEF Exits, ForkCall, WaitCall
<1>6a. mm.at = "receive" /\ mm'.at = call[p].type
  BY <1>5 DEF Take, At
<1>7. TypeOK'
  <2>1. \A q \in Proc : ("SENDING" \in p_flags'[q])
                        <=> \E i \in 1..Len(q_sending') : q_sending'[i] = q
    <3>1. \A i \in 2..Len(q_sending) : q_sending[i] # p /\ i - 1 \in 1..Len(Tail(q_sending))
                                       /\ Tail(q_sending)[i - 1] = q_sending[i]
      BY <1>1 DEF IInv, QueueOK
    <3>2. \A i \in 1..Len(Tail(q_sending)) : i + 1 \in 2..Len(q_sending)
      BY <1>1
    <3>3. ASSUME NEW q \in Proc, NEW i \in 1..Len(q_sending'), q_sending'[i] = q
          PROVE  "SENDING" \in p_flags'[q]
      <4>1. i + 1 \in 2..Len(q_sending) /\ q_sending[i + 1] = q
        BY <1>1, <1>5, <3>2, <3>3
      <4>2. q # p
        BY <3>1, <4>1
      <4>3. QED
        BY <1>5, <4>1, <4>2 DEF IInv, TypeOK
    <3>4. ASSUME NEW q \in Proc, "SENDING" \in p_flags'[q]
          PROVE  \E i \in 1..Len(q_sending') : q_sending'[i] = q
      <4>1. q # p /\ "SENDING" \in p_flags[q]
        BY <1>5, <3>4
      <4>2. PICK i \in 1..Len(q_sending) : q_sending[i] = q
        BY <4>1 DEF IInv, TypeOK
      <4>3. i \in 2..Len(q_sending)
        BY <1>1, <4>1, <4>2
      <4>4. QED
        BY <1>5, <3>1, <4>2, <4>3
    <3>5. QED
      BY <3>3, <3>4
  <2>2. QED
    BY <2>1, <1>1 DEF Take, IInv, TypeOK, Flags
<1>8. ASSUME NEW q \in Proc PROVE ClientOK(q)'
  <2>1. ClientOK(q)
    BY DEF IInv
  <2>2. At("receive") /\ ~ At("fork memory")'
    BY <1>6, <1>6a DEF At
  <2>3. CASE q # p
    BY <1>5, <2>1, <2>2, <2>3 DEF Take, ClientOK, Free, AtWork, Queued, Waiting, Hanging, InHand,
                                  InUse, At
  <2>4. CASE q = p
    BY <1>4, <1>5, <2>1, <2>2, <2>4 DEF Take, ClientOK, InHand, InUse, At
  <2>5. QED
    BY <2>3, <2>4
<1>9. InitOK'
  BY DEF Take, IInv, InitOK
<1>10. QueueOK'
  BY <1>1, <1>5 DEF IInv, QueueOK
<1>11. MmOK'
  <2>1. CASE call[p] = ForkCall
    BY <1>1, <1>5, <2>1 DEF MmOK, At, Served, ForkCall
  <2>2. CASE call[p] = WaitCall
    BY <1>1, <1>5, <2>2 DEF MmOK, At, Served, WaitCall
  <2>3. CASE call[p] \in Exits
    <3>1. call[p].type = "EXIT" /\ p # INIT
      BY <2>3 DEF Exits, IInv, InitOK
    <3>2. QED
      BY <1>1, <1>5, <2>3, <3>1 DEF MmOK, At, Served
  <2>4. QED
    BY <1>4, <2>1, <2>2, <2>3, RequestsLemma
<1>12. ToldOK'
  BY <1>1, <1>4, <1>5 DEF Take, IInv, TypeOK, ToldOK, Free, At
<1>13. DescriptorsOK'
  <2>1. \A q \in Proc : ~ Forking(q) /\ ~ Forking(q)'
    BY <1>6, <1>6a DEF Forking
  <2>2. QED
    BY <2>1 DEF Take, IInv, DescriptorsOK
<1>14. NoUnheardZombie'
  BY <1>1, <1>5 DEF Take, IInv, NoUnheardZombie, Zombies, Children
<1>15. QED
  BY <1>7, <1>8, <1>9, <1>10, <1>11, <1>12, <1>13, <1>14 DEF IInv

\* A step that keeps call, the descriptors and the flags a client is judged by.
LEMMA KeepLemma ==
  ASSUME NEW q \in Proc, ClientOK(q), p_flags'[q] = p_flags[q], call'[q] = call[q],
         filp'[q] = filp[q], exit_status'[q] = exit_status[q], p_parent'[q] = p_parent[q],
         mem'[q] = mem[q],
         InUse(q) /\ call[q] \notin Exits /\ At("fork memory") /\ mm.child = q
           => mem'[q] = "own" \/ (At("fork memory") /\ mm.child = q)'
  PROVE  ClientOK(q)'
BY DEF ClientOK, Free, AtWork, Queued, Waiting, Hanging, InHand, InUse

LEMMA ForkCopyLemma ==
  ASSUME IInv, ForkCopy
  PROVE  IInv'
<1> USE DEF clientVars
<1>1. PICK p \in Proc : /\ mm.at = "FORK" /\ mm.src = p /\ call[p] = ForkCall
                       /\ p_flags[p] \subseteq {"RECEIVING"}
  BY DEF ForkCopy, CopyEntry, IInv, MmOK, At, Served
<1>2. PICK c \in Slots : /\ c = Min(FreeSlots) /\ c \in Proc /\ c # p /\ c # INIT
                        /\ p_flags[c] = {"FREE_SLOT"}
  <2>1. FreeSlots \in SUBSET Nat /\ FreeSlots # {}
    BY ForkExitAssumption DEF FreeSlots, ForkCopy, CopyEntry
  <2>2. Min(FreeSlots) \in FreeSlots
    BY <2>1, MinLemma
  <2>3. QED
    BY <1>1, <2>2, ForkExitAssumption DEF FreeSlots, Proc
<1>3. filp[c] = {}
  BY <1>2, FlagsLemma DEF IInv, Free
<1>4. /\ p_flags'[c] = p_flags[p] /\ p_parent'[c] = p /\ exit_status'[c] = exit_status[p]
      /\ filp'[c] = filp[p] /\ mem'[c] = "parent's" /\ call'[c] = ForkCall
      /\ \A q \in Proc \ {c} :
           /\ p_flags'[q] = p_flags[q] /\ p_parent'[q] = p_parent[q]
           /\ exit_status'[q] = exit_status[q] /\ filp'[q] = filp[q]
           /\ mem'[q] = mem[q] /\ call'[q] = call[q]
      /\ mm' = [at |-> "fork memory", src |-> p, child |-> c] /\ told' = told \ {c}
      /\ UNCHANGED <<fd_cnt, q_sending, forks_left>>
  <2>1. /\ p_flags' = [p_flags EXCEPT ![c] = p_flags[p]]
        /\ p_parent' = [p_parent EXCEPT ![c] = p]
        /\ exit_status' = [exit_status EXCEPT ![c] = exit_status[p]]
        /\ filp' = [filp EXCEPT ![c] = filp[p]]
        /\ mem' = [mem EXCEPT ![c] = "parent's"]
        /\ call' = [call EXCEPT ![c] = call[p]]
        /\ mm' = [at |-> "fork memory", src |-> p, child |-> c] /\ told' = told \ {c}
        /\ UNCHANGED <<fd_cnt, q_sending, forks_left>>
    BY <1>1, <1>2 DEF ForkCopy, CopyEntry
  <2>2. /\ DOMAIN p_flags = Proc /\ DOMAIN p_parent = Proc
        /\ DOMAIN exit_status = Proc /\ DOMAIN filp = Proc
        /\ DOMAIN mem = Proc /\ DOMAIN call = Proc
    BY DEF IInv, TypeOK
  <2>3. \A q \in Proc \ {c} :
           /\ p_flags'[q] = p_flags[q] /\ p_parent'[q] = p_parent[q]
           /\ exit_status'[q] = exit_status[q] /\ filp'[q] = filp[q]
           /\ mem'[q] = mem[q] /\ call'[q] = call[q]
    BY <2>1, <2>2
  <2>4. call[p] = ForkCall
    BY <1>1
  <2>5. QED
    BY <1>2, <2>1, <2>2, <2>3, <2>4
<1>5. /\ mm'.at = "fork memory" /\ mm'.src = p /\ mm'.child = c
      /\ \A f \in {"SENDING", "WAITING", "HANGING"} : f \notin p_flags'[c]
  <2>1. \A f \in {"SENDING", "WAITING", "HANGING"} : f \notin p_flags[p]
    BY <1>1
  <2>2. QED
    BY <1>4, <2>1
<1>6. TypeOK'
  <2>1. TypeOK
    BY DEF IInv
  <2>2. ASSUME NEW q \in Proc
        PROVE  ("SENDING" \in p_flags'[q]) <=> ("SENDING" \in p_flags[q])
    <3>1. "SENDING" \notin p_flags[c] /\ "SENDING" \notin p_flags'[c]
      BY <1>2, <1>5
    <3>2. q # c => p_flags'[q] = p_flags[q]
      BY <1>4
    <3>3. QED
      BY <3>1, <3>2
  <2>3. \A q \in Proc : ("SENDING" \in p_flags'[q])
                        <=> \E i \in 1..Len(q_sending') : q_sending'[i] = q
    BY <1>4, <2>1, <2>2 DEF TypeOK
  <2>4. /\ p_flags' \in [Proc -> SUBSET Flags]
        /\ p_parent' \in [Proc -> Proc \cup {NO_TASK, TASK_TTY}]
        /\ exit_status' \in [Proc -> Status \cup {0}] /\ filp' \in [Proc -> SUBSET Desc]
        /\ mem' \in [Proc -> {"own", "parent's", "none"}] /\ call' \in [Proc -> Calls]
    BY <1>1, <1>2, <2>1 DEF ForkCopy, CopyEntry, TypeOK
  <2>5. QED
    BY <1>4, <2>1, <2>3, <2>4 DEF TypeOK
<1>7. ASSUME NEW q \in Proc PROVE ClientOK(q)'
  <2>1. CASE q # c
    BY <1>1, <1>4, <2>1, KeepLemma DEF IInv, At
  <2>2. CASE q = c
    <3>1. InHand(c)'
      BY <1>1, <1>4, RequestsLemma DEF InHand
    <3>2. QED
      BY <1>1, <1>4, <1>5, <2>2, <3>1 DEF ClientOK, At
  <2>3. QED
    BY <2>1, <2>2
<1>8. InitOK' /\ QueueOK'
  BY <1>2, <1>4 DEF IInv, InitOK, QueueOK, Proc
<1>9. MmOK'
  BY <1>1, <1>2, <1>4, <1>5 DEF MmOK, At, Served
<1>10. ToldOK'
  <2>1. ASSUME NEW e \in told, e # c PROVE Free(e)'
    BY <1>1, <1>4, <2>1, ToldLemma DEF Free, At
  <2>2. QED
    BY <1>4, <2>1 DEF ToldOK
<1>11. DescriptorsOK'
  <2>1. ASSUME NEW d \in Desc, NEW q \in Proc
        PROVE  (d \in filp[q] /\ ~ Forking(q)) <=> (d \in filp'[q] /\ ~ Forking(q)')
    BY <1>1, <1>3, <1>4, <1>5 DEF Forking
  <2>2. QED
    BY <1>4, <2>1 DEF IInv, DescriptorsOK
<1>12. NoUnheardZombie'
  <2>1. ASSUME NEW q \in Proc, "WAITING" \in p_flags'[q],
               NEW z \in Proc, p_parent'[z] = q, "HANGING" \in p_flags'[z]
        PROVE  FALSE
    <3>1. q # c /\ z # c
      BY <1>5, <2>1
    <3>2. QED
      BY <1>4, <2>1, <3>1 DEF IInv, NoUnheardZombie, Zombies, Children
  <2>2. QED
    BY <2>1 DEF NoUnheardZombie, Zombies, Children
<1>13. QED
  BY <1>6, <1>7, <1>8, <1>9, <1>10, <1>11, <1>12 DEF IInv

LEMMA ForkNoSlotLemma ==
  ASSUME IInv, ForkNoSlot
  PROVE  IInv'
<1> DEFINE p == mm.src
<1> USE DEF clientVars
<1>1. /\ mm.at = "FORK" /\ Served(p, {ForkCall})
      /\ UNCHANGED <<p_flags, clientVars, call, q_sending, forks_left, told>>
      /\ mm' = SendTo(p, [RETVAL |-> "-1"], Receiving)
  BY DEF ForkNoSlot, IInv, MmOK, At
<1>2. mm'.at = "send" /\ mm'.to = p /\ mm'.msg = [RETVAL |-> "-1"]
  BY <1>1 DEF SendTo
<1>3. MmOK'
  <2>1. SendsReply'
    BY <1>1, <1>2 DEF SendsReply, Served
  <2>2. QED
    BY <1>2, <2>1 DEF MmOK, At
<1>4. ASSUME NEW q \in Proc PROVE ClientOK(q)'
  BY <1>1, KeepLemma DEF IInv, At
<1>5. ToldOK' /\ DescriptorsOK'
  BY <1>1, <1>2 DEF IInv, ToldOK, DescriptorsOK, At, Free, Forking
<1>6. TypeOK' /\ InitOK' /\ QueueOK' /\ NoUnheardZombie'
  BY <1>1 DEF IInv, TypeOK, InitOK, QueueOK, NoUnheardZombie, Zombies, Children
<1>7. QED
  BY <1>3, <1>4, <1>5, <1>6 DEF IInv

LEMMA ForkMemoryLemma ==
  ASSUME IInv, ForkMemory
  PROVE  IInv'
<1> DEFINE c == mm.child
<1> USE DEF clientVars
<1>1. /\ mm.at = "fork memory" /\ Served(c, {ForkCall}) /\ Served(mm.src, {ForkCall})
      /\ c \in Slots /\ c # mm.src /\ mm = [at |-> "fork memory", src |-> mm.src, child |-> c]
  BY DEF ForkMemory, IInv, MmOK, At
<1>2. /\ mm' = [at |-> "fork fs", src |-> mm.src, child |-> c]
      /\ mm'.at = "fork fs" /\ mm'.src = mm.src /\ mm'.child = c
  BY <1>1 DEF ForkMemory
<1>3. /\ mem'[c] = "own" /\ \A q \in Proc \ {c} : mem'[q] = mem[q]
      /\ UNCHANGED <<p_flags, p_parent, exit_status, filp, fd_cnt, call, q_sending,
                     forks_left, told>>
  BY <1>1 DEF ForkMemory, IInv, TypeOK, Served
<1>4. ASSUME NEW q \in Proc PROVE ClientOK(q)'
  <2>1. CASE q # c
    BY <1>1, <1>3, <2>1, KeepLemma DEF IInv
  <2>2. CASE q = c
    BY <1>1, <1>3, <2>2 DEF IInv, ClientOK, Free, AtWork, Queued, Waiting, Hanging, InHand, InUse
  <2>3. QED
    BY <2>1, <2>2
<1>5. MmOK'
  BY <1>1, <1>2, <1>3 DEF MmOK, At, Served
<1>6. ToldOK' /\ DescriptorsOK'
  BY <1>1, <1>2, <1>3 DEF IInv, ToldOK, DescriptorsOK, At, Free, Forking
<1>7. TypeOK'
  <2>1. TypeOK /\ mem' = [mem EXCEPT ![c] = "own"]
    BY DEF ForkMemory, IInv
  <2>2. QED
    BY <1>3, <2>1 DEF TypeOK
<1>8. InitOK' /\ QueueOK' /\ NoUnheardZombie'
  BY <1>3 DEF IInv, InitOK, QueueOK, NoUnheardZombie, Zombies, Children
<1>9. QED
  BY <1>4, <1>5, <1>6, <1>7, <1>8 DEF IInv

\* The number of processes that hold a descriptor is one more with one of them more.
LEMMA CountLemma ==
  ASSUME NEW S \in SUBSET Proc, NEW c \in Proc, c \notin S
  PROVE  Cardinality(S \cup {c}) = Cardinality(S) + 1 /\ Cardinality(S) \in Nat
<1>1. IsFiniteSet(S)
  BY FiniteProc, FS_Subset
<1>2. QED
  BY <1>1, FS_AddElement, FS_CardinalityType

LEMMA ForkFsLemma ==
  ASSUME IInv, ForkFs
  PROVE  IInv'
<1> DEFINE c == mm.child  p == mm.src
<1> USE DEF clientVars
<1>1. /\ mm.at = "fork fs" /\ Served(c, {ForkCall}) /\ Served(p, {ForkCall})
      /\ c \in Slots /\ c \in Proc /\ c # p
  BY DEF ForkFs, IInv, MmOK, At, Proc
<1>2. /\ mm' = SendTo(c, [RETVAL |-> "0", PID |-> 0],
                      SendTo(p, [RETVAL |-> "0", PID |-> c], Receiving))
      /\ mm'.at = "send" /\ mm'.to = c
  BY DEF ForkFs, Birth, SendTo
<1>3. /\ fd_cnt' = [d \in Desc |-> IF d \in filp[c] THEN fd_cnt[d] + 1 ELSE fd_cnt[d]]
      /\ UNCHANGED <<p_flags, p_parent, exit_status, filp, mem, call, q_sending,
                     forks_left, told>>
  BY DEF ForkFs
<1>4. ASSUME NEW q \in Proc PROVE ClientOK(q)'
  BY <1>1, <1>3, KeepLemma DEF IInv, At
<1>5. MmOK'
  <2>1. SendsBirth'
    BY <1>1, <1>2, <1>3 DEF SendsBirth, Served
  <2>2. QED
    BY <1>2, <2>1 DEF MmOK, At
<1>6. DescriptorsOK'
  <2>1. SUFFICES ASSUME NEW d \in Desc
        PROVE fd_cnt'[d] = Cardinality({q \in Proc : d \in filp'[q] /\ ~ Forking(q)'})
    BY DEF DescriptorsOK
  <2> DEFINE S == {q \in Proc : d \in filp[q] /\ ~ Forking(q)}
  <2>2. /\ \A q \in Proc : ~ Forking(q)' /\ (Forking(q) <=> q = c)
        /\ fd_cnt[d] = Cardinality(S)
    BY <1>1, <1>2 DEF Forking, IInv, DescriptorsOK
  <2>3. CASE d \in filp[c]
    <3>1. {q \in Proc : d \in filp'[q] /\ ~ Forking(q)'} = S \cup {c} /\ c \notin S
      BY <1>1, <1>3, <2>2, <2>3
    <3>2. QED
      BY <1>1, <1>3, <2>2, <2>3, <3>1, CountLemma
  <2>4. CASE d \notin filp[c]
    <3>1. {q \in Proc : d \in filp'[q] /\ ~ Forking(q)'} = S
      BY <1>1, <1>3, <2>2, <2>4
    <3>2. QED
      BY <1>3, <2>2, <2>4, <3>1
  <2>5. QED
    BY <2>3, <2>4
<1>7. ToldOK'
  BY <1>1, <1>2, <1>3 DEF IInv, ToldOK, At, Free
<1>8. TypeOK'
  BY <1>3 DEF IInv, TypeOK
<1>9. InitOK' /\ QueueOK' /\ NoUnheardZombie'
  BY <1>3 DEF IInv, InitOK, QueueOK, NoUnheardZombie, Zombies, Children
<1>10. QED
  BY <1>4, <1>5, <1>6, <1>7, <1>8, <1>9 DEF IInv

LEMMA SendLemma ==
  ASSUME NEW to, NEW msg, NEW next, mm = SendTo(to, msg, next)
  PROVE  mm.at = "send" /\ mm.to = to /\ mm.msg = msg /\ mm.next = next
BY DEF SendTo

\* Where MM goes after a SEND, and whose end the message tells.
LEMMA NextLemma ==
  ASSUME MmOK, mm.at = "send"
  PROVE  \/ mm.next = Receiving /\ ~ Reports
         \/ /\ \E q \in Proc \ {mm.to} :
                 /\ mm.next = SendTo(q, [RETVAL |-> "0", PID |-> mm.to], Receiving)
                 /\ Served(q, {ForkCall})
            /\ mm.to \in Proc /\ ~ Reports
         \/ \E c \in Slots, next \in After :
            /\ mm.next = [at |-> "free slot", child |-> c, next |-> next]
            /\ Ended(c) /\ c # mm.to /\ Reports /\ mm.msg.PID = c
<1>1. CASE SendsBirth
  <2>1. PICK p \in Proc :
          /\ mm = SendTo(mm.to, [RETVAL |-> "0", PID |-> 0],
                         SendTo(p, [RETVAL |-> "0", PID |-> mm.to], Receiving))
          /\ Served(mm.to, {ForkCall}) /\ Served(p, {ForkCall}) /\ mm.to # p
    BY <1>1 DEF SendsBirth
  <2>2. /\ mm.msg = [RETVAL |-> "0", PID |-> 0]
        /\ mm.next = SendTo(p, [RETVAL |-> "0", PID |-> mm.to], Receiving)
    BY <2>1, SendLemma
  <2>3. ~ Reports
    BY <2>2 DEF Reports
  <2>4. QED
    BY <2>1, <2>2, <2>3 DEF Served
<1>2. CASE SendsReply
  <2>1. mm.next = Receiving
    BY <1>2, SendLemma DEF SendsReply
  <2>2. ~ Reports
    <3>1. CASE mm.msg = [RETVAL |-> "-1"]
      BY <3>1 DEF Reports
    <3>2. CASE mm.msg \in [RETVAL : {"0"}, PID : Proc]
      BY <3>2 DEF Reports
    <3>3. QED
      BY <1>2, <3>1, <3>2 DEF SendsReply
  <2>3. QED
    BY <2>1, <2>2
<1>3. CASE SendsNoChild
  <2>1. mm.next = Receiving /\ mm.msg = [PID |-> NO_TASK]
    BY <1>3, SendLemma DEF SendsNoChild
  <2>2. QED
    BY <2>1 DEF Reports
<1>4. CASE SendsReport
  <2>1. PICK c \in Slots, next \in After :
          /\ Ended(c) /\ Served(mm.to, {WaitCall})
          /\ mm = SendTo(mm.to, [PID |-> c, STATUS |-> call[c].STATUS],
                         [at |-> "free slot", child |-> c, next |-> next])
    BY <1>4 DEF SendsReport
  <2>2. /\ mm.msg = [PID |-> c, STATUS |-> call[c].STATUS]
        /\ mm.next = [at |-> "free slot", child |-> c, next |-> next]
    BY <2>1, SendLemma
  <2>3. Reports /\ mm.msg.PID = c
    <3>1. /\ DOMAIN [PID |-> c, STATUS |-> call[c].STATUS] = {"PID", "STATUS"}
          /\ [PID |-> c, STATUS |-> call[c].STATUS].PID = c
      OBVIOUS
    <3>2. "STATUS" \in DOMAIN mm.msg /\ mm.msg.PID = c
      BY <2>2, <3>1, Zenon
    <3>3. QED
      BY <3>2, mm.at = "send" DEF Reports, At
  <2>4. c # mm.to
    BY <2>1, RequestsLemma DEF Ended, Served
  <2>5. QED
    BY <2>1, <2>2, <2>3, <2>4
<1>5. QED
  BY <1>1, <1>2, <1>3, <1>4 DEF MmOK, At

LEMMA DeliverLemma ==
  ASSUME IInv, Deliver
  PROVE  IInv'
<1> USE DEF clientVars
<1>1. PICK p \in Proc : /\ mm.at = "send" /\ mm.to = p /\ p_flags[p] \subseteq {"RECEIVING"}
                        /\ "RECEIVING" \in p_flags[p] /\ call[p] \in {ForkCall, WaitCall}
  BY DEF Deliver, IInv, MmOK, At, Served, SendsBirth, SendsReply, SendsNoChild, SendsReport
<1>2. /\ p_flags' = [p_flags EXCEPT ![p] = {}] /\ mm' = mm.next
      /\ \E result \in {Failed, NoCall} : call' = [call EXCEPT ![p] = result]
      /\ UNCHANGED <<clientVars, q_sending, forks_left>>
  BY <1>1 DEF Deliver
<1>3. /\ p_flags'[p] = {} /\ call'[p] \in {Failed, NoCall}
      /\ \A q \in Proc \ {p} : p_flags'[q] = p_flags[q] /\ call'[q] = call[q]
  BY <1>2 DEF IInv, TypeOK
<1>4. \/ /\ mm' = Receiving /\ mm'.at = "receive"
         /\ told' = told
      \/ /\ \E q \in Proc : mm' = SendTo(q, [RETVAL |-> "0", PID |-> p], Receiving)
         /\ mm'.at = "send" /\ mm'.msg = [RETVAL |-> "0", PID |-> p]
         /\ Served(mm.next.to, {ForkCall}) /\ mm.next.to # p
         /\ told' = told
      \/ \E c \in Slots, next \in After :
         /\ mm' = [at |-> "free slot", child |-> c, next |-> next]
         /\ mm'.at = "free slot" /\ mm'.child = c /\ mm'.next = next
         /\ Ended(c) /\ c # p
         /\ told' = told \cup {c}
  <2>1. MmOK /\ told' = IF Reports THEN told \cup {mm.msg.PID} ELSE told
    BY DEF IInv, Deliver
  <2>2. CASE mm.next = Receiving /\ ~ Reports
    BY <1>2, <2>1, <2>2 DEF Receiving
  <2>3. ASSUME NEW q \in Proc \ {p}, Served(q, {ForkCall}), ~ Reports,
               mm.next = SendTo(q, [RETVAL |-> "0", PID |-> p], Receiving)
        PROVE  /\ mm' = SendTo(q, [RETVAL |-> "0", PID |-> p], Receiving)
               /\ mm'.at = "send" /\ mm'.msg = [RETVAL |-> "0", PID |-> p]
               /\ Served(mm.next.to, {ForkCall}) /\ mm.next.to # p
               /\ told' = told
    BY <1>2, <2>1, <2>3 DEF SendTo
  <2>4. ASSUME NEW c \in Slots, NEW next \in After, Ended(c), c # p, Reports, mm.msg.PID = c,
               mm.next = [at |-> "free slot", child |-> c, next |-> next]
        PROVE  /\ mm' = [at |-> "free slot", child |-> c, next |-> next]
               /\ mm'.at = "free slot" /\ mm'.child = c /\ mm'.next = next
               /\ told' = told \cup {c}
    <3>1. mm' = [at |-> "free slot", child |-> c, next |-> next]
      BY <1>2, <2>4
    <3>2. told' = told \cup {c}
      BY <2>1, <2>4
    <3>3. QED
      BY <3>1, <3>2
  <2>5. QED
    BY <1>1, <2>1, <2>2, <2>3, <2>4, NextLemma
<1>5. mm'.at \notin {"fork memory", "fork fs"}
  BY <1>4
<1>6. ASSUME NEW q \in Proc PROVE ClientOK(q)'
  <2>1. CASE q # p
    BY <1>1, <1>2, <1>3, <2>1, KeepLemma DEF IInv, At
  <2>2. CASE q = p
    <3>1. mem[p] = "own"
      BY <1>1, RequestsLemma DEF IInv, ClientOK, InUse, At
    <3>2. InUse(p) /\ AtWork(p)' /\ ClientOK(p)
      BY <1>1, <1>3 DEF InUse, AtWork, IInv
    <3>3. QED
      BY <1>2, <2>2, <3>1, <3>2 DEF ClientOK
  <2>3. QED
    BY <2>1, <2>2
<1>7. TypeOK'
  <2>1. TypeOK
    BY DEF IInv
  <2>2. ASSUME NEW q \in Proc PROVE ("SENDING" \in p_flags'[q]) <=> ("SENDING" \in p_flags[q])
    BY <1>1, <1>3
  <2>3. p_flags' \in [Proc -> SUBSET Flags] /\ call' \in [Proc -> Calls]
    BY <1>2, <2>1 DEF TypeOK, Calls
  <2>4. told' \subseteq Proc
    BY <1>4, <2>1 DEF TypeOK, Proc
  <2>5. QED
    BY <1>2, <2>1, <2>2, <2>3, <2>4 DEF TypeOK
<1>8. InitOK' /\ QueueOK'
  BY <1>2, <1>3, RequestsLemma DEF IInv, InitOK, QueueOK, Proc
<1>9. MmOK'
  <2>1. CASE mm'.at = "receive" /\ mm' = Receiving
    BY <2>1 DEF MmOK, At
  <2>2. CASE mm'.at = "send"
    <3>1. PICK q \in Proc : /\ mm' = SendTo(q, [RETVAL |-> "0", PID |-> p], Receiving)
                            /\ Served(q, {ForkCall}) /\ q # p
      BY <1>2, <1>4, <2>2 DEF SendTo, Receiving
    <3>2. SendsReply'
      BY <1>3, <3>1 DEF SendsReply, SendTo, Served
    <3>3. QED
      BY <2>2, <3>2 DEF MmOK, At
  <2>3. CASE mm'.at = "free slot"
    <3>1. PICK c \in Slots, next \in After :
            /\ mm' = [at |-> "free slot", child |-> c, next |-> next]
            /\ Ended(c) /\ c # p
      BY <1>4, <2>3 DEF Receiving
    <3>2. Ended(c)'
      BY <1>2, <1>3, <3>1 DEF Ended, Proc
    <3>3. QED
      BY <2>3, <3>1, <3>2 DEF MmOK, At, After
  <2>4. QED
    BY <1>4, <2>1, <2>2, <2>3
<1>10. ToldOK'
  <2>1. ASSUME NEW c \in told PROVE Free(c)'
    BY <1>1, <1>2, <1>3, ToldLemma DEF Free, At
  <2>2. QED
    BY <1>4, <2>1 DEF ToldOK, At
<1>11. DescriptorsOK'
  <2>1. \A q \in Proc : ~ Forking(q) /\ ~ Forking(q)'
    BY <1>1, <1>5 DEF Forking
  <2>2. QED
    BY <1>2, <2>1 DEF IInv, DescriptorsOK
<1>12. NoUnheardZombie'
  BY <1>2, <1>3 DEF IInv, NoUnheardZombie, Zombies, Children
<1>13. QED
  BY <1>6, <1>7, <1>8, <1>9, <1>10, <1>11, <1>12 DEF IInv

LEMMA ExitFsLemma ==
  ASSUME IInv, ExitFs
  PROVE  IInv'
<1> USE DEF clientVars
<1>1. PICK p \in Proc : /\ mm.at = "EXIT" /\ mm.src = p /\ Served(p, Exits) /\ p # INIT
                        /\ mm = [at |-> "EXIT", src |-> p]
  BY DEF ExitFs, IInv, MmOK, At, Served
<1>2. /\ fd_cnt' = [d \in Desc |-> IF d \in filp[p] THEN fd_cnt[d] - 1 ELSE fd_cnt[d]]
      /\ filp' = [filp EXCEPT ![p] = {}]
      /\ mm' = [at |-> "exit memory", src |-> p] /\ mm'.at = "exit memory" /\ mm'.src = p
      /\ UNCHANGED <<p_flags, p_parent, exit_status, mem, call, q_sending, forks_left, told>>
  BY <1>1 DEF ExitFs
<1>3. filp'[p] = {} /\ \A q \in Proc \ {p} : filp'[q] = filp[q]
  BY <1>2 DEF IInv, TypeOK
<1>4. \A q \in Proc : ~ Forking(q) /\ ~ Forking(q)'
  BY <1>1, <1>2 DEF Forking
<1>5. ASSUME NEW d \in Desc
      PROVE /\ fd_cnt'[d] \in Nat
            /\ fd_cnt'[d] = Cardinality({q \in Proc : d \in filp'[q] /\ ~ Forking(q)'})
  <2> DEFINE S == {q \in Proc : d \in filp[q] /\ ~ Forking(q)}
             T == {q \in Proc : d \in filp'[q] /\ ~ Forking(q)'}
  <2>1. fd_cnt[d] = Cardinality(S) /\ fd_cnt[d] \in Nat
    BY DEF IInv, DescriptorsOK, TypeOK
  <2> HIDE DEF S, T
  <2>2. CASE d \in filp[p]
    <3>1. S = T \cup {p} /\ p \notin T /\ T \in SUBSET Proc
      BY <1>3, <1>4, <2>2 DEF S, T
    <3>2. Cardinality(S) = Cardinality(T) + 1 /\ Cardinality(T) \in Nat
      BY <3>1, CountLemma
    <3>3. fd_cnt'[d] = fd_cnt[d] - 1
      BY <1>2, <2>2
    <3>4. fd_cnt'[d] = Cardinality(T)
      BY <2>1, <3>2, <3>3
    <3>5. QED
      BY <3>2, <3>4 DEF T
  <2>3. CASE d \notin filp[p]
    <3>1. S = T
      BY <1>3, <1>4, <2>3 DEF S, T
    <3>2. QED
      BY <1>2, <2>1, <2>3, <3>1 DEF T
  <2>4. QED
    BY <2>2, <2>3
<1>6. DescriptorsOK'
  BY <1>5 DEF DescriptorsOK
<1>7. TypeOK'
  BY <1>2, <1>5 DEF IInv, TypeOK
<1>8. ASSUME NEW q \in Proc PROVE ClientOK(q)'
  BY <1>1, <1>2, <1>3 DEF IInv, ClientOK, Free, AtWork, Queued, Waiting, Hanging, InHand, InUse, At
<1>9. InitOK' /\ QueueOK' /\ NoUnheardZombie'
  BY <1>2 DEF IInv, InitOK, QueueOK, NoUnheardZombie, Zombies, Children
<1>10. MmOK'
  BY <1>1, <1>2, <1>3 DEF MmOK, At, Served
<1>11. ToldOK'
  <2>1. ASSUME NEW c \in told PROVE Free(c)'
    BY <1>1, <1>2, <1>3, ToldLemma DEF Free, At
  <2>2. QED
    BY <1>2, <2>1 DEF ToldOK
<1>12. QED
  BY <1>6, <1>7, <1>8, <1>9, <1>10, <1>11 DEF IInv

LEMMA ExitMemoryLemma ==
  ASSUME IInv, ExitMemory
  PROVE  IInv'
<1> USE DEF clientVars
<1>1. PICK p \in Slots : /\ mm.at = "exit memory" /\ mm.src = p /\ p \in Proc /\ filp[p] = {}
                         /\ call[p] \in Exits /\ p_flags[p] \subseteq {"RECEIVING"}
  BY DEF ExitMemory, EndAndTell, IInv, MmOK, At, Served, Proc
<1>2. PICK parent \in Proc : parent = p_parent[p]
  BY <1>1, ForkExitAssumption DEF IInv, ClientOK, InUse, Proc
<1>3. /\ call[p].STATUS \in Status /\ \A f \in {"SENDING", "WAITING", "HANGING", "FREE_SLOT"} :
                                        f \notin p_flags[p]
  BY <1>1 DEF Exits
<1>4. /\ exit_status' = [exit_status EXCEPT ![p] = call[p].STATUS]
      /\ mem' = [mem EXCEPT ![p] = "none"]
      /\ UNCHANGED <<p_parent, filp, fd_cnt, call, q_sending, forks_left, told>>
  BY <1>1 DEF ExitMemory, EndAndTell
<1>5. \/ /\ "WAITING" \in p_flags[parent]
         /\ p_flags' = [p_flags EXCEPT ![parent] = @ \ {"WAITING"}]
         /\ mm' = SendTo(parent, [PID |-> p, STATUS |-> call[p].STATUS],
                         [at |-> "free slot", child |-> p,
                          next |-> [at |-> "orphans", src |-> p]])
      \/ /\ "WAITING" \notin p_flags[parent]
         /\ p_flags' = [p_flags EXCEPT ![p] = @ \cup {"HANGING"}]
         /\ mm' = [at |-> "orphans", src |-> p]
  BY <1>1, <1>2 DEF ExitMemory, EndAndTell
<1>6. /\ exit_status'[p] = call[p].STATUS
      /\ \A q \in Proc \ {p} : exit_status'[q] = exit_status[q] /\ mem'[q] = mem[q]
  BY <1>1, <1>4 DEF IInv, TypeOK
<1>7. mm'.at \in {"send", "orphans"}
  <2>1. ASSUME NEW msg, NEW next, mm' = SendTo(parent, msg, next)
        PROVE  mm'.at = "send"
    BY <2>1 DEF SendTo
  <2>2. CASE mm' = [at |-> "orphans", src |-> p]
    BY <2>2
  <2>3. QED
    BY <1>5, <2>1, <2>2
<1>8. \A q \in Proc \ {p, parent} : p_flags'[q] = p_flags[q]
  BY <1>5 DEF IInv, TypeOK
<1>9. ASSUME "WAITING" \in p_flags[parent]
      PROVE  /\ p_flags' = [p_flags EXCEPT ![parent] = @ \ {"WAITING"}]
             /\ mm' = SendTo(parent, [PID |-> p, STATUS |-> call[p].STATUS],
                             [at |-> "free slot", child |-> p,
                              next |-> [at |-> "orphans", src |-> p]])
             /\ p_flags[parent] \ {"RECEIVING"} = {"WAITING"} /\ call[parent] = WaitCall
             /\ p_flags'[parent] \subseteq {"RECEIVING"} /\ p # parent
             /\ p_flags'[p] = p_flags[p]
  <2>1. p_flags[parent] \ {"RECEIVING"} = {"WAITING"} /\ call[parent] = WaitCall
    BY <1>9, FlagsLemma DEF IInv, Waiting
  <2>2. p_flags' = [p_flags EXCEPT ![parent] = @ \ {"WAITING"}]
    BY <1>5, <1>9
  <2>3. p # parent
    BY <1>3, <1>9
  <2>4. p_flags'[parent] = p_flags[parent] \ {"WAITING"} /\ p_flags'[p] = p_flags[p]
    BY <1>1, <2>2, <2>3 DEF IInv, TypeOK
  <2>5. p_flags[parent] \ {"WAITING"} \subseteq {"RECEIVING"}
    BY <2>1
  <2>6. QED
    BY <1>5, <1>9, <2>1, <2>2, <2>3, <2>4, <2>5
<1>10. ASSUME "WAITING" \notin p_flags[parent]
       PROVE  /\ p_flags' = [p_flags EXCEPT ![p] = @ \cup {"HANGING"}]
              /\ mm' = [at |-> "orphans", src |-> p]
              /\ p_flags'[p] = p_flags[p] \cup {"HANGING"}
              /\ \A q \in Proc \ {p} : p_flags'[q] = p_flags[q]
  <2>1. p_flags' = [p_flags EXCEPT ![p] = @ \cup {"HANGING"}]
    BY <1>5, <1>10
  <2>2. QED
    BY <1>1, <1>5, <1>10, <2>1 DEF IInv, TypeOK
<1>11. ASSUME NEW q \in Proc PROVE ClientOK(q)'
  <2>1. CASE q \notin {p, parent} \/ (q # p /\ "WAITING" \notin p_flags[parent])
    BY <1>1, <1>4, <1>6, <1>8, <1>10, <2>1, KeepLemma DEF IInv, At
  <2>2. CASE q = parent /\ "WAITING" \in p_flags[parent]
    <3>1. InHand(q)'
      BY <1>4, <1>9, <2>2, RequestsLemma DEF InHand
    <3>2. mem'[q] = "own" /\ (q # INIT => p_parent[q] \in Proc)
      <4>1. InUse(q) /\ call[q] \notin Exits
        BY <1>9, <2>2, FlagsLemma, RequestsLemma DEF IInv, InUse, Free
      <4>2. QED
        BY <1>1, <1>6, <1>9, <2>2, <4>1 DEF IInv, ClientOK, At
    <3>3. QED
      BY <1>4, <3>1, <3>2 DEF ClientOK
  <2>3. CASE q = p
    <3>1. /\ call'[p] \in Exits /\ filp'[p] = {} /\ p_parent'[p] \in Proc
          /\ exit_status'[p] = call'[p].STATUS
      BY <1>1, <1>2, <1>4, <1>6
    <3>2. CASE "WAITING" \in p_flags[parent]
      <4>1. p_flags'[p] \subseteq {"RECEIVING"}
        BY <1>1, <1>9, <3>2
      <4>2. QED
        BY <2>3, <3>1, <4>1, RequestsLemma DEF ClientOK, InHand
    <3>3. CASE "WAITING" \notin p_flags[parent]
      <4>1. p_flags'[p] \ {"RECEIVING"} = {"HANGING"}
        BY <1>1, <1>10, <3>3
      <4>2. QED
        BY <2>3, <3>1, <4>1 DEF ClientOK, Hanging
    <3>4. QED
      BY <3>2, <3>3
  <2>4. QED
    BY <2>1, <2>2, <2>3
<1>12. TypeOK'
  <2>1. TypeOK
    BY DEF IInv
  <2>2. ASSUME NEW q \in Proc PROVE ("SENDING" \in p_flags'[q]) <=> ("SENDING" \in p_flags[q])
    <3>1. CASE "WAITING" \in p_flags[parent]
      <4>1. p_flags' = [p_flags EXCEPT ![parent] = @ \ {"WAITING"}]
        BY <1>9, <3>1
      <4>2. QED
        BY <2>1, <4>1 DEF TypeOK
    <3>2. CASE "WAITING" \notin p_flags[parent]
      BY <1>10, <3>2
    <3>3. QED
      BY <3>1, <3>2
  <2>3. p_flags' \in [Proc -> SUBSET Flags]
    <3>1. CASE "WAITING" \in p_flags[parent]
      <4>1. p_flags' = [p_flags EXCEPT ![parent] = @ \ {"WAITING"}]
        BY <1>9, <3>1
      <4>2. QED
        BY <2>1, <4>1 DEF TypeOK
    <3>2. CASE "WAITING" \notin p_flags[parent]
      BY <1>10, <2>1, <3>2 DEF TypeOK, Flags
    <3>3. QED
      BY <3>1, <3>2
  <2>4. exit_status' \in [Proc -> Status \cup {0}] /\ mem' \in [Proc -> {"own", "parent's", "none"}]
    BY <1>3, <1>4, <2>1 DEF TypeOK
  <2>5. QED
    BY <1>4, <2>1, <2>2, <2>3, <2>4 DEF TypeOK
<1>13. InitOK' /\ QueueOK'
  BY <1>4 DEF IInv, InitOK, QueueOK
<1>14. MmOK'
  <2>1. CASE "WAITING" \in p_flags[parent]
    <3>1. /\ mm'.at = "send" /\ mm'.to = parent
          /\ mm' = SendTo(parent, [PID |-> p, STATUS |-> call'[p].STATUS],
                          [at |-> "free slot", child |-> p,
                           next |-> [at |-> "orphans", src |-> p]])
      <4>1. mm' = SendTo(parent, [PID |-> p, STATUS |-> call'[p].STATUS],
                         [at |-> "free slot", child |-> p,
                          next |-> [at |-> "orphans", src |-> p]])
        BY <1>4, <1>9, <2>1
      <4>2. QED
        BY <4>1 DEF SendTo
    <3>2. Ended(p)'
      BY <1>1, <1>4, <1>6, <1>9, <2>1 DEF Ended
    <3>3. p \notin told
      <4>1. ~ Free(p) /\ ~ At("free slot")
        BY <1>1, <1>3 DEF At, Free
      <4>2. QED
        BY <4>1, ToldLemma
    <3>4. Served(parent, {WaitCall})'
      BY <1>4, <1>9, <2>1 DEF Served
    <3>5. SendsReport'
      BY <1>2, <1>4, <3>1, <3>2, <3>3, <3>4 DEF SendsReport, After
    <3>6. QED
      BY <3>1, <3>5 DEF MmOK, At
  <2>2. CASE "WAITING" \notin p_flags[parent]
    <3>1. mm' = [at |-> "orphans", src |-> p] /\ mm'.at = "orphans" /\ mm'.src = p
      BY <1>10, <2>2
    <3>2. QED
      BY <3>1 DEF MmOK, At
  <2>3. QED
    BY <2>1, <2>2
<1>15. ToldOK'
  <2>1. ASSUME NEW c \in told PROVE Free(c)'
    <3>1. Free(c) /\ c \in Proc
      BY <1>1, ToldLemma DEF At
    <3>2. c # p /\ ("WAITING" \in p_flags[parent] => c # parent)
      BY <1>3, <3>1 DEF Free
    <3>3. QED
      BY <1>4, <1>8, <1>10, <3>1, <3>2 DEF Free
  <2>2. QED
    BY <1>4, <2>1 DEF ToldOK
<1>16. DescriptorsOK'
  <2>1. \A q \in Proc : ~ Forking(q) /\ ~ Forking(q)'
    BY <1>1, <1>7 DEF Forking
  <2>2. QED
    BY <1>4, <2>1 DEF IInv, DescriptorsOK
<1>17. NoUnheardZombie'
  <2>1. ASSUME NEW q \in Proc, "WAITING" \in p_flags'[q],
               NEW z \in Proc, p_parent[z] = q, "HANGING" \in p_flags'[z]
        PROVE  FALSE
    <3>1. "WAITING" \in p_flags[q]
      <4>1. CASE p_flags' = [p_flags EXCEPT ![parent] = @ \ {"WAITING"}]
        BY <2>1, <4>1 DEF IInv, TypeOK
      <4>2. CASE p_flags' = [p_flags EXCEPT ![p] = @ \cup {"HANGING"}]
        BY <2>1, <4>2 DEF IInv, TypeOK
      <4>3. QED
        BY <1>5, <4>1, <4>2
    <3>2. "HANGING" \notin p_flags[z]
      BY <2>1, <3>1 DEF IInv, NoUnheardZombie, Zombies, Children
    <3>3. "WAITING" \notin p_flags[parent]
      <4>1. SUFFICES ASSUME "WAITING" \in p_flags[parent] PROVE FALSE
        OBVIOUS
      <4>2. p_flags' = [p_flags EXCEPT ![parent] = @ \ {"WAITING"}]
        BY <1>9, <4>1
      <4>3. QED
        BY <2>1, <3>2, <4>2 DEF IInv, TypeOK
    <3>4. z = p
      BY <1>10, <2>1, <3>2, <3>3
    <3>5. QED
      BY <1>2, <2>1, <3>1, <3>3, <3>4
  <2>2. QED
    BY <1>4, <2>1 DEF NoUnheardZombie, Zombies, Children
<1>18. QED
  BY <1>11, <1>12, <1>13, <1>14, <1>15, <1>16, <1>17 DEF IInv

LEMMA FreeSlotLemma ==
  ASSUME IInv, FreeSlot
  PROVE  IInv'
<1> USE DEF clientVars
<1>1. PICK c \in Slots : /\ mm.at = "free slot" /\ mm.child = c /\ Ended(c) /\ mm.next \in After
  <2>1. mm.at = "free slot" /\ Ended(mm.child) /\ mm.next \in After
    BY DEF FreeSlot, IInv, MmOK, At
  <2>2. mm.child \in Slots
    BY <2>1 DEF Ended
  <2>3. QED
    BY <2>1, <2>2
<1>2. /\ p_flags' = [p_flags EXCEPT ![c] = {"FREE_SLOT"}] /\ mm' = mm.next
      /\ UNCHANGED <<clientVars, call, q_sending, forks_left, told>>
      /\ c \in Proc /\ c # INIT
  BY <1>1, ForkExitAssumption DEF FreeSlot, Proc
<1>3. p_flags'[c] = {"FREE_SLOT"} /\ \A q \in Proc \ {c} : p_flags'[q] = p_flags[q]
  BY <1>2 DEF IInv, TypeOK
<1>4. \/ mm' = Receiving /\ mm'.at = "receive"
      \/ mm' = [at |-> "orphans", src |-> mm'.src] /\ mm'.at = "orphans" /\ mm'.src \in Slots
  <2>1. mm' \in After
    BY <1>1, <1>2
  <2>2. CASE mm' = Receiving
    BY <2>2 DEF Receiving
  <2>3. CASE mm' \in [at : {"orphans"}, src : Slots]
    BY <2>3
  <2>4. QED
    BY <2>1, <2>2, <2>3 DEF After
<1>5. ASSUME NEW q \in Proc PROVE ClientOK(q)'
  <2>1. CASE q # c
    BY <1>1, <1>2, <1>3, <2>1, KeepLemma DEF IInv, At
  <2>2. CASE q = c
    BY <1>1, <1>2, <1>3, <2>2 DEF ClientOK, Free, InUse, Ended
  <2>3. QED
    BY <2>1, <2>2
<1>6. TypeOK'
  <2>1. TypeOK
    BY DEF IInv
  <2>2. ASSUME NEW q \in Proc PROVE ("SENDING" \in p_flags'[q]) <=> ("SENDING" \in p_flags[q])
    <3>1. "SENDING" \notin p_flags[c]
      BY <1>1 DEF Ended
    <3>2. QED
      BY <1>3, <3>1
  <2>3. p_flags' \in [Proc -> SUBSET Flags]
    BY <1>2, <2>1 DEF TypeOK, Flags
  <2>4. QED
    BY <1>2, <2>1, <2>2, <2>3 DEF TypeOK
<1>7. InitOK' /\ QueueOK'
  BY <1>2 DEF IInv, InitOK, QueueOK
<1>8. MmOK'
  BY <1>4 DEF MmOK, At
<1>9. ToldOK'
  BY <1>1, <1>2, <1>3, ToldLemma DEF ToldOK, Free, Ended
<1>10. DescriptorsOK'
  <2>1. \A q \in Proc : ~ Forking(q) /\ ~ Forking(q)'
    BY <1>1, <1>4 DEF Forking
  <2>2. QED
    BY <1>2, <2>1 DEF IInv, DescriptorsOK
<1>11. NoUnheardZombie'
  BY <1>2, <1>3 DEF IInv, NoUnheardZombie, Zombies, Children
<1>12. QED
  BY <1>5, <1>6, <1>7, <1>8, <1>9, <1>10, <1>11 DEF IInv

\* The lowest of a process's children, or of those that hang.
LEMMA ChildLemma ==
  ASSUME IInv, NEW S \in SUBSET Proc, S # {}
  PROVE  Min(S) \in S /\ Min(S) \in Proc
BY FiniteProc, MinLemma

LEMMA OrphanLemma ==
  ASSUME IInv, NEW c \in Proc, p_parent[c] \in Proc
  PROVE  c \in Slots
BY ForkExitAssumption DEF IInv, InitOK, Proc

\* A zombie is a process whose end nobody has been told.
LEMMA ZombieLemma ==
  ASSUME IInv, NEW c \in Proc, "HANGING" \in p_flags[c], ~ At("free slot")
  PROVE  /\ c \in Slots /\ call[c] \in Exits /\ filp[c] = {} /\ c \notin told
         /\ exit_status[c] = call[c].STATUS /\ p_flags[c] \ {"RECEIVING"} = {"HANGING"}
<1>1. Hanging(c)
  BY FlagsLemma DEF IInv
<1>2. c \in Slots
  BY <1>1 DEF Hanging, IInv, InitOK, Proc
<1>3. c \notin told
  <2>1. "FREE_SLOT" \notin p_flags[c]
    <3>1. p_flags[c] \ {"RECEIVING"} = {"HANGING"}
      BY <1>1 DEF Hanging
    <3>2. "FREE_SLOT" \in p_flags[c] => "FREE_SLOT" \in p_flags[c] \ {"RECEIVING"}
      OBVIOUS
    <3>3. QED
      BY <3>1, <3>2
  <2>2. QED
    BY <2>1, ToldLemma DEF Free
<1>4. QED
  BY <1>1, <1>2, <1>3 DEF Hanging

LEMMA AdoptOneLemma ==
  ASSUME IInv, AdoptOne
  PROVE  IInv'
<1> USE DEF clientVars
<1>1. PICK p \in Slots : /\ mm.at = "orphans" /\ mm.src = p /\ p \in Proc /\ p # INIT
                         /\ mm = [at |-> "orphans", src |-> p]
  BY ForkExitAssumption DEF AdoptOne, IInv, MmOK, At, Proc
<1>2. PICK c \in Proc : c = Min(Children(p)) /\ p_parent[c] = p
  <2>1. Children(p) \in SUBSET Proc /\ Children(p) # {}
    BY <1>1 DEF Children, AdoptOne
  <2>2. Min(Children(p)) \in Children(p)
    BY <2>1, ChildLemma
  <2>3. QED
    BY <2>2 DEF Children
<1>3. c \in Slots /\ c # INIT /\ INIT \in Proc
  BY <1>1, <1>2, OrphanLemma, ForkExitAssumption DEF Proc
<1>4. /\ p_parent' = [p_parent EXCEPT ![c] = INIT]
      /\ UNCHANGED <<exit_status, filp, fd_cnt, mem, call, q_sending, forks_left, told>>
  BY <1>1, <1>2 DEF AdoptOne
<1>5. \/ /\ "WAITING" \in p_flags[INIT] /\ "HANGING" \in p_flags[c]
         /\ p_flags' = [p_flags EXCEPT ![INIT] = @ \ {"WAITING"}]
         /\ mm' = SendTo(INIT, [PID |-> c, STATUS |-> exit_status[c]],
                         [at |-> "free slot", child |-> c, next |-> mm])
      \/ /\ ~ ("WAITING" \in p_flags[INIT] /\ "HANGING" \in p_flags[c])
         /\ p_flags' = p_flags /\ mm' = mm
  BY <1>1, <1>2 DEF AdoptOne, Cleanup
<1>6. p_parent'[c] = INIT /\ \A q \in Proc \ {c} : p_parent'[q] = p_parent[q]
  BY <1>4 DEF IInv, TypeOK
<1>7. CASE /\ ~ ("WAITING" \in p_flags[INIT] /\ "HANGING" \in p_flags[c])
           /\ p_flags' = p_flags /\ mm' = mm
  <2>1. ASSUME NEW q \in Proc PROVE ClientOK(q)'
    <3>1. ClientOK(q) /\ (p_parent[q] \in Proc => p_parent'[q] \in Proc)
      BY <1>3, <1>6 DEF IInv
    <3>2. QED
      BY <1>4, <1>7, <3>1 DEF ClientOK, Free, AtWork, Queued, Waiting, Hanging, InHand, InUse, At
  <2>2. TypeOK'
    BY <1>3, <1>4, <1>7 DEF IInv, TypeOK
  <2>3. InitOK' /\ QueueOK'
    BY <1>3, <1>4, <1>6 DEF IInv, InitOK, QueueOK
  <2>4. MmOK'
    BY <1>1, <1>7 DEF MmOK, At
  <2>5. ToldOK' /\ DescriptorsOK'
    BY <1>4, <1>7 DEF IInv, ToldOK, DescriptorsOK, Forking, Free, At
  <2>6. NoUnheardZombie'
    BY <1>3, <1>6, <1>7 DEF IInv, NoUnheardZombie, Zombies, Children
  <2>7. QED
    BY <2>1, <2>2, <2>3, <2>4, <2>5, <2>6 DEF IInv
<1>8. CASE /\ "WAITING" \in p_flags[INIT] /\ "HANGING" \in p_flags[c]
           /\ p_flags' = [p_flags EXCEPT ![INIT] = @ \ {"WAITING"}]
           /\ mm' = SendTo(INIT, [PID |-> c, STATUS |-> exit_status[c]],
                           [at |-> "free slot", child |-> c, next |-> mm])
  <2>1. /\ p_flags'[INIT] = p_flags[INIT] \ {"WAITING"}
        /\ \A q \in Proc \ {INIT} : p_flags'[q] = p_flags[q]
    BY <1>3, <1>8 DEF IInv, TypeOK
  <2>2. /\ p_flags[INIT] \ {"RECEIVING"} = {"WAITING"} /\ call[INIT] = WaitCall
        /\ p_flags'[INIT] \subseteq {"RECEIVING"}
    <3>1. Waiting(INIT)
      BY <1>3, <1>8, FlagsLemma DEF IInv
    <3>2. QED
      BY <2>1, <3>1 DEF Waiting
  <2>3. mm'.at = "send" /\ mm'.to = INIT
    <3>1. mm' = SendTo(INIT, [PID |-> c, STATUS |-> exit_status[c]],
                       [at |-> "free slot", child |-> c, next |-> mm])
      BY <1>8
    <3>2. QED
      BY <3>1 DEF SendTo
  <2>4. /\ call[c] \in Exits /\ filp[c] = {} /\ c \notin told
        /\ exit_status[c] = call[c].STATUS /\ p_flags[c] \ {"RECEIVING"} = {"HANGING"}
    BY <1>1, <1>8, ZombieLemma DEF At
  <2>5. ASSUME NEW q \in Proc PROVE ClientOK(q)'
    <3>1. CASE q = INIT
      <4>1. InHand(q)'
        BY <1>4, <2>2, <3>1, RequestsLemma DEF InHand
      <4>2. ClientOK(q) /\ InUse(q) /\ call[q] \notin Exits
        BY <2>2, <3>1, RequestsLemma DEF IInv, InUse
      <4>3. QED
        BY <1>1, <1>4, <3>1, <4>1, <4>2 DEF ClientOK, At
    <3>2. CASE q # INIT
      <4>1. ClientOK(q) /\ (p_parent[q] \in Proc => p_parent'[q] \in Proc)
        BY <1>3, <1>6 DEF IInv
      <4>2. ~ At("fork memory") /\ p_flags'[q] = p_flags[q]
        BY <1>1, <2>1, <3>2 DEF At
      <4>3. QED
        BY <1>4, <3>2, <4>1, <4>2
           DEF ClientOK, Free, AtWork, Queued, Waiting, Hanging, InHand, InUse
    <3>3. QED
      BY <3>1, <3>2
  <2>6. TypeOK'
    <3>1. TypeOK
      BY DEF IInv
    <3>2. ASSUME NEW q \in Proc
          PROVE  ("SENDING" \in p_flags'[q]) <=> ("SENDING" \in p_flags[q])
      BY <2>1
    <3>3. p_flags' \in [Proc -> SUBSET Flags]
      BY <1>8, <3>1 DEF TypeOK
    <3>4. p_parent' \in [Proc -> Proc \cup {NO_TASK, TASK_TTY}]
      BY <1>3, <1>4, <3>1 DEF TypeOK
    <3>5. QED
      BY <1>4, <3>1, <3>2, <3>3, <3>4 DEF TypeOK
  <2>7. InitOK' /\ QueueOK'
    BY <1>3, <1>4, <1>6 DEF IInv, InitOK, QueueOK
  <2>8. MmOK'
    <3>1. Ended(c)'
      BY <1>3, <1>4, <2>1, <2>4 DEF Ended
    <3>2. Served(INIT, {WaitCall})'
      BY <1>3, <1>4, <2>2 DEF Served
    <3>3. mm \in After /\ exit_status[c] = call'[c].STATUS
      BY <1>1, <1>4, <2>4 DEF After
    <3>4. SendsReport'
      BY <1>3, <1>4, <1>6, <1>8, <2>3, <2>4, <3>1, <3>2, <3>3 DEF SendsReport
    <3>5. QED
      BY <2>3, <3>4 DEF MmOK, At
  <2>9. ToldOK'
    <3>1. ASSUME NEW e \in told PROVE Free(e)'
      BY <1>1, <1>4, <2>1, ToldLemma DEF Free, At
    <3>2. QED
      BY <1>4, <3>1 DEF ToldOK
  <2>10. DescriptorsOK'
    <3>1. \A q \in Proc : ~ Forking(q) /\ ~ Forking(q)'
      BY <1>1, <2>3 DEF Forking
    <3>2. QED
      BY <1>4, <3>1 DEF IInv, DescriptorsOK
  <2>11. NoUnheardZombie'
    <3>1. "WAITING" \notin p_flags'[INIT]
      BY <2>1
    <3>2. ASSUME NEW q \in Proc, "WAITING" \in p_flags'[q],
                 NEW z \in Proc, p_parent'[z] = q, "HANGING" \in p_flags'[z]
          PROVE  FALSE
      <4>1. q # INIT /\ p_flags'[q] = p_flags[q] /\ z # c /\ p_parent[z] = q
        BY <1>6, <2>1, <3>1, <3>2
      <4>2. "HANGING" \in p_flags[z]
        BY <2>1, <3>2
      <4>3. QED
        BY <3>2, <4>1, <4>2 DEF IInv, NoUnheardZombie, Zombies, Children
    <3>3. QED
      BY <3>2 DEF NoUnheardZombie, Zombies, Children
  <2>12. QED
    BY <2>5, <2>6, <2>7, <2>8, <2>9, <2>10, <2>11 DEF IInv
<1>9. QED
  BY <1>5, <1>7, <1>8

\* The steps of do_exit and do_wait that change nothing but where MM is.
LEMMA TurnLemma ==
  ASSUME IInv, UNCHANGED <<p_flags, clientVars, call, q_sending, forks_left, told>>,
         mm.at \notin {"fork memory", "fork fs", "free slot"},
         mm'.at \notin {"fork memory", "fork fs", "free slot"}, MmOK'
  PROVE  IInv'
<1> USE DEF clientVars
<1>1. ASSUME NEW q \in Proc PROVE ClientOK(q)'
  BY KeepLemma DEF IInv, At
<1>2. TypeOK' /\ InitOK' /\ QueueOK' /\ NoUnheardZombie'
  BY DEF IInv, TypeOK, InitOK, QueueOK, NoUnheardZombie, Zombies, Children
<1>3. ToldOK' /\ DescriptorsOK'
  BY DEF IInv, ToldOK, DescriptorsOK, Forking, Free, At
<1>4. QED
  BY <1>1, <1>2, <1>3 DEF IInv

LEMMA ExitDoneLemma ==
  ASSUME IInv, ExitDone
  PROVE  IInv'
<1>1. mm.at = "orphans" /\ mm' = Receiving /\ mm'.at = "receive"
  BY DEF ExitDone, At, Receiving
<1>2. MmOK'
  BY <1>1 DEF MmOK, At
<1>3. QED
  BY <1>1, <1>2, TurnLemma DEF ExitDone

LEMMA WaitZombieLemma ==
  ASSUME IInv, WaitZombie
  PROVE  IInv'
<1> USE DEF clientVars
<1>1. PICK p \in Proc : mm.at = "WAIT" /\ mm.src = p /\ Served(p, {WaitCall})
  BY DEF WaitZombie, IInv, MmOK, At, Served
<1>2. PICK c \in Proc : /\ c = Min(Zombies(Children(p)))
                        /\ p_parent[c] = p /\ "HANGING" \in p_flags[c]
  <2>1. Zombies(Children(p)) \in SUBSET Proc /\ Zombies(Children(p)) # {}
    BY <1>1 DEF Children, Zombies, WaitZombie
  <2>2. Min(Zombies(Children(p))) \in Zombies(Children(p))
    BY <2>1, ChildLemma
  <2>3. QED
    BY <2>2 DEF Children, Zombies
<1>3. /\ mm' = SendTo(p, [PID |-> c, STATUS |-> exit_status[c]],
                      [at |-> "free slot", child |-> c, next |-> Receiving])
      /\ UNCHANGED <<p_flags, clientVars, call, q_sending, forks_left, told>>
  BY <1>1, <1>2 DEF WaitZombie, Cleanup
<1>4. mm'.at = "send" /\ mm'.to = p
  <2>1. mm' = SendTo(p, [PID |-> c, STATUS |-> exit_status[c]],
                     [at |-> "free slot", child |-> c, next |-> Receiving])
    BY <1>3
  <2>2. QED
    BY <2>1 DEF SendTo
<1>5. SendsReport'
  <2>1. /\ c \in Slots /\ call[c] \in Exits /\ filp[c] = {} /\ c \notin told
        /\ exit_status[c] = call[c].STATUS /\ p_flags[c] \ {"RECEIVING"} = {"HANGING"}
    BY <1>1, <1>2, ZombieLemma DEF At
  <2>2. Ended(c)' /\ Served(p, {WaitCall})'
    BY <1>1, <1>3, <2>1 DEF Ended, Served
  <2>3. Receiving \in After /\ exit_status[c] = call'[c].STATUS
    BY <1>3, <2>1 DEF After
  <2>4. QED
    BY <1>2, <1>3, <1>4, <2>1, <2>2, <2>3 DEF SendsReport
<1>6. MmOK'
  BY <1>4, <1>5 DEF MmOK, At
<1>7. QED
  BY <1>1, <1>3, <1>4, <1>6, TurnLemma

LEMMA WaitNoChildLemma ==
  ASSUME IInv, WaitNoChild
  PROVE  IInv'
<1> USE DEF clientVars
<1>1. PICK p \in Proc : mm.at = "WAIT" /\ mm.src = p /\ Served(p, {WaitCall})
  BY DEF WaitNoChild, IInv, MmOK, At, Served
<1>2. /\ mm' = SendTo(p, [PID |-> NO_TASK], Receiving) /\ Children(p) = {}
      /\ UNCHANGED <<p_flags, clientVars, call, q_sending, forks_left, told>>
  BY <1>1 DEF WaitNoChild
<1>3. mm'.at = "send" /\ mm'.to = p
  BY <1>2 DEF SendTo
<1>4. SendsNoChild'
  BY <1>1, <1>2, <1>3 DEF SendsNoChild, Served, Children
<1>5. MmOK'
  BY <1>3, <1>4 DEF MmOK, At
<1>6. QED
  BY <1>1, <1>2, <1>3, <1>5, TurnLemma

LEMMA WaitBlocksLemma ==
  ASSUME IInv, WaitBlocks
  PROVE  IInv'
<1> USE DEF clientVars
<1>1. PICK p \in Proc : /\ mm.at = "WAIT" /\ mm.src = p /\ call[p] = WaitCall
                        /\ p_flags[p] \subseteq {"RECEIVING"} /\ Zombies(Children(p)) = {}
  BY DEF WaitBlocks, IInv, MmOK, At, Served
<1>2. /\ p_flags' = [p_flags EXCEPT ![p] = @ \cup {"WAITING"}] /\ mm' = Receiving
      /\ UNCHANGED <<clientVars, call, q_sending, forks_left, told>>
  BY <1>1 DEF WaitBlocks
<1>3. /\ p_flags'[p] = p_flags[p] \cup {"WAITING"} /\ mm'.at = "receive"
      /\ \A q \in Proc \ {p} : p_flags'[q] = p_flags[q]
  BY <1>2 DEF IInv, TypeOK, Receiving
<1>4. ASSUME NEW q \in Proc PROVE ClientOK(q)'
  <2>1. CASE q # p
    BY <1>1, <1>2, <1>3, <2>1, KeepLemma DEF IInv, At
  <2>2. CASE q = p
    <3>1. p_flags'[p] \ {"RECEIVING"} = {"WAITING"} /\ "FREE_SLOT" \notin p_flags[p]
      BY <1>1, <1>3
    <3>2. ClientOK(p) /\ InUse(p) /\ ~ At("fork memory")
      BY <1>1, <3>1 DEF IInv, InUse, At
    <3>3. QED
      BY <1>1, <1>2, <2>2, <3>1, <3>2 DEF ClientOK, Waiting
  <2>3. QED
    BY <2>1, <2>2
<1>5. TypeOK'
  <2>1. TypeOK
    BY DEF IInv
  <2>2. ASSUME NEW q \in Proc PROVE ("SENDING" \in p_flags'[q]) <=> ("SENDING" \in p_flags[q])
    BY <1>3
  <2>3. p_flags' \in [Proc -> SUBSET Flags]
    BY <1>2, <2>1 DEF TypeOK, Flags
  <2>4. QED
    BY <1>2, <2>1, <2>2, <2>3 DEF TypeOK
<1>6. InitOK' /\ QueueOK'
  BY <1>2 DEF IInv, InitOK, QueueOK
<1>7. MmOK'
  BY <1>2, <1>3 DEF MmOK, At
<1>8. ToldOK'
  <2>1. ASSUME NEW c \in told PROVE Free(c)'
    <3>1. Free(c) /\ c \in Proc
      BY <1>1, ToldLemma DEF At
    <3>2. c # p
      BY <1>1, <3>1 DEF Free
    <3>3. QED
      BY <1>2, <1>3, <3>1, <3>2 DEF Free
  <2>2. QED
    BY <1>2, <2>1 DEF ToldOK
<1>9. DescriptorsOK'
  <2>1. \A q \in Proc : ~ Forking(q) /\ ~ Forking(q)'
    BY <1>1, <1>3 DEF Forking
  <2>2. QED
    BY <1>2, <2>1 DEF IInv, DescriptorsOK
<1>10. NoUnheardZombie'
  <2>1. ASSUME NEW q \in Proc, "WAITING" \in p_flags'[q],
               NEW z \in Proc, p_parent[z] = q, "HANGING" \in p_flags'[z]
        PROVE  FALSE
    <3>1. "HANGING" \in p_flags[z]
      BY <1>3, <2>1
    <3>2. q # p
      BY <1>1, <2>1, <3>1 DEF Zombies, Children
    <3>3. QED
      BY <1>3, <2>1, <3>1, <3>2 DEF IInv, NoUnheardZombie, Zombies, Children
  <2>2. QED
    BY <1>2, <2>1 DEF NoUnheardZombie, Zombies, Children
<1>11. QED
  BY <1>4, <1>5, <1>6, <1>7, <1>8, <1>9, <1>10 DEF IInv

----------------------------------------------------------------------------
\* The theorems

LEMMA StepLemma == IInv /\ [Next]_vars => IInv'
<1> SUFFICES ASSUME IInv, [Next]_vars PROVE IInv'
  OBVIOUS
<1>1. CASE MM
  BY <1>1, TakeLemma, ForkCopyLemma, ForkNoSlotLemma, ForkMemoryLemma, ForkFsLemma,
     DeliverLemma, ExitFsLemma, ExitMemoryLemma, FreeSlotLemma, AdoptOneLemma, ExitDoneLemma,
     WaitZombieLemma, WaitBlocksLemma, WaitNoChildLemma DEF MM
<1>2. CASE \E p \in Proc, what \in Calls : Call(p, what)
  BY <1>2, CallLemma
<1>3. CASE \E p \in Proc : Receive(p)
  BY <1>3, ReceiveLemma
<1>4. CASE UNCHANGED vars
  <2>1. MmOK'
    BY <1>4, HoldLemma DEF vars, clientVars
  <2>2. ASSUME NEW q \in Proc PROVE ClientOK(q)'
    BY <1>4, KeepLemma DEF vars, IInv, At
  <2>3. TypeOK' /\ InitOK' /\ QueueOK'
    BY <1>4 DEF vars, IInv, TypeOK, InitOK, QueueOK
  <2>4. ToldOK' /\ DescriptorsOK' /\ NoUnheardZombie'
    BY <1>4 DEF vars, IInv, ToldOK, DescriptorsOK, Forking, Free, At,
                NoUnheardZombie, Zombies, Children
  <2>5. QED
    BY <2>1, <2>2, <2>3, <2>4 DEF IInv
<1>5. QED
  BY <1>1, <1>2, <1>3, <1>4 DEF Next

\* Every state MM and its clients reach is of the shape IInv describes.
THEOREM ForkExitInvariant == Spec => []IInv
BY StartLemma, StepLemma, PTL DEF Spec

\* do_wait and do_exit lose no death (mm/forkexit.c): no process waits for a child
\* while a child of it hangs, however forks, exits, waits and adoptions interleave.
THEOREM NoDeathIsLost == Spec => []NoUnheardZombie
<1>1. IInv => NoUnheardZombie
  BY DEF IInv
<1>2. QED
  BY <1>1, ForkExitInvariant, PTL

\* MM's SENDs to its clients (replies, births, reports of an end) only ever block on a
\* client that goes on to its RECEIVE.
THEOREM MmIsNeverStuck == Spec => []MmCanReply
<1>1. IInv => MmCanReply
  BY RequestsLemma
     DEF IInv, MmOK, MmCanReply, SendsBirth, SendsReply, SendsNoChild, SendsReport, Served, At,
         Requests
<1>2. QED
  BY <1>1, ForkExitInvariant, PTL

\* A process that executes has its own memory, and fd_cnt counts the entries that hold
\* each descriptor (fs_fork and fs_exit).
THEOREM UserCodeRunsWhole == Spec => []UserCodeIsWhole
<1>1. IInv => UserCodeIsWhole
  <2>1. ASSUME IInv, NEW p \in Proc, InUse(p), call[p] = NoCall
        PROVE  mem[p] = "own" /\ ~ Forking(p)
    <3>1. ~ (mm.at \in {"fork memory", "fork fs"} /\ mm.child = p)
      BY <2>1, RequestsLemma DEF IInv, MmOK, Served, Requests
    <3>2. QED
      BY <2>1, <3>1, RequestsLemma DEF IInv, ClientOK, Forking, At
  <2>2. QED
    BY <2>1 DEF IInv, UserCodeIsWhole, DescriptorsOK
<1>2. QED
  BY <1>1, ForkExitInvariant, PTL

\* What wait() returns is true: the end of a child of the caller, the status that child
\* passed to exit(), never the same end twice; -1 only when it has no child left.
THEOREM WaitIsTold == Spec => WaitTellsTheTruth
<1>1. ASSUME IInv, Deliver, call[mm.to] = WaitCall
      PROVE  LET c == mm.msg.PID
             IN IF c = NO_TASK THEN \A p \in Children(mm.to) : ~ InUse(p)
                ELSE /\ p_parent[c] = mm.to /\ c \notin told
                     /\ call[c] = [type |-> "EXIT", STATUS |-> mm.msg.STATUS]
  <2>1. SendsNoChild \/ SendsReport
    BY <1>1, RequestsLemma
       DEF Deliver, IInv, MmOK, SendsBirth, SendsReply, Served, At
  <2>2. CASE SendsNoChild
    <3>1. mm.msg = [PID |-> NO_TASK] /\ Children(mm.to) = {}
      BY <2>2, SendLemma DEF SendsNoChild
    <3>2. QED
      BY <3>1
  <2>3. CASE SendsReport
    <3>1. PICK c \in Slots, next \in After :
            /\ Ended(c) /\ p_parent[c] = mm.to /\ c \notin told
            /\ mm = SendTo(mm.to, [PID |-> c, STATUS |-> call[c].STATUS],
                           [at |-> "free slot", child |-> c, next |-> next])
      BY <2>3 DEF SendsReport
    <3>2. mm.msg = [PID |-> c, STATUS |-> call[c].STATUS]
      BY <3>1, SendLemma
    <3>3. mm.msg.PID = c /\ mm.msg.STATUS = call[c].STATUS
      BY <3>2
    <3>4. call[c] = [type |-> "EXIT", STATUS |-> call[c].STATUS] /\ c # NO_TASK
      BY <3>1, ForkExitAssumption DEF Ended, Exits
    <3>5. QED
      BY <3>1, <3>3, <3>4
  <2>4. QED
    BY <2>1, <2>2, <2>3
<1>2. QED
  BY <1>1, ForkExitInvariant, PTL DEF WaitTellsTheTruth

=============================================================================
