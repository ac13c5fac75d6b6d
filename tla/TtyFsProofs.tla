---------------------------- MODULE TtyFsProofs ----------------------------
(***************************************************************************)
(* Proofs about a terminal: a reader that FS has suspended is served, and FS  *)
(* replies to the program that called it.                                   *)
(***************************************************************************)
EXTENDS TtyFs, TLAPS

\* Program u is in a call of FS for request r, which FS has taken.
Calls(u, r) ==
  \E at \in {"sent", "receiving"} : user[u] = [at |-> at, req |-> r]

\* FS is about the request of program u.
Serves(u) == fs.at # "receive" /\ fs.src = u

\* TTY has a reader whose line it collects, or has completed it and not told FS.
Collecting == tty = "sending" \/ (tty # "sent" /\ reading.left > 0)

Users ==
  /\ DOMAIN user = User
  /\ \A u \in User :
       \/ user[u] = Idle
       \/ \E r \in Requests(u) : user[u] = [at |-> "sending", req |-> r] \/ Calls(u, r)

\* What FS may be at, with the program it serves at that request.
FsTaken(u, r) ==
  \/ \E at \in {"do_rdwt", "sending"} : fs = [at |-> at, src |-> u, req |-> r]
  \/ \E type \in {"SUSPEND_PROC", "SYSCALL_RET"} :
       /\ fs = [at |-> "answered", src |-> u, req |-> r, type |-> type, CNT |-> r.CNT]
       /\ type = "SUSPEND_PROC" <=> r.type = "READ"
  \/ \E n \in 0 .. r.CNT : fs = [at |-> "reply", src |-> u, CNT |-> n]
FsServes ==
  \/ fs = [at |-> "receive"]
  \/ \E u \in User : \E r \in Requests(u) : Calls(u, r) /\ FsTaken(u, r)

\* A sender waits once, in the middle of its SEND.
Queue ==
  /\ fs_queue \in Seq(User \cup {TTY})
  /\ \A i \in 1 .. Len(fs_queue) :
       IF fs_queue[i] = TTY THEN tty = "sending" ELSE user[fs_queue[i]].at = "sending"
  /\ \A i, j \in 1 .. Len(fs_queue) : fs_queue[i] = fs_queue[j] => i = j

Points ==
  /\ tty \in {"receive", "keyboard_read", "dev_write", "sending", "sent"}
  /\ ibuf \in Seq(Keys) /\ Len(ibuf) <= TTY_IN_BYTES
  /\ kb_in \in Seq(Keys) /\ Len(kb_in) <= KB_IN_BYTES
  /\ reading \in [procnr : User \cup {TTY}, left : Nat, trans : Nat]

\* The reader whose line TTY collects waits for it, and FS has its answer at most
\* still to read.
Collected ==
  Collecting =>
    /\ reading.procnr \in Reader
    /\ \E r \in Requests(reading.procnr) :
         /\ r.type = "READ" /\ Calls(reading.procnr, r)
         /\ reading.left + reading.trans = r.CNT
    /\ Serves(reading.procnr) => fs.at = "answered"

\* A program in a call is FS's to answer or TTY's to complete; a reader about to be
\* suspended is both.
Answered ==
  ~deadlock =>
    /\ \A u \in User :
         user[u].at \in {"sent", "receiving"} =>
           Serves(u) \/ (Collecting /\ reading.procnr = u)
    /\ FsAt("answered") =>
         (fs.type = "SUSPEND_PROC" => Collecting /\ reading.procnr = fs.src)

IInv == Users /\ FsServes /\ Queue /\ Points /\ Collected /\ Answered

----------------------------------------------------------------------------
\* Lemmas

\* What a request is.
LEMMA RequestFacts ==
  ASSUME NEW u \in User, NEW r \in Requests(u)
  PROVE  /\ r.type \in Types /\ r.CNT \in Nat \ {0}
         /\ r.type = "READ" => u \in Reader
BY TtyFsAssumption DEF Requests, Types

\* A program in a call is at one of two points, for one request.
LEMMA CallFacts ==
  ASSUME NEW u, NEW r, Calls(u, r)
  PROVE  user[u].at \in {"sent", "receiving"} /\ user[u].req = r /\ user[u] # Idle
<1>1. PICK at \in {"sent", "receiving"} : user[u] = [at |-> at, req |-> r]  BY DEF Calls
<1>2. user[u].at = at /\ user[u].req = r  BY <1>1
<1>3. Idle.at = "running"  BY DEF Idle
<1> QED  BY <1>2, <1>3

\* A program whose call FS has taken, or TTY collects for, is in Calls.
LEMMA WaiterCalls ==
  ASSUME Users, NEW u \in User, user[u].at \in {"sent", "receiving"}
  PROVE  \E r \in Requests(u) : Calls(u, r)
<1>1. user[u] # Idle  BY DEF Idle
<1>2. ASSUME NEW r, user[u] = [at |-> "sending", req |-> r] PROVE FALSE
  <2>1. user[u].at = "sending"  BY <1>2
  <2> QED  BY <2>1
<1> QED  BY <1>1, <1>2 DEF Users

\* What FS has in its registers when it has taken a request.
LEMMA TakenFacts ==
  ASSUME NEW u, NEW r, FsTaken(u, r)
  PROVE  /\ fs.at \in {"do_rdwt", "sending", "answered", "reply"} /\ fs.src = u
         /\ fs.at # "reply" => fs.req = r
         /\ fs.at = "answered" =>
              /\ fs.CNT = r.CNT /\ fs.type \in {"SUSPEND_PROC", "SYSCALL_RET"}
              /\ fs.type = "SUSPEND_PROC" <=> r.type = "READ"
         /\ fs.at = "reply" => fs.CNT \in 0 .. r.CNT
<1>1. CASE \E at \in {"do_rdwt", "sending"} : fs = [at |-> at, src |-> u, req |-> r]
  BY <1>1
<1>2. CASE \E type \in {"SUSPEND_PROC", "SYSCALL_RET"} :
             /\ fs = [at |-> "answered", src |-> u, req |-> r, type |-> type, CNT |-> r.CNT]
             /\ type = "SUSPEND_PROC" <=> r.type = "READ"
  BY <1>2
<1>3. CASE \E n \in 0 .. r.CNT : fs = [at |-> "reply", src |-> u, CNT |-> n]
  BY <1>3
<1> QED  BY <1>1, <1>2, <1>3 DEF FsTaken

\* FS that is not receiving serves a program in a call.
LEMMA FsFacts ==
  ASSUME FsServes, fs.at # "receive"
  PROVE  \E u \in User : \E r \in Requests(u) : Calls(u, r) /\ FsTaken(u, r) /\ fs.src = u
<1>1. fs # [at |-> "receive"]  OBVIOUS
<1>2. PICK u \in User : \E r \in Requests(u) : Calls(u, r) /\ FsTaken(u, r)
  BY <1>1 DEF FsServes
<1> QED  BY <1>2, TakenFacts

\* FS that receives has no more to do for anyone.
LEMMA FsReceives ==
  ASSUME FsServes, fs.at = "receive"
  PROVE  fs = [at |-> "receive"] /\ \A u : ~ Serves(u)
<1>1. ASSUME NEW u, NEW r, FsTaken(u, r) PROVE FALSE
  BY <1>1, TakenFacts
<1> QED  BY <1>1 DEF FsServes, Serves

\* The assumption on the reader, in the form the steps use.
LEMMA ReaderIsOne ==
  ASSUME NEW u \in Reader, NEW v \in Reader
  PROVE  u = v /\ u \in User /\ u # TTY
BY TtyFsAssumption

\* A step that leaves the programs and FS alone keeps what relates them.
LEMMA UserAndFsStay ==
  ASSUME Users, FsServes, UNCHANGED <<user, fs>>
  PROVE  /\ Users' /\ FsServes'
         /\ \A u, r : Calls(u, r)' <=> Calls(u, r)
         /\ \A u : Serves(u)' <=> Serves(u)
<1>1. \A u, r : Calls(u, r)' <=> Calls(u, r)  BY DEF Calls
<1>2. \A u, r : FsTaken(u, r)' <=> FsTaken(u, r)  BY DEF FsTaken
<1>3. \A u : Serves(u)' <=> Serves(u)  BY DEF Serves
<1>4. Users'  BY <1>1 DEF Users
<1>5. FsServes'  BY <1>1, <1>2 DEF FsServes
<1> QED  BY <1>1, <1>3, <1>4, <1>5

\* Program u changes: the others stay.
LEMMA UserChanges ==
  ASSUME NEW u \in User, NEW e, user' = [user EXCEPT ![u] = e], DOMAIN user = User
  PROVE  /\ user'[u] = e /\ \A v \in User : v # u => user'[v] = user[v]
         /\ DOMAIN user' = User
OBVIOUS

----------------------------------------------------------------------------
\* The steps

\* Nothing is asked at the start.
LEMMA InitInv == Init => IInv
<1> SUFFICES ASSUME Init PROVE IInv  OBVIOUS
<1> USE TtyFsAssumption DEF Init
<1>1. Users  BY DEF Users
<1>2. FsServes  BY DEF FsServes
<1>3. Queue  BY DEF Queue
<1>4. Points  BY DEF Points
<1>5. Collected  BY DEF Collected, Collecting
<1>6. Answered
  <2>1. FsAt("answered") = FALSE  BY DEF FsAt
  <2>2. Idle.at = "running"  BY DEF Idle
  <2> QED  BY <2>1, <2>2 DEF Answered
<1> QED  BY <1>1, <1>2, <1>3, <1>4, <1>5, <1>6 DEF IInv

\* The steps of the keyboard and the clock.
LEMMA InterruptsKeep ==
  ASSUME IInv, (\E k \in Keys : Key(k)) \/ Tick
  PROVE  IInv'
<1>1. UNCHANGED <<user, fs, fs_queue, ttyVars, deadlock>>  BY DEF Key, Tick, ttyVars
<1>2. UNCHANGED <<user, fs, fs_queue, tty, ibuf, reading, deadlock>>  BY <1>1 DEF ttyVars
<1>3. kb_in' \in Seq(Keys) /\ Len(kb_in') <= KB_IN_BYTES
  <2>1. CASE Tick  BY <2>1 DEF IInv, Points, Tick
  <2>2. ASSUME NEW k \in Keys, Key(k)
        PROVE  kb_in' \in Seq(Keys) /\ Len(kb_in') <= KB_IN_BYTES
    <3>1. kb_in \in Seq(Keys) /\ Len(kb_in) <= KB_IN_BYTES  BY DEF IInv, Points
    <3>2. kb_in' = kb_in \/ (Len(kb_in) < KB_IN_BYTES /\ kb_in' = Append(kb_in, k))
      BY <2>2 DEF Key
    <3> QED  BY <3>1, <3>2, TtyFsAssumption
  <2> QED  BY <2>1, <2>2
<1>4. Points'  BY <1>2, <1>3 DEF IInv, Points
<1>5. /\ Users' /\ FsServes'
      /\ \A u, r : Calls(u, r)' <=> Calls(u, r)
      /\ \A u : Serves(u)' <=> Serves(u)
  BY <1>2, UserAndFsStay DEF IInv
<1>6. Queue'  BY <1>2 DEF IInv, Queue
<1>7. Collecting' <=> Collecting  BY <1>2 DEF Collecting
<1>8. Collected'  BY <1>2, <1>5, <1>7 DEF IInv, Collected
<1>9. Answered'  BY <1>2, <1>5, <1>7 DEF IInv, Answered, FsAt
<1> QED  BY <1>4, <1>5, <1>6, <1>8, <1>9 DEF IInv

\* A program in a call is not the one that asks.
LEMMA RequestKeeps ==
  ASSUME IInv, NEW u \in User, NEW r \in Requests(u), Request(u, r)
  PROVE  IInv'
<1>1. /\ user[u] = Idle /\ UNCHANGED <<fs, tty, ibuf, reading, kb_in, deadlock>>
      /\ user' = [user EXCEPT ![u] = [at |-> "sending", req |-> r]]
      /\ fs_queue' = Append(fs_queue, u)
  BY DEF Request, ttyVars, intVars
<1>2. /\ user'[u] = [at |-> "sending", req |-> r] /\ DOMAIN user' = User
      /\ \A v \in User : v # u => user'[v] = user[v]
  BY <1>1, UserChanges DEF IInv, Users
<1>3. /\ user[u].at = "running" /\ user'[u].at = "sending" /\ user'[u] # Idle
      /\ \A q : ~ Calls(u, q)
  <2>1. user[u].at = "running"  BY <1>1 DEF Idle
  <2>2. user'[u].at = "sending"  BY <1>2
  <2>3. \A q : ~ Calls(u, q)  BY <2>1, CallFacts
  <2> QED  BY <2>1, <2>2, <2>3 DEF Idle
<1>4. \A v \in User : \A q : Calls(v, q) => Calls(v, q)' /\ v # u
  BY <1>2, <1>3 DEF Calls
<1>5. Users'
  <2> SUFFICES ASSUME NEW v \in User
               PROVE  \/ user'[v] = Idle
                      \/ \E q \in Requests(v) : user'[v] = [at |-> "sending", req |-> q] \/ Calls(v, q)'
    BY <1>2 DEF Users
  <2>1. CASE v = u  BY <2>1, <1>2
  <2>2. CASE v # u  BY <2>2, <1>2, <1>4 DEF IInv, Users
  <2> QED  BY <2>1, <2>2
<1>6. FsServes'
  <2>1. \A v, q : FsTaken(v, q)' <=> FsTaken(v, q)  BY <1>1 DEF FsTaken
  <2> QED  BY <2>1, <1>1, <1>4 DEF IInv, FsServes
<1>7. Queue'
  <2>1. fs_queue \in Seq(User \cup {TTY})  BY DEF IInv, Queue
  <2>2. /\ fs_queue' \in Seq(User \cup {TTY}) /\ Len(fs_queue') = Len(fs_queue) + 1
        /\ fs_queue'[Len(fs_queue) + 1] = u
        /\ \A i \in 1 .. Len(fs_queue) : fs_queue'[i] = fs_queue[i]
    BY <2>1, <1>1
  <2>3. \A i \in 1 .. Len(fs_queue) : fs_queue[i] # u
    BY <1>3, TtyFsAssumption DEF IInv, Queue
  <2>4. \A i \in 1 .. Len(fs_queue) : fs_queue[i] \in User \cup {TTY}  BY <2>1
  <2>5. Len(fs_queue) \in Nat  BY <2>1
  <2>6. \A i \in 1 .. Len(fs_queue') : i \in 1 .. Len(fs_queue) \/ i = Len(fs_queue) + 1
    BY <2>2, <2>5
  <2>7. \A i \in 1 .. Len(fs_queue') :
          IF fs_queue'[i] = TTY THEN tty' = "sending" ELSE user'[fs_queue'[i]].at = "sending"
    <3> TAKE i \in 1 .. Len(fs_queue')
    <3>1. CASE i = Len(fs_queue) + 1  BY <3>1, <2>2, <1>3, TtyFsAssumption
    <3>2. CASE i \in 1 .. Len(fs_queue)
      BY <3>2, <2>2, <2>3, <2>4, <1>1, <1>2 DEF IInv, Queue
    <3> QED  BY <3>1, <3>2, <2>6
  <2>8. ASSUME NEW i \in 1 .. Len(fs_queue'), NEW j \in 1 .. Len(fs_queue'),
               fs_queue'[i] = fs_queue'[j]
        PROVE  i = j
    BY <2>8, <2>2, <2>3, <2>6 DEF IInv, Queue
  <2> QED  BY <2>2, <2>7, <2>8 DEF Queue
<1>8. Points'  BY <1>1 DEF IInv, Points
<1>9. (Collecting' <=> Collecting) /\ \A v : Serves(v)' <=> Serves(v)
  BY <1>1 DEF Collecting, Serves
<1>10. Collected'  BY <1>1, <1>4, <1>9, ReaderIsOne DEF IInv, Collected
<1>11. Answered'  BY <1>1, <1>2, <1>3, <1>9 DEF IInv, Answered, FsAt
<1> QED  BY <1>5, <1>6, <1>7, <1>8, <1>10, <1>11 DEF IInv

\* A program that goes on to its RECEIVE stays in its call.
LEMMA ReceiveKeeps ==
  ASSUME IInv, NEW u \in User, Receive(u)
  PROVE  IInv'
<1>1. /\ user[u].at = "sent" /\ UNCHANGED <<fs, fs_queue, tty, ibuf, reading, kb_in, deadlock>>
      /\ user' = [user EXCEPT ![u].at = "receiving"]
  BY DEF Receive, ttyVars, intVars
<1>2. PICK r \in Requests(u) : Calls(u, r)  BY <1>1, WaiterCalls DEF IInv
<1>3. user[u] = [at |-> "sent", req |-> r]  BY <1>1, <1>2 DEF Calls
<1>4. user' = [user EXCEPT ![u] = [at |-> "receiving", req |-> r]]
  <2>1. [[at |-> "sent", req |-> r] EXCEPT !.at = "receiving"] = [at |-> "receiving", req |-> r]
    OBVIOUS
  <2> QED  BY <1>1, <1>3, <2>1
<1>5. /\ user'[u] = [at |-> "receiving", req |-> r] /\ DOMAIN user' = User
      /\ \A v \in User : v # u => user'[v] = user[v]
  BY <1>4, UserChanges DEF IInv, Users
<1>6. Calls(u, r)' /\ user'[u].at = "receiving"  BY <1>5 DEF Calls
<1>7. \A q : Calls(u, q) => q = r  BY <1>2, CallFacts
<1>8. \A v \in User : \A q : Calls(v, q) => Calls(v, q)'
  BY <1>5, <1>6, <1>7 DEF Calls
<1>9. Users'
  <2> SUFFICES ASSUME NEW v \in User
               PROVE  \/ user'[v] = Idle
                      \/ \E q \in Requests(v) : user'[v] = [at |-> "sending", req |-> q] \/ Calls(v, q)'
    BY <1>5 DEF Users
  <2>1. CASE v = u  BY <2>1, <1>6
  <2>2. CASE v # u  BY <2>2, <1>5, <1>8 DEF IInv, Users
  <2> QED  BY <2>1, <2>2
<1>10. FsServes'
  <2>1. \A v, q : FsTaken(v, q)' <=> FsTaken(v, q)  BY <1>1 DEF FsTaken
  <2> QED  BY <2>1, <1>1, <1>8 DEF IInv, FsServes
<1>11. Queue'
  <2>1. \A i \in 1 .. Len(fs_queue) : fs_queue[i] \in User \cup {TTY}  BY DEF IInv, Queue
  <2> QED  BY <2>1, <1>1, <1>5 DEF IInv, Queue
<1>12. Points'  BY <1>1 DEF IInv, Points
<1>13. (Collecting' <=> Collecting) /\ \A v : Serves(v)' <=> Serves(v)
  BY <1>1 DEF Collecting, Serves
<1>14. Collected'  BY <1>1, <1>8, <1>13, ReaderIsOne DEF IInv, Collected
<1>15. Answered'
  <2>1. \A v \in User : user'[v].at \in {"sent", "receiving"} => user[v].at \in {"sent", "receiving"}
    BY <1>1, <1>5
  <2> QED  BY <2>1, <1>1, <1>13 DEF IInv, Answered, FsAt
<1> QED  BY <1>9, <1>10, <1>11, <1>12, <1>14, <1>15 DEF IInv

\* The rest of the queue.
LEMMA TailKeeps ==
  ASSUME Queue, fs_queue # <<>>, fs_queue' = Tail(fs_queue)
  PROVE  /\ Head(fs_queue) \in User \cup {TTY}
         /\ IF Head(fs_queue) = TTY THEN tty = "sending" ELSE user[Head(fs_queue)].at = "sending"
         /\ fs_queue' \in Seq(User \cup {TTY})
         /\ \A i \in 1 .. Len(fs_queue') :
              /\ fs_queue'[i] \in User \cup {TTY} /\ fs_queue'[i] # Head(fs_queue)
              /\ IF fs_queue'[i] = TTY THEN tty = "sending" ELSE user[fs_queue'[i]].at = "sending"
         /\ \A i, j \in 1 .. Len(fs_queue') : fs_queue'[i] = fs_queue'[j] => i = j
<1>1. fs_queue \in Seq(User \cup {TTY})  BY DEF Queue
<1>2. /\ Len(fs_queue) \in Nat \ {0} /\ Head(fs_queue) = fs_queue[1]
      /\ Len(fs_queue') = Len(fs_queue) - 1 /\ fs_queue' \in Seq(User \cup {TTY})
      /\ \A i \in 1 .. Len(fs_queue') : fs_queue'[i] = fs_queue[i + 1]
  BY <1>1
<1>3. \A i \in 1 .. Len(fs_queue') : i + 1 \in 1 .. Len(fs_queue) /\ i + 1 # 1
  BY <1>2
<1>4. 1 \in 1 .. Len(fs_queue)  BY <1>2
<1>5. \A i \in 1 .. Len(fs_queue) : fs_queue[i] \in User \cup {TTY}  BY <1>1
<1>6. \A i, j \in 1 .. Len(fs_queue) : fs_queue[i] = fs_queue[j] => i = j  BY DEF Queue
<1>7. ASSUME NEW i \in 1 .. Len(fs_queue'), NEW j \in 1 .. Len(fs_queue'),
             fs_queue'[i] = fs_queue'[j]
      PROVE  i = j
  <2>1. i + 1 = j + 1  BY <1>7, <1>2, <1>3, <1>6
  <2> QED  BY <2>1
<1>8. ASSUME NEW i \in 1 .. Len(fs_queue')
      PROVE  /\ fs_queue'[i] \in User \cup {TTY} /\ fs_queue'[i] # Head(fs_queue)
             /\ IF fs_queue'[i] = TTY THEN tty = "sending" ELSE user[fs_queue'[i]].at = "sending"
  <2>1. i + 1 \in 1 .. Len(fs_queue) /\ i + 1 # 1 /\ fs_queue'[i] = fs_queue[i + 1]
    BY <1>2, <1>3
  <2>2. fs_queue[i + 1] # fs_queue[1]  BY <2>1, <1>4, <1>6
  <2> QED  BY <2>1, <2>2, <1>2, <1>5 DEF Queue
<1> QED  BY <1>2, <1>4, <1>5, <1>7, <1>8 DEF Queue

\* FS takes the request of a program.
LEMMA TakeRequestKeeps ==
  ASSUME IInv, FsTake, Head(fs_queue) # TTY, ~ deadlock
  PROVE  IInv'
<1>0. PICK u : u = Head(fs_queue)  OBVIOUS
<1>1. /\ fs.at = "receive" /\ fs_queue # <<>> /\ fs_queue' = Tail(fs_queue)
      /\ fs' = [at |-> "do_rdwt", src |-> u, req |-> user[u].req]
      /\ user' = [user EXCEPT ![u].at = "sent"]
      /\ UNCHANGED <<tty, ibuf, reading, kb_in, deadlock>>
  BY <1>0 DEF FsTake, FsAt, intVars
<1>2. u \in User /\ user[u].at = "sending"  BY <1>0, <1>1, TailKeeps DEF IInv
<1>3. PICK r \in Requests(u) : user[u] = [at |-> "sending", req |-> r]
  BY <1>2, CallFacts DEF IInv, Users, Idle
<1>4. user[u].req = r  BY <1>3
<1>5. user' = [user EXCEPT ![u] = [at |-> "sent", req |-> r]]
  <2>1. [[at |-> "sending", req |-> r] EXCEPT !.at = "sent"] = [at |-> "sent", req |-> r]
    OBVIOUS
  <2> QED  BY <1>1, <1>3, <2>1
<1>6. /\ user'[u] = [at |-> "sent", req |-> r] /\ DOMAIN user' = User
      /\ \A v \in User : v # u => user'[v] = user[v]
  BY <1>2, <1>5, UserChanges DEF IInv, Users
<1>7. /\ Calls(u, r)' /\ \A q : ~ Calls(u, q)
      /\ \A v \in User : \A q : Calls(v, q) => Calls(v, q)' /\ v # u
  <2>1. \A q : ~ Calls(u, q)  BY <1>2, CallFacts
  <2>2. Calls(u, r)'  BY <1>6 DEF Calls
  <2> QED  BY <2>1, <2>2, <1>6 DEF Calls
<1>8. fs' = [at |-> "do_rdwt", src |-> u, req |-> r]  BY <1>1, <1>4
<1>9. FsTaken(u, r)' /\ fs'.at = "do_rdwt" /\ fs'.src = u  BY <1>8 DEF FsTaken
<1>10. Users'
  <2> SUFFICES ASSUME NEW v \in User
               PROVE  \/ user'[v] = Idle
                      \/ \E q \in Requests(v) : user'[v] = [at |-> "sending", req |-> q] \/ Calls(v, q)'
    BY <1>6 DEF Users
  <2>1. CASE v = u  BY <2>1, <1>7
  <2>2. CASE v # u  BY <2>2, <1>6, <1>7 DEF IInv, Users
  <2> QED  BY <2>1, <2>2
<1>11. FsServes'  BY <1>2, <1>7, <1>9 DEF FsServes
<1>12. Queue'
  <2>1. /\ fs_queue' \in Seq(User \cup {TTY})
        /\ \A i \in 1 .. Len(fs_queue') :
             /\ fs_queue'[i] \in User \cup {TTY} /\ fs_queue'[i] # u
             /\ IF fs_queue'[i] = TTY THEN tty = "sending" ELSE user[fs_queue'[i]].at = "sending"
        /\ \A i, j \in 1 .. Len(fs_queue') : fs_queue'[i] = fs_queue'[j] => i = j
    BY <1>0, <1>1, TailKeeps DEF IInv
  <2> QED  BY <2>1, <1>1, <1>6 DEF Queue
<1>13. Points'  BY <1>1 DEF IInv, Points
<1>14. Collecting' <=> Collecting  BY <1>1 DEF Collecting
<1>15. /\ ~ Serves(reading.procnr) /\ \A v : ~ Serves(v)
       /\ \A v : Serves(v)' <=> v = u
  BY <1>1, <1>9, FsReceives DEF IInv, Serves
<1>16. Collecting => reading.procnr # u
  BY <1>7, ReaderIsOne DEF IInv, Collected
<1>17. Collected'
  BY <1>1, <1>7, <1>14, <1>15, <1>16, ReaderIsOne DEF IInv, Collected
<1>18. Answered'
  BY <1>1, <1>6, <1>9, <1>14, <1>15 DEF IInv, Answered, FsAt
<1> QED  BY <1>10, <1>11, <1>12, <1>13, <1>17, <1>18 DEF IInv

\* FS takes RESUME_PROC: the reader is the one it was collected for.
LEMMA TakeResumeKeeps ==
  ASSUME IInv, FsTake, Head(fs_queue) = TTY, ~ deadlock
  PROVE  IInv'
<1> DEFINE u == reading.procnr
<1>1. /\ fs.at = "receive" /\ fs_queue # <<>> /\ fs_queue' = Tail(fs_queue)
      /\ fs' = [at |-> "reply", src |-> u, CNT |-> reading.trans]
      /\ tty' = "sent"
      /\ UNCHANGED <<user, ibuf, reading, kb_in, deadlock>>
  BY DEF FsTake, FsAt, intVars, Resume
<1>2. tty = "sending" /\ Collecting  BY <1>1, TailKeeps DEF IInv, Collecting
<1>3. PICK r \in Requests(u) : Calls(u, r) /\ reading.left + reading.trans = r.CNT
  BY <1>2 DEF IInv, Collected
<1>4. u \in User /\ u # TTY  BY <1>2, ReaderIsOne DEF IInv, Collected
<1>5. reading.trans \in 0 .. r.CNT
  <2>1. reading.left \in Nat /\ reading.trans \in Nat  BY DEF IInv, Points
  <2>2. r.CNT \in Nat  BY <1>4, RequestFacts
  <2> QED  BY <2>1, <2>2, <1>3
<1>6. \A v, q : Calls(v, q)' <=> Calls(v, q)  BY <1>1 DEF Calls
<1>7. FsTaken(u, r)' /\ fs'.at = "reply" /\ fs'.src = u  BY <1>1, <1>5 DEF FsTaken
<1>8. Users'  BY <1>1, <1>6 DEF IInv, Users
<1>9. FsServes'  BY <1>1, <1>3, <1>4, <1>6, <1>7 DEF FsServes
<1>10. Queue'
  <2>1. /\ fs_queue' \in Seq(User \cup {TTY})
        /\ \A i \in 1 .. Len(fs_queue') :
             /\ fs_queue'[i] \in User \cup {TTY} /\ fs_queue'[i] # TTY
             /\ IF fs_queue'[i] = TTY THEN tty = "sending" ELSE user[fs_queue'[i]].at = "sending"
        /\ \A i, j \in 1 .. Len(fs_queue') : fs_queue'[i] = fs_queue'[j] => i = j
    BY <1>1, TailKeeps DEF IInv
  <2> QED  BY <2>1, <1>1 DEF Queue
<1>11. Points'  BY <1>1 DEF IInv, Points
<1>12. ~ Collecting'  BY <1>1 DEF Collecting
<1>13. Collected'  BY <1>12 DEF Collected
<1>14. Answered'
  <2>1. \A v : ~ Serves(v)  BY <1>1, FsReceives DEF IInv
  <2>2. \A v \in User : user[v].at \in {"sent", "receiving"} => v = u
    BY <2>1 DEF IInv, Answered
  <2>3. \A v : Serves(v)' <=> v = u  BY <1>7 DEF Serves
  <2> QED  BY <2>2, <2>3, <1>1, <1>7 DEF Answered, FsAt
<1> QED  BY <1>8, <1>9, <1>10, <1>11, <1>13, <1>14 DEF IInv

\* FS turns to the driver.
LEMMA SendKeeps ==
  ASSUME IInv, FsSend
  PROVE  IInv'
<1>1. /\ fs.at = "do_rdwt" /\ UNCHANGED <<user, fs_queue, tty, ibuf, reading, kb_in>>
      /\ \/ deadlock' = TRUE /\ fs' = fs
         \/ fs' = [fs EXCEPT !.at = "sending"] /\ deadlock' = deadlock
  BY DEF FsSend, FsAt, ttyVars, intVars
<1>2. PICK u \in User : \E r \in Requests(u) : Calls(u, r) /\ FsTaken(u, r) /\ fs.src = u
  BY <1>1, FsFacts DEF IInv
<1>3. PICK r \in Requests(u) : Calls(u, r) /\ FsTaken(u, r) /\ fs.src = u  BY <1>2
<1>4. fs = [at |-> "do_rdwt", src |-> u, req |-> r]  BY <1>1, <1>3 DEF FsTaken
<1>5. /\ FsTaken(u, r)' /\ fs'.src = u /\ fs'.at \in {"do_rdwt", "sending"}
  <2>1. [[at |-> "do_rdwt", src |-> u, req |-> r] EXCEPT !.at = "sending"]
          = [at |-> "sending", src |-> u, req |-> r]
    OBVIOUS
  <2>2. \E at \in {"do_rdwt", "sending"} : fs' = [at |-> at, src |-> u, req |-> r]
    BY <1>1, <1>4, <2>1
  <2>3. FsTaken(u, r)'  BY <2>2 DEF FsTaken
  <2>4. fs'.src = u /\ fs'.at \in {"do_rdwt", "sending"}  BY <2>2
  <2> QED  BY <2>3, <2>4
<1>6. \A v, q : Calls(v, q)' <=> Calls(v, q)  BY <1>1 DEF Calls
<1>7. Users'  BY <1>1, <1>6 DEF IInv, Users
<1>8. FsServes'  BY <1>3, <1>5, <1>6 DEF FsServes
<1>9. Queue'  BY <1>1 DEF IInv, Queue
<1>10. Points'  BY <1>1 DEF IInv, Points
<1>11. /\ Collecting' <=> Collecting
       /\ \A v : Serves(v)' <=> Serves(v)
       /\ fs.at # "answered" /\ fs'.at # "answered"
  BY <1>1, <1>3, <1>5 DEF Collecting, Serves
<1>12. Collected'  BY <1>1, <1>6, <1>11 DEF IInv, Collected
<1>13. Answered'  BY <1>1, <1>11 DEF IInv, Answered, FsAt
<1> QED  BY <1>7, <1>8, <1>9, <1>10, <1>12, <1>13 DEF IInv

\* FS reads the driver's answer: it replies, or leaves the reader to TTY.
LEMMA AnsweredKeeps ==
  ASSUME IInv, FsAnswered, ~ deadlock
  PROVE  IInv'
<1>1. /\ fs.at = "answered" /\ UNCHANGED <<user, fs_queue, tty, ibuf, reading, kb_in, deadlock>>
      /\ IF fs.type = "SUSPEND_PROC" THEN fs' = [at |-> "receive"]
         ELSE fs' = [at |-> "reply", src |-> fs.src, CNT |-> fs.CNT]
  BY DEF FsAnswered, FsAt, ttyVars, intVars
<1>2. PICK u \in User : \E r \in Requests(u) : Calls(u, r) /\ FsTaken(u, r) /\ fs.src = u
  BY <1>1, FsFacts DEF IInv
<1>3. PICK r \in Requests(u) : Calls(u, r) /\ FsTaken(u, r) /\ fs.src = u  BY <1>2
<1>4. /\ fs.CNT = r.CNT /\ fs.type \in {"SUSPEND_PROC", "SYSCALL_RET"}
      /\ fs.type = "SUSPEND_PROC" <=> r.type = "READ"
  BY <1>1, <1>3, TakenFacts
<1>5. \A v, q : Calls(v, q)' <=> Calls(v, q)  BY <1>1 DEF Calls
<1>6. Users'  BY <1>1, <1>5 DEF IInv, Users
<1>7. Queue'  BY <1>1 DEF IInv, Queue
<1>8. Points'  BY <1>1 DEF IInv, Points
<1>9. Collecting' <=> Collecting  BY <1>1 DEF Collecting
<1>10. CASE fs.type = "SUSPEND_PROC"
  <2>1. fs' = [at |-> "receive"] /\ fs'.at = "receive"  BY <1>1, <1>10
  <2>2. FsServes'  BY <2>1 DEF FsServes
  <2>3. \A v : ~ Serves(v)'  BY <2>1 DEF Serves
  <2>4. Collected'  BY <1>1, <1>5, <1>9, <2>3 DEF IInv, Collected
  <2>5. Collecting /\ reading.procnr = u  BY <1>1, <1>3, <1>10 DEF IInv, Answered, FsAt
  <2>6. \A v \in User : user[v].at \in {"sent", "receiving"} => reading.procnr = v
    BY <2>5, <1>3 DEF IInv, Answered, Serves
  <2>7. Answered'  BY <1>1, <1>9, <2>1, <2>5, <2>6 DEF Answered, FsAt
  <2> QED  BY <1>6, <1>7, <1>8, <2>2, <2>4, <2>7 DEF IInv
<1>11. CASE fs.type # "SUSPEND_PROC"
  <2>1. fs' = [at |-> "reply", src |-> u, CNT |-> r.CNT]  BY <1>1, <1>3, <1>4, <1>11
  <2>2. r.CNT \in 0 .. r.CNT  BY RequestFacts
  <2>3. FsTaken(u, r)' /\ fs'.at = "reply" /\ fs'.src = u  BY <2>1, <2>2 DEF FsTaken
  <2>4. FsServes'  BY <1>3, <1>5, <2>3 DEF FsServes
  <2>5. \A v : Serves(v)' <=> Serves(v)  BY <1>1, <1>3, <2>3 DEF Serves
  <2>6. Collecting => reading.procnr # u
    <3> SUFFICES ASSUME Collecting, reading.procnr = u PROVE FALSE  OBVIOUS
    <3>1. PICK q \in Requests(u) : q.type = "READ" /\ Calls(u, q)  BY DEF IInv, Collected
    <3>2. q = r  BY <3>1, <1>3, CallFacts
    <3> QED  BY <3>1, <3>2, <1>4, <1>11
  <2>7. Collecting => ~ Serves(reading.procnr)  BY <1>3, <2>6 DEF Serves
  <2>8. Collected'  BY <1>1, <1>5, <1>9, <2>5, <2>7 DEF IInv, Collected
  <2>9. Answered'  BY <1>1, <1>9, <2>3, <2>5 DEF IInv, Answered, FsAt
  <2> QED  BY <1>6, <1>7, <1>8, <2>4, <2>8, <2>9 DEF IInv
<1> QED  BY <1>10, <1>11

\* FS replies, and the program runs on.
LEMMA ReplyKeeps ==
  ASSUME IInv, FsReply, ~ deadlock
  PROVE  IInv'
<1>1. /\ fs.at = "reply" /\ user[fs.src].at = "receiving" /\ fs' = [at |-> "receive"]
      /\ user' = [user EXCEPT ![fs.src] = Idle]
      /\ UNCHANGED <<fs_queue, tty, ibuf, reading, kb_in, deadlock>>
  BY DEF FsReply, FsAt, ttyVars, intVars
<1>2. PICK u \in User : fs.src = u  BY <1>1, FsFacts DEF IInv
<1>3. /\ user'[u] = Idle /\ DOMAIN user' = User
      /\ \A v \in User : v # u => user'[v] = user[v]
  <2>1. user' = [user EXCEPT ![u] = Idle]  BY <1>1, <1>2
  <2> QED  BY <2>1, UserChanges DEF IInv, Users
<1>4. user'[u].at = "running" /\ fs'.at = "receive"  BY <1>1, <1>3 DEF Idle
<1>5. \A v \in User : \A q : v # u => (Calls(v, q)' <=> Calls(v, q))  BY <1>3 DEF Calls
<1>6. Users'
  <2> SUFFICES ASSUME NEW v \in User
               PROVE  \/ user'[v] = Idle
                      \/ \E q \in Requests(v) : user'[v] = [at |-> "sending", req |-> q] \/ Calls(v, q)'
    BY <1>3 DEF Users
  <2>1. CASE v = u  BY <2>1, <1>3
  <2>2. CASE v # u  BY <2>2, <1>3, <1>5 DEF IInv, Users
  <2> QED  BY <2>1, <2>2
<1>7. FsServes'  BY <1>1 DEF FsServes
<1>8. Queue'
  <2>1. \A i \in 1 .. Len(fs_queue) : fs_queue[i] \in User \cup {TTY}  BY DEF IInv, Queue
  <2>2. user[u].at = "receiving"  BY <1>1, <1>2
  <2> QED  BY <2>1, <2>2, <1>1, <1>3 DEF IInv, Queue
<1>9. Points'  BY <1>1 DEF IInv, Points
<1>10. (Collecting' <=> Collecting) /\ Serves(u) /\ \A v : ~ Serves(v)'
  BY <1>1, <1>2, <1>4 DEF Collecting, Serves
<1>11. Collecting => reading.procnr # u  BY <1>1, <1>10 DEF IInv, Collected
<1>12. Collected'  BY <1>1, <1>5, <1>10, <1>11, ReaderIsOne DEF IInv, Collected
<1>13. Answered'
  <2>1. \A v \in User : user[v].at \in {"sent", "receiving"} /\ v # u =>
                          Collecting /\ reading.procnr = v
    BY <1>2 DEF IInv, Answered, Serves
  <2> QED  BY <2>1, <1>1, <1>3, <1>4, <1>10 DEF Answered, FsAt
<1> QED  BY <1>6, <1>7, <1>8, <1>9, <1>12, <1>13 DEF IInv

\* A step of TTY that ends at another of its statements, and leaves reading and the
\* queue alone.
LEMMA TtyMovesKeeps ==
  ASSUME IInv, tty \in {"receive", "keyboard_read", "dev_write"},
         tty' \in {"receive", "keyboard_read", "dev_write"},
         UNCHANGED <<user, fs, fs_queue, reading, deadlock>>,
         ibuf' \in Seq(Keys) /\ Len(ibuf') <= TTY_IN_BYTES,
         kb_in' \in Seq(Keys) /\ Len(kb_in') <= KB_IN_BYTES
  PROVE  IInv'
<1>1. /\ Users' /\ FsServes'
      /\ \A u, r : Calls(u, r)' <=> Calls(u, r)
      /\ \A u : Serves(u)' <=> Serves(u)
  BY UserAndFsStay DEF IInv
<1>2. Queue'  BY DEF IInv, Queue
<1>3. Points'  BY DEF IInv, Points
<1>4. Collecting' <=> Collecting  BY DEF Collecting
<1>5. Collected'  BY <1>1, <1>4 DEF IInv, Collected
<1>6. Answered'  BY <1>1, <1>4 DEF IInv, Answered, FsAt
<1> QED  BY <1>1, <1>2, <1>3, <1>5, <1>6 DEF IInv

\* TTY takes the interrupt.
LEMMA IntKeeps ==
  ASSUME IInv, TtyInt
  PROVE  IInv'
<1>1. /\ tty = "receive" /\ tty' = "keyboard_read"
      /\ UNCHANGED <<user, fs, fs_queue, reading, deadlock, ibuf, kb_in>>
  BY DEF TtyInt, TakeInt
<1>2. ibuf' \in Seq(Keys) /\ Len(ibuf') <= TTY_IN_BYTES /\ kb_in' \in Seq(Keys) /\ Len(kb_in') <= KB_IN_BYTES
  BY <1>1 DEF IInv, Points
<1> QED  BY <1>1, <1>2, TtyMovesKeeps

\* TTY takes a key from the keyboard.
LEMMA DevReadKeeps ==
  ASSUME IInv, TtyDevRead
  PROVE  IInv'
<1>1. /\ tty = "keyboard_read" /\ UNCHANGED <<user, fs, fs_queue, reading, deadlock>>
      /\ \/ kb_in = <<>> /\ tty' = "dev_write" /\ UNCHANGED <<ibuf, kb_in>>
         \/ kb_in # <<>> /\ PutKey(Head(kb_in)) /\ kb_in' = Tail(kb_in) /\ tty' = tty
  BY DEF TtyDevRead
<1>2. /\ ibuf \in Seq(Keys) /\ Len(ibuf) <= TTY_IN_BYTES
      /\ kb_in \in Seq(Keys) /\ Len(kb_in) <= KB_IN_BYTES
  BY DEF IInv, Points
<1>3. kb_in' \in Seq(Keys) /\ Len(kb_in') <= KB_IN_BYTES
  <2>1. CASE kb_in' = kb_in  BY <2>1, <1>2
  <2>2. CASE kb_in # <<>> /\ kb_in' = Tail(kb_in)
    <3>1. kb_in' \in Seq(Keys) /\ Len(kb_in') = Len(kb_in) - 1 /\ Len(kb_in) \in Nat
      BY <2>2, <1>2
    <3> QED  BY <3>1, <1>2, TtyFsAssumption
  <2> QED  BY <2>1, <2>2, <1>1
<1>4. ibuf' \in Seq(Keys) /\ Len(ibuf') <= TTY_IN_BYTES
  <2>1. CASE ibuf' = ibuf  BY <2>1, <1>2
  <2>2. CASE kb_in # <<>> /\ PutKey(Head(kb_in))
    <3>1. Head(kb_in) \in Keys  BY <2>2, <1>2
    <3>2. ibuf' = ibuf \/ (Len(ibuf) < TTY_IN_BYTES /\ ibuf' = Append(ibuf, Head(kb_in)))
      BY <2>2 DEF PutKey
    <3> HIDE DEF Keys
    <3> QED  BY <3>1, <3>2, <1>2, TtyFsAssumption
  <2> QED  BY <2>1, <2>2, <1>1
<1>5. tty' \in {"receive", "keyboard_read", "dev_write"}  BY <1>1
<1> QED  BY <1>1, <1>3, <1>4, <1>5, TtyMovesKeeps

\* TTY answers the request that FS serves: to suspend the reader it notes, or that the
\* characters are written.
LEMMA AnswerKeeps ==
  ASSUME IInv, NEW type \in {"SUSPEND_PROC", "SYSCALL_RET"},
         tty = "receive", tty' = "keyboard_read", ~ deadlock,
         fs.at = "sending", type = "SUSPEND_PROC" <=> fs.req.type = "READ",
         fs' = Answer(type), UNCHANGED <<user, fs_queue, ibuf, kb_in, deadlock>>,
         IF type = "SUSPEND_PROC"
         THEN reading' = [procnr |-> fs.src, left |-> fs.req.CNT, trans |-> 0]
         ELSE reading' = reading
  PROVE  IInv'
<1>1. PICK u \in User : \E r \in Requests(u) : Calls(u, r) /\ FsTaken(u, r) /\ fs.src = u
  BY FsFacts DEF IInv
<1>2. PICK r \in Requests(u) : Calls(u, r) /\ FsTaken(u, r) /\ fs.src = u  BY <1>1
<1>3. fs.req = r  BY <1>2, TakenFacts
<1>4. /\ FsTaken(u, r)' /\ fs'.at = "answered" /\ fs'.src = u /\ fs'.type = type
  <2>1. fs' = [at |-> "answered", src |-> u, req |-> r, type |-> type, CNT |-> r.CNT]
    BY <1>2, <1>3 DEF Answer
  <2>2. FsTaken(u, r)'  BY <2>1, <1>3 DEF FsTaken
  <2> QED  BY <2>1, <2>2
<1>5. /\ r.type \in Types /\ r.CNT \in Nat \ {0} /\ u # TTY
      /\ r.type = "READ" => u \in Reader
  BY RequestFacts, TtyFsAssumption
<1>6. \A v, q : Calls(v, q)' <=> Calls(v, q)  BY DEF Calls
<1>7. \A v : Serves(v)' <=> Serves(v)  BY <1>2, <1>4 DEF Serves
<1>8. Serves(u) /\ \A v : Serves(v) => v = u  BY <1>2 DEF Serves
<1>9. Users'  BY <1>6 DEF IInv, Users
<1>10. FsServes'  BY <1>2, <1>4, <1>6 DEF FsServes
<1>11. Queue'
  <2>1. \A i \in 1 .. Len(fs_queue) : fs_queue[i] # TTY  BY DEF IInv, Queue
  <2> QED  BY <2>1 DEF IInv, Queue
<1>12. CASE type = "SUSPEND_PROC"
  <2>1. reading' = [procnr |-> u, left |-> r.CNT, trans |-> 0]  BY <1>2, <1>3, <1>12
  <2>2. reading'.procnr = u /\ reading'.left = r.CNT /\ reading'.trans = 0  BY <2>1
  <2>3. Points'  BY <2>1, <1>5 DEF IInv, Points
  <2>4. u \in Reader /\ r.type = "READ"  BY <1>3, <1>5, <1>12
  <2>5. ~ Collecting
    <3> SUFFICES ASSUME Collecting PROVE FALSE  OBVIOUS
    <3>1. reading.procnr \in Reader /\ (Serves(reading.procnr) => fs.at = "answered")
      BY DEF IInv, Collected
    <3>2. reading.procnr = u  BY <3>1, <2>4, ReaderIsOne
    <3> QED  BY <3>1, <3>2, <1>8
  <2>6. Collecting'  BY <2>2, <1>5 DEF Collecting
  <2>7. Collected'  BY <2>2, <2>4, <1>2, <1>4, <1>5, <1>6 DEF Collected
  <2>8. Answered'
    <3>1. \A v \in User : user[v].at \in {"sent", "receiving"} => Serves(v)
      BY <2>5 DEF IInv, Answered
    <3> QED  BY <3>1, <2>2, <2>6, <1>4, <1>7 DEF Answered, FsAt
  <2> QED  BY <1>9, <1>10, <1>11, <2>3, <2>7, <2>8 DEF IInv
<1>13. CASE type = "SYSCALL_RET"
  <2>1. reading' = reading  BY <1>13
  <2>2. Points'  BY <2>1 DEF IInv, Points
  <2>3. Collecting' <=> Collecting  BY <2>1 DEF Collecting
  <2>4. Collected'  BY <2>1, <2>3, <1>4, <1>6 DEF IInv, Collected
  <2>5. Answered'  BY <2>1, <2>3, <1>4, <1>7, <1>13 DEF IInv, Answered, FsAt
  <2> QED  BY <1>9, <1>10, <1>11, <2>2, <2>4, <2>5 DEF IInv
<1> QED  BY <1>12, <1>13

\* TTY notes the reader and has FS suspend it.
LEMMA DoReadKeeps ==
  ASSUME IInv, TtyDoRead, ~ deadlock
  PROVE  IInv'
<1>1. /\ tty = "receive" /\ tty' = "keyboard_read" /\ fs.at = "sending" /\ fs.req.type = "READ"
      /\ reading' = [procnr |-> fs.src, left |-> fs.req.CNT, trans |-> 0]
      /\ fs' = Answer("SUSPEND_PROC")
      /\ UNCHANGED <<user, fs_queue, ibuf, kb_in, deadlock>>
  BY DEF TtyDoRead, FsAt, intVars
<1> QED  BY <1>1, AnswerKeeps

\* TTY writes, whoever is noted as the reader.
LEMMA DoWriteKeeps ==
  ASSUME IInv, TtyDoWrite, ~ deadlock
  PROVE  IInv'
<1>1. /\ tty = "receive" /\ tty' = "keyboard_read" /\ fs.at = "sending" /\ fs.req.type = "WRITE"
      /\ reading' = reading /\ fs' = Answer("SYSCALL_RET")
      /\ UNCHANGED <<user, fs_queue, ibuf, kb_in, deadlock>>
  BY DEF TtyDoWrite, DoWrite, FsAt, intVars
<1> QED  BY <1>1, AnswerKeeps

\* A key moves a character between what is left and what is transferred.
LEMMA TransferredFacts ==
  ASSUME Points, reading.left # 0, NEW k
  PROVE  /\ Transferred(k) \in [procnr : User \cup {TTY}, left : Nat, trans : Nat]
         /\ Transferred(k).procnr = reading.procnr
         /\ Transferred(k).left + Transferred(k).trans = reading.left + reading.trans
<1>1. PICK u \in User \cup {TTY}, l \in Nat, n \in Nat :
        reading = [procnr |-> u, left |-> l, trans |-> n]
  BY DEF Points
<1>2. reading.procnr = u /\ reading.left = l /\ reading.trans = n  BY <1>1
<1>3. \/ Transferred(k) = [procnr |-> u, left |-> l - 1, trans |-> n + 1]
      \/ n > 0 /\ Transferred(k) = [procnr |-> u, left |-> l + 1, trans |-> n - 1]
      \/ Transferred(k) = [procnr |-> u, left |-> l, trans |-> n]
  <2>1. [reading EXCEPT !.trans = @ + 1, !.left = @ - 1]
          = [procnr |-> u, left |-> l - 1, trans |-> n + 1]
    <3>1. [reading EXCEPT !.trans = @ + 1] = [procnr |-> u, left |-> l, trans |-> n + 1]
      BY <1>1, <1>2
    <3>2. [[procnr |-> u, left |-> l, trans |-> n + 1] EXCEPT !.left = @ - 1]
            = [procnr |-> u, left |-> l - 1, trans |-> n + 1]
      OBVIOUS
    <3> QED  BY <3>1, <3>2
  <2>2. [reading EXCEPT !.trans = @ - 1, !.left = @ + 1]
          = [procnr |-> u, left |-> l + 1, trans |-> n - 1]
    <3>1. [reading EXCEPT !.trans = @ - 1] = [procnr |-> u, left |-> l, trans |-> n - 1]
      BY <1>1, <1>2
    <3>2. [[procnr |-> u, left |-> l, trans |-> n - 1] EXCEPT !.left = @ + 1]
            = [procnr |-> u, left |-> l + 1, trans |-> n - 1]
      OBVIOUS
    <3> QED  BY <3>1, <3>2
  <2> QED  BY <2>1, <2>2, <1>1, <1>2 DEF Transferred
<1>4. l - 1 \in Nat  BY <1>2
<1>5. CASE Transferred(k) = [procnr |-> u, left |-> l - 1, trans |-> n + 1]
  BY <1>2, <1>4, <1>5
<1>6. CASE n > 0 /\ Transferred(k) = [procnr |-> u, left |-> l + 1, trans |-> n - 1]
  BY <1>2, <1>6
<1>7. CASE Transferred(k) = [procnr |-> u, left |-> l, trans |-> n]
  BY <1>2, <1>7
<1> QED  BY <1>3, <1>5, <1>6, <1>7

\* The senders to FS, with TTY behind them.
LEMMA TtySendsKeepsQueue ==
  ASSUME Queue, tty # "sending", tty' = "sending", fs_queue' = Append(fs_queue, TTY),
         user' = user
  PROVE  Queue'
<1>1. fs_queue \in Seq(User \cup {TTY})  BY DEF Queue
<1>2. /\ fs_queue' \in Seq(User \cup {TTY}) /\ Len(fs_queue') = Len(fs_queue) + 1
      /\ fs_queue'[Len(fs_queue) + 1] = TTY
      /\ \A i \in 1 .. Len(fs_queue) : fs_queue'[i] = fs_queue[i]
      /\ Len(fs_queue) \in Nat
  BY <1>1
<1>3. \A i \in 1 .. Len(fs_queue) : fs_queue[i] # TTY  BY DEF Queue
<1>4. \A i \in 1 .. Len(fs_queue') : i \in 1 .. Len(fs_queue) \/ i = Len(fs_queue) + 1
  BY <1>2
<1>5. \A i \in 1 .. Len(fs_queue') :
        IF fs_queue'[i] = TTY THEN tty' = "sending" ELSE user'[fs_queue'[i]].at = "sending"
  <2> TAKE i \in 1 .. Len(fs_queue')
  <2>1. CASE i = Len(fs_queue) + 1  BY <2>1, <1>2
  <2>2. CASE i \in 1 .. Len(fs_queue)  BY <2>2, <1>2, <1>3 DEF Queue
  <2> QED  BY <2>1, <2>2, <1>4
<1>6. ASSUME NEW i \in 1 .. Len(fs_queue'), NEW j \in 1 .. Len(fs_queue'),
             fs_queue'[i] = fs_queue'[j]
      PROVE  i = j
  BY <1>6, <1>2, <1>3, <1>4 DEF Queue
<1> QED  BY <1>2, <1>5, <1>6 DEF Queue

\* TTY gives the reader a key, and sends for FS when that ends the line.
LEMMA DevWriteKeeps ==
  ASSUME IInv, TtyDevWrite, ~ deadlock
  PROVE  IInv'
<1>1. tty = "dev_write" /\ UNCHANGED <<user, fs, kb_in>>
  BY DEF TtyDevWrite, intVars
<1>2. /\ ibuf \in Seq(Keys) /\ Len(ibuf) <= TTY_IN_BYTES
      /\ kb_in' \in Seq(Keys) /\ Len(kb_in') <= KB_IN_BYTES
  BY <1>1 DEF IInv, Points
<1>3. CASE ibuf = <<>>
  <2>1. tty' = "receive" /\ UNCHANGED <<ibuf, reading, fs_queue, deadlock>>
    BY <1>3 DEF TtyDevWrite
  <2> QED  BY <2>1, <1>1, <1>2, TtyMovesKeeps
<1>4. CASE ibuf # <<>>
  <2>1. ibuf' = Tail(ibuf)  BY <1>4 DEF TtyDevWrite
  <2>2. ibuf' \in Seq(Keys) /\ Len(ibuf') <= TTY_IN_BYTES
    <3>1. ibuf' \in Seq(Keys) /\ Len(ibuf') = Len(ibuf) - 1 /\ Len(ibuf) \in Nat
      BY <1>2, <1>4, <2>1
    <3> QED  BY <3>1, <1>2, TtyFsAssumption
  <2>3. CASE reading.left = 0
    <3>1. UNCHANGED <<tty, reading, fs_queue, deadlock>>  BY <1>4, <2>3 DEF TtyDevWrite
    <3> QED  BY <3>1, <1>1, <1>2, <2>2, TtyMovesKeeps
  <2>4. CASE reading.left # 0
    <3>1. /\ reading' = Transferred(Head(ibuf))
          /\ \/ reading'.left # 0 /\ UNCHANGED <<tty, fs_queue, deadlock>>
             \/ deadlock' = TRUE /\ UNCHANGED <<tty, fs_queue>>
             \/ tty' = "sending" /\ fs_queue' = Append(fs_queue, TTY) /\ deadlock' = deadlock
      BY <1>4, <2>4 DEF TtyDevWrite
    <3>2. /\ reading' \in [procnr : User \cup {TTY}, left : Nat, trans : Nat]
          /\ reading'.procnr = reading.procnr
          /\ reading'.left + reading'.trans = reading.left + reading.trans
      BY <3>1, <2>4, TransferredFacts DEF IInv
    <3>3. reading.left \in Nat /\ reading'.left \in Nat  BY <3>2 DEF IInv, Points
    <3>4. Collecting  BY <1>1, <2>4, <3>3 DEF Collecting
    <3>5. ~ deadlock' => Collecting'
      BY <1>1, <3>1, <3>3 DEF Collecting
    <3>6. /\ Users' /\ FsServes'
          /\ \A u, r : Calls(u, r)' <=> Calls(u, r)
          /\ \A u : Serves(u)' <=> Serves(u)
      BY <1>1, UserAndFsStay DEF IInv
    <3>7. Queue'
      <4>1. CASE UNCHANGED <<tty, fs_queue>>  BY <4>1, <1>1 DEF IInv, Queue
      <4>2. CASE tty' = "sending" /\ fs_queue' = Append(fs_queue, TTY)
        BY <4>2, <1>1, TtySendsKeepsQueue DEF IInv
      <4> QED  BY <4>1, <4>2, <3>1
    <3>8. Points'
      <4>1. tty' \in {"dev_write", "sending"}  BY <1>1, <3>1
      <4> QED  BY <4>1, <1>2, <2>2, <3>2 DEF Points
    <3>9. Collected'  BY <1>1, <3>2, <3>4, <3>6 DEF IInv, Collected
    <3>10. Answered'
      BY <1>1, <3>2, <3>4, <3>5, <3>6 DEF IInv, Answered, FsAt
    <3> QED  BY <3>6, <3>7, <3>8, <3>9, <3>10 DEF IInv
  <2> QED  BY <2>3, <2>4
<1> QED  BY <1>3, <1>4

\* The count of a line that FS was told of.
LEMMA LineDoneKeeps ==
  ASSUME IInv, TtyLineDone
  PROVE  IInv'
<1>1. /\ tty = "sent" /\ tty' = "dev_write" /\ reading' = [reading EXCEPT !.left = 0]
      /\ UNCHANGED <<user, fs, fs_queue, ibuf, kb_in, deadlock>>
  BY DEF TtyLineDone, intVars
<1>2. PICK u \in User \cup {TTY}, l \in Nat, n \in Nat :
        reading = [procnr |-> u, left |-> l, trans |-> n]
  BY DEF IInv, Points
<1>3. reading' = [procnr |-> u, left |-> 0, trans |-> n]  BY <1>1, <1>2
<1>4. reading'.left = 0  BY <1>3
<1>5. Points'  BY <1>1, <1>3 DEF IInv, Points
<1>6. ~ Collecting /\ ~ Collecting'  BY <1>1, <1>4 DEF Collecting
<1>7. /\ Users' /\ FsServes'
      /\ \A v, r : Calls(v, r)' <=> Calls(v, r)
      /\ \A v : Serves(v)' <=> Serves(v)
  BY <1>1, UserAndFsStay DEF IInv
<1>8. Queue'  BY <1>1 DEF IInv, Queue
<1>9. Collected'  BY <1>6 DEF Collected
<1>10. Answered'  BY <1>1, <1>6, <1>7 DEF IInv, Answered, FsAt
<1> QED  BY <1>5, <1>7, <1>8, <1>9, <1>10 DEF IInv

\* Every step keeps the invariant.
LEMMA NextKeeps == IInv /\ [Next]_vars => IInv'
<1> SUFFICES ASSUME IInv, [Next]_vars PROVE IInv'  OBVIOUS
<1>1. CASE UNCHANGED vars
  <2>1. UNCHANGED <<user, fs, fs_queue, tty, ibuf, reading, kb_in, deadlock>>
    BY <1>1 DEF vars, ttyVars, intVars
  <2>2. /\ Users' /\ FsServes'
        /\ \A v, r : Calls(v, r)' <=> Calls(v, r)
        /\ \A v : Serves(v)' <=> Serves(v)
    BY <2>1, UserAndFsStay DEF IInv
  <2>3. Collecting' <=> Collecting  BY <2>1 DEF Collecting
  <2>4. Queue'  BY <2>1 DEF IInv, Queue
  <2>5. Points'  BY <2>1 DEF IInv, Points
  <2>6. Collected'  BY <2>1, <2>2, <2>3 DEF IInv, Collected
  <2>7. Answered'  BY <2>1, <2>2, <2>3 DEF IInv, Answered, FsAt
  <2> QED  BY <2>2, <2>4, <2>5, <2>6, <2>7 DEF IInv
<1>2. CASE Next
  <2>1. ~ deadlock  BY <1>2 DEF Next
  <2>2. CASE Fs
    BY <2>1, <2>2, TakeRequestKeeps, TakeResumeKeeps, SendKeeps, AnsweredKeeps, ReplyKeeps DEF Fs
  <2>3. CASE Tty
    BY <2>1, <2>3, IntKeeps, DoReadKeeps, DoWriteKeeps, DevReadKeeps, DevWriteKeeps,
       LineDoneKeeps DEF Tty
  <2>4. CASE Tick \/ \E k \in Keys : Key(k)  BY <2>4, InterruptsKeep
  <2>5. CASE \E u \in User : Receive(u) \/ \E r \in Requests(u) : Request(u, r)
    BY <2>5, ReceiveKeeps, RequestKeeps
  <2> QED  BY <1>2, <2>2, <2>3, <2>4, <2>5 DEF Next
<1> QED  BY <1>1, <1>2

\* The inductive invariant holds of the terminal, task_tty and task_fs together.
THEOREM TtyFsInvariant == Spec => []IInv
BY InitInv, NextKeeps, PTL DEF Spec

----------------------------------------------------------------------------
\* The properties

\* The invariant says what SuspendedIsServed does.
LEMMA ReaderIsServed == IInv => SuspendedIsServed
<1> SUFFICES ASSUME IInv PROVE SuspendedIsServed  OBVIOUS
<1>1. TypeOK
  <2>1. \A u \in User : user[u].at \in {"running", "sending", "sent", "receiving"}
    <3> TAKE u \in User
    <3>1. CASE user[u] = Idle  BY <3>1 DEF Idle
    <3>2. ASSUME NEW r, user[u] = [at |-> "sending", req |-> r] \/ Calls(u, r)
          PROVE  user[u].at \in {"sending", "sent", "receiving"}
      BY <3>2, CallFacts
    <3> QED  BY <3>1, <3>2 DEF IInv, Users
  <2>2. fs.at \in {"receive", "do_rdwt", "sending", "answered", "reply"}
    BY FsFacts, TakenFacts DEF IInv
  <2>3. reading.left \in Nat /\ reading.trans \in Nat  BY DEF IInv, Points
  <2>4. ASSUME reading.left > 0, tty # "sent"
        PROVE  /\ reading.procnr \in Reader
               /\ reading.left + reading.trans = user[reading.procnr].req.CNT
    <3>1. Collecting  BY <2>4 DEF Collecting
    <3>2. PICK r \in Requests(reading.procnr) :
            Calls(reading.procnr, r) /\ reading.left + reading.trans = r.CNT
      BY <3>1 DEF IInv, Collected
    <3>3. user[reading.procnr].req = r  BY <3>2, CallFacts
    <3> QED  BY <3>1, <3>2, <3>3 DEF IInv, Collected
  <2> QED  BY <2>1, <2>2, <2>3, <2>4 DEF TypeOK, IInv, Points
<1>2. ASSUME ~ deadlock, NEW u \in User, Suspended(u)
      PROVE  reading.procnr = u /\ reading.left > 0
  <2>1. ~ Serves(u)  BY <1>2 DEF Suspended, Serves
  <2>2. Collecting /\ reading.procnr = u  BY <1>2, <2>1 DEF IInv, Answered, Suspended
  <2> QED  BY <1>2, <2>2 DEF Suspended, Collecting
<1> QED  BY <1>1, <1>2 DEF SuspendedIsServed

\* The invariant says what RepliesMatchCalls does.
LEMMA RepliesMatch == IInv => RepliesMatchCalls
<1> SUFFICES ASSUME IInv, fs.at # "receive"
             PROVE  /\ user[fs.src].at \in {"sent", "receiving"}
                    /\ fs.at = "reply" => fs.CNT <= user[fs.src].req.CNT
                    /\ fs.at = "answered" => fs.CNT = fs.req.CNT
  BY DEF RepliesMatchCalls, FsAt
<1>1. PICK u \in User : \E r \in Requests(u) : Calls(u, r) /\ FsTaken(u, r) /\ fs.src = u
  BY FsFacts DEF IInv
<1>2. PICK r \in Requests(u) : Calls(u, r) /\ FsTaken(u, r) /\ fs.src = u  BY <1>1
<1>3. user[u].at \in {"sent", "receiving"} /\ user[u].req = r  BY <1>2, CallFacts
<1>4. r.CNT \in Nat  BY RequestFacts
<1>5. fs.at = "reply" => fs.CNT \in 0 .. r.CNT  BY <1>2, TakenFacts
<1>6. fs.at = "answered" => fs.CNT = r.CNT /\ fs.req = r  BY <1>2, TakenFacts
<1> QED  BY <1>2, <1>3, <1>4, <1>5, <1>6

\* A reader that FS has suspended is the one TTY collects a line for, whatever the
\* interleaving of the programs, FS, TTY and the keyboard: task_tty and task_fs.
THEOREM ReadersAreServed == Spec => []SuspendedIsServed
BY TtyFsInvariant, ReaderIsServed, PTL

\* FS replies only to a program in a call of FS, with what it asked for at most:
\* do_rdwt and the RESUME_PROC of task_fs.
THEOREM RepliesAreDue == Spec => []RepliesMatchCalls
BY TtyFsInvariant, RepliesMatch, PTL

=============================================================================
