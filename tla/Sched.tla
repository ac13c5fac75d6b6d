------------------------------- MODULE Sched -------------------------------
(***************************************************************************)
(* The scheduler: schedule() of kernel/proc.c and clock_handler of           *)
(* kernel/clock.c.  The process in p_proc_ready runs until it blocks in a    *)
(* system call or a clock tick in user mode finds its ticks used up; a tick   *)
(* that arrives while the kernel is entered (k_reenter # 0) only charges it. *)
(* An unblocked process is not switched to before the next schedule().       *)
(* Module KernelEntry says when these steps are taken.                       *)
(***************************************************************************)
EXTENDS Naturals, FiniteSetsExt

CONSTANTS
  Procs,       \* positions in proc_table, a set of numbers
  priority,    \* the ticks a process is given: 15 for a task, 5 for a user
  Idle,        \* processes that never block: the loops TestA, TestB and TestC
  TASK_TTY     \* the process the clock informs of a pressed key

ASSUME SchedAssumption ==
  /\ Procs \subseteq Nat /\ IsFiniteSet(Procs)
  /\ priority \in [Procs -> Nat \ {0}]
  /\ Idle \subseteq Procs /\ Idle # {}
  /\ TASK_TTY \in Procs

VARIABLES
  runnable,      \* the processes with p_flags = 0
  ticks,         \* ticks left to each process
  p_proc_ready,  \* the process that runs
  watched,       \* ghost: some process
  waited         \* ghost: ticks used by others while it is ready in vain

vars == <<runnable, ticks, p_proc_ready, watched, waited>>

\* The scan runs from the last entry to the first and replaces its choice only
\* by strictly more ticks, so the last entry wins a tie.
MostTicks(run, t) == {p \in run : t[p] > 0 /\ \A q \in run : t[q] <= t[p]}
LastOf(S) == CHOOSE p \in S : \A q \in S : q <= p

\* When nobody runnable has ticks left, all of them are given their priority.
RefillTop(run, t) ==
  [p \in Procs |-> IF p \in run /\ \A q \in run : priority[q] <= priority[p]
                   THEN priority[p] ELSE t[p]]
Refill(run, t) == [p \in Procs |-> IF p \in run THEN priority[p] ELSE t[p]]

ChooseReady(run, t) == LastOf(MostTicks(run, t))

\* schedule(), on the processes runnable and the ticks left at the call.
Schedule(run, t) ==
  LET u == IF MostTicks(run, t) = {} THEN Refill(run, t) ELSE t
  IN /\ ticks' = u
     /\ p_proc_ready' = ChooseReady(run, u)

\* clock_handler takes one tick from the running process, if it has one.
Charged == [ticks EXCEPT ![p_proc_ready] = IF @ > 0 THEN @ - 1 ELSE 0]

\* What the others hold now, and what they are given when all is used up.
WaitBound(p) == 2 * MapThenSumSet(LAMBDA q : priority[q], Procs \ {p})

\* The ghost counts the ticks others use while a process could run, up to one
\* more than it may have to wait.
CountWaiting(used) ==
  /\ waited' = IF watched \in (runnable \cap runnable') \ {p_proc_ready, p_proc_ready'}
               THEN IF waited > WaitBound(watched) THEN waited ELSE waited + used
               ELSE 0
  /\ UNCHANGED watched
Used == IF ticks[p_proc_ready] > 0 THEN 1 ELSE 0

\* A tick wakes TASK_TTY if a key was pressed and the task waits for it.
Informed == {runnable, runnable \cup {TASK_TTY}}

\* A tick in user mode.
UserTick ==
  /\ runnable' \in Informed
  /\ IF Charged[p_proc_ready] > 0
     THEN ticks' = Charged /\ UNCHANGED p_proc_ready
     ELSE Schedule(runnable', Charged)
  /\ CountWaiting(Used)

\* A tick while a system call or another handler runs.
KernelTick ==
  /\ runnable' \in Informed
  /\ ticks' = Charged
  /\ UNCHANGED p_proc_ready
  /\ CountWaiting(Used)

\* The running process sets a flag of its own and block() schedules.
Block ==
  /\ p_proc_ready \notin Idle
  /\ runnable' = runnable \ {p_proc_ready}
  /\ Schedule(runnable', ticks)
  /\ CountWaiting(0)

\* Another process or an interrupt clears p's flags.
Unblock(p) ==
  /\ p \notin runnable
  /\ runnable' = runnable \cup {p}
  /\ UNCHANGED <<ticks, p_proc_ready>>
  /\ CountWaiting(0)

\* kernel_main: everybody is runnable and full of ticks; proc_table[0] runs.
Init ==
  /\ runnable = Procs
  /\ ticks = priority
  /\ p_proc_ready = CHOOSE p \in Procs : \A q \in Procs : p <= q
  /\ watched \in Procs /\ waited = 0

----------------------------------------------------------------------------
\* Properties

\* The variables have their types; nobody holds more ticks than its priority.
TypeOK ==
  /\ runnable \subseteq Procs
  /\ ticks \in [Procs -> Nat]
  /\ \A p \in Procs : ticks[p] <= priority[p]
  /\ p_proc_ready \in Procs
  /\ watched \in Procs /\ waited \in Nat

\* What a process that is ready to run can be made to wait for: the ticks the
\* others hold now, and what they are given once more when all are used up.
BoundedWait == waited <= WaitBound(watched)
============================================================================
