----------------------------- MODULE KernelEntry -----------------------------
(***************************************************************************)
(* Into the kernel and out of it (kernel/kernel.asm): interrupts, system      *)
(* calls and page faults, on one CPU with one kernel stack.  save puts the    *)
(* registers of a process into its entry of proc_table, because the CPU      *)
(* starts the kernel on the stack tss.esp0, which restart sets to the top of  *)
(* that entry; an interrupt of the kernel is saved on the kernel stack.       *)
(* While a handler or a call runs, interrupts are on, but the handler's own  *)
(* line is masked at the 8259 (kernel/i8259.c).  Who runs next is decided by   *)
(* module Sched, and takes effect when the outermost entry is left.          *)
(***************************************************************************)
EXTENDS Sched, Sequences, Integers

CONSTANTS
  Tasks,      \* processes of ring 1, whose pages are all there
  Lines,      \* the interrupt lines of the devices that have a task
  Woken,      \* for each of them, the task its handler informs
  CLOCK_IRQ,
  FaultWords  \* the stack a page fault uses, in words

Irqs == Lines \cup {CLOCK_IRQ}

\* stackframe of proc.h: gs .. ss, pushed by save and the CPU, in words.
FrameWords == 18

ASSUME EntryAssumption ==
  /\ Tasks \subseteq Procs /\ Woken \in [Lines -> Tasks] /\ TASK_TTY \in Tasks
  /\ CLOCK_IRQ \notin Lines /\ FaultWords \in Nat
  /\ Irqs \cap {"sys_call", "exception"} = {}

VARIABLES
  regs,       \* the registers: whose they are, and eax
  if,         \* the interrupt flag of the CPU
  stack,      \* the entries into the kernel that are not left, the outermost first
  k_reenter,  \* counts them, from -1
  esp0,       \* tss.esp0: the process whose entry the CPU saves to
  frame,      \* the registers saved in proc_table
  imr,        \* the lines masked at the 8259
  irr,        \* the lines that request an interrupt
  handler,    \* irq_table: the lines whose handler is installed
  owed,       \* ghost: eax each process is to find when it goes on
  spoilt      \* the processes whose entry of proc_table is overwritten

cpuVars == <<regs, if, stack, k_reenter, esp0, frame>>
picVars == <<imr, irr, handler>>
entryVars == <<vars, cpuVars, picVars, owed, spoilt>>

UserMode == stack = <<>>
Top == stack[Len(stack)]
SetTop(e) == [stack EXCEPT ![Len(stack)] = e]

\* eax as the process computes it, or the result of its call; the registers of
\* kernel code, which are its own at every depth.
Own == 0
Result == 1
KERNEL == -1
KernelRegs == [who |-> KERNEL, eax |-> Len(stack)]

----------------------------------------------------------------------------
(* Entry and exit                                                           *)

\* save: what runs is saved in the entry of the process or on the kernel stack.
Save(what) ==
  /\ k_reenter' = k_reenter + 1
  /\ IF k_reenter' = 0
     THEN /\ frame' = [frame EXCEPT ![esp0] = regs]
          /\ stack' = <<[what |-> what, at |-> "run", esi |-> esp0, saved |-> regs,
                         ret |-> "restart"]>>
     ELSE /\ stack' = Append(stack, [what |-> what, at |-> "run", esi |-> esp0, saved |-> regs,
                                     ret |-> "restart_reenter"])
          /\ UNCHANGED frame
  /\ regs' = KernelRegs'
  /\ UNCHANGED esp0

\* Popped registers are below the stack.
Popped == [who |-> KERNEL, eax |-> Own]

\* restart pops the registers of p_proc_ready from its entry.
Go(saved) ==
  /\ esp0' = p_proc_ready
  /\ regs' = saved[p_proc_ready]
  /\ frame' = [saved EXCEPT ![p_proc_ready] = Popped]
  /\ stack' = <<>>

\* restart goes on with p_proc_ready, restart_reenter with what was interrupted.
Restart ==
  /\ k_reenter' = k_reenter - 1
  /\ IF Top.ret = "restart"
     THEN Go(frame)
     ELSE /\ regs' = Top.saved
          /\ stack' = SubSeq(stack, 1, Len(stack) - 1)
          /\ UNCHANGED <<esp0, frame>>
  /\ if' = TRUE

----------------------------------------------------------------------------
(* Interrupts                                                               *)

\* A device or the clock requests one.
Raise(i) ==
  /\ i \notin irr /\ irr' = irr \cup {i}
  /\ UNCHANGED <<vars, cpuVars, imr, handler, owed, spoilt>>

\* The CPU takes an interrupt before the next instruction when it may, the clock,
\* IRQ 0, before the others.
Requested == irr \ imr
Quiet == ~if \/ Requested = {}

HwintUnmasked(i) ==
  /\ if /\ i \in Requested
  /\ CLOCK_IRQ \in Requested => i = CLOCK_IRQ
  /\ Save(i)
  /\ irr' = irr \ {i}
  /\ if' = TRUE
  /\ UNCHANGED <<vars, imr, handler, owed, spoilt>>

\* hwint_master and hwint_slave as far as sti: the line is masked, and the 8259 told
\* that it is served.
Hwint(i) ==
  /\ if /\ i \in Requested
  /\ CLOCK_IRQ \in Requested => i = CLOCK_IRQ
  /\ Save(i)
  /\ irr' = irr \ {i} /\ imr' = imr \cup {i}
  /\ if' = TRUE
  /\ UNCHANGED <<vars, handler, owed, spoilt>>

Handled(i) ==
  /\ ~UserMode /\ Top.what = i /\ Top.at = "run"
  /\ stack' = SetTop([Top EXCEPT !.at = "handled"])
  /\ UNCHANGED <<regs, if, k_reenter, esp0, frame, picVars, owed, spoilt>>

ClockHandlerNested == Handled(CLOCK_IRQ) /\ KernelTick

\* clock_handler.
ClockHandler ==
  /\ Handled(CLOCK_IRQ)
  /\ IF k_reenter # 0 THEN KernelTick ELSE UserTick

\* hd_handler: inform_int wakes the task, or leaves it a message.
DeviceHandler(i) ==
  /\ Handled(i)
  /\ \/ Unblock(Woken[i])
     \/ UNCHANGED vars

\* After cli: the line is unmasked.
HwintEnds ==
  /\ ~UserMode /\ Top.what \in Irqs /\ Top.at = "handled"
  /\ imr' = imr \ {Top.what}
  /\ Restart
  /\ UNCHANGED <<vars, irr, handler, owed, spoilt>>

----------------------------------------------------------------------------
(* System calls                                                             *)

\* int 0x90 of the process that runs.
SysCall ==
  /\ UserMode /\ if
  /\ Save("sys_call")
  /\ if' = TRUE
  /\ owed' = [owed EXCEPT ![p_proc_ready] = Result]
  /\ UNCHANGED <<vars, picVars, spoilt>>

InCall == ~UserMode /\ Top.what = "sys_call" /\ Top.at = "run"

\* sys_sendrec (module Ipc): the caller blocks, or unblocks another, or neither.
CallBody ==
  /\ InCall
  /\ stack' = SetTop([Top EXCEPT !.at = "handled"])
  /\ \/ Block
     \/ \E p \in Procs \ {p_proc_ready} : Unblock(p)
     \/ UNCHANGED vars
  /\ UNCHANGED <<regs, if, k_reenter, esp0, frame, picVars, owed, spoilt>>

\* mov [esi + EAXREG - P_STACKBASE], eax.
Answered(p) == [frame EXCEPT ![p] = [who |-> frame[p].who, eax |-> Result]]

SysCallEndsToCurrent ==
  /\ ~UserMode /\ Top.what = "sys_call" /\ Top.at = "handled"
  /\ k_reenter' = k_reenter - 1 /\ if' = TRUE
  /\ Go(Answered(p_proc_ready))
  /\ UNCHANGED <<vars, picVars, owed, spoilt>>

\* eax goes to the entry that save has left in esi.
SysCallEnds ==
  /\ ~UserMode /\ Top.what = "sys_call" /\ Top.at = "handled"
  /\ k_reenter' = k_reenter - 1 /\ if' = TRUE
  /\ Go(Answered(Top.esi))
  /\ UNCHANGED <<vars, picVars, owed, spoilt>>

----------------------------------------------------------------------------
(* Page faults, and tasks                                                   *)

\* page_fault stays on the stack the CPU gives it, and leaves interrupts off.
\* What it pushes beyond the frame, which the next save writes anew, goes into the
\* entry before.
PageFault ==
  /\ UserMode /\ p_proc_ready \notin Tasks
  /\ spoilt' = IF FaultWords > FrameWords THEN spoilt \cup ({esp0 - 1} \cap Procs) ELSE spoilt
  /\ UNCHANGED <<vars, cpuVars, picVars, owed>>

\* The process computes.
UserStep ==
  /\ UserMode /\ regs.eax = Result
  /\ regs' = [regs EXCEPT !.eax = Own]
  /\ owed' = [owed EXCEPT ![p_proc_ready] = Own]
  /\ UNCHANGED <<vars, if, stack, k_reenter, esp0, frame, picVars, spoilt>>

\* disable_int and enable_int, which TASK_TTY uses.
DisableInt ==
  /\ UserMode /\ p_proc_ready = TASK_TTY /\ if
  /\ if' = FALSE
  /\ UNCHANGED <<vars, regs, stack, k_reenter, esp0, frame, picVars, owed, spoilt>>
EnableInt ==
  /\ UserMode /\ ~if
  /\ if' = TRUE
  /\ UNCHANGED <<vars, regs, stack, k_reenter, esp0, frame, picVars, owed, spoilt>>

\* Any exception but a page fault: exception_handler prints it, on the stack the CPU
\* gives it, and hlt stops the machine with interrupts off.
Exception ==
  /\ UserMode
  /\ stack' = <<[what |-> "exception", at |-> "hlt"]>>
  /\ regs' = KernelRegs' /\ if' = FALSE
  /\ UNCHANGED <<vars, k_reenter, esp0, frame, picVars, owed, spoilt>>

\* put_irq_handler and enable_irq, by the task of the line.
PutIrqHandler(i) ==
  /\ UserMode /\ p_proc_ready = Woken[i] /\ i \notin handler
  /\ handler' = handler \cup {i} /\ imr' = imr \ {i}
  /\ UNCHANGED <<vars, cpuVars, irr, owed, spoilt>>

----------------------------------------------------------------------------

\* kernel_main ends with restart: the first process, and the clock enabled.
EntryInit ==
  /\ Init
  /\ regs = [who |-> p_proc_ready, eax |-> Own] /\ if = TRUE
  /\ stack = <<>> /\ k_reenter = -1
  /\ esp0 = p_proc_ready
  /\ frame = [p \in Procs |-> IF p = p_proc_ready THEN Popped ELSE [who |-> p, eax |-> Own]]
  /\ imr = Lines /\ irr = {} /\ handler = {CLOCK_IRQ}
  /\ owed = [p \in Procs |-> Own]
  /\ spoilt = {}

Kernel ==
  \/ ClockHandler
  \/ \E i \in Lines : DeviceHandler(i)
  \/ HwintEnds \/ CallBody \/ SysCallEnds
Process ==
  \/ SysCall \/ PageFault \/ Exception \/ UserStep \/ DisableInt \/ EnableInt
  \/ \E i \in Lines : PutIrqHandler(i)

EntryNext ==
  \/ \E i \in Irqs : Raise(i) \/ Hwint(i)
  \/ Quiet /\ Kernel
  \/ Quiet /\ Process

\* The CPU goes on; interrupts leave every level of the kernel the time to go on, and
\* not every tick of the clock falls into the kernel.
EntryFairness ==
  /\ WF_entryVars(Kernel \/ EnableInt \/ \E i \in Irqs : Hwint(i))
  /\ \A d \in 1 .. Cardinality(Irqs) : SF_entryVars(Len(stack) = d /\ Kernel)
  /\ SF_entryVars(UserMode /\ Raise(CLOCK_IRQ))

EntrySpec == EntryInit /\ [][EntryNext]_entryVars /\ EntryFairness

----------------------------------------------------------------------------
\* Properties

OnStack(what) == \E i \in DOMAIN stack : stack[i].what = what
Halted == OnStack("exception")
Masked == {i \in Irqs : OnStack(i) \/ i \notin handler}

\* k_reenter counts the entries that save has made; the lines masked are those whose handlers
\* are on the stack, each once, so that the stack is bounded, and those not yet
\* enabled; only the outermost entry is left by restart, and a system call is
\* always outermost; in user mode the CPU saves to the entry of the process that runs.
StackConsistent ==
  /\ k_reenter = IF Halted THEN -1 ELSE Len(stack) - 1
  /\ imr = Masked
  /\ \A i, j \in DOMAIN stack : stack[i].what = stack[j].what => i = j
  /\ ~Halted => \A i \in DOMAIN stack :
       /\ stack[i].ret = (IF i = 1 THEN "restart" ELSE "restart_reenter")
       /\ stack[i].what = "sys_call" => i = 1
  /\ UserMode => esp0 = p_proc_ready
EntryConsistent == TypeOK /\ StackConsistent

\* Whoever runs has its own registers: those it had when it was interrupted, and after a
\* system call the result of its own call, whoever else ran, blocked or was
\* interrupted in between; and kernel code finds its own again after an
\* interrupt.
ContextKept ==
  /\ UserMode => regs = [who |-> p_proc_ready, eax |-> owed[p_proc_ready]]
  /\ ~UserMode => regs = KernelRegs

\* Whoever is ready to run does run, or is blocked again: no priority starves
\* another, and no tick that falls into the kernel, where it charges a process
\* without taking the CPU from it.  Only an exception, of whatever process, stops
\* them all.
NoStarvation ==
  watched \in runnable ~> (p_proc_ready = watched \/ watched \notin runnable \/ Halted)

\* The entry of a process is written by nobody else's fault: "from here on, never
\* push or pop: esp points into proc_table, and a push would destroy the process table"
\* (kernel.asm:402).
EntriesAreWhole == spoilt = {}
=============================================================================
