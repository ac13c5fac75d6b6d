\* A page fault pushes the 6 words of the CPU, 8 registers, 2 arguments, a return address
\* and, for do_no_page, at least ebp and two locals.  After an exception the machine
\* stands still: CHECK_DEADLOCK FALSE.
CONSTANTS
  Procs = {0, 1, 2}
  priority <- MCPriority
  Idle = {2}
  TASK_TTY = 0
  Tasks <- MCTasks
  Lines = {"hd"}
  Woken <- MCWoken
  CLOCK_IRQ = "clock"
  FaultWords = 20
SPECIFICATION EntrySpec
INVARIANT EntriesAreWhole
CHECK_DEADLOCK FALSE
