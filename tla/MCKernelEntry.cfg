\* After an exception the machine stands still: CHECK_DEADLOCK FALSE.
\* TTY and HD are tasks, 2 an idle user process, whose page faults fit into the entry here.
CONSTANTS
  Procs = {0, 1, 2}
  priority <- MCPriority
  Idle = {2}
  TASK_TTY = 0
  Tasks <- MCTasks
  Lines = {"hd"}
  Woken <- MCWoken
  CLOCK_IRQ = "clock"
  FaultWords = 18
SPECIFICATION EntrySpec
INVARIANTS
  EntryConsistent
  ContextKept
  BoundedWait
PROPERTIES
  NoStarvation

CHECK_DEADLOCK FALSE
