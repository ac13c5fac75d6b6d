\* Three entries: INIT can wait while a parent that is not its child ends before
\* and after its own child.  A status that was not set reads 0.
CONSTANTS
  Slots = {9, 10, 11}
  NrForks = 1
  Status = {1}
  Desc = {d}
  NO_TASK = NO_TASK
  TASK_TTY = TASK_TTY
SPECIFICATION Spec
\* The system may stop: every process waits, or spins after a failed fork().
CHECK_DEADLOCK FALSE
INVARIANTS
  NoUnheardZombie
  MmCanReply
  UserCodeIsWhole
PROPERTIES
  WaitTellsTheTruth
  CallsEnd
