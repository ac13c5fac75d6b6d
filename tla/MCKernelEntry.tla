--------------------------- MODULE MCKernelEntry ---------------------------
(* Two tasks, TTY with no line of its own and HD, a user process that loops; *)
(* 2 to 1 is 15 to 5.                                                        *)
EXTENDS KernelEntry

MCPriority == [p \in Procs |-> IF p = 0 THEN 2 ELSE 1]
MCWoken == [i \in Lines |-> 1]
MCTasks == {0, 1}
=============================================================================
