------------------------------- MODULE MCIpc -------------------------------
(* Ipc on a small proc_table. *)
EXTENDS Ipc, TLC

CONSTANTS tty, fs, u   \* processes; tty is informed of interrupts

\* Processes that are not informed of interrupts are interchangeable.
Symmetry == Permutations(Proc \ IntTask)
============================================================================
