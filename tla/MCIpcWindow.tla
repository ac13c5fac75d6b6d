---------------------------- MODULE MCIpcWindow ----------------------------
(* IpcWindow on a small proc_table. *)
EXTENDS IpcWindow, TLC

CONSTANTS tty, fs, u   \* processes; tty is informed of interrupts

\* Processes that are not informed of interrupts are interchangeable.
Symmetry == Permutations(Proc \ IntTask)
============================================================================
