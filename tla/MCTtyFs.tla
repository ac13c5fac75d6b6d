------------------------------ MODULE MCTtyFs ------------------------------
(* TtyFs with a program that reads and writes and one that writes. *)
EXTENDS TtyFs
============================================================================
