---------------------------- MODULE MCForkExit ----------------------------
(* ForkExit with INIT at its place in proc_table and a few free entries. *)
EXTENDS ForkExit
============================================================================
