----------------------------- MODULE MCPageMem -----------------------------
(* PageMem with regions of two tables of three entries. *)
EXTENDS PageMem
============================================================================
