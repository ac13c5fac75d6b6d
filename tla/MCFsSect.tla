------------------------------ MODULE MCFsSect ------------------------------
(* FsSect with cmd.tar and files made by programs, which are interchangeable. *)
EXTENDS FsSect, TLC
Symmetry == Permutations(Files \ {CmdTar})

\* The zones of an earlier file system that mkfs has not cleared: none, or a
\* second-level block where this one puts that of cmd.tar, with which
\* SectorsHaveOneOwner does not hold (README, section 5).
MCBlank == [f \in Files |-> [z \in SECOND_LEVEL_ZONE..THIRD_LEVEL_ZONE |-> NO_ZONE]]
MCUsed == [f \in Files |-> [z \in SECOND_LEVEL_ZONE..THIRD_LEVEL_ZONE |->
            IF z = SECOND_LEVEL_ZONE THEN NR_DIRECT_ZONE + 1 ELSE NO_ZONE]]
============================================================================
