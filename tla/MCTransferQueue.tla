-------------------------- MODULE MCTransferQueue ---------------------------
(* Small instances of the transfer engine for TLC.                         *)
EXTENDS TransferQueue, TLC

Symmetry == Permutations(Callers) \cup Permutations(Workers) \cup Permutations(Pages)
=============================================================================
