---------------------------- MODULE MCResidency -----------------------------
(* Instances of Residency for TLC.                                         *)
EXTENDS ResidencyStore, TLC

NoFaults == {}
AllFaults == FaultKinds
TransferFaults == {"deviceAlloc", "d2h", "h2d", "nvmeRead", "nvmeWrite"}

Symmetry == Permutations(Pages) \cup Permutations(Threads) \cup Permutations(Values)
=============================================================================
