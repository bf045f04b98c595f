------------------------- MODULE MCEnqueueRecovery -------------------------
(* Instances of EnqueueRecovery for TLC. *)
EXTENDS EnqueueRecovery, TLC

AssocSymmetry == Permutations(Assoc)
=============================================================================
