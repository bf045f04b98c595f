---------------------------- MODULE MCSecretSync ----------------------------
(* Instances of SecretSync for TLC. *)
EXTENDS SecretSync, TLC

WorkerSymmetry == Permutations(Worker)
AssocSymmetry == Permutations(Assoc)
=============================================================================
