--------------------------- MODULE MCMvccRecovery ---------------------------
(* Small instances of MvccRecovery for TLC. *)
EXTENDS MvccRecovery, TLC

Symmetry == Permutations(Sessions) \cup Permutations(Rids)
=============================================================================
