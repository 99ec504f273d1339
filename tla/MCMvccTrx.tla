----------------------------- MODULE MCMvccTrx -----------------------------
(* Small instances of MvccTrx for TLC. *)
EXTENDS MvccTrx, TLC

Symmetry == Permutations(Sessions) \cup Permutations(Rids)
=============================================================================
