---------------------------- MODULE MCRecordFile ----------------------------
(* Small instances of RecordFile.                                           *)
EXTENDS RecordFile, TLC

Symmetry == Permutations(Threads)
=============================================================================
