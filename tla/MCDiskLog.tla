----------------------------- MODULE MCDiskLog -----------------------------
(* DiskLog for TLC.  The clients are model values; no symmetry, as the run  *)
(* checks liveness.                                                         *)
EXTENDS DiskLog
=============================================================================
