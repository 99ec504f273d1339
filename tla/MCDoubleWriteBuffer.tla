------------------------ MODULE MCDoubleWriteBuffer ------------------------
(* Small instances of DoubleWriteBuffer for TLC. *)
EXTENDS DoubleWriteBuffer, TLC

Symmetry == Permutations(Pools)
=============================================================================
