---------------------------- MODULE MCBufferPool ----------------------------
(* Small instances of BufferPool.                                           *)
EXTENDS BufferPool, TLC

Symmetry == Permutations(Threads)
=============================================================================
