---------------------------- MODULE MCBplusTree -----------------------------
(* Small instances of BplusTree.                                            *)
EXTENDS BplusTree, TLC

Symmetry == Permutations(Threads)

Up(n)   == [i \in 1..n |-> 2 * i]
Down(n) == [i \in 1..n |-> 2 * (n + 1 - i)]
(* No tree; a full leaf; two leaves with too few keys to lose one; a root   *)
(* that is full; three levels, as narrow as can be and wider.               *)
Trees == {<<>>, Up(4), Up(5), Up(10), Up(11), Down(11), Up(13), Up(14)}
=============================================================================
