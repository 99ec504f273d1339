------------------------------ MODULE MCServer ------------------------------
(* Two clients; a pool of two core threads and one more.                   *)
EXTENDS Server, TLC

CONSTANTS c1, c2

TwoAndNone == (c1 :> 2) @@ (c2 :> 0)
BothModels == {"one", "pool"}
=============================================================================
