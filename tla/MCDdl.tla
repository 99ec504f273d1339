-------------------------------- MODULE MCDdl --------------------------------
(* Two tables with two indexes and two rows each, and both transaction      *)
(* models.  No definition chooses between names by CHOOSE when more than    *)
(* one will do, so that they may be interchanged.                           *)
EXTENDS Ddl

CONSTANTS t1, t2, i1, i2, r1, r2

BothKits == {"mvcc", "vacuous"}
Symmetry == Permutations(Tables) \cup Permutations(Indexes) \cup Permutations(Rows)
=============================================================================
