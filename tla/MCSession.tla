----------------------------- MODULE MCSession ------------------------------
(* A plain and a MySQL session over a table with two rows.                 *)
EXTENDS Session

CONSTANTS s1, s2, k1, k2, k3

OneOfEach == [s \in {s1, s2} |-> IF s = s1 THEN "plain" ELSE "mysql"]
OneAndTwo == [s \in {s1, s2} |-> IF s = s1 THEN 1 ELSE 2]
AllOrSecond == {{k1, k2, k3}, {k2}}
=============================================================================
