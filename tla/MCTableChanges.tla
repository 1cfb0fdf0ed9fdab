--------------------------- MODULE MCTableChanges ---------------------------
(* TLC instance of TableChanges: the first row changes three times, which  *)
(* is what it takes to create, delete and create it again, while another   *)
(* row changes once.                                                       *)
EXTENDS TableChanges, TLC

CONSTANTS k1, k2, f1, f2, v1, v2

MCMaxChanges == [k \in Keys |-> IF k = k1 THEN 3 ELSE 1]
MCSymmetry == Permutations(Fields) \cup Permutations(Values)
=============================================================================
