-------------------------- MODULE MCVersionedTable --------------------------
(* TLC instance of VersionedTable.                                         *)
EXTENDS VersionedTable, TLC

CONSTANTS a, b, v, w
=============================================================================
