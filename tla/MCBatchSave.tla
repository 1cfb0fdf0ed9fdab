----------------------------- MODULE MCBatchSave -----------------------------
(* TLC instance of BatchSave.                                              *)
EXTENDS BatchSave, TLC

CONSTANTS t1, t2
=============================================================================
