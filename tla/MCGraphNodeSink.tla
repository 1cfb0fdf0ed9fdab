--------------------------- MODULE MCGraphNodeSink ---------------------------
(* TLC instance of GraphNodeSink.                                          *)
EXTENDS GraphNodeSink

CONSTANTS pair, token, trx

=============================================================================
