---------------------------- MODULE MCBufferPool ----------------------------
(* The buffer pool with the constants of its configuration. *)
EXTENDS BufferPool

CONSTANTS main, filtro, muxer, e1, e2

=============================================================================
