--------------------------- MODULE MCSliceThread ---------------------------
(* A pool of three threads, the caller one of them, and one of two whose   *)
(* caller may run a main_func of its own instead of jobs.                  *)
EXTENDS SliceThread

MCPools == {[threads |-> 3, main_func |-> FALSE], [threads |-> 2, main_func |-> TRUE]}
=============================================================================
