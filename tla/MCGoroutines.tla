----------------------------- MODULE MCGoroutines ----------------------------
(* Values for the run of Goroutines: i1 and i2 are a process and the one that *)
(* replaces it.                                                               *)
EXTENDS Goroutines

CONSTANTS i1, i2
=============================================================================
