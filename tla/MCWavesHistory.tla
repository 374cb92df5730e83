--------------------------- MODULE MCWavesHistory ---------------------------
(* Model values for the run of WavesHistory. *)
EXTENDS WavesHistory

CONSTANTS w1, w2
=============================================================================
