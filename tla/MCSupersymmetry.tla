--------------------------- MODULE MCSupersymmetry ---------------------------
(* Values for the runs of Supersymmetry: two slots, one oracle each.       *)
EXTENDS Supersymmetry, TLC

CONSTANTS o1, o2, u1, t1, k1

OneEach == (1 :> o1) @@ (2 :> o2)
=============================================================================
