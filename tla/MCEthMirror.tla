---------------------------- MODULE MCEthMirror -----------------------------
(* Model values for the runs of EthMirror. *)
EXTENDS EthMirror, TLC

CONSTANTS r1, r2

\* No action and no property names a particular request.
Permute == Permutations({r1, r2})
=============================================================================
