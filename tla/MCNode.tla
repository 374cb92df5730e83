------------------------------- MODULE MCNode -------------------------------
(* Model values for the runs of Node: this validator is v0; v2 is polled     *)
(* like v1 but is not one of the contracts' admins.                          *)
EXTENDS Node

CONSTANTS r1, w1, w2, v0, v1, v2

AllApproved == [r \in RequestIds |-> "approved"]
EthApproved == [r \in RequestIds |-> IF r = r1 THEN "approved" ELSE "refused"]
OneRow      == <<w1>>
TwoRows     == <<w1, w2>>

\* Without requests of Ethereum the passes of its cacher change nothing but its
\* own place in them; the run of two Waves requests leaves them out.
WavesOnlySpec == Init /\ [][Next /\ UNCHANGED cacherVars]_vars /\ SignerFairness
=============================================================================
