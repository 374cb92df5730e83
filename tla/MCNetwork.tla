------------------------------ MODULE MCNetwork ------------------------------
(* Values for the run of Network: two Waves requests, of which one has an    *)
(* approved token and the other one that the Waves contract does not know.   *)
EXTENDS Network

CONSTANTS w1, w2, v1, v2

AllWaves  == [r \in RequestIds |-> "Waves"]
OnePanics == [r \in RequestIds |-> IF r = w1 THEN "approved" ELSE "unregistered"]
AllPoll   == [v \in Validators |-> Validators \ {v}]
=============================================================================
