----------------------------- MODULE MCEthNode ------------------------------
(* Model values for the runs of EthNode: this validator is v0; v2 is polled *)
(* like v1 but is not one of the contract's admins.                         *)
EXTENDS EthNode, TLC

CONSTANTS r1, r2, v0, v1, v2

AllApproved == [r \in RequestIds |-> "approved"]
OnePanics   == [r \in RequestIds |-> IF r = r2 THEN "unregistered" ELSE "approved"]
=============================================================================
