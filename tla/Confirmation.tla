---------------------------- MODULE Confirmation ----------------------------
(***************************************************************************)
(* What waiting for a transaction promises to the one who waits: one       *)
(* answer, and "confirmed" only if the transaction has been in a block.    *)
(* "unknown" promises nothing: the transaction may be lost, in a block     *)
(* already, or confirmed later.                                            *)
(***************************************************************************)
VARIABLES
    outcome,   \* "waiting", "confirmed" or "unknown"
    wasMined   \* the transaction has been in a block

confirmationVars == <<outcome, wasMined>>

Init == outcome = "waiting" /\ wasMined = FALSE

Mine == ~wasMined /\ wasMined' = TRUE /\ UNCHANGED outcome

Answer ==
    /\ outcome = "waiting"
    /\ outcome' \in (IF wasMined THEN {"confirmed", "unknown"} ELSE {"unknown"})
    /\ UNCHANGED wasMined

Spec == Init /\ [][Mine \/ Answer]_confirmationVars
=============================================================================
