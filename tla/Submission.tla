---------------------------- MODULE Submission -----------------------------
(***************************************************************************)
(* One request in the hands of finalizeWavesRequest, from line 62 on: the  *)
(* invocation is built, signed by the node and broadcast (Invocation);     *)
(* when the node has accepted it, its id is waited for (WaitTx).  An error *)
(* on the way is all the phase learns.                                     *)
(***************************************************************************)
EXTENDS Naturals

CONSTANTS Mantissa, Numbers, MaxItems, WaitCount

VARIABLES
    wanted, transaction, pc, pool,           \* Invocation
    tx, wasMined, gPc, i, result, caller     \* WaitTx

Invoke == INSTANCE Invocation WITH tx <- transaction
Wait   == INSTANCE WaitTx

SubmissionAssumption == Invoke!InvocationAssumption /\ Wait!WaitAssumption

invokeVars == <<wanted, transaction, pc, pool>>
waitVars   == <<tx, wasMined, gPc, i, result, caller>>

\* Nothing is known to the node yet.
Init == Invoke!Init /\ Wait!Init /\ tx = "gone"

Sign == Invoke!SignTx /\ UNCHANGED waitVars

Broadcast ==
    /\ Invoke!Broadcast
    /\ tx' = IF pool' # {} THEN "pending" ELSE tx
    /\ UNCHANGED <<wasMined, gPc, i, result, caller>>

\* What becomes of a transaction the node has accepted, whoever waits for it.
Chain == pool # {} /\ Wait!Chain /\ UNCHANGED invokeVars

\* The goroutine of WaitTx, and the caller at its channel.
Polls    == pc = "sent" /\ (Wait!Poll \/ Wait!Lookup) /\ UNCHANGED invokeVars
Receives == pc = "sent" /\ Wait!Receive /\ UNCHANGED invokeVars

Next == Sign \/ Broadcast \/ Chain \/ Polls \/ Receives

\* What finalizeWavesRequest knows of its transaction.
Outcome == IF pc = "failed" THEN "unknown" ELSE caller

-----------------------------------------------------------------------------
TypeOK == Invoke!TypeOK /\ Wait!TypeOK

Promise == INSTANCE Confirmation WITH outcome <- Outcome
=============================================================================
