------------------------------- MODULE WaitTx -------------------------------
(***************************************************************************)
(* WaitTx of wavesapi/client.go and its caller, "err = <-WaitTx(tx.ID)".   *)
(* A goroutine polls the node and hands its result over an unbuffered      *)
(* channel; the caller receives once and leaves.  After an error of        *)
(* GetTxById the goroutine sends the error and, having no transaction,     *)
(* "transaction not found" after it: nobody receives the second value.     *)
(* Meanwhile the transaction is mined, dropped, or rolled back.            *)
(***************************************************************************)
EXTENDS WavesApi

CONSTANT WaitCount   \* polls before WaitTx gives up

WaitAssumption == WaitCount \in Nat \ {0}

VARIABLES
    tx,        \* the transaction at the node: "pending", "mined" or "gone"
    wasMined,  \* it has been in a block
    gPc,       \* goroutine: "poll", "lookup", "send", "sendTwice" or "done"
    i,         \* polls that have found the transaction in the pool
    result,    \* value the goroutine sends next
    caller     \* "waiting", "confirmed" or "unknown"

vars == <<tx, wasMined, gPc, i, result, caller>>

NoResult == "none"

Init ==
    /\ tx \in {"pending", "gone"} /\ wasMined = FALSE
    /\ gPc = "poll" /\ i = 0 /\ result = NoResult /\ caller = "waiting"

\* The node and the network.
Chain ==
    /\ \/ tx = "pending" /\ tx' \in {"mined", "gone"}
       \/ tx = "mined" /\ tx' \in {"pending", "gone"}
       \/ tx = "gone" /\ tx' = "pending"
    /\ wasMined' = (wasMined \/ tx' = "mined")
    /\ UNCHANGED <<gPc, i, result, caller>>

Sends(value, next) == result' = value /\ gPc' = next

\* One round of the loop, up to the lookup.
Poll ==
    /\ gPc = "poll"
    /\ \E reply \in Replies(tx = "pending") :
         LET rs == IsUnconfirmedTx(reply) IN
         \/ rs.err /\ Sends("error", "send") /\ UNCHANGED i
         \/ ~rs.err /\ ~rs.un /\ gPc' = "lookup" /\ UNCHANGED <<i, result>>
         \/ ~rs.err /\ rs.un /\ i = WaitCount - 1 /\ Sends("error", "send") /\ UNCHANGED i
         \/ ~rs.err /\ rs.un /\ i < WaitCount - 1 /\ i' = i + 1 /\ UNCHANGED <<gPc, result>>
    /\ UNCHANGED <<tx, wasMined, caller>>

\* Mutant of Lookup: the transaction that is no longer pending is taken for mined.
LookupNothing ==
    /\ gPc = "lookup"
    /\ Sends("nil", "send")
    /\ UNCHANGED <<tx, wasMined, i, caller>>

\* Mutant of Lookup: no result is the only one.
LookupSendsBoth ==
    /\ gPc = "lookup"
    /\ \E reply \in Replies(tx = "mined") :
         Sends(IF GetTxById(reply).found THEN "nil" ELSE "error", "sendTwice")
    /\ UNCHANGED <<tx, wasMined, i, caller>>

\* The transaction has left the pool: is it in a block?
Lookup ==
    /\ gPc = "lookup"
    /\ \E reply \in Replies(tx = "mined") :
         LET rs == GetTxById(reply) IN
         \/ rs.err /\ Sends("error", "sendTwice")
         \/ ~rs.err /\ Sends(IF rs.found THEN "nil" ELSE "error", "send")
    /\ UNCHANGED <<tx, wasMined, i, caller>>

\* The rendezvous on the channel.
Receive ==
    /\ gPc \in {"send", "sendTwice"} /\ caller = "waiting"
    /\ caller' = IF result = "nil" THEN "confirmed" ELSE "unknown"
    /\ gPc' = IF gPc = "send" THEN "done" ELSE "send"
    /\ result' = IF gPc = "send" THEN NoResult ELSE "error"
    /\ UNCHANGED <<tx, wasMined, i>>

-----------------------------------------------------------------------------
\* Every variable has its type, and the caller leaves with what was sent.
TypeOK ==
    /\ tx \in {"pending", "mined", "gone"} /\ wasMined \in BOOLEAN
    /\ gPc \in {"poll", "lookup", "send", "sendTwice", "done"}
    /\ i \in 0 .. WaitCount - 1
    /\ result \in {NoResult, "nil", "error"}
    /\ (result = NoResult) = (gPc \in {"poll", "lookup", "done"})
    /\ caller \in {"waiting", "confirmed", "unknown"}
=============================================================================
