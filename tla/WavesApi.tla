------------------------------ MODULE WavesApi ------------------------------
(***************************************************************************)
(* wavesapi/client.go: what a call to the Waves node makes of the node's   *)
(* reply.  A reply that does not arrive has no code; a body may come with  *)
(* a transaction, without one, or be cut short (the error of ReadAll is    *)
(* not looked at), which shows only when it is decoded.                    *)
(***************************************************************************)
EXTENDS Naturals

Reply == [sent : BOOLEAN, code : {200, 404, 500}, body : {"tx", "none", "broken"}]

\* sendRequest: an answer that is not 200 is an error with a code.
SendRequest(reply) ==
    [code |-> IF reply.sent THEN reply.code ELSE 520,
     body |-> reply.body,
     err  |-> ~reply.sent \/ reply.code # 200]

\* 404 is the answer for a transaction that is not in the pool.
IsUnconfirmedTx(reply) ==
    LET rs == SendRequest(reply) IN
    IF rs.err /\ rs.code # 404 THEN [un |-> TRUE, err |-> TRUE]
    ELSE [un |-> rs.code = 200, err |-> FALSE]

\* A transaction the node does not know is an error here; found is whether
\* the transaction that is returned has an id.
GetTxById(reply) ==
    LET rs == SendRequest(reply) IN
    [found |-> ~rs.err /\ rs.body = "tx", err |-> rs.err \/ rs.body = "broken"]

-----------------------------------------------------------------------------
\* What the node may reply about a transaction that it has (or has not).
Replies(has) ==
    {rp \in Reply :
        \/ ~rp.sent \/ rp.code = 500
        \/ rp.code = (IF has THEN 200 ELSE 404) /\ (has => rp.body # "none")}
=============================================================================
