----------------------------- MODULE Invocation -----------------------------
(***************************************************************************)
(* A transaction of wavesapi/transactions on its way to the Waves chain:   *)
(* built, marshalled and sent to the node for signing (SignTx), replaced   *)
(* by what the answer decodes to, marshalled again, and broadcast.         *)
(*                                                                         *)
(* The proof is over the content the node has read, the broadcast is of    *)
(* the content the program has decoded, and the two must be the same.      *)
(* Integers are written exactly but decoded into a float64, whose mantissa *)
(* they may not fit; and the body of a transaction is copied only if its   *)
(* type is one of the two that JsonMap and Parse know.                     *)
(***************************************************************************)
EXTENDS WavesApi, SequencesExt

CONSTANTS
    Mantissa,  \* bits of the mantissa: 53 in a float64
    Numbers,   \* fees, amounts and integer arguments
    MaxItems   \* bound: arguments and payments, or transfers

InvocationAssumption ==
    /\ Mantissa \in Nat \ {0} /\ MaxItems \in Nat
    /\ Numbers \subseteq 0 .. 2 ^ (Mantissa + 1)

VARIABLES
    wanted,  \* the content the caller has asked for
    tx,      \* the program's transaction
    pc,      \* "sign", "broadcast", "sent" or "failed"
    pool     \* the transactions the node has accepted

vars == <<wanted, tx, pc, pool>>

Known == {"InvokeScript", "MassTransfer"}
Items == SeqOf(Numbers, MaxItems)

\* What is signed; a proof and an id stand for the content they were made of.
Content     == [type : Known \cup {"none"}, fee : Nat, items : Seq(Nat)]
NoContent   == [type |-> "none", fee |-> 0, items |-> <<>>]
Transaction == [content : Content, proof : Content, id : Content]

New(content) == [content |-> content, proof |-> NoContent, id |-> NoContent]

\* What the caller of finalizeWavesRequest's kind builds, with a fee of its own.
NewInvokeScript(args, fee) == New([type |-> "InvokeScript", fee |-> fee, items |-> args])

\* The fee, in units of 50000, follows from the number of transfers.
NewMassTransfer(transfers) ==
    New([type |-> "MassTransfer", fee |-> Len(transfers) + 1 + 2, items |-> transfers])

JsonWithoutBody(t) == [t EXCEPT !.content.items = <<>>]   \* mutant of JsonMap

\* The body of a transaction of a known type, and nothing of others.
JsonMap(t) == IF t.content.type \in Known THEN t ELSE [t EXCEPT !.content.items = <<>>]

\* The nearest float64; of two, the one with the even mantissa.
Float(n) ==
    IF n <= 2 ^ Mantissa \/ n % 2 = 0 THEN n
    ELSE IF n % 4 = 1 THEN n - 1 ELSE n + 1

\* Mutant of Parse: the proof is not taken over.
ParseUnproved(json) == [json EXCEPT !.proof = NoContent]

Parse(json) ==
    [JsonMap(json) EXCEPT
        !.content.fee   = Float(json.content.fee),
        !.content.items = [k \in DOMAIN @ |-> Float(@[k])]]

Init ==
    /\ \E args \in Items :
         tx \in {NewMassTransfer(args)} \cup {NewInvokeScript(args, fee) : fee \in Numbers}
    /\ wanted = tx.content /\ pc = "sign" /\ pool = {}

-----------------------------------------------------------------------------
\* The node signs the content it has got, and fills in the id.
NodeSigns(json) == [json EXCEPT !.proof = json.content, !.id = json.content]

NodeAccepts(json) == json.proof = json.content

\* SignTx.  A body that cannot be decoded is an error as well.
SignTx ==
    /\ pc = "sign"
    /\ \E reply \in Replies(TRUE) :
         IF SendRequest(reply).err \/ reply.body = "broken"
         THEN pc' = "failed" /\ UNCHANGED tx
         ELSE pc' = "broadcast" /\ tx' = Parse(NodeSigns(JsonMap(tx)))
    /\ UNCHANGED <<wanted, pool>>

\* Broadcast.  The node refuses a proof that does not fit; if it accepts, its
\* answer may still be lost.
Broadcast ==
    /\ pc = "broadcast"
    /\ \E reply \in Replies(TRUE) :
         LET accepted == reply.code = 200 /\ NodeAccepts(JsonMap(tx))
         IN  /\ pool' = IF accepted THEN pool \cup {JsonMap(tx)} ELSE pool
             /\ pc' = IF accepted /\ ~SendRequest(reply).err THEN "sent" ELSE "failed"
    /\ UNCHANGED <<wanted, tx>>

-----------------------------------------------------------------------------
\* Every variable has its type, and what is in the pool has left the program.
TypeOK ==
    /\ wanted \in Content /\ tx \in Transaction
    /\ pc \in {"sign", "broadcast", "sent", "failed"}
    /\ pool \subseteq Transaction /\ (pool # {} => pc \in {"sent", "failed"})

(***************************************************************************)
(* No transaction is accepted that the caller has not asked for: neither   *)
(* the rounding nor a lost body goes unnoticed, because the proof is over  *)
(* what the node has read the first time.  And after a Broadcast that has  *)
(* not failed, the id that WaitTx is given is that of a transaction the    *)
(* node has.                                                               *)
(***************************************************************************)
AcceptedIsWanted ==
    /\ \A t \in pool : t.content = wanted
    /\ pc = "sent" => \E t \in pool : t.content = tx.id

Fits == wanted.fee <= 2 ^ Mantissa /\ \A k \in DOMAIN wanted.items : wanted.items[k] <= 2 ^ Mantissa

(***************************************************************************)
(* A transaction whose numbers fit the mantissa comes out of SignTx as the *)
(* node will accept it; only with others can the proof fail to fit.        *)
(***************************************************************************)
FittingIsSigned == pc = "broadcast" /\ Fits => NodeAccepts(JsonMap(tx))

=============================================================================
