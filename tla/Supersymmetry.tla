--------------------------- MODULE Supersymmetry ----------------------------
(***************************************************************************)
(* The Supersymmetry contract on Ethereum: what the functions bound in     *)
(* contracts/eth.go do when the compiled code beside them                  *)
(* (SupersymmetryBin) is executed.  Each action is one transaction of the  *)
(* block being built, height + 1, that does not revert; Seal ends the      *)
(* block.  A transaction that reverts changes nothing.                     *)
(*                                                                         *)
(* changeTokenStatus, createTokenRequest and registerInputToken revert     *)
(* whatever their arguments are and have no action: the first asks for two *)
(* statuses at once, the second for a token that the first would have      *)
(* approved, and the third deploys a token whose constructor reverts.  So  *)
(* every request is one of createEthRequest.                               *)
(***************************************************************************)
EXTENDS Models, Integers, FiniteSets, Functions

CONSTANTS
    Users, Targets,   \* senders, and their addresses on the other chain
    Amounts,          \* amounts of ether that are sent or asked for
    Oracles, Slots,   \* who signs, and the positions of the array admins
    Admin,            \* Slots -> Oracles
    BftCoefficent,    \* signatures that changeStatus asks for
    Timeout,          \* blocks after which a request is past due
    Verdicts,         \* statuses that the oracles sign
    TokenContracts,   \* tokens that users may register
    Start,            \* last block before the first request
    MaxHeight,        \* bound: no block above this height
    MaxRequests       \* bound: requests created

ASSUME ContractAssumption ==
    /\ Amounts \subseteq Nat /\ Verdicts \subseteq {Rejected, Success}
    /\ Admin \in [Slots -> Oracles] /\ IsFiniteSet(Slots)
    /\ BftCoefficent \in Nat \ {0} /\ Timeout \in Nat
    /\ Start \in Nat \ {0} /\ MaxHeight \in Nat /\ MaxRequests \in Nat

VARIABLES
    height,      \* number of the latest block
    requests,    \* id -> entry, for the ids that are there
    balance,     \* ether the contract holds
    registered,  \* tokens that have an entry, with status New
    signed,      \* <<oracle, id, verdict>>
    pool         \* <<id, verdict>>: changeStatus transactions not yet in a block

vars == <<height, requests, balance, registered, signed, pool>>

\* requestHash: the type of the request does not enter it.
Id  == [owner : Users, target : Targets, amount : Amounts, height : Nat]
Ids == [owner : Users, target : Targets, amount : Amounts, height : Start + 1 .. MaxHeight + 1]

Entry == [rType : {"Lock", "Unlock"}, status : Status, changed : Nat]

Init ==
    /\ height = Start /\ requests = <<>> /\ balance = 0
    /\ registered = {} /\ signed = {} /\ pool = {}

Put(id, entry) ==
    requests' = [x \in DOMAIN requests \cup {id} |-> IF x = id THEN entry ELSE requests[x]]

Settle(id, status) == Put(id, [requests[id] EXCEPT !.status = status, !.changed = height + 1])

Unsettled(id) == id \in DOMAIN requests /\ requests[id].status = New

PaysOutAlways(amount) == balance' = balance - amount   \* mutant of PaysOut

\* The ether leaves the contract if it is there; otherwise the call reverts.
PaysOut(amount) == balance >= amount /\ balance' = balance - amount

-----------------------------------------------------------------------------
(***************************************************************************)
(* createEthRequest.  The amount of a Lock is the ether sent with it; that *)
(* of an Unlock is an argument, and ether sent with it is kept.            *)
(***************************************************************************)
CreateEthRequest(owner, target, rType, unlockAmount, value) ==
    LET amount == IF rType = "Lock" THEN value ELSE unlockAmount
        id     == [owner |-> owner, target |-> target, amount |-> amount, height |-> height + 1]
    IN  /\ id \notin DOMAIN requests
        /\ Cardinality(DOMAIN requests) < MaxRequests
        /\ Put(id, [rType |-> rType, status |-> New, changed |-> height + 1])
        /\ balance' = balance + value
        /\ UNCHANGED <<height, registered, signed, pool>>

\* The slots of admins whose signature over id and verdict is given.
Votes(id, verdict) == Cardinality({s \in Slots : <<Admin[s], id, verdict>> \in signed})

AnyTime(id) == TRUE   \* mutant of InTime

InTime(id) == height + 1 <= id.height + Timeout

\* changeStatus would not revert for want of time, signatures or status.
Acceptable(id, verdict) ==
    /\ Unsettled(id) /\ InTime(id) /\ Votes(id, verdict) >= BftCoefficent

\* Mutant of ChangeStatus: the deposit goes back whatever the verdict is.
ChangeStatusRefunds(id, verdict) ==
    /\ <<id, verdict>> \in pool /\ Acceptable(id, verdict)
    /\ Settle(id, verdict)
    /\ PaysOut(id.amount)
    /\ UNCHANGED <<height, registered, signed, pool>>

(***************************************************************************)
(* changeStatus.  Success pays an Unlock and keeps a Lock; Rejected hands  *)
(* a Lock back.                                                            *)
(***************************************************************************)
ChangeStatus(id, verdict) ==
    /\ <<id, verdict>> \in pool /\ Acceptable(id, verdict)
    /\ Settle(id, verdict)
    /\ IF (requests[id].rType = "Unlock") = (verdict = Success)
       THEN PaysOut(id.amount)
       ELSE UNCHANGED balance
    /\ UNCHANGED <<height, registered, signed, pool>>

\* withdrawPastDueReqest, by anyone: hands a Lock back and closes an Unlock.
WithdrawPastDueReqest(id) ==
    /\ Unsettled(id) /\ ~InTime(id)
    /\ Settle(id, Returned)
    /\ IF requests[id].rType = "Lock" THEN PaysOut(id.amount) ELSE UNCHANGED balance
    /\ UNCHANGED <<height, registered, signed, pool>>

\* registerNativeToken, once for each token.
RegisterNativeToken(t) ==
    /\ t \notin registered
    /\ registered' = registered \cup {t}
    /\ UNCHANGED <<height, requests, balance, signed, pool>>

-----------------------------------------------------------------------------
\* An oracle signs a request it has seen in a block.
SignVerdict(o, id, verdict) ==
    /\ id.height <= height
    /\ signed' = signed \cup {<<o, id, verdict>>}
    /\ UNCHANGED <<height, requests, balance, registered, pool>>

\* A changeStatus transaction is sent; the node runs it first.
Send(id, verdict) ==
    /\ Acceptable(id, verdict)
    /\ pool' = pool \cup {<<id, verdict>>}
    /\ UNCHANGED <<height, requests, balance, registered, signed>>

Executed(id, verdict) == requests[id].status = verdict /\ requests[id].changed = height + 1

\* A transaction that is not in the block being built is dropped.
Drop(id, verdict) ==
    /\ <<id, verdict>> \in pool /\ ~Executed(id, verdict)
    /\ pool' = pool \ {<<id, verdict>>}
    /\ UNCHANGED <<height, requests, balance, registered, signed>>

Seal ==
    /\ height < MaxHeight
    /\ height' = height + 1
    /\ pool' = {t \in pool : ~Executed(t[1], t[2])}
    /\ UNCHANGED <<requests, balance, registered, signed>>

Next ==
    \/ \E o \in Users, t \in Targets, a \in Amounts, value \in Amounts :
         \/ CreateEthRequest(o, t, "Lock", 0, value)
         \/ CreateEthRequest(o, t, "Unlock", a, value)
    \/ \E id \in DOMAIN requests :
         \/ WithdrawPastDueReqest(id)
         \/ \E verdict \in Verdicts :
              \/ ChangeStatus(id, verdict) \/ Send(id, verdict) \/ Drop(id, verdict)
              \/ \E o \in Oracles : SignVerdict(o, id, verdict)
    \/ \E t \in TokenContracts : RegisterNativeToken(t)
    \/ Seal

Spec == Init /\ [][Next]_vars

-----------------------------------------------------------------------------
\* Every variable has its type: the contract never pays what it has not got.
TypeOK ==
    /\ height \in Nat /\ balance \in Nat
    /\ DOMAIN requests \subseteq Id
    /\ \A id \in DOMAIN requests : requests[id] \in Entry
    /\ registered \subseteq TokenContracts
    /\ signed \subseteq Oracles \X (DOMAIN requests) \X Verdicts
    /\ pool \subseteq (DOMAIN requests) \X Verdicts

(***************************************************************************)
(* The contract is an escrow: whatever transactions it gets in whatever    *)
(* order, a deposit is handed back or kept but never both, a claim is paid *)
(* at most once, and only if enough slots of the admins have signed that   *)
(* in time.                                                                *)
(***************************************************************************)
Decided(verdict) ==
    {id \in DOMAIN requests :
        \E quorum \in SUBSET Slots :
            /\ Cardinality(quorum) = BftCoefficent
            /\ \A s \in quorum : <<Admin[s], id, verdict>> \in signed}

Pending(rType) == {id \in DOMAIN requests : requests[id].rType = rType /\ Unsettled(id)}
Deposits == [id \in Pending("Lock") |-> id.amount]

Funds == INSTANCE Escrow WITH
    deposits <- Deposits,
    claims   <- [id \in Pending("Unlock") |-> id.amount],
    pot      <- balance - FoldFunction(+, 0, Deposits),
    approved <- Decided(Success),
    refused  <- Decided(Rejected),
    overdue  <- {id \in DOMAIN requests : height - id.height >= Timeout}
EscrowSpec == Funds!Spec

(***************************************************************************)
(* Seen from the blocks, and as long as the oracles sign nothing but       *)
(* Success, the contract and the transactions sent to it behave as         *)
(* EthChain says: the validator's models rest on what the code does.       *)
(***************************************************************************)
Published(id) ==
    IF id \notin DOMAIN requests \/ id.height > height
    THEN [height |-> 0, status |-> None, changed |-> 0]
    ELSE LET e == requests[id] IN
         IF e.changed > height THEN [height |-> id.height, status |-> New, changed |-> id.height]
         ELSE [height |-> id.height, status |-> e.status, changed |-> e.changed]

Chain == INSTANCE EthChain WITH
    EthRequests <- Ids, EthStart <- Start, MaxEthHeight <- MaxHeight,
    MaxReorg <- 0, ContractTimeout <- Timeout,
    ethHeight   <- height,
    ethContract <- [id \in Ids |-> Published(id)],
    ethPool     <- {t[1] : t \in pool}

OnlySuccess == \A s \in signed : s[3] = Success

ChainStep == Chain!MineBlock \/ \E id \in Ids : Chain!Submit(id) \/ Chain!DropTx(id)

ChainSpec == Chain!EthInit /\ [][OnlySuccess => ChainStep]_(Chain!ethVars)
=============================================================================
