------------------------------- MODULE Signer -------------------------------
(***************************************************************************)
(* signer/signer.go and signer/eth.go: the goroutine that signs new        *)
(* requests, collects the signatures of the other validators, and submits  *)
(* what has a quorum, one phase after the other in an endless loop.        *)
(*                                                                         *)
(* Every phase loads the New requests once and then works through that     *)
(* list; the table may have changed by the time a request has its turn.    *)
(* The goroutine is the only writer of "signs", so a lookup in that table  *)
(* and the insert that depends on it are one step.  The order in which a   *)
(* phase visits its requests is left open.                                 *)
(***************************************************************************)
EXTENDS EthChain, Signatures

CONSTANTS
    Self,             \* this validator's oracle address
    Peers,            \* the validators at config Ips
    Admins,           \* the oracles the contract counts
    TokenPair,        \* registration of each request's token on the two chains
    BftCoefficient,   \* config BftCoefficient
    ContractBft,      \* the contract's bftCoefficent
    NoRequest

ASSUME SignerAssumption ==
    /\ Self \in Validators /\ Peers \subseteq Validators
    /\ Admins \subseteq Validators /\ IsFiniteSet(Validators)
    /\ TokenPair \in [RequestIds -> {"approved", "refused", "unregistered"}]
    /\ BftCoefficient \in Nat \ {0} /\ ContractBft \in Nat \ {0}
    /\ NoRequest \notin RequestIds

VARIABLES
    sPc,         \* phase, and the call within the phase for one request
    sTodo,       \* requests of the phase's list that are still to be visited
    sCur,        \* the request being finalized
    peerSigned   \* <<request, peer>>: the peer's own server has its signature

signerVars == <<sPc, sTodo, sCur>>

SignerTypeOK ==
    /\ sPc \in {"sign", "gather", "finalize", "send", "mark"}
    /\ sTodo \subseteq RequestIds
    /\ IF sPc \in {"send", "mark"} THEN sCur \in EthRequests ELSE sCur = NoRequest
    /\ peerSigned \subseteq RequestIds \X Validators

\* Between two rounds of the loop, and at start: nothing left to finalize.
SignerReset == sPc' = "finalize" /\ sTodo' = {} /\ sCur' = NoRequest

SignerInit ==
    sPc = "finalize" /\ sTodo = {} /\ sCur = NoRequest /\ peerSigned = {}

-----------------------------------------------------------------------------
\* A phase has visited its whole list and the next one loads its own.
BeginPhase(from, to, list) ==
    /\ sPc = from /\ sTodo = {}
    /\ sPc' = to /\ sTodo' = list
    /\ UNCHANGED <<sCur, peerSigned, ethVars, requests, signs>>

BeginSign     == BeginPhase("finalize", "sign", NewRows)
BeginGather   == BeginPhase("sign", "gather", NewRows)
BeginFinalize == BeginPhase("gather", "finalize", NewRows \cap EthRequests)

\* A database error ends a phase early ("return err").
AbandonPhase ==
    /\ sPc \in {"sign", "gather", "finalize"} /\ sTodo # {}
    /\ sTodo' = {}
    /\ UNCHANGED <<sPc, sCur, peerSigned, ethVars, requests, signs>>

\* Request r is done with and the phase moves on to the rest of its list.
Visited(r) == r \in sTodo /\ sTodo' = sTodo \ {r}

-----------------------------------------------------------------------------
\* Mutant of SignRequest: no lookup before the insert.
SignAgain(r) ==
    /\ sPc = "sign" /\ Visited(r)
    /\ TokenPair[r] = "approved"
    /\ signs' = signs \cup {NewSign(r, Self)}
    /\ UNCHANGED <<sPc, sCur, peerSigned, ethVars, requests>>

(***************************************************************************)
(* signRequest, for one request: unless its own signature is found and if  *)
(* the token is approved on both chains, the validator signs "Success" and *)
(* inserts the signature.                                                  *)
(***************************************************************************)
SignRequest(r) ==
    /\ sPc = "sign" /\ Visited(r)
    /\ FALSE \in FindSign(r, Self) /\ TokenPair[r] = "approved"
    /\ signs' = signs \cup {NewSign(r, Self)}
    /\ UNCHANGED <<sPc, sCur, peerSigned, ethVars, requests>>

\* Signed already, token not approved, or a call to either node failed.
SkipSign(r) ==
    /\ sPc = "sign" /\ Visited(r)
    /\ UNCHANGED <<sPc, sCur, peerSigned, ethVars, requests, signs>>

\* The Waves contract has no entry for the token: the type assertion on the
\* missing value panics, and with it the whole process.
SignPanics(r) ==
    /\ sPc = "sign" /\ r \in sTodo
    /\ FALSE \in FindSign(r, Self) /\ TokenPair[r] = "unregistered"

-----------------------------------------------------------------------------
\* handleGetSign on validator v's server finds v's own signature for r.
Serves(r, v) == IF v = Self THEN Self \in Signers(r) ELSE <<r, v>> \in peerSigned

\* Mutant of GatherFrom: the status of an answer is not looked at.
GatherAnyStatus(r, answered) ==
    /\ sPc = "gather" /\ Visited(r)
    /\ signs' = signs \cup {NewSign(r, v) : v \in answered \ Signers(r)}
    /\ UNCHANGED <<sPc, sCur, peerSigned, ethVars, requests>>

(***************************************************************************)
(* getSigns, for one request: of the peers that could answer with their    *)
(* signature some do, and each answer is inserted unless a row for that    *)
(* validator is found.                                                     *)
(***************************************************************************)
GatherFrom(r, answered) ==
    /\ sPc = "gather" /\ Visited(r)
    /\ answered \subseteq {v \in Peers : Serves(r, v)}
    /\ \E repeated \in SUBSET {v \in answered \cap Signers(r) : FALSE \in FindSign(r, v)} :
         signs' = signs \cup {NewSign(r, v) : v \in (answered \ Signers(r)) \cup repeated}
    /\ UNCHANGED <<sPc, sCur, peerSigned, ethVars, requests>>

GatherSigns(r) == \E answered \in SUBSET Peers : GatherFrom(r, answered)

-----------------------------------------------------------------------------
HasQuorumButOne(r) == Cardinality(SignRows(r)) + 1 >= BftCoefficient   \* mutant of HasQuorum

\* The rows that count towards the quorum of finalizeEthRequest.
HasQuorum(r) == Cardinality(SignRows(r)) >= BftCoefficient

\* Mutant of Votes: repeated rows of an admin fill several slots.
VotesByRow(r) == Cardinality({s \in SignRows(r) : s.validator \in Admins})

\* The admin slots a changeStatus transaction can fill from the table.
Votes(r) == Cardinality(Signers(r) \cap Admins)

(***************************************************************************)
(* finalizeEthRequest, for one request.  The contract's entry is read with *)
(* the error ignored, so a failed call looks like status None.  A request  *)
(* the contract calls Success only needs its row marked; any other request *)
(* that has a quorum is submitted.                                         *)
(***************************************************************************)
CheckRequest(r) ==
    /\ sPc = "finalize" /\ Visited(r)
    /\ \E status \in {ethContract[r].status, None} :
         \/ status = Success /\ sPc' = "mark" /\ sCur' = r
         \/ status # Success /\ HasQuorum(r) /\ sPc' = "send" /\ sCur' = r
         \/ status # Success /\ ~HasQuorum(r) /\ UNCHANGED <<sPc, sCur>>
    /\ UNCHANGED <<peerSigned, ethVars, requests, signs>>

\* contract.ChangeStatus returns the transaction.
SendChangeStatus ==
    /\ sPc = "send"
    /\ Votes(sCur) >= ContractBft /\ Submit(sCur)
    /\ sPc' = "mark"
    /\ UNCHANGED <<sTodo, sCur, peerSigned, requests, signs>>

\* Mutant of SendFails: no "continue" after the error.
SendFailsUnseen ==
    /\ sPc = "send"
    /\ sPc' = "mark"
    /\ UNCHANGED <<sCur, sTodo, peerSigned, ethVars, requests, signs>>

\* contract.ChangeStatus returns an error: the request is left as it is.
SendFails ==
    /\ sPc = "send"
    /\ sPc' = "finalize" /\ sCur' = NoRequest
    /\ UNCHANGED <<sTodo, peerSigned, ethVars, requests, signs>>

\* Mutant of MarkRow: the row takes the status the contract has now.
MarkRowAsInContract ==
    /\ sPc = "mark"
    /\ SaveStatus(sCur, ethContract[sCur].status)
    /\ sPc' = "finalize" /\ sCur' = NoRequest
    /\ UNCHANGED <<sTodo, peerSigned, ethVars, signs>>

\* The row becomes Success, whatever it is by now; the transaction has been
\* sent, not mined.  An error of this Save is ignored.
MarkRow ==
    /\ sPc = "mark"
    /\ SaveStatus(sCur, Success) \/ UNCHANGED requests
    /\ sPc' = "finalize" /\ sCur' = NoRequest
    /\ UNCHANGED <<sTodo, peerSigned, ethVars, signs>>

SignerStep ==
    \/ BeginSign \/ BeginGather \/ BeginFinalize \/ AbandonPhase
    \/ \E r \in sTodo : SignRequest(r) \/ SkipSign(r) \/ GatherSigns(r)
    \/ \E r \in sTodo \cap EthRequests : CheckRequest(r)
    \/ SendChangeStatus \/ SendFails \/ MarkRow

-----------------------------------------------------------------------------
(***************************************************************************)
(* The table "signs" has no key, yet no validator is counted twice for one *)
(* request: signRequest and getSigns look before they insert.              *)
(***************************************************************************)
OneSignPerValidator ==
    \A s, t \in signs : s.rq = t.rq /\ s.validator = t.validator => s = t

(***************************************************************************)
(* When finalizeEthRequest submits a request, the rows it counted come     *)
(* from BftCoefficient different validators, each of which has signed.     *)
(***************************************************************************)
QuorumIsReal ==
    sPc = "send" =>
        /\ Cardinality(Signers(sCur)) >= BftCoefficient
        /\ \A v \in Signers(sCur) : Serves(sCur, v)
=============================================================================
