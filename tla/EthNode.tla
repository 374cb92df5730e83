------------------------------ MODULE EthNode -------------------------------
(***************************************************************************)
(* One validator at work on Ethereum requests: the cacher and the signer   *)
(* share the database and run against the chain and the other validators.  *)
(* The process may be killed, or panic, and is started again.              *)
(***************************************************************************)
EXTENDS EthCacher, Signer

vars == <<ethVars, requests, signs, cacherVars, signerVars, peerSigned>>

\* Enough admins have signed r for the contract to accept it.
AdminQuorum(r) == Cardinality({v \in Admins : Serves(r, v)}) >= ContractBft

\* Another validator signs a request it has found in the contract.
PeerSigns(r, v) ==
    /\ Logged(r) /\ v # Self
    /\ peerSigned' = peerSigned \cup {<<r, v>>}
    /\ UNCHANGED <<ethVars, requests, signs, cacherVars, signerVars>>

\* Another validator has a quorum and submits.
PeerSubmits(r) ==
    /\ AdminQuorum(r) /\ Submit(r)
    /\ UNCHANGED <<requests, signs, cacherVars, signerVars, peerSigned>>

\* The process ends, by a signal or by a panic of the signer, and main starts
\* it again on the same database.
Restart ==
    /\ CacherReset /\ SignerReset
    /\ UNCHANGED <<cHeight, ethVars, requests, signs, peerSigned>>

Panic == (\E r \in sTodo : SignPanics(r)) /\ Restart

Environment ==
    \/ EthEnvironment /\ UNCHANGED <<requests, signs, cacherVars, signerVars, peerSigned>>
    \/ \E r \in EthRequests, v \in Validators : PeerSigns(r, v)
    \/ \E r \in EthRequests : PeerSubmits(r)

Init ==
    EthInit /\ RequestsInit /\ SignaturesInit /\ CacherInit /\ SignerInit

\* What happens while the process runs.
Step ==
    \/ HandleEthLogs /\ UNCHANGED <<signs, signerVars, peerSigned>>
    \/ SignerStep /\ UNCHANGED cacherVars
    \/ Environment

Next == Step \/ Panic \/ Restart

Spec == Init /\ [][Next]_vars

Mirror == INSTANCE EthMirror

(***************************************************************************)
(* Fairness: both goroutines run forever, and errors do not hit the same   *)
(* call for the same request or the same peer every time it is repeated.   *)
(* Nothing is assumed of the chain, of the other validators, or of         *)
(* transactions once they are sent.  The process is not restarted any      *)
(* more; a restart leaves nothing behind that FailPass, AbandonPhase and   *)
(* the failing branches of the signer do not leave as well.                *)
(***************************************************************************)
Own(action) == action /\ UNCHANGED cacherVars

Answers(r, v) == \E answered \in SUBSET Peers : v \in answered /\ GatherFrom(r, answered)

SignerFairness ==
    /\ WF_vars(Own(SignerStep))
    /\ \A r \in EthRequests :
         /\ SF_vars(Own(SignRequest(r))) /\ SF_vars(Own(CheckRequest(r)))
         /\ SF_vars(Own(SendChangeStatus /\ sCur = r))
         /\ \A v \in Peers : SF_vars(Own(Answers(r, v)))

FairSpec == Init /\ [][Step]_vars /\ Mirror!CacherFairness /\ SignerFairness

-----------------------------------------------------------------------------
\* Every variable has its type, and a request in the signer's hands is one
\* that the database holds.
TypeOK ==
    /\ EthTypeOK /\ RequestsTypeOK /\ SignaturesTypeOK
    /\ CacherTypeOK /\ SignerTypeOK
    /\ \A r \in sTodo : Stored(r)
    /\ sPc \in {"send", "mark"} => Stored(sCur)

(***************************************************************************)
(* Success is never made up: behind a Success in the database, in the      *)
(* contract or on its way there are the signatures of ContractBft admins,  *)
(* through stale lists, lost transactions, reorganisations and restarts.   *)
(***************************************************************************)
SuccessHasQuorum ==
    \A r \in EthRequests :
        \/ requests[r].status = Success
        \/ ethContract[r].status = Success
        \/ r \in ethPool
        => AdminQuorum(r)

(***************************************************************************)
(* Seen from the cacher and the table of requests, the validator is one of *)
(* those EthMirror describes: whatever EthMirror guarantees holds here.    *)
(***************************************************************************)
MirrorSpec == Mirror!Spec

(***************************************************************************)
(* The cacher shows r to the signer, the contract would still take it in   *)
(* the next block, and the signatures that can be collected suffice.       *)
(***************************************************************************)
Submittable(r) ==
    LET reachable == {v \in Peers \cup {Self} : v = Self \/ Serves(r, v)} IN
    /\ Mirror!Visible(r) /\ Accepts(ethContract[r], ethHeight + 1)
    /\ ethHeight < ethContract[r].height + RqTimeout
    /\ TokenPair[r] = "approved"
    /\ Cardinality(reachable) >= BftCoefficient
    /\ Cardinality(reachable \cap Admins) >= ContractBft

(***************************************************************************)
(* A request that can be submitted is: finalizeEthRequest marks the row    *)
(* Success when it has only sent the transaction, and if that is lost the  *)
(* cacher's next pass makes the row New again and the signer sends anew.   *)
(***************************************************************************)
QuorumIsSubmitted ==
    \A r \in EthRequests : Submittable(r) ~> (r \in ethPool \/ ~Submittable(r))
=============================================================================
