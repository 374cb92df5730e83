----------------------------- MODULE EthMirror ------------------------------
(***************************************************************************)
(* What the Ethereum cacher promises to the rest of the validator: the     *)
(* chain, the cacher and the table of requests, with everything the other  *)
(* parts of the program may do to these reduced to two steps.  The signer  *)
(* and the other validators may submit a transaction for any request, and  *)
(* the signer may mark any stored request Success, whether or not that is  *)
(* still right.  The process may be killed and started again at any time.  *)
(***************************************************************************)
EXTENDS EthCacher

vars == <<ethVars, requests, cacherVars>>

\* The last write of finalizeEthRequest, seen from the table.
MarkSuccess(r) ==
    /\ Stored(r)
    /\ SaveStatus(r, Success)
    /\ UNCHANGED <<ethVars, cacherVars>>

\* The process dies and starts again: the database and the chain stay.
RestartCacher ==
    /\ CacherReset
    /\ UNCHANGED <<cHeight, ethVars, requests>>

Others ==
    \/ EthEnvironment /\ UNCHANGED <<requests, cacherVars>>
    \/ \E r \in EthRequests : Submit(r) /\ UNCHANGED <<requests, cacherVars>>
    \/ \E r \in EthRequests : MarkSuccess(r)
    \/ RestartCacher

Init == EthInit /\ RequestsInit /\ CacherInit
Next == HandleEthLogs \/ Others
Spec == Init /\ [][Next]_vars

(***************************************************************************)
(* The goroutine runs forever, and a call that is made over and over for   *)
(* the same request succeeds in the end; nothing is assumed of the chain   *)
(* or of the rest of the program.                                          *)
(***************************************************************************)
Visit(r) == \E l \in cLogs :
    l.rq = r /\ (SkipRecent(l) \/ StopAtExpired(l) \/ ReadRequest(l))

CacherFairness ==
    /\ WF_vars(HandleEthLogs)
    /\ SF_vars(FilterLogs)
    /\ \A r \in EthRequests :
         SF_vars(Visit(r)) /\ SF_vars(StoreRequest /\ cRead.rq = r)

FairSpec == Spec /\ CacherFairness

-----------------------------------------------------------------------------
\* Every variable has its type.
TypeOK == EthTypeOK /\ RequestsTypeOK /\ CacherTypeOK

(***************************************************************************)
(* A request the database calls Rejected can still be finalized, but only  *)
(* in a block numbered at most ContractTimeout - RqTimeout above the head  *)
(* of the cacher's last pass.  With equal timeouts (the <= of the closing  *)
(* UPDATE of cacher/eth.go) that is a block the pass had behind it, so     *)
(* that only a reorganisation can revive what was given up.                *)
(***************************************************************************)
LateSuccessIsBounded ==
    [][\A r \in EthRequests :
         /\ requests[r].status = Rejected
         /\ ethContract[r].status # Success /\ ethContract'[r].status = Success
         => ethContract'[r].changed + RqTimeout <= cHeight + ContractTimeout]_vars

(***************************************************************************)
(* A Rejected row becomes New again only in a pass whose head is exactly   *)
(* the last block of the request's time: there the walk still refreshes    *)
(* the row and the closing UPDATE then rejects it once more.               *)
(***************************************************************************)
ReopensOnlyAtDeadline ==
    [][\A r \in EthRequests :
         requests[r].status = Rejected /\ requests'[r].status = New
           => cHeight = requests[r].createdAt + RqTimeout]_vars

(***************************************************************************)
(* The walk visits the events oldest first and breaks at the first expired *)
(* one: a request enters the database only in a pass whose head finds      *)
(* every older request of the contract still within its time.              *)
(***************************************************************************)
NoEntryBehindExpired == [][EntersInOrder]_vars

\* r has settled and r and every older request of the contract are in time.
Visible(r) ==
    /\ Logged(r) /\ ethContract[r].height + BlockInterval <= ethHeight
    /\ \A q \in EthRequests : Logged(q) /\ ethContract[q].height <= ethContract[r].height
           => ethHeight <= ethContract[q].height + RqTimeout

(***************************************************************************)
(* A visible request reaches the database unless it ceases to be visible   *)
(* first, however often calls fail and the process restarts.               *)
(***************************************************************************)
VisibleIsCached ==
    \A r \in EthRequests : Visible(r) ~> (Stored(r) \/ ~Visible(r))
=============================================================================
