-------------------------------- MODULE Node --------------------------------
(***************************************************************************)
(* One validator with both chains: main.go starts the Ethereum cacher, the *)
(* Waves cacher, and the signer on one database.  The signer signs and     *)
(* collects for the requests of both chains and finalizes first those of   *)
(* Ethereum, then those of Waves.  The two cachers share the table of      *)
(* requests: the closing UPDATE of the Waves cacher rewrites rows of the   *)
(* Ethereum cacher.  The process may end at any moment and is started      *)
(* again on the same database.                                             *)
(***************************************************************************)
EXTENDS EthCacher, Signer, Integers, Sequences

CONSTANTS
    WavesRequests, WavesStart, MaxWavesHeight, MaxWavesReorg,
    WavesInterval, RowOrder, WavesAdmins, WavesBft

VARIABLES
    wavesHeight, wavesState,         \* the Waves chain
    wPc, wState, wHeight, wPos,      \* the Waves cacher
    fPc, fList, fState, wavesPool    \* the last phase of the signer

Cacher    == INSTANCE WavesCacher WITH EthRows <- EthRequests
Finalizer == INSTANCE WavesFinalizer

ASSUME NodeAssumption ==
    /\ Cacher!WavesAssumption /\ Cacher!WavesCacherAssumption
    /\ Finalizer!FinalizerAssumption

wavesVars     == <<wavesHeight, wavesState>>
wCacherVars   == <<wPc, wState, wHeight, wPos>>
finalizerVars == <<fPc, fList, fState>>

ethPart   == <<ethVars, cacherVars>>
wavesPart == <<wavesVars, wCacherVars>>
signPart  == <<signs, signerVars, peerSigned, finalizerVars, wavesPool>>

vars == <<requests, ethPart, wavesPart, signPart>>

-----------------------------------------------------------------------------
EthPass   == HandleEthLogs /\ UNCHANGED <<wavesPart, signPart>>
WavesPass == Cacher!HandleWavesState /\ UNCHANGED <<ethPart, signPart>>

Between(from, to) == sPc = from /\ sPc' = to

\* The order of the phases.
InRound ==
    /\ Between("finalize", "sign") => fPc = "off"
    /\ fPc' = IF Between("gather", "finalize") THEN "list" ELSE fPc
    /\ UNCHANGED <<fList, fState, wavesPool, wavesPart, cacherVars>>

\* The phases up to finalizeEthRequest.
SignerRound == SignerStep /\ InRound

InWavesPhase ==
    /\ sPc = "finalize" /\ sTodo = {}
    /\ UNCHANGED <<ethPart, wCacherVars, signerVars, peerSigned>>

\* finalizeWavesRequest
WavesPhase == Finalizer!FinalizeWaves /\ InWavesPhase

-----------------------------------------------------------------------------
\* Enough oracles of the contract have signed r for it to accept a change.
EthQuorum(r)   == Cardinality({v \in Admins : Serves(r, v)}) >= ContractBft
WavesQuorum(r) == Cardinality({v \in WavesAdmins : Serves(r, v)}) >= WavesBft

\* Another validator signs a request it has found in the contract.
PeerSigns(r, v) ==
    /\ v # Self
    /\ IF r \in EthRequests THEN Logged(r) ELSE Cacher!Listed(r)
    /\ peerSigned' = peerSigned \cup {<<r, v>>}
    /\ UNCHANGED <<requests, ethPart, wavesPart, signs, signerVars, finalizerVars, wavesPool>>

EthSide ==
    /\ EthEnvironment \/ \E r \in EthRequests : EthQuorum(r) /\ Submit(r)
    /\ UNCHANGED <<requests, cacherVars, wavesPart, signPart>>

\* The Waves chain, its users and the other validators, and what becomes of
\* the invocations of this one.
WavesSide ==
    /\ \/ Cacher!WavesUsers /\ UNCHANGED wavesPool
       \/ \E r \in WavesRequests :
            WavesQuorum(r) /\ Cacher!WavesChange(r, Success) /\ UNCHANGED wavesPool
       \/ \E r \in WavesRequests : Finalizer!MineInvoke(r) \/ Finalizer!DropInvoke(r)
    /\ UNCHANGED <<requests, ethPart, wCacherVars, signs, signerVars, peerSigned, finalizerVars>>

\* The process ends and main starts it again.
Restart ==
    /\ CacherReset /\ Cacher!WavesCacherReset
    /\ SignerReset /\ Finalizer!FinalizerReset
    /\ UNCHANGED <<requests, signs, ethVars, cHeight, wavesVars, peerSigned, wavesPool>>

\* A missing key of the Waves contract's state, met by one of the goroutines.
Panic ==
    /\ (\E r \in sTodo : SignPanics(r)) \/ Cacher!WalkPanics \/ Finalizer!FinalizePanics
    /\ Restart

Environment == EthSide \/ WavesSide \/ \E r \in RequestIds, v \in Validators : PeerSigns(r, v)

Init ==
    /\ EthInit /\ RequestsInit /\ SignaturesInit /\ CacherInit /\ SignerInit
    /\ Cacher!WavesInit /\ Cacher!WavesCacherInit /\ Finalizer!FinalizerInit

Step == EthPass \/ WavesPass \/ SignerRound \/ WavesPhase \/ Environment
Next == Step \/ Panic \/ Restart
Spec == Init /\ [][Next]_vars

(***************************************************************************)
(* The goroutines run for ever, a call that is repeated for ever (for the  *)
(* same request or peer, where \A says so) succeeds in the end, and a call *)
(* to the Waves node returns.  Nothing is assumed of the chains or of the  *)
(* other validators.                                                       *)
(***************************************************************************)
Answers(r, v) == \E answered \in SUBSET Peers : v \in answered /\ GatherFrom(r, answered)

Visit(r) == \E l \in cLogs :
    l.rq = r /\ (SkipRecent(l) \/ StopAtExpired(l) \/ ReadRequest(l))

InEthPass == UNCHANGED <<wavesPart, signPart>>

EthCacherFairness ==
    /\ WF_vars(EthPass) /\ SF_vars(FilterLogs /\ InEthPass)
    /\ \A r \in EthRequests :
         SF_vars(Visit(r) /\ InEthPass) /\ SF_vars(StoreRequest /\ cRead.rq = r /\ InEthPass)

SignerFairness ==
    /\ WF_vars(SignerRound) /\ WF_vars(WavesPhase) /\ WF_vars(Panic)
    /\ SF_vars(Finalizer!ListRequests /\ InWavesPhase)
    /\ SF_vars(Finalizer!LoadState /\ InWavesPhase)
    /\ SF_vars((\E r \in WavesRequests : Finalizer!SkipWithoutQuorum(r)) /\ InWavesPhase)
    /\ SF_vars((\E r \in WavesRequests : Finalizer!SubmitInvoke(r)) /\ InWavesPhase)
    /\ \A r \in WavesRequests :
         /\ SF_vars(SignRequest(r) /\ InRound)
         /\ \A v \in Peers : SF_vars(Answers(r, v) /\ InRound)

\* As in EthNode, what is promised to Ethereum is promised without restarts;
\* to Waves, if there comes a time without them.
EthFairSpec   == Init /\ [][Step]_vars /\ EthCacherFairness
WavesFairSpec == Spec /\ SignerFairness
Calm          == <>[][Step]_vars

-----------------------------------------------------------------------------
\* Every variable has its type.
TypeOK ==
    /\ EthTypeOK /\ RequestsTypeOK /\ SignaturesTypeOK /\ CacherTypeOK /\ SignerTypeOK
    /\ Cacher!WavesTypeOK /\ Cacher!WavesCacherTypeOK /\ Finalizer!FinalizerTypeOK

(***************************************************************************)
(* Success is never made up on either chain: behind a Success in the       *)
(* database or in a contract there are the signatures of enough admins.    *)
(***************************************************************************)
SuccessHasQuorum ==
    /\ \A r \in EthRequests :
         requests[r].status = Success \/ ethContract[r].status = Success => EthQuorum(r)
    /\ \A r \in WavesRequests :
         requests[r].status = Success \/ Cacher!WavesStatus(r) = Success => WavesQuorum(r)

(***************************************************************************)
(* What the signer sends to either chain, or has sent and waits for, has   *)
(* been signed by BftCoefficient different validators: the rows it counted *)
(* in a table without a key are neither repeated nor made up.              *)
(***************************************************************************)
SentHasQuorum ==
    \A r \in RequestIds :
        \/ sPc = "send" /\ sCur = r
        \/ r \in wavesPool
        \/ fPc \in {"wait", "mark"} /\ Finalizer!First(r)
        => /\ Cardinality(Signers(r)) >= BftCoefficient
           /\ \A v \in Signers(r) : Serves(r, v)

(***************************************************************************)
(* Seen from the Waves cacher, this validator is one of those WavesMirror  *)
(* describes.                                                              *)
(***************************************************************************)
WavesRows == INSTANCE WavesMirror WITH
    RequestIds <- WavesRequests, EthRows <- {},
    requests <- [r \in WavesRequests |-> requests[r]]
WavesMirrorSpec == WavesRows!Spec

(***************************************************************************)
(* Seen from Ethereum, it is one of those EthNode describes, apart from    *)
(* the closing UPDATE of the Waves cacher (cacher/waves.go:95), which      *)
(* rejects stored rows, and only those overdue by the height of the Waves  *)
(* chain.                                                                  *)
(***************************************************************************)
EthView == INSTANCE EthNode WITH
    RequestIds <- EthRequests,
    requests   <- [r \in EthRequests |-> requests[r]],
    signs      <- {s \in signs : s.rq \in EthRequests},
    peerSigned <- {p \in peerSigned : p[1] \in EthRequests},
    sTodo      <- sTodo \cap EthRequests,
    TokenPair  <- [r \in EthRequests |-> TokenPair[r]]

WavesRejects ==
    /\ \A r \in EthRequests :
         \/ requests'[r] = requests[r]
         \/ /\ Stored(r) /\ requests'[r] = WithStatus(requests[r], Rejected)
            /\ requests[r].createdAt + RqTimeout <= wavesHeight
    /\ UNCHANGED <<ethPart, signPart>>

EthNodeSpec == EthView!Init /\ [][EthView!Next \/ WavesRejects]_(EthView!vars)

(***************************************************************************)
(* What a row of Ethereum says it has given up is finalized only in a      *)
(* block numbered at most ContractTimeout - RqTimeout above the head.      *)
(* This takes that the Waves chain is not the higher one, since both       *)
(* UPDATEs compare createdAt with the height of their own chain.           *)
(***************************************************************************)
WavesBehind == wavesHeight <= ethHeight

LateSuccessIsBounded ==
    [][\A r \in EthRequests :
         /\ requests[r].status = Rejected
         /\ ethContract[r].status # Success /\ ethContract'[r].status = Success
         => ethContract'[r].changed + RqTimeout <= ethHeight + ContractTimeout]_vars

\* No height of the Waves chain is the last block of an Ethereum request's time.
WavesFarBehind == wavesHeight + MaxReorg <= EthStart + RqTimeout

(***************************************************************************)
(* Where the heights of the chains overlap, the UPDATE of the Waves cacher *)
(* rejects Ethereum rows whose time is not over (cacher/waves.go:95).  The *)
(* Ethereum cacher, whose own UPDATE leaves them alone before the deadline,*)
(* repairs them as long as their time lasts.                               *)
(***************************************************************************)
RejectedInTimeReopens ==
    \A r \in EthRequests :
        LET inTime == /\ EthView!Mirror!Visible(r)
                      /\ ethHeight < ethContract[r].height + RqTimeout
        IN  requests[r].status = Rejected /\ inTime
                ~> requests[r].status # Rejected \/ ~inTime

\* finalizeWavesRequest goes on to the requests behind q.
PassedOver(q) ==
    \/ Cacher!WavesStatus(q) = Success
    \/ Cacher!WavesStatus(q) # None /\ ~Finalizer!HasWavesQuorum(q)

(***************************************************************************)
(* r has a quorum, is New in the contract and in the table, and the New    *)
(* rows that come before it are passed over: finalizeWavesRequest returns  *)
(* at the first request it cannot submit, and does so in every round.      *)
(***************************************************************************)
FirstToSubmit(r) ==
    LET reachable == {v \in Peers \cup {Self} : v = Self \/ Serves(r, v)} IN
    /\ requests[r].status = New /\ Cacher!WavesStatus(r) = New
    /\ TokenPair[r] = "approved"
    /\ Cardinality(reachable) >= BftCoefficient
    /\ Cardinality(reachable \cap WavesAdmins) >= WavesBft
    /\ \E n \in DOMAIN RowOrder :
         /\ RowOrder[n] = r
         /\ \A m \in 1 .. n - 1 :
              requests[RowOrder[m]].status = New => PassedOver(RowOrder[m])

\* The first request that can be submitted is, unless it ceases to be so first.
FirstIsSubmitted ==
    Calm => \A r \in WavesRequests : FirstToSubmit(r) ~> r \in wavesPool \/ ~FirstToSubmit(r)
=============================================================================
