--------------------------- MODULE WavesFinalizer ---------------------------
(***************************************************************************)
(* signer/waves.go: the last phase of the signer's loop.  It loads the New *)
(* Waves requests and the contract's state once, then works through the    *)
(* list in the order of the table: what the state calls Success only needs *)
(* its row marked, what has a quorum is signed by the node, broadcast, and *)
(* waited for.  Any error returns from the phase, and the requests behind  *)
(* the one it hit are not visited.  WaitTx is reduced to what Confirmation *)
(* promises.                                                               *)
(***************************************************************************)
EXTENDS WavesChain, Signatures, WavesApi

CONSTANTS
    RowOrder,        \* the Waves requests in the order the table returns them
    BftCoefficient,  \* config BftCoefficient
    WavesAdmins,     \* the oracles at "admins" of the contract's state
    WavesBft         \* signatures the Waves contract asks for

FinalizerAssumption ==
    /\ RowOrder \in Seq(WavesRequests)
    /\ \A r \in WavesRequests : \E n \in DOMAIN RowOrder : RowOrder[n] = r
    /\ WavesAdmins \subseteq Validators
    /\ BftCoefficient \in Nat \ {0} /\ WavesBft \in Nat \ {0}

VARIABLES
    fPc,       \* next call of finalizeWavesRequest, "off" in the other phases
    fList,     \* requests still to be visited; their order is that of RowOrder
    fState,    \* state: the status of each request when the phase began
    wavesPool  \* requests with an invocation of changeStatus not yet mined

finalizerVars == <<fPc, fList, fState>>

NoState == [r \in WavesRequests |-> None]

FinalizerTypeOK ==
    /\ fPc \in {"off", "list", "state", "visit", "wait", "mark"}
    /\ fList \subseteq WavesRequests
    /\ fState \in [WavesRequests -> Status]
    /\ fPc \in {"wait", "mark"} => fList # {}
    /\ wavesPool \subseteq WavesRequests

FinalizerInit == fPc = "off" /\ fList = {} /\ fState = NoState /\ wavesPool = {}

FinalizerReset == fPc' = "off" /\ fList' = {} /\ fState' = NoState

\* db.Where(Waves, New).Find(&requests)
ListRequests ==
    /\ fPc = "list"
    /\ fList' = NewRows \cap WavesRequests
    /\ fPc' = "state"
    /\ UNCHANGED <<fState, wavesPool, wavesVars, requests, signs>>

\* wavesClient.GetStateByAddress(contract)
LoadState ==
    /\ fPc = "state"
    /\ fState' = [r \in WavesRequests |-> WavesStatus(r)]
    /\ fPc' = "visit"
    /\ UNCHANGED <<fList, wavesPool, wavesVars, requests, signs>>

\* r is the first request of the list.
First(r) ==
    /\ r \in fList
    /\ \E n \in DOMAIN RowOrder : RowOrder[n] = r /\ \A m \in 1 .. n - 1 : RowOrder[m] \notin fList

\* Request r has its turn; its key is there, or the process would panic.
Turn(r) == fPc = "visit" /\ First(r) /\ fState[r] # None

\* status_<r> is missing: the type assertion panics.
FinalizePanics == fPc = "visit" /\ \E r \in fList : First(r) /\ fState[r] = None

\* Mutant of MarkFinalized: an error of Save ends the phase.
MarkFinalizedOrEnd(r) ==
    /\ Turn(r) /\ fState[r] = Success
    /\ \/ SaveStatus(r, Success) /\ fList' = fList \ {r} /\ UNCHANGED <<fPc, fState>>
       \/ FinalizerReset /\ UNCHANGED requests
    /\ UNCHANGED <<wavesPool, wavesVars, signs>>

\* An error of this Save is ignored.
MarkFinalized(r) ==
    /\ Turn(r) /\ fState[r] = Success
    /\ SaveStatus(r, Success) \/ UNCHANGED requests
    /\ fList' = fList \ {r}
    /\ UNCHANGED <<fPc, fState, wavesPool, wavesVars, signs>>

MoreThanWavesQuorum(r) == Cardinality(SignRows(r)) > BftCoefficient   \* mutant of HasWavesQuorum

HasWavesQuorum(r) == Cardinality(SignRows(r)) >= BftCoefficient

SkipWithoutQuorum(r) ==
    /\ Turn(r) /\ fState[r] # Success /\ ~HasWavesQuorum(r)
    /\ fList' = fList \ {r}
    /\ UNCHANGED <<fPc, fState, wavesPool, wavesVars, requests, signs>>

\* Mutant of WavesVotes: rows are counted whoever signed them.
WavesVotesOfAll(r) == Cardinality(Signers(r))

\* sortedSigns: the signature of each admin that has a row, "q" for the others.
WavesVotes(r) == Cardinality(Signers(r) \cap WavesAdmins)

\* The node runs the invocation before it takes it.
NodeTakes(r) == WavesStatus(r) = New /\ WavesVotes(r) >= WavesBft

(***************************************************************************)
(* SignTx and Broadcast.  The node may take the invocation and its answer  *)
(* be lost; every answer but 200 ends the phase.                           *)
(***************************************************************************)
SubmitInvoke(r) ==
    /\ Turn(r) /\ fState[r] # Success /\ HasWavesQuorum(r)
    /\ NodeTakes(r) /\ wavesPool' = wavesPool \cup {r}
    /\ \E reply \in Replies(TRUE) :
         IF SendRequest(reply).err THEN FinalizerReset
         ELSE fPc' = "wait" /\ UNCHANGED <<fList, fState>>
    /\ UNCHANGED <<wavesVars, requests, signs>>

\* WaitTx: the invocation has been found in a block.
TxConfirmed(r) ==
    /\ fPc = "wait" /\ First(r) /\ WavesStatus(r) = Success
    /\ fPc' = "mark"
    /\ UNCHANGED <<fList, fState, wavesPool, wavesVars, requests, signs>>

\* Mutant of MarkConfirmed: the row is saved as it was loaded.
MarkConfirmedUnchanged(r) ==
    /\ fPc = "mark" /\ First(r)
    /\ SaveStatus(r, New)
    /\ fPc' = "visit" /\ fList' = fList \ {r}
    /\ UNCHANGED <<fState, wavesPool, wavesVars, signs>>

\* The row becomes Success; an error of this Save is ignored.
MarkConfirmed(r) ==
    /\ fPc = "mark" /\ First(r)
    /\ SaveStatus(r, Success) \/ UNCHANGED requests
    /\ fPc' = "visit" /\ fList' = fList \ {r}
    /\ UNCHANGED <<fState, wavesPool, wavesVars, signs>>

\* An error of the database, of SignTx or Broadcast, or of WaitTx; or the end
\* of the list.
EndWavesPhase ==
    /\ \/ fPc \in {"list", "state", "wait"}
       \/ fPc = "visit" /\ \A r \in fList : First(r) => fState[r] \notin {None, Success}
    /\ FinalizerReset
    /\ UNCHANGED <<wavesPool, wavesVars, requests, signs>>

FinalizeWaves ==
    \/ ListRequests \/ LoadState \/ EndWavesPhase
    \/ \E r \in WavesRequests :
         \/ MarkFinalized(r) \/ SkipWithoutQuorum(r) \/ SubmitInvoke(r)
         \/ TxConfirmed(r) \/ MarkConfirmed(r)

-----------------------------------------------------------------------------
\* An invocation is mined; one that would fail never is.
MineInvoke(r) ==
    /\ r \in wavesPool /\ WavesChange(r, Success)
    /\ wavesPool' = wavesPool \ {r}

DropInvoke(r) ==
    /\ r \in wavesPool
    /\ wavesPool' = wavesPool \ {r}
    /\ UNCHANGED wavesVars
=============================================================================
