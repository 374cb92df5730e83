----------------------------- MODULE NodeProofs -----------------------------
(***************************************************************************)
(* Proofs of the safety properties of Node.                                *)
(***************************************************************************)
EXTENDS Node, EthCacherProofs, FiniteSetTheorems

\* What WavesProofs shows of WavesMirror, for the Waves rows of this validator.
Seen == INSTANCE WavesProofs WITH
    RequestIds <- WavesRequests, EthRows <- {},
    requests <- [r \in WavesRequests |-> requests[r]],
    rolledBack <- FALSE, torn <- {}

-----------------------------------------------------------------------------
(* The assumptions *)

LEMMA NodeConstants ==
    /\ WavesRequests \subseteq RequestIds /\ EthRequests \subseteq RequestIds
    /\ WavesRequests \cap EthRequests = {}
    /\ WavesStart \in Nat \ {0} /\ MaxWavesHeight \in Nat
    /\ MaxWavesReorg \in Nat /\ MaxWavesReorg < WavesStart
    /\ WavesInterval \in Nat /\ RqTimeout \in Nat
    /\ RowOrder \in Seq(WavesRequests)
    /\ WavesAdmins \subseteq Validators /\ WavesBft \in Nat \ {0}
BY NodeAssumption, CacherAssumption
DEF NodeAssumption, CacherAssumption, Cacher!WavesAssumption, Cacher!WavesCacherAssumption,
    Finalizer!FinalizerAssumption

LEMMA SeenAssumptions ==
    Seen!WavesAssumption /\ Seen!WavesCacherAssumption /\ Seen!RequestsAssumption
BY NodeConstants, RequestsAssumption
DEF RequestsAssumption, Seen!WavesAssumption, Seen!WavesCacherAssumption, Seen!RequestsAssumption

-----------------------------------------------------------------------------
(* WavesRows is what WavesProofs is about *)

LEMMA SeenSteps ==
    /\ WavesRows!Init <=> Seen!Init
    /\ [WavesRows!Next]_(WavesRows!vars) <=> [Seen!Next]_(Seen!vars)
<1>1. WavesRows!Init <=> Seen!Init
  BY DEF WavesRows!Init, WavesRows!WavesInit, WavesRows!RequestsInit, WavesRows!WavesCacherInit,
         WavesRows!NoRow, WavesRows!None, Seen!Init, Seen!WavesInit, Seen!RequestsInit,
         Seen!WavesCacherInit, Seen!NoRow, Seen!None
<1> USE DEF WavesRows!wavesVars, WavesRows!wCacherVars, Seen!wavesVars, Seen!wCacherVars
<1>2. \A r : WavesRows!WavesStatus(r) = Seen!WavesStatus(r)
  BY DEF WavesRows!WavesStatus, WavesRows!Listed, WavesRows!None,
         Seen!WavesStatus, Seen!Listed, Seen!None
<1>3. /\ WavesRows!WavesBlock <=> Seen!WavesBlock
      /\ WavesRows!WavesRollback <=> Seen!WavesRollback
      /\ \A r : WavesRows!WavesCreate(r) <=> Seen!WavesCreate(r)
      /\ \A r, s : WavesRows!WavesChange(r, s) <=> Seen!WavesChange(r, s)
  BY <1>2
  DEF WavesRows!WavesBlock, WavesRows!WavesRollback, WavesRows!WavesCreate, WavesRows!WavesChange,
      WavesRows!Listed, WavesRows!New,
      Seen!WavesBlock, Seen!WavesRollback, Seen!WavesCreate, Seen!WavesChange, Seen!Listed, Seen!New
<1>4. WavesRows!WavesUsers <=> Seen!WavesUsers
  BY <1>3 DEF WavesRows!WavesUsers, WavesRows!Returned, Seen!WavesUsers, Seen!Returned
<1>5. \A e : (WavesRows!SettledAt(e) <=> Seen!SettledAt(e)) /\ (WavesRows!ExpiredAt(e) <=> Seen!ExpiredAt(e))
  BY DEF WavesRows!SettledAt, WavesRows!ExpiredAt, Seen!SettledAt, Seen!ExpiredAt
<1>6. \A r : (WavesRows!Stored(r) <=> Seen!Stored(r)) /\ WavesRows!FindRequest(r) = Seen!FindRequest(r)
  BY DEF WavesRows!Stored, WavesRows!FindRequest, WavesRows!NoRow, WavesRows!None,
         Seen!Stored, Seen!FindRequest, Seen!NoRow, Seen!None
<1>7. \A r, s : WavesRows!SaveStatus(r, s) <=> Seen!SaveStatus(r, s)
  BY DEF WavesRows!SaveStatus, WavesRows!WithStatus, Seen!SaveStatus, Seen!WithStatus
<1>8. /\ WavesRows!AtRequest <=> Seen!AtRequest
      /\ WavesRows!AtCandidate <=> Seen!AtCandidate
      /\ WavesRows!WavesCacherReset <=> Seen!WavesCacherReset
  BY <1>5
  DEF WavesRows!AtRequest, WavesRows!AtCandidate, WavesRows!WavesCacherReset,
      Seen!AtRequest, Seen!AtCandidate, Seen!WavesCacherReset
<1>9. /\ WavesRows!ReadState <=> Seen!ReadState
      /\ WavesRows!ReadHeight <=> Seen!ReadHeight
      /\ WavesRows!BreakAtExpired <=> Seen!BreakAtExpired
      /\ WavesRows!RejectRows <=> Seen!RejectRows
  BY <1>5, <1>6, <1>8
  DEF WavesRows!ReadState, WavesRows!ReadHeight, WavesRows!BreakAtExpired, WavesRows!RejectRows,
      WavesRows!PastWavesTime, WavesRows!WithStatus, WavesRows!Rejected,
      Seen!ReadState, Seen!ReadHeight, Seen!BreakAtExpired, Seen!RejectRows,
      Seen!PastWavesTime, Seen!WithStatus, Seen!Rejected
<1>10. WavesRows!Refresh <=> Seen!Refresh
  <2>1. WavesRows!AtCandidate <=> Seen!AtCandidate
    BY <1>8
  <2>2. WavesRows!FindRequest(wState[wPos].rq) = Seen!FindRequest(wState[wPos].rq)
    BY <1>6
  <2>3. WavesRows!SaveStatus(wState[wPos].rq, wState[wPos].status)
          <=> Seen!SaveStatus(wState[wPos].rq, wState[wPos].status)
    BY DEF WavesRows!SaveStatus, WavesRows!WithStatus, Seen!SaveStatus, Seen!WithStatus
  <2> QED
    BY <2>1, <2>2, <2>3, Zenon DEF WavesRows!Refresh, Seen!Refresh
<1>11. WavesRows!StoreMissing <=> Seen!StoreMissing
  BY <1>6, <1>8, Zenon DEF WavesRows!StoreMissing, Seen!StoreMissing
<1>12. WavesRows!FailWavesPass <=> Seen!FailWavesPass
  BY <1>6, <1>8, Zenon
  DEF WavesRows!FailWavesPass, WavesRows!SaveIsDue, Seen!FailWavesPass, Seen!SaveIsDue
<1>13. WavesRows!HandleWavesState <=> Seen!HandleWavesState
  BY <1>9, <1>10, <1>11, <1>12 DEF WavesRows!HandleWavesState, Seen!HandleWavesState
<1>14. WavesRows!Others <=> Seen!Others
  BY <1>3, <1>4, <1>6, <1>7, <1>8
  DEF WavesRows!Others, WavesRows!MarkWavesSuccess, WavesRows!RestartWavesCacher, WavesRows!Success,
      Seen!Others, Seen!MarkWavesSuccess, Seen!RestartWavesCacher, Seen!Success
<1> QED
  BY <1>1, <1>13, <1>14 DEF WavesRows!Next, Seen!Next, WavesRows!vars, Seen!vars

-----------------------------------------------------------------------------
(* Types *)

USE DEF None, New, Rejected, Success, Returned, Status,
        Cacher!None, Cacher!New, Cacher!Rejected, Cacher!Success, Cacher!Returned, Cacher!Status,
        Finalizer!None, Finalizer!New, Finalizer!Rejected, Finalizer!Success, Finalizer!Returned,
        Finalizer!Status, WavesRows!None, WavesRows!New, WavesRows!Rejected, WavesRows!Success,
        WavesRows!Returned, WavesRows!Status,
        Seen!None, Seen!New, Seen!Rejected, Seen!Success, Seen!Returned, Seen!Status

(***************************************************************************)
(* Of the signatures no more than that they are somebody's.                *)
(***************************************************************************)
SignsOwned == \A s \in signs : s.rq \in RequestIds /\ s.validator \in Validators

\* The signer has in its hands only what the database holds.
ListStored == \A r \in fList : Stored(r)

Types ==
    /\ EthTypeOK /\ RequestsTypeOK /\ CacherTypeOK /\ SignerTypeOK
    /\ Finalizer!FinalizerTypeOK /\ Seen!TypeInv /\ SignsOwned

(***************************************************************************)
(* The lists of the Waves side, entry by entry.                            *)
(***************************************************************************)
LEMMA ListTypes ==
    ASSUME Seen!TypeInv
    PROVE  /\ wavesHeight \in Nat /\ wHeight \in Nat /\ wPos \in 0 .. Len(wState)
           /\ Len(wavesState) \in Nat /\ DOMAIN wavesState = 1 .. Len(wavesState)
           /\ \A i \in DOMAIN wavesState : wavesState[i] \in Seen!WavesEntry
           /\ Len(wState) \in Nat /\ DOMAIN wState = 1 .. Len(wState)
           /\ \A i \in DOMAIN wState : wState[i] \in Seen!Known
           /\ wPos > 0 => wPos \in DOMAIN wState
<1>1. /\ wavesHeight \in Nat /\ wHeight \in Nat /\ wPos \in 0 .. Len(wState)
      /\ wavesState \in Seq(Seen!WavesEntry) /\ wState \in Seq(Seen!Known)
  BY DEF Seen!TypeInv, Seen!TypeOK, Seen!WavesTypeOK, Seen!WavesCacherTypeOK
<1> QED
  BY <1>1

\* The rows of Waves requests, and what one Save does to them.
WavesTable == [r \in WavesRequests |-> requests[r]]

LEMMA RowUpdate ==
    ASSUME RequestsTypeOK, NEW r \in RequestIds, NEW row,
           requests' = [requests EXCEPT ![r] = row]
    PROVE  /\ requests'[r] = row /\ \A q \in RequestIds : q # r => requests'[q] = requests[q]
           /\ r \in WavesRequests => WavesTable' = [WavesTable EXCEPT ![r] = row]
           /\ r \notin WavesRequests => WavesTable' = WavesTable
BY NodeConstants DEF RequestsTypeOK, WavesTable

-----------------------------------------------------------------------------
(* Seen from the Waves cacher *)

LEMMA SeenRow ==
    ASSUME NEW r \in WavesRequests
    PROVE  /\ WavesTable[r] = requests[r]
           /\ WavesRows!Stored(r) <=> Stored(r)
           /\ WavesRows!FindRequest(r) = Cacher!FindRequest(r)
<1>1. WavesTable[r] = requests[r]
  BY DEF WavesTable
<1>2. (WavesRows!Stored(r) <=> Stored(r)) /\ (Cacher!Stored(r) <=> Stored(r))
  BY DEF WavesRows!Stored, WavesRows!NoRow, Stored, NoRow, Cacher!Stored, Cacher!NoRow
<1>3. WavesRows!FindRequest(r) = Cacher!FindRequest(r)
  <2>1. WavesRows!Stored(r) = Cacher!Stored(r)
    BY <1>2 DEF WavesRows!Stored, Cacher!Stored
  <2> QED
    BY <2>1, Zenon DEF WavesRows!FindRequest, Cacher!FindRequest
<1> QED
  BY <1>1, <1>2, <1>3

LEMMA WavesPassIsMirrored ==
    ASSUME Types, Cacher!HandleWavesState
    PROVE  WavesRows!HandleWavesState
<1> USE DEF Cacher!wavesVars, Cacher!wCacherVars, WavesRows!wavesVars, WavesRows!wCacherVars
<1> USE NodeConstants DEF Types
<1>1. ASSUME Cacher!ReadState PROVE WavesRows!ReadState
  BY <1>1 DEF Cacher!ReadState, WavesRows!ReadState
<1>2. ASSUME Cacher!ReadHeight PROVE WavesRows!ReadHeight
  BY <1>2 DEF Cacher!ReadHeight, WavesRows!ReadHeight
<1>3. \A e : /\ Cacher!SettledAt(e) <=> WavesRows!SettledAt(e)
             /\ Cacher!ExpiredAt(e) <=> WavesRows!ExpiredAt(e)
  BY DEF Cacher!SettledAt, WavesRows!SettledAt, Cacher!ExpiredAt, WavesRows!ExpiredAt
<1>4. /\ Cacher!AtRequest <=> WavesRows!AtRequest
      /\ Cacher!AtCandidate <=> WavesRows!AtCandidate
      /\ Cacher!WavesCacherReset <=> WavesRows!WavesCacherReset
  BY <1>3 DEF Cacher!AtRequest, WavesRows!AtRequest, Cacher!AtCandidate, WavesRows!AtCandidate,
              Cacher!WavesCacherReset, WavesRows!WavesCacherReset
<1>5. ASSUME Cacher!BreakAtExpired PROVE WavesRows!BreakAtExpired
  BY <1>3, <1>4, <1>5 DEF Cacher!BreakAtExpired, WavesRows!BreakAtExpired
<1>c. ASSUME Cacher!AtCandidate
      PROVE  /\ wState[wPos].rq \in WavesRequests
             /\ WavesTable[wState[wPos].rq] = requests[wState[wPos].rq]
             /\ WavesRows!FindRequest(wState[wPos].rq) = Cacher!FindRequest(wState[wPos].rq)
  <2>1. wState[wPos] \in Seen!Known
    BY <1>c, ListTypes DEF Cacher!AtCandidate, Cacher!AtRequest
  <2> QED
    BY <2>1, SeenRow DEF Seen!Known
<1>6. ASSUME Cacher!Refresh PROVE WavesRows!Refresh
  <2> DEFINE e == wState[wPos]
             row == [createdAt |-> requests[e.rq].createdAt, status |-> e.status]
  <2>1. Cacher!AtCandidate /\ e.rq \in WavesRequests /\ e.rq \in RequestIds
    BY <1>6, <1>c DEF Cacher!Refresh
  <2>2. requests' = [requests EXCEPT ![e.rq] = row] /\ UNCHANGED <<wCacherVars, wavesVars>>
    BY <1>6 DEF Cacher!Refresh, Cacher!SaveStatus, Cacher!WithStatus, wCacherVars, wavesVars
  <2>3. WavesTable' = [WavesTable EXCEPT ![e.rq] = row]
    <3> HIDE DEF e, row
    <3> QED
      BY <2>1, <2>2, RowUpdate
  <2>4. WavesRows!SaveStatus(e.rq, e.status)
    BY <2>1, <2>3, <1>c DEF WavesRows!SaveStatus, WavesRows!WithStatus, WavesTable
  <2>5. WavesRows!AtCandidate /\ TRUE \in WavesRows!FindRequest(e.rq) /\ WavesTable[e.rq].status # e.status
    BY <1>4, <1>6, <1>c, <2>1 DEF Cacher!Refresh
  <2> QED
    BY <2>2, <2>4, <2>5 DEF WavesRows!Refresh, WavesTable, wCacherVars, wavesVars
<1>7. ASSUME Cacher!StoreMissing PROVE WavesRows!StoreMissing
  <2> DEFINE e == wState[wPos]
             row == [createdAt |-> e.height, status |-> e.status]
  <2>1. Cacher!AtCandidate /\ e.rq \in WavesRequests /\ e.rq \in RequestIds
    BY <1>7, <1>c DEF Cacher!StoreMissing
  <2>2. requests' = [requests EXCEPT ![e.rq] = row]
    BY <1>7 DEF Cacher!StoreMissing
  <2>3. WavesTable' = [WavesTable EXCEPT ![e.rq] = row]
    <3> HIDE DEF e, row
    <3> QED
      BY <2>1, <2>2, RowUpdate
  <2>4. WavesRows!AtCandidate /\ FALSE \in WavesRows!FindRequest(e.rq)
    BY <1>4, <1>7, <1>c, <2>1 DEF Cacher!StoreMissing
  <2> QED
    BY <1>7, <2>3, <2>4 DEF Cacher!StoreMissing, WavesRows!StoreMissing, WavesTable
<1>8. ASSUME Cacher!RejectRows PROVE WavesRows!RejectRows
  <2>1. WavesTable' = WavesTable
    BY <1>8 DEF Cacher!RejectRows, WavesTable
  <2> QED
    BY <1>4, <1>8, <2>1 DEF Cacher!RejectRows, WavesRows!RejectRows, WavesTable
<1>9. ASSUME Cacher!FailWavesPass PROVE WavesRows!FailWavesPass
  <2>1. Cacher!SaveIsDue => WavesRows!SaveIsDue
    BY <1>4, <1>c DEF Cacher!SaveIsDue, WavesRows!SaveIsDue, WavesTable
  <2> QED
    BY <1>4, <1>9, <2>1 DEF Cacher!FailWavesPass, WavesRows!FailWavesPass
<1> QED
  BY <1>1, <1>2, <1>5, <1>6, <1>7, <1>8, <1>9 DEF Cacher!HandleWavesState, WavesRows!HandleWavesState

\* The Waves chain is the same for its cacher, for the finalizer, and in WavesRows.
LEMMA SameWavesChain ==
    /\ Cacher!WavesUsers <=> WavesRows!WavesUsers
    /\ \A r, s : /\ Cacher!WavesChange(r, s) <=> WavesRows!WavesChange(r, s)
                 /\ Finalizer!WavesChange(r, s) <=> WavesRows!WavesChange(r, s)
    /\ \A r : Finalizer!WavesStatus(r) = Cacher!WavesStatus(r)
<1>1. \A r : /\ Cacher!WavesStatus(r) = WavesRows!WavesStatus(r)
             /\ Finalizer!WavesStatus(r) = WavesRows!WavesStatus(r)
             /\ Cacher!Listed(r) <=> WavesRows!Listed(r)
  BY DEF Cacher!WavesStatus, Cacher!Listed, Finalizer!WavesStatus, Finalizer!Listed,
         WavesRows!WavesStatus, WavesRows!Listed
<1>2. /\ Cacher!WavesBlock <=> WavesRows!WavesBlock
      /\ Cacher!WavesRollback <=> WavesRows!WavesRollback
      /\ \A r : Cacher!WavesCreate(r) <=> WavesRows!WavesCreate(r)
      /\ \A r, s : Cacher!WavesChange(r, s) <=> WavesRows!WavesChange(r, s)
      /\ \A r, s : Finalizer!WavesChange(r, s) <=> WavesRows!WavesChange(r, s)
  BY <1>1
  DEF Cacher!WavesBlock, Cacher!WavesRollback, Cacher!WavesCreate, Cacher!WavesChange,
      Finalizer!WavesChange, WavesRows!WavesBlock, WavesRows!WavesRollback,
      WavesRows!WavesCreate, WavesRows!WavesChange
<1>3. Cacher!WavesUsers <=> WavesRows!WavesUsers
  BY <1>2 DEF Cacher!WavesUsers, WavesRows!WavesUsers
<1> QED
  BY <1>1, <1>2, <1>3

LEMMA QuietIsMirrored ==
    ASSUME UNCHANGED wavesVars, UNCHANGED wCacherVars,
           \A r \in WavesRequests : requests'[r] = requests[r]
    PROVE  UNCHANGED WavesRows!vars
BY DEF wavesVars, wCacherVars, WavesRows!vars, WavesRows!wavesVars, WavesRows!wCacherVars

(***************************************************************************)
(* Marking a Waves request: what finalizeWavesRequest does to a row.       *)
(***************************************************************************)
LEMMA MarkIsMirrored ==
    ASSUME Types, NEW r \in WavesRequests, Stored(r), Finalizer!SaveStatus(r, Success),
           UNCHANGED wavesVars, UNCHANGED wCacherVars
    PROVE  WavesRows!MarkWavesSuccess(r)
<1> DEFINE row == [createdAt |-> requests[r].createdAt, status |-> Success]
<1>1. requests' = [requests EXCEPT ![r] = row]
  BY DEF Finalizer!SaveStatus, Finalizer!WithStatus
<1>2. WavesTable' = [WavesTable EXCEPT ![r] = row]
  <2> HIDE DEF row
  <2> QED
    BY <1>1, RowUpdate, NodeConstants DEF Types
<1>3. WavesRows!SaveStatus(r, Success)
  BY <1>2 DEF WavesRows!SaveStatus, WavesRows!WithStatus, WavesTable
<1> QED
  BY <1>3, SeenRow
  DEF WavesRows!MarkWavesSuccess, wavesVars, wCacherVars, WavesRows!wavesVars, WavesRows!wCacherVars

\* handleEthLogs leaves the rows of Waves requests alone.
LEMMA EthPassKeepsWavesRows ==
    ASSUME Types, HandleEthLogs
    PROVE  \A r \in WavesRequests : requests'[r] = requests[r]
<1> USE NodeConstants DEF Types, RequestsTypeOK, CacherTypeOK
<1>1. CASE StoreRequest
  <2>1. cRead.rq \in EthRequests
    BY <1>1 DEF StoreRequest, Read
  <2> QED
    BY <1>1, <2>1 DEF StoreRequest
<1>2. CASE ExpireRequests
  BY <1>2 DEF ExpireRequests, Expired
<1>3. CASE ~StoreRequest /\ ~ExpireRequests
  BY <1>3
  DEF HandleEthLogs, ReadHead, FilterLogs, SkipRecent, StopAtExpired, ReadRequest, EndOfLogs, FailPass
<1> QED
  BY <1>1, <1>2, <1>3

\* Of the signer's earlier phases only markRow writes rows: of Ethereum requests.
LEMMA SignerWrites ==
    ASSUME Types, SignerStep
    PROVE  \/ UNCHANGED requests
           \/ sPc = "mark" /\ sCur \in EthRequests /\ SaveStatus(sCur, Success) /\ UNCHANGED ethVars
BY DEF SignerStep, BeginSign, BeginGather, BeginFinalize, BeginPhase, AbandonPhase, SignRequest,
       SkipSign, GatherSigns, GatherFrom, CheckRequest, SendChangeStatus, SendFails, MarkRow,
       Types, SignerTypeOK

\* Of its last phase, those of Waves requests that are in the database.
LEMMA FinalizerWrites ==
    ASSUME Types, ListStored, Finalizer!FinalizeWaves
    PROVE  /\ UNCHANGED wavesVars
           /\ \/ UNCHANGED requests
              \/ \E r \in WavesRequests :
                   /\ Stored(r) /\ Finalizer!SaveStatus(r, Success)
                   /\ fState[r] = Success \/ (fPc = "mark" /\ Finalizer!First(r))
<1> USE DEF Finalizer!wavesVars, wavesVars
<1>1. ASSUME NEW r \in WavesRequests, Finalizer!MarkFinalized(r)
      PROVE  /\ UNCHANGED wavesVars
             /\ UNCHANGED requests \/ (Finalizer!SaveStatus(r, Success) /\ Stored(r) /\ fState[r] = Success)
  BY <1>1 DEF Finalizer!MarkFinalized, Finalizer!Turn, Finalizer!First, ListStored
<1>2. ASSUME NEW r \in WavesRequests, Finalizer!MarkConfirmed(r)
      PROVE  /\ UNCHANGED wavesVars
             /\ \/ UNCHANGED requests
                \/ Finalizer!SaveStatus(r, Success) /\ Stored(r) /\ fPc = "mark" /\ Finalizer!First(r)
  BY <1>2 DEF Finalizer!MarkConfirmed, Finalizer!First, ListStored
<1>3. \/ UNCHANGED <<wavesVars, requests>>
      \/ \E r \in WavesRequests : Finalizer!MarkFinalized(r) \/ Finalizer!MarkConfirmed(r)
  BY DEF Finalizer!FinalizeWaves, Finalizer!ListRequests, Finalizer!LoadState,
         Finalizer!SkipWithoutQuorum, Finalizer!SubmitInvoke, Finalizer!TxConfirmed,
         Finalizer!EndWavesPhase
<1> QED
  BY <1>1, <1>2, <1>3

LEMMA WavesSideIsMirrored ==
    ASSUME WavesSide
    PROVE  [WavesRows!Next]_(WavesRows!vars)
<1> USE DEF wCacherVars, WavesRows!wCacherVars
<1>q. UNCHANGED <<requests, wCacherVars>>
  BY DEF WavesSide
<1>1. ASSUME Cacher!WavesUsers PROVE WavesRows!Next
  BY <1>q, <1>1, SameWavesChain DEF WavesRows!Next, WavesRows!Others
<1>2. ASSUME NEW r \in WavesRequests, Cacher!WavesChange(r, Success) PROVE WavesRows!Next
  BY <1>q, <1>2, SameWavesChain DEF WavesRows!Next, WavesRows!Others
<1>3. ASSUME NEW r \in WavesRequests, Finalizer!MineInvoke(r) PROVE WavesRows!Next
  BY <1>q, <1>3, SameWavesChain DEF Finalizer!MineInvoke, WavesRows!Next, WavesRows!Others
<1>4. ASSUME NEW r \in WavesRequests, Finalizer!DropInvoke(r) PROVE UNCHANGED WavesRows!vars
  BY <1>q, <1>4, QuietIsMirrored DEF Finalizer!DropInvoke, Finalizer!wavesVars, wavesVars
<1> QED
  BY <1>1, <1>2, <1>3, <1>4 DEF WavesSide

(***************************************************************************)
(* Every step of the validator is one WavesMirror allows, or changes       *)
(* nothing WavesMirror speaks of.                                          *)
(***************************************************************************)
LEMMA StepIsMirrored ==
    ASSUME Types, ListStored, [Next]_vars
    PROVE  [WavesRows!Next]_(WavesRows!vars)
<1>1. CASE EthPass
  BY <1>1, EthPassKeepsWavesRows, QuietIsMirrored DEF EthPass, wavesPart
<1>2. CASE WavesPass
  BY <1>2, WavesPassIsMirrored DEF WavesPass, WavesRows!Next
<1>3. CASE SignerRound
  <2>1. UNCHANGED wavesVars /\ UNCHANGED wCacherVars
    BY <1>3 DEF SignerRound, InRound, wavesPart
  <2>2. \A r \in WavesRequests : requests'[r] = requests[r]
    BY <1>3, SignerWrites, NodeConstants DEF SignerRound, SaveStatus, Types, RequestsTypeOK
  <2> QED
    BY <2>1, <2>2, QuietIsMirrored
<1>4. CASE WavesPhase
  <2>1. UNCHANGED wCacherVars /\ Finalizer!FinalizeWaves
    BY <1>4 DEF WavesPhase, InWavesPhase
  <2>2. CASE UNCHANGED requests
    BY <2>1, <2>2, FinalizerWrites, QuietIsMirrored
  <2>3. ASSUME NEW r \in WavesRequests, Stored(r), Finalizer!SaveStatus(r, Success)
        PROVE  WavesRows!Next
    BY <2>1, <2>3, FinalizerWrites, MarkIsMirrored DEF WavesRows!Next, WavesRows!Others
  <2> QED
    BY <2>1, <2>2, <2>3, FinalizerWrites
<1>5. CASE EthSide
  BY <1>5, QuietIsMirrored DEF EthSide, wavesPart
<1>6. CASE WavesSide
  BY <1>6, WavesSideIsMirrored
<1>7. ASSUME NEW r \in RequestIds, NEW v \in Validators, PeerSigns(r, v)
      PROVE  UNCHANGED WavesRows!vars
  BY <1>7, QuietIsMirrored DEF PeerSigns, wavesPart
<1>8. CASE Restart
  <2>1. WavesRows!RestartWavesCacher
    BY <1>8 DEF Restart, Cacher!WavesCacherReset, WavesRows!RestartWavesCacher,
                WavesRows!WavesCacherReset, wavesVars, WavesRows!wavesVars
  <2> QED
    BY <2>1 DEF WavesRows!Next, WavesRows!Others
<1>9. CASE UNCHANGED vars
  BY <1>9, QuietIsMirrored DEF vars, wavesPart
<1> QED
  BY <1>1, <1>2, <1>3, <1>4, <1>5, <1>6, <1>7, <1>8, <1>9 DEF Next, Step, Environment, Panic

LEMMA SeenTypeStep ==
    ASSUME Types, ListStored, [Next]_vars
    PROVE  Seen!TypeInv'
<1>1. [Seen!Next]_(Seen!vars)
  BY StepIsMirrored, SeenSteps
<1>2. Seen!TypeInv
  BY DEF Types
<1> QED
  BY <1>1, <1>2, SeenAssumptions, Seen!WavesTypeStep

-----------------------------------------------------------------------------
(* Signatures and quorums *)

(***************************************************************************)
(* The only inserts: for one request, signatures of this validator and of  *)
(* peers that serve theirs; when no lookup fails, of such as have none.    *)
(***************************************************************************)
LEMMA SignsStep ==
    ASSUME [Next]_vars
    PROVE  \/ UNCHANGED signs
           \/ \E r \in sTodo, S \in SUBSET Validators :
                /\ \A v \in S : v = Self \/ Serves(r, v)
                /\ StoreReadsFail = FALSE => \A v \in S : SignsOf(r, v) = {}
                /\ signs' = signs \cup {NewSign(r, v) : v \in S}
<1> USE SignerAssumption
<1>1. ASSUME NEW r \in sTodo, SignRequest(r)
      PROVE  \E S \in SUBSET Validators :
                /\ \A v \in S : v = Self
                /\ StoreReadsFail = FALSE => \A v \in S : SignsOf(r, v) = {}
                /\ signs' = signs \cup {NewSign(r, v) : v \in S}
  <2> DEFINE S == {Self}
  <2>1. signs' = signs \cup {NewSign(r, v) : v \in S}
    BY <1>1 DEF SignRequest
  <2>2. StoreReadsFail = FALSE => \A v \in S : SignsOf(r, v) = {}
    BY <1>1 DEF SignRequest, FindSign, Signers
  <2> QED
    BY <2>1, <2>2
<1>2. ASSUME NEW r \in sTodo, NEW answered \in SUBSET Peers, GatherFrom(r, answered)
      PROVE  \E S \in SUBSET Validators :
                /\ \A v \in S : Serves(r, v)
                /\ StoreReadsFail = FALSE => \A v \in S : SignsOf(r, v) = {}
                /\ signs' = signs \cup {NewSign(r, v) : v \in S}
  <2>1. PICK repeated \in SUBSET {v \in answered \cap Signers(r) : FALSE \in FindSign(r, v)} :
          signs' = signs \cup {NewSign(r, v) : v \in (answered \ Signers(r)) \cup repeated}
    BY <1>2 DEF GatherFrom
  <2> DEFINE S == (answered \ Signers(r)) \cup repeated
  <2>2. StoreReadsFail = FALSE => repeated = {}
    BY DEF FindSign
  <2>3. StoreReadsFail = FALSE => \A v \in S : SignsOf(r, v) = {}
    BY <2>2 DEF Signers
  <2>4. S \in SUBSET Validators /\ \A v \in S : Serves(r, v)
    BY <1>2 DEF GatherFrom
  <2>5. signs' = signs \cup {NewSign(r, v) : v \in S}
    BY <2>1
  <2> HIDE DEF S
  <2> QED
    BY <2>3, <2>4, <2>5
<1>3. (\E r \in sTodo : SignRequest(r) \/ GatherSigns(r)) \/ UNCHANGED signs
  BY DEF Next, Step, EthPass, WavesPass, SignerRound, WavesPhase, InWavesPhase, Environment,
         EthSide, WavesSide, PeerSigns, Panic, Restart, vars, signPart,
         SignerStep, BeginSign, BeginGather, BeginFinalize, BeginPhase, AbandonPhase,
         SkipSign, CheckRequest, SendChangeStatus, SendFails, MarkRow,
         Finalizer!FinalizeWaves, Finalizer!ListRequests, Finalizer!LoadState,
         Finalizer!MarkFinalized, Finalizer!SkipWithoutQuorum, Finalizer!SubmitInvoke,
         Finalizer!TxConfirmed, Finalizer!MarkConfirmed, Finalizer!EndWavesPhase
<1> QED
  BY <1>1, <1>2, <1>3 DEF GatherSigns

\* Nothing is ever taken out of the table of signatures, nor unsigned.
LEMMA SignsGrow ==
    ASSUME [Next]_vars
    PROVE  signs \subseteq signs' /\ peerSigned \subseteq peerSigned'
<1>1. peerSigned \subseteq peerSigned'
  BY DEF Next, Step, EthPass, WavesPass, SignerRound, WavesPhase, InWavesPhase, Environment,
         EthSide, WavesSide, PeerSigns, Panic, Restart, vars, signPart,
         SignerStep, BeginSign, BeginGather, BeginFinalize, BeginPhase, AbandonPhase, SignRequest,
         SkipSign, GatherSigns, GatherFrom, CheckRequest, SendChangeStatus, SendFails, MarkRow
<1> QED
  BY <1>1, SignsStep

(***************************************************************************)
(* Behind every row there is a validator that has signed.                  *)
(***************************************************************************)
RowsAreSigned == \A s \in signs : Serves(s.rq, s.validator)

LEMMA RowsAreSignedStep ==
    ASSUME Types, RowsAreSigned, [Next]_vars
    PROVE  SignsOwned' /\ RowsAreSigned'
<1>0. ASSUME NEW s \in signs'
      PROVE  s \in signs \/ \E r \in sTodo, v \in Validators :
                              s = NewSign(r, v) /\ (v = Self \/ Serves(r, v))
  BY SignsStep
<1>1. ASSUME NEW s \in signs' PROVE s.rq \in RequestIds /\ s.validator \in Validators
  BY <1>0 DEF Types, SignsOwned, SignerTypeOK, NewSign
<1>2. ASSUME NEW s \in signs' PROVE Serves(s.rq, s.validator)'
  <2>1. s \in signs => Serves(s.rq, s.validator)
    BY DEF RowsAreSigned
  <2>2. s \in signs \/ s.validator = Self \/ Serves(s.rq, s.validator)
    BY <1>0 DEF NewSign
  <2>3. CASE s.validator = Self
    BY <1>1, <2>3 DEF Serves, Signers, SignsOf
  <2>4. CASE s.validator # Self
    BY <2>1, <2>2, <2>4, SignsGrow DEF Serves
  <2> QED
    BY <2>3, <2>4
<1> QED
  BY <1>1, <1>2 DEF SignsOwned, RowsAreSigned

\* More signatures leave a count of validators at least what it was.
LEMMA CountGrows ==
    ASSUME signs \subseteq signs', peerSigned \subseteq peerSigned',
           NEW A \in SUBSET Validators, NEW r, NEW n \in Nat,
           Cardinality({v \in A : Serves(r, v)}) >= n
    PROVE  Cardinality({v \in A : Serves(r, v)'}) >= n
<1> DEFINE S == {v \in A : Serves(r, v)}
           T == {v \in A : Serves(r, v)'}
<1>1. IsFiniteSet(T)
  <2>1. T \in SUBSET Validators
    OBVIOUS
  <2> QED
    BY <2>1, FS_Subset, SignerAssumption
<1>2. S \in SUBSET T
  BY DEF Serves, Signers, SignsOf
<1>3. IsFiniteSet(S) /\ Cardinality(S) <= Cardinality(T)
  BY <1>1, <1>2, FS_Subset
<1>4. Cardinality(S) \in Nat /\ Cardinality(T) \in Nat
  BY <1>1, <1>3, FS_CardinalityType
<1>5. Cardinality(S) >= n
  OBVIOUS
<1> HIDE DEF S, T
<1>6. Cardinality(T) >= n
  BY <1>3, <1>4, <1>5
<1> QED
  BY <1>6 DEF T

LEMMA QuorumsGrow ==
    ASSUME [Next]_vars
    PROVE  /\ \A r : EthQuorum(r) => EthQuorum(r)'
           /\ \A r : WavesQuorum(r) => WavesQuorum(r)'
BY SignsGrow, CountGrows, SignerAssumption, NodeConstants DEF EthQuorum, WavesQuorum

\* A quorum of rows is a quorum of validators that have signed.
LEMMA RowsAreVotes ==
    ASSUME RowsAreSigned, NEW A \in SUBSET Validators, NEW r, NEW n \in Nat,
           Cardinality(Signers(r) \cap A) >= n
    PROVE  Cardinality({v \in A : Serves(r, v)}) >= n
<1> DEFINE S == Signers(r) \cap A
           T == {v \in A : Serves(r, v)}
<1>1. IsFiniteSet(T)
  <2>1. T \in SUBSET Validators
    OBVIOUS
  <2> QED
    BY <2>1, FS_Subset, SignerAssumption
<1>2. S \in SUBSET T
  <2>1. ASSUME NEW v \in S PROVE Serves(r, v)
    <3>1. PICK s \in signs : s.rq = r /\ s.validator = v
      BY DEF Signers, SignsOf
    <3> QED
      BY <3>1 DEF RowsAreSigned
  <2> QED
    BY <2>1
<1>3. IsFiniteSet(S) /\ Cardinality(S) <= Cardinality(T)
  BY <1>1, <1>2, FS_Subset
<1>4. Cardinality(S) \in Nat /\ Cardinality(T) \in Nat
  BY <1>1, <1>3, FS_CardinalityType
<1>5. Cardinality(S) >= n
  OBVIOUS
<1> HIDE DEF S, T
<1>6. Cardinality(T) >= n
  BY <1>3, <1>4, <1>5
<1> QED
  BY <1>6 DEF T

-----------------------------------------------------------------------------
(* Types are kept *)

\* What the contract's list says of a request is what its entry says.
LEMMA WavesStatusEntry ==
    ASSUME Seen!TypeInv, NEW r
    PROVE  \/ Cacher!WavesStatus(r) = None
           \/ \E i \in DOMAIN wavesState :
                wavesState[i].rq = r /\ wavesState[i].status = Cacher!WavesStatus(r)
<1> DEFINE P(i) == wavesState[i].rq = r
<1>1. CASE Cacher!Listed(r)
  <2>1. \E i \in DOMAIN wavesState : P(i)
    BY <1>1 DEF Cacher!Listed
  <2> DEFINE c == CHOOSE i \in DOMAIN wavesState : P(i)
  <2>2. c \in DOMAIN wavesState /\ P(c)
    BY <2>1
  <2>3. Cacher!WavesStatus(r) = wavesState[c].status
    BY <1>1 DEF Cacher!WavesStatus
  <2> QED
    BY <2>2, <2>3
<1>2. CASE ~Cacher!Listed(r)
  BY <1>2 DEF Cacher!WavesStatus
<1> QED
  BY <1>1, <1>2

LEMMA WavesStatusType ==
    ASSUME Seen!TypeInv, NEW r
    PROVE  Finalizer!WavesStatus(r) \in Status /\ Finalizer!WavesStatus(r) = Cacher!WavesStatus(r)
BY WavesStatusEntry, SameWavesChain, ListTypes DEF Seen!WavesEntry

\* The types of the parts, but for the Waves side and the signatures.
PartTypes ==
    /\ EthTypeOK /\ RequestsTypeOK /\ CacherTypeOK /\ SignerTypeOK /\ Finalizer!FinalizerTypeOK

\* A Save of a status leaves the table a table.
LEMMA SaveType ==
    ASSUME RequestsTypeOK, NEW r, NEW s \in Status,
           SaveStatus(r, s) \/ Finalizer!SaveStatus(r, s)
    PROVE  RequestsTypeOK'
<1> DEFINE row == [createdAt |-> requests[r].createdAt, status |-> s]
<1>1. requests' = [requests EXCEPT ![r] = row]
  BY DEF SaveStatus, WithStatus, Finalizer!SaveStatus, Finalizer!WithStatus
<1>2. r \in RequestIds => row \in Row
  BY DEF RequestsTypeOK, Row
<1> HIDE DEF row
<1> QED
  BY <1>1, <1>2 DEF RequestsTypeOK

LEMMA SignerPartTypes ==
    ASSUME Types, SignerStep, UNCHANGED cacherVars
    PROVE  EthTypeOK' /\ RequestsTypeOK' /\ CacherTypeOK' /\ SignerTypeOK'
<1> USE CacherAssumption, SignerAssumption
<1> USE DEF Types, SignerTypeOK
<1>c. CacherTypeOK'
  BY DEF CacherTypeOK, cacherVars
<1>r. RequestsTypeOK'
  <2>1. CASE UNCHANGED requests
    BY <2>1 DEF RequestsTypeOK
  <2>2. CASE SaveStatus(sCur, Success)
    BY <2>2, SaveType
  <2> QED
    BY <2>1, <2>2, SignerWrites
<1>e. EthTypeOK'
  <2>1. UNCHANGED ethVars \/ \E r \in EthRequests : Submit(r)
    BY DEF SignerStep, BeginSign, BeginGather, BeginFinalize, BeginPhase, AbandonPhase, SignRequest,
           SkipSign, GatherSigns, GatherFrom, CheckRequest, SendChangeStatus, SendFails, MarkRow
  <2>2. CASE UNCHANGED ethVars
    BY <2>2 DEF ethVars, EthTypeOK
  <2> QED
    BY <2>1, <2>2, ChainType
<1>s. SignerTypeOK'
  <2>1. ASSUME BeginSign \/ BeginGather \/ BeginFinalize PROVE SignerTypeOK'
    BY <2>1 DEF BeginSign, BeginGather, BeginFinalize, BeginPhase, NewRows
  <2>2. CASE AbandonPhase
    BY <2>2 DEF AbandonPhase
  <2>3. ASSUME NEW r \in sTodo, SignRequest(r) \/ SkipSign(r) \/ GatherSigns(r)
        PROVE  SignerTypeOK'
    BY <2>3 DEF SignRequest, SkipSign, GatherSigns, GatherFrom, Visited
  <2>4. ASSUME NEW r \in sTodo \cap EthRequests, CheckRequest(r) PROVE SignerTypeOK'
    BY <2>4 DEF CheckRequest, Visited
  <2>5. ASSUME SendChangeStatus \/ SendFails \/ MarkRow PROVE SignerTypeOK'
    BY <2>5 DEF SendChangeStatus, SendFails, MarkRow
  <2> QED
    BY <2>1, <2>2, <2>3, <2>4, <2>5 DEF SignerStep
<1> QED
  BY <1>c, <1>r, <1>e, <1>s

LEMMA FinalizerPartTypes ==
    ASSUME Types, ListStored, Finalizer!FinalizeWaves
    PROVE  RequestsTypeOK' /\ Finalizer!FinalizerTypeOK'
<1> USE DEF Types
<1>r. RequestsTypeOK'
  <2>1. CASE UNCHANGED requests
    BY <2>1 DEF RequestsTypeOK
  <2>2. ASSUME NEW r \in WavesRequests, Finalizer!SaveStatus(r, Success) PROVE RequestsTypeOK'
    BY <2>2, SaveType
  <2> QED
    BY <2>1, <2>2, FinalizerWrites
<1>1. ASSUME Finalizer!ListRequests PROVE Finalizer!FinalizerTypeOK'
  BY <1>1 DEF Finalizer!FinalizerTypeOK, Finalizer!ListRequests
<1>2. ASSUME Finalizer!LoadState PROVE Finalizer!FinalizerTypeOK'
  <2>1. \A r \in WavesRequests : Finalizer!WavesStatus(r) \in Status
    BY WavesStatusType
  <2> QED
    BY <1>2, <2>1 DEF Finalizer!FinalizerTypeOK, Finalizer!LoadState
<1>3. ASSUME NEW r \in WavesRequests,
             \/ Finalizer!MarkFinalized(r) \/ Finalizer!SkipWithoutQuorum(r)
             \/ Finalizer!TxConfirmed(r) \/ Finalizer!MarkConfirmed(r)
      PROVE  Finalizer!FinalizerTypeOK'
  BY <1>3
  DEF Finalizer!FinalizerTypeOK, Finalizer!MarkFinalized, Finalizer!SkipWithoutQuorum,
      Finalizer!TxConfirmed, Finalizer!MarkConfirmed, Finalizer!Turn
<1>4. ASSUME NEW r \in WavesRequests, Finalizer!SubmitInvoke(r)
      PROVE  Finalizer!FinalizerTypeOK'
  BY <1>4
  DEF Finalizer!FinalizerTypeOK, Finalizer!SubmitInvoke, Finalizer!Turn, Finalizer!First,
      Finalizer!FinalizerReset, Finalizer!NoState
<1>5. ASSUME Finalizer!EndWavesPhase PROVE Finalizer!FinalizerTypeOK'
  BY <1>5
  DEF Finalizer!FinalizerTypeOK, Finalizer!EndWavesPhase, Finalizer!FinalizerReset, Finalizer!NoState
<1> QED
  BY <1>r, <1>1, <1>2, <1>3, <1>4, <1>5 DEF Finalizer!FinalizeWaves

\* One step of the Waves cacher leaves the table a table.
LEMMA WavesPassType ==
    ASSUME Types, Cacher!HandleWavesState
    PROVE  RequestsTypeOK'
<1> USE DEF Types, RequestsTypeOK
<1>c. ASSUME Cacher!AtCandidate PROVE wState[wPos] \in Seen!Known
  BY <1>c, ListTypes DEF Cacher!AtCandidate, Cacher!AtRequest
<1>1. CASE Cacher!Refresh
  <2> DEFINE e == wState[wPos]
             row == [createdAt |-> requests[e.rq].createdAt, status |-> e.status]
  <2>1. e \in Seen!Known
    BY <1>1, <1>c DEF Cacher!Refresh
  <2>2. requests' = [requests EXCEPT ![e.rq] = row]
    BY <1>1 DEF Cacher!Refresh, Cacher!SaveStatus, Cacher!WithStatus
  <2>3. e.rq \in RequestIds => row \in Row
    BY <2>1 DEF Seen!Known, Row
  <2> HIDE DEF e, row
  <2> QED
    BY <2>2, <2>3
<1>2. CASE Cacher!StoreMissing
  <2> DEFINE e == wState[wPos]
             row == [createdAt |-> e.height, status |-> e.status]
  <2>1. e \in Seen!Known
    BY <1>2, <1>c DEF Cacher!StoreMissing
  <2>2. requests' = [requests EXCEPT ![e.rq] = row]
    BY <1>2 DEF Cacher!StoreMissing
  <2>3. row \in Row
    BY <2>1 DEF Seen!Known, Row
  <2> HIDE DEF e, row
  <2> QED
    BY <2>2, <2>3
<1>3. CASE Cacher!RejectRows
  BY <1>3 DEF Cacher!RejectRows, Cacher!WithStatus, Row
<1>4. CASE ~Cacher!Refresh /\ ~Cacher!StoreMissing /\ ~Cacher!RejectRows
  BY <1>4 DEF Cacher!HandleWavesState, Cacher!ReadState, Cacher!ReadHeight,
              Cacher!BreakAtExpired, Cacher!FailWavesPass
<1> QED
  BY <1>1, <1>2, <1>3, <1>4

LEMMA PartTypesStep ==
    ASSUME Types, ListStored, [Next]_vars
    PROVE  PartTypes'
<1> USE CacherAssumption, SignerAssumption
<1> USE DEF Types, PartTypes
<1>q. /\ UNCHANGED ethVars => EthTypeOK'
      /\ UNCHANGED requests => RequestsTypeOK'
      /\ UNCHANGED cacherVars => CacherTypeOK'
      /\ UNCHANGED <<signerVars, peerSigned>> => SignerTypeOK'
      /\ UNCHANGED <<finalizerVars, wavesPool>> => Finalizer!FinalizerTypeOK'
  BY DEF EthTypeOK, ethVars, RequestsTypeOK, CacherTypeOK, cacherVars, SignerTypeOK, signerVars,
         Finalizer!FinalizerTypeOK, finalizerVars
<1>1. CASE EthPass
  <2>1. UNCHANGED <<signerVars, peerSigned, finalizerVars, wavesPool>>
    BY <1>1 DEF EthPass, signPart
  <2>2. RequestsTypeOK' /\ CacherTypeOK' /\ UNCHANGED ethVars
    BY <1>1, CacherType DEF EthPass
  <2> QED
    BY <2>1, <2>2, <1>q
<1>2. CASE WavesPass
  BY <1>2, <1>q, WavesPassType DEF WavesPass, ethPart, signPart
<1>3. CASE SignerRound
  <2>1. SignerStep /\ UNCHANGED cacherVars /\ UNCHANGED <<fList, fState, wavesPool>>
        /\ fPc' \in {"list", fPc}
    BY <1>3 DEF SignerRound, InRound
  <2>2. Finalizer!FinalizerTypeOK'
    BY <2>1 DEF Finalizer!FinalizerTypeOK
  <2> QED
    BY <2>1, <2>2, SignerPartTypes
<1>4. CASE WavesPhase
  BY <1>4, <1>q, FinalizerPartTypes DEF WavesPhase, InWavesPhase, ethPart
<1>5. CASE EthSide
  <2>1. EthTypeOK'
    BY <1>5, ChainType DEF EthSide
  <2> QED
    BY <1>5, <2>1, <1>q DEF EthSide, signPart
<1>6. CASE WavesSide
  <2>1. wavesPool' \subseteq wavesPool /\ UNCHANGED finalizerVars
    BY <1>6 DEF WavesSide, Finalizer!MineInvoke, Finalizer!DropInvoke
  <2>2. Finalizer!FinalizerTypeOK'
    BY <2>1 DEF Finalizer!FinalizerTypeOK, finalizerVars
  <2> QED
    BY <1>6, <2>2, <1>q DEF WavesSide, ethPart
<1>7. ASSUME NEW r \in RequestIds, NEW v \in Validators, PeerSigns(r, v) PROVE PartTypes'
  <2>1. SignerTypeOK'
    BY <1>7 DEF PeerSigns, SignerTypeOK, signerVars
  <2> QED
    BY <1>7, <2>1, <1>q DEF PeerSigns, ethPart
<1>8. CASE Restart
  <2>1. CacherTypeOK' /\ SignerTypeOK'
    BY <1>8 DEF Restart, CacherReset, SignerReset, CacherTypeOK, SignerTypeOK
  <2>2. Finalizer!FinalizerTypeOK'
    BY <1>8 DEF Restart, Finalizer!FinalizerReset, Finalizer!NoState, Finalizer!FinalizerTypeOK
  <2> QED
    BY <1>8, <2>1, <2>2, <1>q DEF Restart
<1>9. CASE UNCHANGED vars
  BY <1>9, <1>q DEF vars, ethPart, signPart
<1> QED
  BY <1>1, <1>2, <1>3, <1>4, <1>5, <1>6, <1>7, <1>8, <1>9 DEF Next, Step, Environment, Panic

LEMMA TypesStep ==
    ASSUME Types, ListStored, RowsAreSigned, [Next]_vars
    PROVE  Types'
BY PartTypesStep, SeenTypeStep, RowsAreSignedStep DEF Types, PartTypes

-----------------------------------------------------------------------------
(* Success and the signatures behind it *)

(***************************************************************************)
(* The invariant: a Success that is on its way, in the hands of a          *)
(* goroutine or in the pool of a chain, has its quorum already.  On the    *)
(* Ethereum side that is the entry the cacher has read, the row the signer *)
(* is about to mark, and the transactions not yet mined.                   *)
(***************************************************************************)
EthBacked ==
    /\ cPc = "store" /\ cRead.status = Success => EthQuorum(cRead.rq)
    /\ sPc = "mark" => EthQuorum(sCur)
    /\ \A r \in ethPool : EthQuorum(r)
    /\ \A r \in EthRequests :
         requests[r].status = Success \/ ethContract[r].status = Success => EthQuorum(r)

\* An entry of the contract's list: it has a status, and Success is backed.
Backed(e) == e.status # None /\ (e.status = Success => WavesQuorum(e.rq))

(***************************************************************************)
(* On the Waves side: the contract's list and the cacher's copy of it, the *)
(* state the last phase has loaded, the row it is about to mark, and the   *)
(* invocations not yet mined.                                              *)
(***************************************************************************)
ListBacked == \A i \in DOMAIN wavesState : Backed(wavesState[i])
CopyBacked == \A i \in DOMAIN wState : Backed(wState[i])

FinalizerBacked ==
    /\ \A r \in WavesRequests :
         requests[r].status = Success \/ fState[r] = Success \/ r \in wavesPool => WavesQuorum(r)
    /\ fPc = "mark" => \A r \in WavesRequests : Finalizer!First(r) => WavesQuorum(r)

WavesBacked == ListBacked /\ CopyBacked /\ FinalizerBacked

NodeInv == Types /\ ListStored /\ RowsAreSigned /\ EthBacked /\ WavesBacked

\* What a step of the Waves cacher makes of a row.
LEMMA WavesPassWrites ==
    ASSUME Types, Cacher!HandleWavesState, NEW r \in RequestIds
    PROVE  \/ requests'[r] = requests[r]
           \/ r \in EthRequests /\ Stored(r) /\ requests'[r] = WithStatus(requests[r], Rejected)
                /\ requests[r].createdAt + RqTimeout <= wHeight
           \/ r \in WavesRequests
                /\ \E i \in DOMAIN wState :
                     wState[i].rq = r /\ requests'[r].status = wState[i].status
<1> USE NodeConstants DEF Types, RequestsTypeOK
<1>c. ASSUME Cacher!AtCandidate PROVE wPos \in DOMAIN wState /\ wState[wPos] \in Seen!Known
  BY <1>c, ListTypes DEF Cacher!AtCandidate, Cacher!AtRequest
<1>1. ASSUME Cacher!Refresh \/ Cacher!StoreMissing
      PROVE  \/ requests'[r] = requests[r]
             \/ r \in WavesRequests
                  /\ \E i \in DOMAIN wState :
                       wState[i].rq = r /\ requests'[r].status = wState[i].status
  <2> DEFINE e == wState[wPos]
  <2>1. wPos \in DOMAIN wState /\ e \in Seen!Known
    BY <1>1, <1>c DEF Cacher!Refresh, Cacher!StoreMissing
  <2>2. PICK h : requests' = [requests EXCEPT ![e.rq] = [createdAt |-> h, status |-> e.status]]
    BY <1>1 DEF Cacher!Refresh, Cacher!StoreMissing, Cacher!SaveStatus, Cacher!WithStatus
  <2>3. e.rq \in WavesRequests
    BY <2>1 DEF Seen!Known
  <2>4. CASE r = e.rq
    <3>1. requests'[r].status = e.status
      BY <2>2, <2>4
    <3> QED
      BY <2>1, <2>3, <2>4, <3>1
  <2>5. CASE r # e.rq
    BY <2>2, <2>5
  <2> QED
    BY <2>4, <2>5
<1>2. ASSUME Cacher!RejectRows
      PROVE  \/ requests'[r] = requests[r]
             \/ r \in EthRequests /\ Stored(r) /\ requests'[r] = WithStatus(requests[r], Rejected)
                  /\ requests[r].createdAt + RqTimeout <= wHeight
  <2>1. requests[r].createdAt \in Nat /\ wHeight \in Nat
    BY ListTypes DEF Row
  <2> QED
    BY <1>2, <2>1 DEF Cacher!RejectRows, Cacher!PastWavesTime, Cacher!WithStatus, Cacher!Stored, Cacher!NoRow,
        WithStatus, Stored, NoRow
<1>3. CASE ~Cacher!Refresh /\ ~Cacher!StoreMissing /\ ~Cacher!RejectRows
  BY <1>3 DEF Cacher!HandleWavesState, Cacher!ReadState, Cacher!ReadHeight,
              Cacher!BreakAtExpired, Cacher!FailWavesPass
<1> QED
  BY <1>1, <1>2, <1>3

\* What a step of the Ethereum chain calls Success, or holds a transaction for.
LEMMA ChainSuccess ==
    ASSUME EthTypeOK, EthEnvironment, NEW r \in EthRequests,
           ethContract'[r].status = Success \/ r \in ethPool'
    PROVE  ethContract[r].status = Success \/ r \in ethPool
<1>1. CASE MineBlock
  BY <1>1 DEF EthTypeOK, MineBlock, Created, Changed
<1>2. CASE Reorganize
  <2>1. PICK base \in Nat : ReplaceBlocks(base)
    BY <1>2 DEF Reorganize, EthTypeOK
  <2>2. ethContract'[r] \in Rewritten(r, base)
    BY <2>1 DEF ReplaceBlocks
  <2>3. r \in ethPool' => r \in ethPool \/ ethContract[r].status = Success
    BY <2>1 DEF ReplaceBlocks, Undone
  <2> QED
    BY <2>2, <2>3, RewriteEffect
<1>3. ASSUME NEW q \in EthRequests, DropTx(q)
      PROVE  ethContract[r].status = Success \/ r \in ethPool
  BY <1>3 DEF DropTx
<1> QED
  BY <1>1, <1>2, <1>3 DEF EthEnvironment

\* Where the Success of the Ethereum cacher comes from: the contract.
LEMMA EthPassSuccess ==
    ASSUME Types, HandleEthLogs
    PROVE  /\ cPc' = "store" => \/ UNCHANGED <<cPc, cRead>>
                                \/ /\ cRead'.rq \in EthRequests
                                   /\ cRead'.status = ethContract[cRead'.rq].status
           /\ \A r \in EthRequests : requests'[r].status = Success =>
                \/ requests[r].status = Success
                \/ cPc = "store" /\ cRead.rq = r /\ cRead.status = Success
<1> USE CacherAssumption DEF Types, RequestsTypeOK, CacherTypeOK
<1>1. CASE StoreRequest
  BY <1>1 DEF StoreRequest, Refreshed, WithStatus
<1>2. CASE ExpireRequests
  BY <1>2 DEF ExpireRequests, Expired, WithStatus
<1>3. ASSUME NEW l \in cLogs, ReadRequest(l)
      PROVE  cRead'.rq \in EthRequests /\ cRead'.status = ethContract[cRead'.rq].status
  BY <1>3 DEF ReadRequest, Log
<1>4. CASE ~StoreRequest /\ ~ExpireRequests
  BY <1>3, <1>4
  DEF HandleEthLogs, ReadHead, FilterLogs, SkipRecent, StopAtExpired, ReadRequest, EndOfLogs,
      FailPass, CacherReset
<1> QED
  BY <1>1, <1>2, <1>4

LEMMA SignerBacked ==
    ASSUME NodeInv, SignerStep, UNCHANGED cacherVars,
           \A r : EthQuorum(r) => EthQuorum(r)'
    PROVE  EthBacked'
<1> USE CacherAssumption DEF NodeInv, EthBacked, cacherVars, ethVars
<1>1. CASE MarkRow
  <2>1. sCur \in EthRequests /\ EthQuorum(sCur)
    BY <1>1 DEF MarkRow, Types, SignerTypeOK
  <2>2. \A r \in EthRequests : requests'[r].status = Success => requests[r].status = Success \/ r = sCur
    BY <1>1 DEF MarkRow, SaveStatus, WithStatus, Types, RequestsTypeOK
  <2> QED
    BY <1>1, <2>1, <2>2 DEF MarkRow
<1>2. CASE SendChangeStatus
  <2>1. /\ sCur \in EthRequests /\ Votes(sCur) >= ContractBft /\ Submit(sCur)
        /\ sCur' = sCur /\ UNCHANGED requests
    BY <1>2 DEF SendChangeStatus, Types, SignerTypeOK
  <2>2. EthQuorum(sCur)
    BY <2>1, RowsAreVotes, SignerAssumption DEF Votes, EthQuorum
  <2> QED
    BY <2>1, <2>2 DEF Submit
<1>3. ASSUME NEW r \in sTodo \cap EthRequests, CheckRequest(r) PROVE EthBacked'
  BY <1>3 DEF CheckRequest
<1>4. \/ UNCHANGED <<requests, ethVars>> /\ sPc' # "mark"
      \/ MarkRow \/ SendChangeStatus \/ \E r \in sTodo \cap EthRequests : CheckRequest(r)
  BY DEF SignerStep, BeginSign, BeginGather, BeginFinalize, BeginPhase, AbandonPhase, SignRequest,
         SkipSign, GatherSigns, GatherFrom, SendFails
<1> QED
  BY <1>1, <1>2, <1>3, <1>4

LEMMA EthBackedStep ==
    ASSUME NodeInv, [Next]_vars
    PROVE  EthBacked'
<1>q. \A r : EthQuorum(r) => EthQuorum(r)'
  BY QuorumsGrow
<1> USE CacherAssumption DEF NodeInv, EthBacked
<1>1. CASE EthPass
  <2>1. UNCHANGED ethVars /\ UNCHANGED sPc /\ UNCHANGED sCur
    BY <1>1, CacherType DEF EthPass, signPart, signerVars, Types
  <2>2. \A r \in EthRequests : requests'[r].status = Success => EthQuorum(r)
    BY <1>1, EthPassSuccess DEF EthPass
  <2>3. cPc' = "store" /\ cRead'.status = Success => EthQuorum(cRead'.rq)
    BY <1>1, EthPassSuccess DEF EthPass
  <2>4. \A r : EthQuorum(r)' <=> EthQuorum(r)
    BY <1>1 DEF EthPass, signPart, EthQuorum, Serves, Signers, SignsOf
  <2> QED
    BY <2>1, <2>2, <2>3, <2>4 DEF ethVars
<1>2. CASE WavesPass
  <2>1. UNCHANGED <<ethVars, cacherVars, signerVars>>
    BY <1>2 DEF WavesPass, ethPart, signPart
  <2>2. ASSUME NEW r \in EthRequests, requests'[r].status = Success
        PROVE  requests[r].status = Success
    <3>1. r \in RequestIds /\ r \notin WavesRequests
      BY NodeConstants
    <3>2. requests'[r] = requests[r] \/ requests'[r] = WithStatus(requests[r], Rejected)
      BY <1>2, <3>1, WavesPassWrites DEF WavesPass
    <3> QED
      BY <2>2, <3>2 DEF WithStatus
  <2> QED
    BY <2>1, <2>2, <1>q DEF ethVars, cacherVars, signerVars
<1>3. CASE SignerRound
  BY <1>3, <1>q, SignerBacked DEF SignerRound, InRound
<1>4. CASE WavesPhase
  <2>1. UNCHANGED <<ethVars, cacherVars, signerVars>>
    BY <1>4 DEF WavesPhase, InWavesPhase, ethPart
  <2>2. \A r \in EthRequests : requests'[r] = requests[r]
    BY <1>4, FinalizerWrites, NodeConstants
    DEF WavesPhase, Finalizer!SaveStatus, Types, RequestsTypeOK
  <2> QED
    BY <2>1, <2>2, <1>q DEF ethVars, cacherVars, signerVars
<1>5. CASE EthSide
  <2>1. UNCHANGED <<requests, cacherVars, signerVars>> /\ ethPool' \subseteq EthRequests
    BY <1>5, ChainType DEF EthSide, signPart, Types, EthTypeOK
  <2>2. ASSUME NEW r \in EthRequests, ethContract'[r].status = Success \/ r \in ethPool'
        PROVE  EthQuorum(r)
    BY <1>5, <2>2, ChainSuccess DEF EthSide, Submit, Types
  <2> QED
    BY <2>1, <2>2, <1>q DEF cacherVars, signerVars
<1>6. CASE WavesSide
  BY <1>6, <1>q DEF WavesSide, ethPart, ethVars, cacherVars, signerVars
<1>7. ASSUME NEW r \in RequestIds, NEW v \in Validators, PeerSigns(r, v) PROVE EthBacked'
  BY <1>7, <1>q DEF PeerSigns, ethPart, ethVars, cacherVars, signerVars
<1>8. CASE Restart
  BY <1>8, <1>q DEF Restart, CacherReset, SignerReset, ethVars
<1>9. CASE UNCHANGED vars
  BY <1>9, <1>q DEF vars, ethPart, signPart, ethVars, cacherVars, signerVars
<1> QED
  BY <1>1, <1>2, <1>3, <1>4, <1>5, <1>6, <1>7, <1>8, <1>9 DEF Next, Step, Environment, Panic

\* What the contract calls Success has its quorum.
LEMMA ListedSuccess ==
    ASSUME Types, WavesBacked, NEW r, Cacher!WavesStatus(r) = Success
    PROVE  WavesQuorum(r)
BY WavesStatusEntry DEF Types, WavesBacked, ListBacked, Backed

\* Sets have one size.
LEMMA SameCardinality == \A S : Finalizer!Cardinality(S) = Cardinality(S)
BY DEF Cardinality, Finalizer!Cardinality

\* There is one first request of the list.
LEMMA OneFirst ==
    ASSUME NEW r, NEW q, Finalizer!First(r), Finalizer!First(q)
    PROVE  r = q
<1>0. DOMAIN RowOrder \subseteq Nat
  BY NodeConstants
<1>1. PICK n \in DOMAIN RowOrder :
        RowOrder[n] = r /\ \A m \in 1 .. n - 1 : RowOrder[m] \notin fList
  BY DEF Finalizer!First
<1>2. PICK k \in DOMAIN RowOrder :
        RowOrder[k] = q /\ \A m \in 1 .. k - 1 : RowOrder[m] \notin fList
  BY DEF Finalizer!First
<1>3. n \in Nat /\ k \in Nat /\ n >= 1 /\ k >= 1 /\ r \in fList /\ q \in fList
  BY <1>1, <1>2, NodeConstants DEF Finalizer!First
<1>4. ~(n < k) /\ ~(k < n)
  BY <1>1, <1>2, <1>3
<1> QED
  BY <1>1, <1>2, <1>3, <1>4

\* A change of the contract's list leaves backed what was.
LEMMA ListKeepsBacking ==
    ASSUME Types, WavesBacked, WavesSide, NEW i \in DOMAIN wavesState'
    PROVE  Backed(wavesState'[i])
<1> USE NodeConstants DEF WavesBacked, ListBacked
<1>t. /\ Len(wavesState) \in Nat /\ DOMAIN wavesState = 1 .. Len(wavesState)
      /\ \A j \in DOMAIN wavesState : wavesState[j] \in Seen!WavesEntry
  BY ListTypes DEF Types
<1>1. ASSUME NEW r \in WavesRequests, Cacher!WavesCreate(r) PROVE Backed(wavesState'[i])
  <2> DEFINE e == [rq |-> r, height |-> wavesHeight, status |-> New, changed |-> wavesHeight]
  <2>1. wavesState \in Seq(Seen!WavesEntry)
    BY DEF Types, Seen!TypeInv, Seen!TypeOK, Seen!WavesTypeOK
  <2>2. e \in Seen!WavesEntry
    BY ListTypes DEF Types, Seen!WavesEntry
  <2>3. Backed(e)
    BY DEF Backed
  <2>4. wavesState' = Append(wavesState, e)
    BY <1>1 DEF Cacher!WavesCreate
  <2> HIDE DEF e
  <2>5. /\ Len(wavesState') = Len(wavesState) + 1 /\ DOMAIN wavesState' = 1 .. Len(wavesState')
        /\ \A j \in DOMAIN wavesState : wavesState'[j] = wavesState[j]
        /\ wavesState'[Len(wavesState) + 1] = e
    BY <2>1, <2>2, <2>4
  <2> QED
    BY <1>t, <2>3, <2>5
<1>2. ASSUME NEW r \in WavesRequests, NEW s, WavesRows!WavesChange(r, s),
             s # None, s = Success => WavesQuorum(r)
      PROVE  Backed(wavesState'[i])
  <2>1. /\ i \in DOMAIN wavesState
        /\ wavesState'[i] = IF wavesState[i].rq = r
                            THEN [wavesState[i] EXCEPT !.status = s, !.changed = wavesHeight]
                            ELSE wavesState[i]
    BY <1>2 DEF WavesRows!WavesChange
  <2>2. wavesState'[i].rq = wavesState[i].rq
        /\ wavesState'[i].status = IF wavesState[i].rq = r THEN s ELSE wavesState[i].status
    BY <1>t, <2>1 DEF Seen!WavesEntry
  <2> QED
    BY <1>2, <2>1, <2>2 DEF Backed
<1>3. ASSUME Cacher!WavesRollback PROVE Backed(wavesState'[i])
  <2>1. /\ i \in DOMAIN wavesState
        /\ \/ wavesState'[i] = wavesState[i]
           \/ wavesState'[i] = [wavesState[i] EXCEPT !.status = New, !.changed = wavesState[i].height]
    <3>1. PICK depth \in 1 .. MaxWavesReorg, n \in 0 .. Len(wavesState) :
            wavesState' = [j \in 1 .. n |->
              IF wavesState[j].changed > wavesHeight - depth
              THEN [wavesState[j] EXCEPT !.status = New, !.changed = wavesState[j].height]
              ELSE wavesState[j]]
      BY <1>3, Zenon DEF Cacher!WavesRollback
    <3>2. i \in 1 .. n
      BY <3>1
    <3>3. i \in 1 .. Len(wavesState)
      BY <1>t, <3>2
    <3> QED
      BY <1>t, <3>1, <3>2, <3>3
  <2>2. CASE wavesState'[i] = [wavesState[i] EXCEPT !.status = New, !.changed = wavesState[i].height]
    <3>1. wavesState'[i].status = New
      BY <1>t, <2>1, <2>2 DEF Seen!WavesEntry
    <3> QED
      BY <3>1 DEF Backed
  <2> QED
    BY <2>1, <2>2
<1>4. CASE UNCHANGED wavesState
  BY <1>4
<1>5. ASSUME NEW r \in WavesRequests, Finalizer!MineInvoke(r) PROVE Backed(wavesState'[i])
  BY <1>2, <1>5, SameWavesChain DEF Finalizer!MineInvoke, FinalizerBacked
<1>6. ASSUME NEW r \in WavesRequests, Finalizer!DropInvoke(r) PROVE UNCHANGED wavesState
  BY <1>6 DEF Finalizer!DropInvoke, Finalizer!wavesVars
<1>7. ASSUME Cacher!WavesUsers PROVE Backed(wavesState'[i])
  <2>1. \A r : Cacher!WavesChange(r, Returned) => WavesRows!WavesChange(r, Returned)
    BY SameWavesChain
  <2> QED
    BY <1>1, <1>2, <1>3, <1>4, <1>7, <2>1 DEF Cacher!WavesUsers, Cacher!WavesBlock
<1>8. ASSUME NEW r \in WavesRequests, WavesQuorum(r), Cacher!WavesChange(r, Success)
      PROVE  Backed(wavesState'[i])
  BY <1>2, <1>8, SameWavesChain
<1> QED
  BY <1>4, <1>5, <1>6, <1>7, <1>8 DEF WavesSide

\* The Waves cacher copies the list; what it drops it forgets.
LEMMA CopyKeepsBacking ==
    ASSUME Types, WavesBacked, Cacher!HandleWavesState, NEW i \in DOMAIN wState'
    PROVE  Backed(wState'[i])
<1> USE DEF WavesBacked, ListBacked, CopyBacked
<1>1. CASE Cacher!ReadState
  <2>1. i \in DOMAIN wavesState /\ wState'[i].rq = wavesState[i].rq
        /\ wState'[i].status = wavesState[i].status
    BY <1>1 DEF Cacher!ReadState
  <2> QED
    BY <2>1 DEF Backed
<1>2. CASE ~Cacher!ReadState
  <2>1. UNCHANGED wState \/ wState' = <<>>
    BY <1>2
    DEF Cacher!HandleWavesState, Cacher!ReadHeight, Cacher!BreakAtExpired, Cacher!Refresh,
        Cacher!StoreMissing, Cacher!RejectRows, Cacher!FailWavesPass, Cacher!WavesCacherReset,
        Cacher!wCacherVars
  <2> QED
    BY <2>1
<1> QED
  BY <1>1, <1>2

(***************************************************************************)
(* The last phase marks, and sends, only what has a quorum: by the state   *)
(* it loaded, by the rows it counted against the contract's oracles, or    *)
(* because the invocation it waited for has been found in a block.         *)
(***************************************************************************)
LEMMA FinalizerBackedStep ==
    ASSUME NodeInv, Finalizer!FinalizeWaves,
           \A r : WavesQuorum(r) => WavesQuorum(r)'
    PROVE  FinalizerBacked'
<1> USE DEF NodeInv, WavesBacked, FinalizerBacked
<1> USE DEF Finalizer!FinalizerReset
<1>1. CASE Finalizer!ListRequests
  BY <1>1 DEF Finalizer!ListRequests
<1>2. CASE Finalizer!LoadState
  <2>1. \A r \in WavesRequests : fState'[r] = Success => WavesQuorum(r)
    BY <1>2, WavesStatusType, ListedSuccess DEF Finalizer!LoadState, Types
  <2> QED
    BY <1>2, <2>1 DEF Finalizer!LoadState
<1>3. CASE Finalizer!EndWavesPhase
  BY <1>3 DEF Finalizer!EndWavesPhase, Finalizer!NoState
<1>4. ASSUME NEW r \in WavesRequests, Finalizer!MarkFinalized(r) \/ Finalizer!MarkConfirmed(r)
      PROVE  FinalizerBacked'
  <2>1. WavesQuorum(r)
    BY <1>4 DEF Finalizer!MarkFinalized, Finalizer!MarkConfirmed
  <2>2. \A q \in WavesRequests : requests'[q].status = Success => requests[q].status = Success \/ q = r
    BY <1>4, NodeConstants
    DEF Finalizer!MarkFinalized, Finalizer!MarkConfirmed, Finalizer!SaveStatus,
        Finalizer!WithStatus, Types, RequestsTypeOK
  <2>3. UNCHANGED <<fState, wavesPool>> /\ fPc' = "visit"
    BY <1>4 DEF Finalizer!MarkFinalized, Finalizer!MarkConfirmed, Finalizer!Turn
  <2> QED
    BY <2>1, <2>2, <2>3
<1>5. ASSUME NEW r \in WavesRequests, Finalizer!SkipWithoutQuorum(r) PROVE FinalizerBacked'
  BY <1>5 DEF Finalizer!SkipWithoutQuorum, Finalizer!Turn
<1>6. ASSUME NEW r \in WavesRequests, Finalizer!SubmitInvoke(r) PROVE FinalizerBacked'
  <2>1. Finalizer!Signers(r) = Signers(r)
    BY DEF Finalizer!Signers, Finalizer!SignsOf, Signers, SignsOf
  <2>2. WavesQuorum(r)
    <3>1. Cardinality(Signers(r) \cap WavesAdmins) >= WavesBft
      <4>1. Finalizer!WavesVotes(r) >= WavesBft
        BY <1>6 DEF Finalizer!SubmitInvoke, Finalizer!NodeTakes
      <4> QED
        BY <2>1, <4>1, SameCardinality DEF Finalizer!WavesVotes
    <3> QED
      BY <3>1, RowsAreVotes, NodeConstants DEF WavesQuorum
  <2>3. /\ UNCHANGED requests /\ wavesPool' = wavesPool \cup {r}
        /\ fPc' # "mark" /\ (UNCHANGED fState \/ fState' = Finalizer!NoState)
    BY <1>6 DEF Finalizer!SubmitInvoke
  <2> QED
    BY <2>2, <2>3 DEF Finalizer!NoState
<1>7. ASSUME NEW r \in WavesRequests, Finalizer!TxConfirmed(r) PROVE FinalizerBacked'
  <2>1. WavesQuorum(r) /\ Finalizer!First(r) /\ UNCHANGED <<requests, fList, fState, wavesPool>>
    BY <1>7, SameWavesChain, ListedSuccess DEF Finalizer!TxConfirmed
  <2>2. \A q \in WavesRequests : Finalizer!First(q)' => q = r
    BY <2>1, OneFirst DEF Finalizer!First
  <2> QED
    BY <2>1, <2>2
<1> QED
  BY <1>1, <1>2, <1>3, <1>4, <1>5, <1>6, <1>7 DEF Finalizer!FinalizeWaves

LEMMA WavesBackedStep ==
    ASSUME NodeInv, [Next]_vars
    PROVE  WavesBacked'
<1>q. \A r : WavesQuorum(r) => WavesQuorum(r)'
  BY QuorumsGrow
<1>b. \A e : Backed(e) => Backed(e)'
  BY <1>q DEF Backed
<1> USE NodeConstants DEF NodeInv
<1>l. UNCHANGED wavesState => ListBacked'
  BY <1>b DEF WavesBacked, ListBacked
<1>m. UNCHANGED wState => CopyBacked'
  BY <1>b DEF WavesBacked, CopyBacked
<1>f. (\A r \in WavesRequests : requests'[r] = requests[r]) /\ UNCHANGED <<finalizerVars, wavesPool>>
        => FinalizerBacked'
  BY <1>q DEF WavesBacked, FinalizerBacked, finalizerVars, Finalizer!First
<1>e. WavesBacked' <=> ListBacked' /\ CopyBacked' /\ FinalizerBacked'
  BY DEF WavesBacked
<1>1. CASE EthPass
  <2>1. UNCHANGED <<wavesState, wState>> /\ UNCHANGED <<finalizerVars, wavesPool>>
    BY <1>1 DEF EthPass, wavesPart, signPart, wavesVars, wCacherVars
  <2> QED
    BY <1>1, <2>1, <1>l, <1>m, <1>f, <1>e, EthPassKeepsWavesRows DEF EthPass
<1>2. CASE WavesPass
  <2>1. UNCHANGED <<finalizerVars, wavesPool>>
    BY <1>2 DEF WavesPass, signPart
  <2>2. UNCHANGED wavesState
    BY <1>2
    DEF WavesPass, Cacher!HandleWavesState, Cacher!ReadState, Cacher!ReadHeight,
        Cacher!BreakAtExpired, Cacher!Refresh, Cacher!StoreMissing, Cacher!RejectRows,
        Cacher!FailWavesPass, Cacher!wavesVars
  <2>3. CopyBacked'
    BY <1>2, <1>b, CopyKeepsBacking DEF WavesPass, CopyBacked
  <2>4. ASSUME NEW r \in WavesRequests, requests'[r].status = Success PROVE WavesQuorum(r)
    BY <1>2, <2>4, WavesPassWrites DEF WavesPass, WavesBacked, CopyBacked, FinalizerBacked, Backed
  <2>5. FinalizerBacked'
    BY <1>q, <2>1, <2>4 DEF WavesBacked, FinalizerBacked, finalizerVars, Finalizer!First
  <2> QED
    BY <2>2, <2>3, <2>5, <1>l, <1>e
<1>3. CASE SignerRound
  <2>1. UNCHANGED <<wavesState, wState>> /\ UNCHANGED <<fList, fState, wavesPool>>
        /\ fPc' \in {"list", fPc}
    BY <1>3 DEF SignerRound, InRound, wavesPart, wavesVars, wCacherVars
  <2>2. \A r \in WavesRequests : requests'[r] = requests[r]
    BY <1>3, SignerWrites DEF SignerRound, SaveStatus, Types, RequestsTypeOK
  <2>3. FinalizerBacked'
    BY <1>q, <2>1, <2>2 DEF WavesBacked, FinalizerBacked, Finalizer!First
  <2> QED
    BY <2>1, <2>3, <1>l, <1>m, <1>e
<1>4. CASE WavesPhase
  <2>1. UNCHANGED <<wavesState, wState>>
    BY <1>4, FinalizerWrites DEF WavesPhase, InWavesPhase, wavesVars, wCacherVars
  <2>2. FinalizerBacked'
    BY <1>4, <1>q, FinalizerBackedStep DEF WavesPhase
  <2> QED
    BY <2>1, <2>2, <1>l, <1>m, <1>e
<1>5. CASE EthSide
  BY <1>5, <1>l, <1>m, <1>f, <1>e DEF EthSide, wavesPart, signPart, wavesVars, wCacherVars
<1>6. CASE WavesSide
  <2>1. UNCHANGED <<requests, wState>> /\ UNCHANGED finalizerVars /\ wavesPool' \subseteq wavesPool
    BY <1>6 DEF WavesSide, wCacherVars, Finalizer!MineInvoke, Finalizer!DropInvoke
  <2>2. ListBacked'
    BY <1>6, <1>b, ListKeepsBacking DEF ListBacked
  <2>3. FinalizerBacked'
    BY <1>q, <2>1 DEF WavesBacked, FinalizerBacked, finalizerVars, Finalizer!First
  <2> QED
    BY <2>1, <2>2, <2>3, <1>m, <1>e
<1>7. ASSUME NEW r \in RequestIds, NEW v \in Validators, PeerSigns(r, v) PROVE WavesBacked'
  BY <1>7, <1>l, <1>m, <1>f, <1>e DEF PeerSigns, wavesPart, wavesVars, wCacherVars
<1>8. CASE Restart
  <2>1. UNCHANGED <<requests, wavesState, wavesPool>> /\ wState' = <<>>
        /\ fPc' = "off" /\ fState' = Finalizer!NoState
    BY <1>8 DEF Restart, wavesVars, Cacher!WavesCacherReset, Finalizer!FinalizerReset
  <2>2. FinalizerBacked'
    BY <1>q, <2>1 DEF WavesBacked, FinalizerBacked, Finalizer!NoState
  <2>3. CopyBacked'
    BY <2>1 DEF CopyBacked
  <2> QED
    BY <2>1, <2>2, <2>3, <1>l, <1>e
<1>9. CASE UNCHANGED vars
  BY <1>9, <1>l, <1>m, <1>f, <1>e DEF vars, wavesPart, signPart, wavesVars, wCacherVars
<1> QED
  BY <1>1, <1>2, <1>3, <1>4, <1>5, <1>6, <1>7, <1>8, <1>9 DEF Next, Step, Environment, Panic

(***************************************************************************)
(* No step takes the row of a Waves request out of the database, so what   *)
(* the last phase has in its list stays there.                             *)
(***************************************************************************)
LEMMA ListStoredStep ==
    ASSUME NodeInv, [Next]_vars
    PROVE  ListStored'
<1> USE NodeConstants DEF NodeInv, Stored, NoRow
<1>s. ASSUME NEW r \in WavesRequests, Stored(r) PROVE Stored(r)'
  <2>1. CASE WavesPass
    <3>1. \/ requests'[r] = requests[r]
          \/ \E i \in DOMAIN wState : requests'[r].status = wState[i].status
      BY <2>1, WavesPassWrites DEF WavesPass
    <3> QED
      BY <1>s, <3>1 DEF WavesBacked, CopyBacked, Backed
  <2>2. CASE WavesPhase
    <3>1. UNCHANGED requests \/ \E q \in WavesRequests : Finalizer!SaveStatus(q, Success)
      BY <2>2, FinalizerWrites DEF WavesPhase
    <3>2. requests'[r] = requests[r] \/ requests'[r].status = Success
      BY <3>1 DEF Finalizer!SaveStatus, Finalizer!WithStatus, Types, RequestsTypeOK
    <3> QED
      BY <1>s, <3>2
  <2>3. CASE SignerRound
    BY <1>s, <2>3, SignerWrites DEF SignerRound, SaveStatus, Types, RequestsTypeOK
  <2>4. CASE EthPass
    BY <1>s, <2>4, EthPassKeepsWavesRows DEF EthPass
  <2> QED
    BY <1>s, <2>1, <2>2, <2>3, <2>4
    DEF Next, Step, Environment, EthSide, WavesSide, PeerSigns, Panic, Restart, vars
<1>l. fList' \subseteq fList \/ fList' = Finalizer!NewRows \cap WavesRequests
  BY DEF Next, Step, EthPass, WavesPass, SignerRound, InRound, WavesPhase, Environment, EthSide,
         WavesSide, PeerSigns, Panic, Restart, vars, signPart, finalizerVars,
         Finalizer!FinalizerReset, Finalizer!FinalizeWaves, Finalizer!ListRequests,
         Finalizer!LoadState, Finalizer!MarkFinalized, Finalizer!SkipWithoutQuorum,
         Finalizer!SubmitInvoke, Finalizer!TxConfirmed, Finalizer!MarkConfirmed,
         Finalizer!EndWavesPhase
<1>f. fList \subseteq WavesRequests
  BY DEF Types, Finalizer!FinalizerTypeOK
<1>n. \A r \in Finalizer!NewRows : Stored(r)
  BY DEF Finalizer!NewRows
<1> QED
  BY <1>s, <1>l, <1>f, <1>n DEF ListStored

LEMMA NodeStep == NodeInv /\ [Next]_vars => NodeInv'
BY TypesStep, ListStoredStep, RowsAreSignedStep, EthBackedStep, WavesBackedStep DEF NodeInv

LEMMA SeenInit == Init => WavesRows!Init
BY NodeConstants
DEF Init, RequestsInit, NoRow, Cacher!WavesInit, Cacher!WavesCacherInit, WavesRows!Init,
    WavesRows!WavesInit, WavesRows!RequestsInit, WavesRows!WavesCacherInit, WavesRows!NoRow

LEMMA NodeInit == Init => NodeInv
<1> SUFFICES ASSUME Init PROVE NodeInv
  OBVIOUS
<1>1. NoEntry \in Entry /\ NoRow \in Row
  BY DEF NoEntry, Entry, NoRow, Row
<1>2. Seen!TypeInv
  BY SeenInit, SeenSteps, SeenAssumptions, Seen!WavesTypeInit
<1>3. Types
  BY <1>1, <1>2, EthAssumption, CacherAssumption
  DEF Init, EthInit, RequestsInit, SignaturesInit, CacherInit, SignerInit, Types, EthTypeOK,
      RequestsTypeOK, CacherTypeOK, SignerTypeOK, SignsOwned, Finalizer!FinalizerInit,
      Finalizer!FinalizerTypeOK, Finalizer!NoState
<1>4. ListStored /\ RowsAreSigned
  BY DEF Init, SignaturesInit, Finalizer!FinalizerInit, ListStored, RowsAreSigned
<1>5. EthBacked
  BY CacherAssumption
  DEF Init, EthInit, RequestsInit, CacherInit, SignerInit, EthBacked, NoEntry, NoRow
<1>6. WavesBacked
  BY NodeConstants
  DEF Init, RequestsInit, NoRow, Cacher!WavesInit, Cacher!WavesCacherInit,
      Finalizer!FinalizerInit, Finalizer!NoState, WavesBacked, ListBacked, CopyBacked,
      FinalizerBacked
<1> QED
  BY <1>3, <1>4, <1>5, <1>6 DEF NodeInv

(***************************************************************************)
(* No Success is made up on either chain, whatever the order in which the  *)
(* two cachers, the signer, the chains and the other validators take their *)
(* steps, through restarts, rollbacks, lost transactions and lookups that  *)
(* fail.  Nothing is assumed of the thresholds, the heights, the timeouts  *)
(* or the sets of oracles beyond their types.                              *)
(***************************************************************************)
THEOREM NodeSuccessHasQuorum == Spec => []SuccessHasQuorum
<1>1. NodeInv => SuccessHasQuorum
  BY ListedSuccess DEF NodeInv, EthBacked, WavesBacked, FinalizerBacked, SuccessHasQuorum
<1> QED
  BY NodeInit, NodeStep, <1>1, PTL DEF Spec

(***************************************************************************)
(* Seen from the Waves cacher, this validator is one of those WavesMirror  *)
(* describes: the signer, the Ethereum cacher, the panics and the restarts *)
(* do nothing to the rows of Waves requests that WavesMirror leaves out.   *)
(***************************************************************************)
THEOREM NodeImplementsWavesMirror == Spec => WavesMirrorSpec
<1>1. NodeInv /\ [Next]_vars => [WavesRows!Next]_(WavesRows!vars)
  BY StepIsMirrored DEF NodeInv
<1> QED
  BY NodeInit, NodeStep, SeenInit, <1>1, PTL DEF Spec, WavesMirrorSpec, WavesRows!Spec

(***************************************************************************)
(* So what is proved of WavesMirror holds of the validator: a pass of its  *)
(* Waves cacher that comes to the UPDATE has left no request out, whatever *)
(* the signer and the Ethereum cacher do to the table meanwhile.           *)
(***************************************************************************)
COROLLARY NodeCompletesPasses == Spec => []WavesRows!CompletedPassIsComplete
<1>1. Seen!Spec => []Seen!CompletedPassIsComplete
  BY SeenAssumptions, Seen!CompletedPassIsCompleteAlways, PTL
<1>2. Seen!CompletedPassIsComplete => WavesRows!CompletedPassIsComplete
  BY DEF Seen!CompletedPassIsComplete, WavesRows!CompletedPassIsComplete
<1> QED
  BY NodeImplementsWavesMirror, SeenSteps, <1>1, <1>2, PTL
  DEF WavesMirrorSpec, WavesRows!Spec, Seen!Spec

-----------------------------------------------------------------------------
(* Seen from Ethereum *)

USE DEF EthView!None, EthView!New, EthView!Rejected, EthView!Success, EthView!Returned, EthView!Status

\* What EthView is told of this validator's variables.
EthTable      == [r \in EthRequests |-> requests[r]]
EthSigns      == {s \in signs : s.rq \in EthRequests}
EthPeerSigned == {p \in peerSigned : p[1] \in EthRequests}
EthTodo       == sTodo \cap EthRequests

LEMMA EthRowUpdate ==
    ASSUME Types, NEW r \in EthRequests, NEW row,
           requests' = [requests EXCEPT ![r] = row]
    PROVE  EthTable' = [EthTable EXCEPT ![r] = row]
BY NodeConstants DEF Types, RequestsTypeOK, EthTable

LEMMA EthRow ==
    ASSUME NEW r \in EthRequests
    PROVE  /\ EthTable[r] = requests[r]
           /\ EthView!Stored(r) <=> Stored(r)
           /\ EthView!FindRequest(r) = FindRequest(r)
<1>1. EthTable[r] = requests[r]
  BY DEF EthTable
<1>2. EthView!Stored(r) = Stored(r)
  BY DEF EthView!Stored, EthView!NoRow, Stored, NoRow
<1>3. EthView!FindRequest(r) = FindRequest(r)
  BY <1>2, Zenon DEF EthView!FindRequest, FindRequest
<1> QED
  BY <1>1, <1>2, <1>3

\* The chain is the same.
LEMMA SameEthChain ==
    /\ EthEnvironment => EthView!EthEnvironment
    /\ \A r : Submit(r) <=> EthView!Submit(r)
    /\ \A r : Logged(r) <=> EthView!Logged(r)
    /\ ethVars = EthView!ethVars
<1>1. /\ \A r : Submit(r) <=> EthView!Submit(r)
      /\ \A r : Logged(r) <=> EthView!Logged(r)
      /\ ethVars = EthView!ethVars
      /\ \A r : DropTx(r) <=> EthView!DropTx(r)
  BY DEF Submit, Accepts, EthView!Submit, EthView!Accepts, Logged, EthView!Logged, ethVars,
         EthView!ethVars, DropTx, EthView!DropTx
<1>2. MineBlock <=> EthView!MineBlock
  BY DEF MineBlock, Accepts, PastDue, Created, Changed, Logged, EthView!MineBlock,
         EthView!Accepts, EthView!PastDue, EthView!Created, EthView!Changed, EthView!Logged
<1>3. Reorganize <=> EthView!Reorganize
  <2>1. ASSUME NEW base
        PROVE  /\ Undone(base) = EthView!Undone(base)
               /\ \A r : Rewritten(r, base) = EthView!Rewritten(r, base)
    BY DEF Undone, Rewritten, RolledBack, Accepts, PastDue, Created, Changed, NoEntry,
           EthView!Undone, EthView!Rewritten, EthView!RolledBack, EthView!Accepts,
           EthView!PastDue, EthView!Created, EthView!Changed, EthView!NoEntry
  <2>2. ASSUME NEW base PROVE ReplaceBlocks(base) <=> EthView!ReplaceBlocks(base)
    <3>1. /\ {Rewritten(r, base) : r \in EthRequests} = {EthView!Rewritten(r, base) : r \in EthRequests}
          /\ \A entries :
               (\A r \in EthRequests : entries[r] \in Rewritten(r, base))
                 <=> (\A r \in EthRequests : entries[r] \in EthView!Rewritten(r, base))
      BY <2>1
    <3>2. UNION {Rewritten(r, base) : r \in EthRequests}
            = UNION {EthView!Rewritten(r, base) : r \in EthRequests}
      BY <3>1
    <3> QED
      BY <2>1, <3>1, <3>2 DEF ReplaceBlocks, EthView!ReplaceBlocks
  <2> QED
    BY <2>2 DEF Reorganize, EthView!Reorganize
<1> QED
  BY <1>1, <1>2, <1>3 DEF EthEnvironment, EthView!EthEnvironment

\* Its cacher reads and writes the same.
LEMMA SameEthCacher ==
    ASSUME Types, HandleEthLogs
    PROVE  EthView!HandleEthLogs
<1> USE NodeConstants, SameEthChain DEF Types
<1>q. UNCHANGED requests => EthTable' = EthTable
  BY DEF EthTable
<1>v. UNCHANGED ethVars => UNCHANGED EthView!ethVars
  BY DEF ethVars, EthView!ethVars
<1>1. ASSUME ReadHead PROVE EthView!ReadHead
  BY <1>1, <1>q, <1>v DEF ReadHead, EthView!ReadHead, EthTable
<1>2. ASSUME FilterLogs PROVE EthView!FilterLogs
  BY <1>2, <1>q, <1>v DEF FilterLogs, EthView!FilterLogs, EthTable, Logged, EthView!Logged
<1>3. ASSUME EndOfLogs PROVE EthView!EndOfLogs
  BY <1>3, <1>q, <1>v DEF EndOfLogs, EthView!EndOfLogs, EthTable
<1>4. ASSUME FailPass PROVE EthView!FailPass
  BY <1>4, <1>q, <1>v
  DEF FailPass, CacherReset, NoRead, EthView!FailPass, EthView!CacherReset, EthView!NoRead, EthTable
<1>5. ASSUME NEW l \in cLogs
      PROVE  /\ SkipRecent(l) => EthView!SkipRecent(l)
             /\ StopAtExpired(l) => EthView!StopAtExpired(l)
             /\ ReadRequest(l) => EthView!ReadRequest(l)
  <2>1. /\ Oldest(l) <=> EthView!Oldest(l)
        /\ TooRecent(ethContract[l.rq]) <=> EthView!TooRecent(ethContract[l.rq])
        /\ TooOld(ethContract[l.rq]) <=> EthView!TooOld(ethContract[l.rq])
    BY DEF Oldest, EthView!Oldest, TooRecent, EthView!TooRecent, TooOld, EthView!TooOld
  <2> QED
    BY <2>1, <1>q, <1>v
    DEF SkipRecent, StopAtExpired, ReadRequest, EthView!SkipRecent, EthView!StopAtExpired,
        EthView!ReadRequest, EthTable
<1>6. ASSUME StoreRequest PROVE EthView!StoreRequest
  <2> DEFINE r == cRead.rq
             Written(found) == IF found THEN Refreshed(requests[r])
                               ELSE [createdAt |-> cRead.height, status |-> cRead.status]
  <2>1. r \in EthRequests
    BY <1>6 DEF StoreRequest, CacherTypeOK, Read
  <2>2. PICK found \in FindRequest(r) : requests' = [requests EXCEPT ![r] = Written(found)]
    BY <1>6 DEF StoreRequest
  <2>3. EthTable' = [EthTable EXCEPT ![r] = Written(found)]
    <3> HIDE DEF r, Written
    <3> QED
      BY <2>1, <2>2, EthRowUpdate
  <2>4. found \in EthView!FindRequest(r)
    BY <2>1, <2>2, EthRow
  <2>5. Refreshed(requests[r]) = EthView!Refreshed(EthTable[r])
    BY <2>1, EthRow DEF Refreshed, WithStatus, EthView!Refreshed, EthView!WithStatus
  <2>6. EthTable' = [EthTable EXCEPT ![r] =
          IF found THEN EthView!Refreshed(EthTable[r])
          ELSE [createdAt |-> cRead.height, status |-> cRead.status]]
    BY <2>3, <2>5
  <2> QED
    BY <1>6, <1>v, <2>4, <2>6 DEF StoreRequest, NoRead, EthView!StoreRequest, EthView!NoRead, EthTable
<1>7. ASSUME ExpireRequests PROVE EthView!ExpireRequests
  <2>1. requests' = Expired => EthTable' = EthView!Expired
    <3>1. ASSUME NEW r \in EthRequests
          PROVE  /\ EthTable[r] = requests[r] /\ EthView!Stored(r) = Stored(r)
                 /\ PastTime(requests[r]) = EthView!PastTime(EthTable[r])
                 /\ WithStatus(requests[r], Rejected) = EthView!WithStatus(EthTable[r], Rejected)
      BY EthRow DEF PastTime, EthView!PastTime, WithStatus, EthView!WithStatus,
                    EthView!Stored, EthView!NoRow, Stored, NoRow
    <3> QED
      BY <3>1 DEF Expired, EthView!Expired, EthTable
  <2> QED
    BY <1>7, <1>q, <1>v, <2>1 DEF ExpireRequests, EthView!ExpireRequests, EthTable
<1> QED
  BY <1>1, <1>2, <1>3, <1>4, <1>5, <1>6, <1>7 DEF HandleEthLogs, EthView!HandleEthLogs

\* The signatures of an Ethereum request are the same.
LEMMA SameEthSigns ==
    ASSUME NEW r \in EthRequests
    PROVE  /\ EthView!SignRows(r) = SignRows(r) /\ EthView!Signers(r) = Signers(r)
           /\ \A v : /\ EthView!FindSign(r, v) = FindSign(r, v)
                     /\ EthView!NewSign(r, v) = NewSign(r, v)
                     /\ EthView!Serves(r, v) <=> Serves(r, v)
<1>c. \A S : EthView!Cardinality(S) = Cardinality(S)
  BY DEF Cardinality, EthView!Cardinality
<1>1. EthView!SignRows(r) = SignRows(r)
  BY DEF EthView!SignRows, SignRows
<1>2. \A v : EthView!SignsOf(r, v) = SignsOf(r, v)
  BY DEF EthView!SignsOf, SignsOf
<1>3. EthView!Signers(r) = Signers(r)
  BY <1>2 DEF EthView!Signers, Signers
<1>4. ASSUME NEW v
      PROVE  /\ EthView!FindSign(r, v) = FindSign(r, v)
             /\ EthView!NewSign(r, v) = NewSign(r, v)
             /\ EthView!Serves(r, v) <=> Serves(r, v)
  <2>1. EthView!Cardinality(EthView!SignsOf(r, v)) = Cardinality(SignsOf(r, v))
    BY <1>c, <1>2
  <2>2. EthView!FindSign(r, v) = FindSign(r, v)
    BY <1>3, <2>1, Zenon DEF EthView!FindSign, FindSign
  <2>3. EthView!NewSign(r, v) = NewSign(r, v)
    BY <2>1 DEF EthView!NewSign, NewSign
  <2>4. EthView!Serves(r, v) <=> Serves(r, v)
    BY <1>3 DEF EthView!Serves, Serves
  <2> QED
    BY <2>2, <2>3, <2>4
<1> QED
  BY <1>1, <1>3, <1>4

LEMMA SameEthQuorums ==
    ASSUME NEW r \in EthRequests
    PROVE  /\ EthView!HasQuorum(r) <=> HasQuorum(r)
           /\ EthView!Votes(r) = Votes(r)
           /\ EthView!AdminQuorum(r) <=> EthQuorum(r)
<1>c. \A S : EthView!Cardinality(S) = Cardinality(S)
  BY DEF Cardinality, EthView!Cardinality
<1>1. EthView!HasQuorum(r) <=> HasQuorum(r)
  BY <1>c, SameEthSigns DEF EthView!HasQuorum, HasQuorum
<1>2. EthView!Votes(r) = Votes(r)
  BY <1>c, SameEthSigns DEF EthView!Votes, Votes
<1>3. {v \in Admins : EthView!Serves(r, v)} = {v \in Admins : Serves(r, v)}
  BY SameEthSigns
<1>4. EthView!AdminQuorum(r) <=> EthQuorum(r)
  BY <1>c, <1>3 DEF EthView!AdminQuorum, EthQuorum
<1> QED
  BY <1>1, <1>2, <1>4

\* Rows inserted for a request of Ethereum are, those for one of Waves are not.
LEMMA EthInsert ==
    ASSUME NEW r \in RequestIds, NEW S, signs' = signs \cup {NewSign(r, v) : v \in S}
    PROVE  /\ r \in EthRequests => EthSigns' = EthSigns \cup {EthView!NewSign(r, v) : v \in S}
           /\ r \notin EthRequests => EthSigns' = EthSigns
<1>1. \A v \in S : NewSign(r, v).rq = r
  BY DEF NewSign
<1>2. CASE r \in EthRequests
  <2>1. {EthView!NewSign(r, v) : v \in S} = {NewSign(r, v) : v \in S}
    BY <1>2, SameEthSigns
  <2> QED
    BY <1>1, <1>2, <2>1 DEF EthSigns
<1>3. CASE r \notin EthRequests
  BY <1>1, <1>3 DEF EthSigns
<1> QED
  BY <1>2, <1>3

(***************************************************************************)
(* A step of the signer is one of EthNode's, or is about a Waves request   *)
(* and changes nothing EthNode speaks of.                                  *)
(***************************************************************************)
LEMMA SameEthSigner ==
    ASSUME Types, SignerStep
    PROVE  EthView!SignerStep \/ UNCHANGED <<ethVars, sPc, sCur, EthTable, EthSigns, EthPeerSigned, EthTodo>>
<1> DEFINE Goal == \/ EthView!SignerStep
                   \/ UNCHANGED <<ethVars, sPc, sCur, EthTable, EthSigns, EthPeerSigned, EthTodo>>
<1> SUFFICES Goal
  OBVIOUS
<1> USE NodeConstants, SameEthChain DEF Types
<1>v. UNCHANGED ethVars => UNCHANGED EthView!ethVars
  BY DEF ethVars, EthView!ethVars
<1>q. /\ UNCHANGED requests => UNCHANGED EthTable
      /\ UNCHANGED signs => UNCHANGED EthSigns
      /\ UNCHANGED peerSigned => UNCHANGED EthPeerSigned
      /\ UNCHANGED sTodo => UNCHANGED EthTodo
  BY DEF EthTable, EthSigns, EthPeerSigned, EthTodo
<1>n. EthView!NewRows = NewRows \cap EthRequests
  BY DEF EthView!NewRows, NewRows
<1>1. ASSUME BeginSign \/ BeginGather \/ BeginFinalize PROVE Goal
  <2>1. EthView!BeginSign \/ EthView!BeginGather \/ EthView!BeginFinalize
    BY <1>1, <1>q, <1>v, <1>n
    DEF BeginSign, BeginGather, BeginFinalize, BeginPhase, EthView!BeginSign,
        EthView!BeginGather, EthView!BeginFinalize, EthView!BeginPhase, EthTable, EthSigns,
        EthPeerSigned, EthTodo
  <2> QED
    BY <2>1 DEF EthView!SignerStep
<1>2. ASSUME AbandonPhase PROVE Goal
  <2>1. EthTodo # {} => EthView!AbandonPhase
    BY <1>2, <1>q, <1>v
    DEF AbandonPhase, EthView!AbandonPhase, EthTable, EthSigns, EthPeerSigned, EthTodo
  <2>2. EthTodo = {} => EthTodo' = EthTodo
    BY <1>2 DEF AbandonPhase, EthTodo
  <2> QED
    BY <1>2, <1>q, <2>1, <2>2 DEF AbandonPhase, EthView!SignerStep
<1>3. ASSUME NEW r \in sTodo, NEW S \in SUBSET Validators, Visited(r), r \notin EthRequests,
             signs' = signs \cup {NewSign(r, v) : v \in S},
             UNCHANGED <<sPc, sCur, peerSigned, ethVars, requests>>
      PROVE  Goal
  <2>1. r \in RequestIds
    BY DEF SignerTypeOK
  <2>2. EthSigns' = EthSigns
    BY <1>3, <2>1, EthInsert
  <2>3. EthTodo' = EthTodo
    BY <1>3 DEF Visited, EthTodo
  <2> QED
    BY <1>3, <1>q, <2>2, <2>3
<1>t. ASSUME NEW r \in sTodo, r \in EthRequests, Visited(r) PROVE EthView!Visited(r)
  BY <1>t DEF Visited, EthView!Visited
<1>4. ASSUME NEW r \in sTodo, SignRequest(r) PROVE Goal
  <2> DEFINE S == {Self}
  <2>1. S \in SUBSET Validators /\ signs' = signs \cup {NewSign(r, v) : v \in S} /\ Visited(r)
    BY <1>4, SignerAssumption DEF SignRequest
  <2>2. CASE r \in EthRequests
    <3>1. EthSigns' = EthSigns \cup {EthView!NewSign(r, Self)}
      <4>1. EthSigns' = EthSigns \cup {EthView!NewSign(r, v) : v \in S}
        <5> HIDE DEF S
        <5> QED
          BY <2>1, <2>2, EthInsert
      <4> QED
        BY <4>1
    <3>2. FALSE \in EthView!FindSign(r, Self)
      BY <1>4, <2>2, SameEthSigns DEF SignRequest
    <3>3. EthView!SignRequest(r)
      BY <1>4, <1>q, <1>v, <1>t, <2>2, <3>1, <3>2
      DEF SignRequest, EthView!SignRequest, EthTable, EthSigns, EthPeerSigned, EthTodo
    <3> QED
      BY <2>2, <3>3 DEF EthView!SignerStep
  <2> QED
    BY <1>3, <1>4, <2>1, <2>2 DEF SignRequest
<1>5. ASSUME NEW r \in sTodo, SkipSign(r) PROVE Goal
  <2>1. CASE r \in EthRequests
    <3>1. EthView!SkipSign(r)
      BY <1>5, <1>q, <1>v, <1>t, <2>1
      DEF SkipSign, EthView!SkipSign, EthTable, EthSigns, EthPeerSigned
    <3> QED
      BY <2>1, <3>1 DEF EthView!SignerStep
  <2>2. CASE r \notin EthRequests
    <3>1. EthTodo' = EthTodo
      BY <1>5, <2>2 DEF SkipSign, Visited, EthTodo
    <3> QED
      BY <1>5, <1>q, <3>1 DEF SkipSign
  <2> QED
    BY <2>1, <2>2
<1>6. ASSUME NEW r \in sTodo, NEW answered \in SUBSET Peers, GatherFrom(r, answered) PROVE Goal
  <2>1. PICK repeated \in SUBSET {v \in answered \cap Signers(r) : FALSE \in FindSign(r, v)} :
          signs' = signs \cup {NewSign(r, v) : v \in (answered \ Signers(r)) \cup repeated}
    BY <1>6 DEF GatherFrom
  <2> DEFINE S == (answered \ Signers(r)) \cup repeated
  <2>2. S \in SUBSET Validators
    BY SignerAssumption
  <2>3. CASE r \in EthRequests
    <3>1. EthSigns' = EthSigns \cup {EthView!NewSign(r, v) : v \in S}
      BY <2>1, <2>3, EthInsert
    <3>2. answered \subseteq {v \in Peers : EthView!Serves(r, v)}
      BY <1>6, <2>3, SameEthSigns DEF GatherFrom
    <3>3. repeated \in SUBSET {v \in answered \cap EthView!Signers(r) : FALSE \in EthView!FindSign(r, v)}
      BY <2>1, <2>3, SameEthSigns
    <3>4. S = (answered \ EthView!Signers(r)) \cup repeated
      BY <2>3, SameEthSigns
    <3>5. \E rep \in SUBSET {v \in answered \cap EthView!Signers(r) : FALSE \in EthView!FindSign(r, v)} :
            EthSigns' = EthSigns \cup {EthView!NewSign(r, v) : v \in (answered \ EthView!Signers(r)) \cup rep}
      BY <3>1, <3>3, <3>4, Zenon
    <3>6. EthView!GatherFrom(r, answered)
      BY <1>6, <1>q, <1>v, <1>t, <2>3, <3>2, <3>5
      DEF GatherFrom, EthView!GatherFrom, EthTable, EthSigns, EthPeerSigned
    <3> QED
      BY <2>3, <3>6 DEF EthView!SignerStep, EthView!GatherSigns
  <2> HIDE DEF S
  <2> QED
    BY <1>3, <1>6, <2>1, <2>2, <2>3 DEF GatherFrom, S
<1>7. ASSUME NEW r \in sTodo \cap EthRequests, CheckRequest(r) PROVE Goal
  <2>1. EthView!CheckRequest(r)
    BY <1>7, <1>q, <1>v, <1>t, SameEthQuorums
    DEF CheckRequest, EthView!CheckRequest, EthTable, EthSigns, EthPeerSigned
  <2> QED
    BY <2>1 DEF EthView!SignerStep
<1>8. ASSUME SendChangeStatus PROVE Goal
  <2>1. sCur \in EthRequests
    BY <1>8 DEF SendChangeStatus, SignerTypeOK
  <2>2. EthView!Votes(sCur) = Votes(sCur)
    BY <2>1, SameEthQuorums
  <2>3. EthView!Submit(sCur)
    BY <1>8 DEF SendChangeStatus, Submit, Accepts, EthView!Submit, EthView!Accepts
  <2>4. EthView!SendChangeStatus
    BY <1>8, <1>q, <2>2, <2>3
    DEF SendChangeStatus, EthView!SendChangeStatus, EthTable, EthSigns, EthPeerSigned, EthTodo
  <2> QED
    BY <2>4 DEF EthView!SignerStep
<1>9. ASSUME SendFails PROVE Goal
  <2>1. EthView!SendFails
    BY <1>9, <1>q, <1>v
    DEF SendFails, EthView!SendFails, EthTable, EthSigns, EthPeerSigned, EthTodo
  <2> QED
    BY <2>1 DEF EthView!SignerStep
<1>10. ASSUME MarkRow PROVE Goal
  <2> DEFINE row == [createdAt |-> requests[sCur].createdAt, status |-> Success]
  <2>1. sCur \in EthRequests
    BY <1>10 DEF MarkRow, SignerTypeOK
  <2>2. requests' = [requests EXCEPT ![sCur] = row] => EthTable' = [EthTable EXCEPT ![sCur] = row]
    <3> HIDE DEF row
    <3> QED
      BY <2>1, EthRowUpdate
  <2>3. EthView!MarkRow
    BY <1>10, <1>q, <1>v, <2>1, <2>2, EthRow
    DEF MarkRow, SaveStatus, WithStatus, EthView!MarkRow, EthView!SaveStatus,
        EthView!WithStatus, EthTable, EthSigns, EthPeerSigned, EthTodo
  <2> QED
    BY <2>3 DEF EthView!SignerStep
<1> QED
  BY <1>1, <1>2, <1>4, <1>5, <1>6, <1>7, <1>8, <1>9, <1>10 DEF SignerStep, GatherSigns

(***************************************************************************)
(* The height the Waves cacher has read is no later than that of the chain *)
(* it read it from: what its UPDATE finds overdue, is.                     *)
(***************************************************************************)
HeightRead == wHeight <= wavesHeight

LEMMA HeightReadStep ==
    ASSUME Types, HeightRead, [Next]_vars
    PROVE  HeightRead'
<1>t. wHeight \in Nat /\ wavesHeight \in Nat
  BY ListTypes DEF Types
<1> USE DEF HeightRead
<1>1. CASE WavesPass
  <2>1. UNCHANGED wavesHeight
    BY <1>1
    DEF WavesPass, Cacher!HandleWavesState, Cacher!ReadState, Cacher!ReadHeight,
        Cacher!BreakAtExpired, Cacher!Refresh, Cacher!StoreMissing, Cacher!RejectRows,
        Cacher!FailWavesPass, Cacher!wavesVars
  <2>2. wHeight' \in {wHeight, wavesHeight, 0}
    BY <1>1
    DEF WavesPass, Cacher!HandleWavesState, Cacher!ReadState, Cacher!ReadHeight,
        Cacher!BreakAtExpired, Cacher!Refresh, Cacher!StoreMissing, Cacher!RejectRows,
        Cacher!FailWavesPass, Cacher!WavesCacherReset, Cacher!wCacherVars
  <2> QED
    BY <1>t, <2>1, <2>2
<1>2. CASE WavesSide
  <2>1. \/ UNCHANGED wavesHeight \/ wavesHeight' = wavesHeight + 1
    BY <1>2
    DEF WavesSide, Cacher!WavesUsers, Cacher!WavesBlock, Cacher!WavesRollback,
        Cacher!WavesCreate, Cacher!WavesChange, Finalizer!MineInvoke, Finalizer!DropInvoke,
        Finalizer!WavesChange, Finalizer!wavesVars
  <2>2. UNCHANGED wHeight
    BY <1>2 DEF WavesSide, wCacherVars
  <2> QED
    BY <1>t, <2>1, <2>2
<1>3. CASE Restart
  <2>1. wHeight' = 0 /\ UNCHANGED wavesHeight
    BY <1>3 DEF Restart, Cacher!WavesCacherReset, wavesVars
  <2> QED
    BY <1>t, <2>1
<1>4. CASE WavesPhase
  BY <1>4
  DEF WavesPhase, InWavesPhase, wCacherVars, Finalizer!FinalizeWaves, Finalizer!ListRequests,
      Finalizer!LoadState, Finalizer!MarkFinalized, Finalizer!SkipWithoutQuorum,
      Finalizer!SubmitInvoke, Finalizer!TxConfirmed, Finalizer!MarkConfirmed,
      Finalizer!EndWavesPhase, Finalizer!wavesVars
<1>5. CASE ~WavesPass /\ ~WavesSide /\ ~Restart /\ ~WavesPhase
  BY <1>5
  DEF Next, Step, EthPass, SignerRound, InRound, Environment, EthSide, PeerSigns, Panic, vars,
      wavesPart, wavesVars, wCacherVars
<1> QED
  BY <1>1, <1>2, <1>3, <1>4, <1>5

\* The rows of Ethereum requests that the Waves cacher touches it rejects.
LEMMA WavesPassRejects ==
    ASSUME Types, HeightRead, WavesPass
    PROVE  WavesRejects
<1>1. ASSUME NEW r \in EthRequests
      PROVE  \/ requests'[r] = requests[r]
             \/ /\ Stored(r) /\ requests'[r] = WithStatus(requests[r], Rejected)
                /\ requests[r].createdAt + RqTimeout <= wavesHeight
  <2>1. r \in RequestIds /\ r \notin WavesRequests
    BY NodeConstants
  <2>2. \/ requests'[r] = requests[r]
        \/ /\ Stored(r) /\ requests'[r] = WithStatus(requests[r], Rejected)
           /\ requests[r].createdAt + RqTimeout <= wHeight
    BY <2>1, WavesPassWrites DEF WavesPass
  <2>3. requests[r].createdAt \in Nat /\ wHeight \in Nat /\ wavesHeight \in Nat
    BY <2>1, ListTypes DEF Types, RequestsTypeOK, Row
  <2> QED
    BY <2>2, <2>3, NodeConstants DEF HeightRead
<1> QED
  BY <1>1 DEF WavesPass, WavesRejects

LEMMA QuietForEthereum ==
    ASSUME UNCHANGED <<ethVars, cacherVars, sPc, sCur, EthTable, EthSigns, EthPeerSigned, EthTodo>>
    PROVE  UNCHANGED EthView!vars
BY DEF ethVars, cacherVars, EthTable, EthSigns, EthPeerSigned, EthTodo, EthView!vars,
       EthView!ethVars, EthView!cacherVars, EthView!signerVars

LEMMA StepIsSeenFromEthereum ==
    ASSUME Types, ListStored, HeightRead, [Next]_vars
    PROVE  [EthView!Next \/ WavesRejects]_(EthView!vars)
<1> USE NodeConstants, SameEthChain
<1>v. UNCHANGED ethVars => UNCHANGED EthView!ethVars
  BY DEF ethVars, EthView!ethVars
<1>c. UNCHANGED cacherVars => UNCHANGED EthView!cacherVars
  BY DEF cacherVars, EthView!cacherVars
<1>q. /\ UNCHANGED requests => UNCHANGED EthTable
      /\ UNCHANGED signs => UNCHANGED EthSigns
      /\ UNCHANGED peerSigned => UNCHANGED EthPeerSigned
      /\ UNCHANGED sTodo => UNCHANGED EthTodo
      /\ UNCHANGED signerVars => /\ UNCHANGED <<sPc, sCur, sTodo>> /\ UNCHANGED EthTodo
                                 /\ UNCHANGED EthView!signerVars
  BY DEF EthTable, EthSigns, EthPeerSigned, EthTodo, signerVars, EthView!signerVars
<1> USE DEF EthView!Next, EthView!Step, EthView!Environment
<1>1. CASE EthPass
  <2>1. EthView!HandleEthLogs
    BY <1>1, SameEthCacher DEF EthPass
  <2> QED
    BY <1>1, <1>q, <2>1 DEF EthPass, signPart, EthSigns, EthPeerSigned
<1>2. CASE WavesPass
  BY <1>2, WavesPassRejects
<1>3. CASE SignerRound
  <2>1. SignerStep /\ UNCHANGED cacherVars
    BY <1>3 DEF SignerRound, InRound
  <2>2. CASE EthView!SignerStep
    BY <1>c, <2>1, <2>2
  <2> QED
    BY <2>1, <2>2, SameEthSigner, QuietForEthereum
<1>4. CASE WavesPhase
  <2>1. UNCHANGED <<ethVars, cacherVars>> /\ UNCHANGED signerVars /\ UNCHANGED peerSigned
    BY <1>4 DEF WavesPhase, InWavesPhase, ethPart
  <2>2. UNCHANGED signs
    BY <1>4
    DEF WavesPhase, Finalizer!FinalizeWaves, Finalizer!ListRequests,
        Finalizer!LoadState, Finalizer!MarkFinalized, Finalizer!SkipWithoutQuorum,
        Finalizer!SubmitInvoke, Finalizer!TxConfirmed, Finalizer!MarkConfirmed,
        Finalizer!EndWavesPhase
  <2>3. \A r \in EthRequests : requests'[r] = requests[r]
    BY <1>4, FinalizerWrites
    DEF WavesPhase, Finalizer!SaveStatus, Types, RequestsTypeOK
  <2>4. UNCHANGED EthTable
    BY <2>3 DEF EthTable
  <2> QED
    BY <1>q, <2>1, <2>2, <2>4, QuietForEthereum
<1>5. CASE EthSide
  <2>1. UNCHANGED <<requests, signs, peerSigned>> /\ UNCHANGED cacherVars /\ UNCHANGED signerVars
    BY <1>5 DEF EthSide, signPart
  <2>2. UNCHANGED <<EthTable, EthSigns, EthPeerSigned>> /\ UNCHANGED EthView!cacherVars
        /\ UNCHANGED EthView!signerVars
    BY <1>c, <1>q, <2>1
  <2>3. ASSUME NEW r \in EthRequests, EthQuorum(r), Submit(r) PROVE EthView!PeerSubmits(r)
    <3>1. EthView!AdminQuorum(r)
      BY <2>3, SameEthQuorums
    <3>2. EthView!Submit(r)
      BY <2>3
    <3> QED
      BY <2>2, <3>1, <3>2 DEF EthView!PeerSubmits, EthTable, EthSigns, EthPeerSigned
  <2>4. CASE EthEnvironment
    BY <2>2, <2>4 DEF EthTable, EthSigns, EthPeerSigned
  <2> QED
    BY <1>5, <2>3, <2>4 DEF EthSide
<1>6. CASE WavesSide
  BY <1>6, <1>q, QuietForEthereum DEF WavesSide, ethPart
<1>7. ASSUME NEW r \in RequestIds, NEW v \in Validators, PeerSigns(r, v)
      PROVE  (EthView!PeerSigns(r, v) /\ r \in EthRequests) \/ UNCHANGED EthView!vars
  <2>1. UNCHANGED <<requests, signs>> /\ UNCHANGED <<ethVars, cacherVars>> /\ UNCHANGED signerVars
        /\ peerSigned' = peerSigned \cup {<<r, v>>}
    BY <1>7 DEF PeerSigns, ethPart
  <2>2. CASE r \in EthRequests
    <3>1. EthPeerSigned' = EthPeerSigned \cup {<<r, v>>}
      BY <2>1, <2>2 DEF EthPeerSigned
    <3> QED
      BY <1>7, <1>v, <1>c, <1>q, <2>1, <2>2, <3>1
      DEF PeerSigns, EthView!PeerSigns, EthTable, EthSigns, EthPeerSigned
  <2>3. CASE r \notin EthRequests
    <3>1. EthPeerSigned' = EthPeerSigned
      BY <2>1, <2>3 DEF EthPeerSigned
    <3> QED
      BY <1>q, <2>1, <3>1, QuietForEthereum
  <2> QED
    BY <2>2, <2>3
<1>8. CASE Restart
  <2>1. UNCHANGED <<requests, signs, peerSigned>> /\ UNCHANGED ethVars
    BY <1>8 DEF Restart
  <2>2. UNCHANGED <<EthTable, EthSigns, EthPeerSigned>> /\ UNCHANGED EthView!ethVars
    BY <1>q, <1>v, <2>1
  <2>3. EthView!SignerReset /\ EthView!CacherReset
    BY <1>8 DEF Restart, SignerReset, EthView!SignerReset, CacherReset, EthView!CacherReset,
                NoRead, EthView!NoRead
  <2>4. EthView!Restart
    BY <1>8, <2>2, <2>3 DEF Restart, EthView!Restart, EthTable, EthSigns, EthPeerSigned
  <2> QED
    BY <2>4
<1>9. CASE UNCHANGED vars
  BY <1>9, <1>q, QuietForEthereum DEF vars, ethPart, signPart
<1> QED
  BY <1>1, <1>2, <1>3, <1>4, <1>5, <1>6, <1>7, <1>8, <1>9 DEF Next, Step, Environment, Panic

LEMMA EthViewInit == Init => EthView!Init
BY NodeConstants
DEF Init, EthInit, RequestsInit, SignaturesInit, CacherInit, SignerInit, NoEntry, NoRow, NoRead,
    EthView!Init, EthView!EthInit, EthView!RequestsInit, EthView!SignaturesInit,
    EthView!CacherInit, EthView!SignerInit, EthView!NoEntry, EthView!NoRow, EthView!NoRead

(***************************************************************************)
(* Seen from Ethereum, this validator is one of those EthNode describes,   *)
(* but for rows the UPDATE of the Waves cacher rejects, each of them       *)
(* overdue by the height of the Waves chain: the Waves requests the signer *)
(* signs and collects for between those of Ethereum, and the last phase of *)
(* its round, do nothing else to the Ethereum side.                        *)
(***************************************************************************)
THEOREM NodeImplementsEthNode == Spec => EthNodeSpec
<1>1. Init => HeightRead
  BY NodeConstants DEF Init, Cacher!WavesInit, Cacher!WavesCacherInit, HeightRead
<1>2. NodeInv /\ HeightRead /\ [Next]_vars => HeightRead'
  BY HeightReadStep DEF NodeInv
<1>3. NodeInv /\ HeightRead /\ [Next]_vars => [EthView!Next \/ WavesRejects]_(EthView!vars)
  BY StepIsSeenFromEthereum DEF NodeInv
<1> QED
  BY NodeInit, NodeStep, EthViewInit, <1>1, <1>2, <1>3, PTL DEF Spec, EthNodeSpec

-----------------------------------------------------------------------------
(* The Ethereum rows, with both chains on one database *)

\* The signer holds Ethereum requests that are in the table.
EthHeld ==
    /\ \A r \in sTodo \cap EthRequests : Stored(r)
    /\ sPc \in {"send", "mark"} => Stored(sCur)

(***************************************************************************)
(* Everything but the Ethereum cacher is beside it: the Waves cacher       *)
(* rejects rows that are there, and none of the others leaves more than a  *)
(* status behind.                                                          *)
(***************************************************************************)
LEMMA NodeWalks ==
    ASSUME Types, ListStored, EthHeld, [Next]_vars
    PROVE  WalkNext
<1> USE NodeConstants DEF WalkNext
<1>r. EthRequests \subseteq DOMAIN requests
  BY DEF Types, RequestsTypeOK
<1>1. CASE EthPass
  BY <1>1 DEF EthPass
<1>2. CASE WavesPass
  <2>1. ASSUME NEW r \in EthRequests
        PROVE  \/ requests'[r] = requests[r]
               \/ /\ Stored(r) /\ requests'[r].createdAt = requests[r].createdAt
                  /\ requests'[r].status = Rejected
    <3>1. r \in RequestIds /\ r \notin WavesRequests
      OBVIOUS
    <3>2. \/ requests'[r] = requests[r]
          \/ Stored(r) /\ requests'[r] = WithStatus(requests[r], Rejected)
      BY <1>2, <3>1, WavesPassWrites DEF WavesPass
    <3>3. requests[r] \in Row
      BY <3>1 DEF Types, RequestsTypeOK
    <3> QED
      BY <3>2, <3>3 DEF WithStatus, Row
  <2> QED
    BY <1>2, <2>1 DEF WavesPass, ethPart, cacherVars, Beside
<1>3. CASE SignerRound
  <2>1. SignerStep /\ UNCHANGED cacherVars
    BY <1>3 DEF SignerRound, InRound
  <2>2. CASE SendChangeStatus
    <3>1. ChainMoves /\ UNCHANGED requests
      BY <2>2 DEF SendChangeStatus, ChainMoves, Types, SignerTypeOK
    <3> QED
      BY <2>1, <3>1 DEF ChainStep
  <2>3. CASE ~SendChangeStatus
    <3>1. UNCHANGED ethVars
      BY <2>1, <2>3
      DEF SignerStep, BeginSign, BeginGather, BeginFinalize, BeginPhase, AbandonPhase,
          SignRequest, SkipSign, GatherSigns, GatherFrom, CheckRequest, SendFails, MarkRow
    <3>2. UNCHANGED requests \/ (sPc = "mark" /\ SaveStatus(sCur, Success))
      BY <2>1, SignerWrites
    <3>3. ASSUME NEW r \in EthRequests
          PROVE  \/ requests'[r] = requests[r]
                 \/ /\ Stored(r) /\ requests'[r].createdAt = requests[r].createdAt
                    /\ requests'[r].status = Success
      BY <1>r, <3>2, <3>3 DEF SaveStatus, WithStatus, EthHeld
    <3> QED
      BY <2>1, <3>1, <3>3 DEF Beside, cacherVars
  <2> QED
    BY <2>2, <2>3
<1>4. CASE WavesPhase
  <2>1. ASSUME NEW r \in EthRequests PROVE requests'[r] = requests[r]
    <3>1. r \notin WavesRequests
      OBVIOUS
    <3> QED
      BY <1>4, <1>r, <3>1, FinalizerWrites DEF WavesPhase, Finalizer!SaveStatus
  <2> QED
    BY <1>4, <2>1 DEF WavesPhase, InWavesPhase, ethPart, cacherVars, Beside
<1>5. CASE EthSide
  BY <1>5 DEF EthSide, ChainMoves, ChainStep
<1>6. CASE WavesSide
  BY <1>6 DEF WavesSide, ethPart, cacherVars, Beside
<1>7. ASSUME NEW r \in RequestIds, NEW v \in Validators, PeerSigns(r, v) PROVE Beside
  BY <1>7 DEF PeerSigns, ethPart, cacherVars, Beside
<1>8. CASE Restart
  BY <1>8 DEF Restart, CacherReset, Beside
<1>9. CASE UNCHANGED vars
  BY <1>9 DEF vars, ethPart, cacherVars, Beside
<1> QED
  BY <1>1, <1>2, <1>3, <1>4, <1>5, <1>6, <1>7, <1>8, <1>9 DEF Next, Step, Environment, Panic

LEMMA EthHeldStep ==
    ASSUME Types, ListStored, EthHeld, WalkInv, [Next]_vars
    PROVE  EthHeld'
<1>1. \A r \in EthRequests : Stored(r) => Stored(r)'
  BY NodeWalks, RowsStay
<1>2. \A r \in NewRows : Stored(r)
  BY DEF NewRows, Stored, NoRow
<1>3. ASSUME NEW r \in sTodo' \cap EthRequests PROVE Stored(r)
  BY <1>2, <1>3
  DEF EthHeld, Next, Step, EthPass, WavesPass, SignerRound, WavesPhase, InWavesPhase, Environment,
      EthSide, WavesSide, PeerSigns, Panic, Restart, SignerReset, vars, signPart, signerVars,
      SignerStep, BeginSign, BeginGather, BeginFinalize, BeginPhase, AbandonPhase, SignRequest,
      SkipSign, Visited, GatherSigns, GatherFrom, CheckRequest, SendChangeStatus, SendFails, MarkRow
<1>4. ASSUME sPc' \in {"send", "mark"} PROVE sCur' \in EthRequests /\ Stored(sCur')
  BY <1>4
  DEF EthHeld, Types, SignerTypeOK, Next, Step, EthPass, WavesPass, SignerRound, WavesPhase,
      InWavesPhase, Environment, EthSide, WavesSide, PeerSigns, Panic, Restart, SignerReset, vars,
      signPart, signerVars, SignerStep, BeginSign, BeginGather, BeginFinalize, BeginPhase,
      AbandonPhase, SignRequest, SkipSign, Visited, GatherSigns, GatherFrom, CheckRequest,
      SendChangeStatus, SendFails, MarkRow
<1> QED
  BY <1>1, <1>3, <1>4 DEF EthHeld

EthRowsInv == NodeInv /\ WalkInv /\ EthHeld

LEMMA EthRowsAlways ==
    ASSUME MaxReorg <= BlockInterval
    PROVE  Spec => []EthRowsInv
<1>1. Init => WalkInv /\ EthHeld
  BY WalkInit DEF Init, SignerInit, EthHeld
<1>2. ASSUME EthRowsInv, [Next]_vars PROVE EthRowsInv'
  <2>1. NodeInv' /\ EthHeld'
    BY <1>2, NodeStep, EthHeldStep DEF EthRowsInv, NodeInv
  <2>2. CacherTypes'
    BY <2>1 DEF NodeInv, Types, CacherTypes
  <2>3. WalkInv'
    BY <1>2, <2>2, NodeWalks, WalkStep DEF EthRowsInv, NodeInv
  <2> QED
    BY <2>1, <2>3 DEF EthRowsInv
<1> QED
  BY <1>1, <1>2, NodeInit, PTL DEF Spec, EthRowsInv

(***************************************************************************)
(* Whatever the Waves cacher, the signer and restarts do to the table that *)
(* all of them share: an Ethereum row is backed by a settled entry.        *)
(***************************************************************************)
THEOREM NodeEthRowsAreSettled ==
    ASSUME MaxReorg <= BlockInterval
    PROVE  Spec => []Settled
<1>1. EthRowsInv => Settled
  BY DEF EthRowsInv, WalkInv
<1> QED
  BY EthRowsAlways, <1>1, PTL

(***************************************************************************)
(* And no Ethereum request enters the table while an older one is past its *)
(* time: the "break" of cacher/eth.go decides that, whoever else writes.   *)
(***************************************************************************)
THEOREM NodeEntersInOrder ==
    ASSUME MaxReorg <= BlockInterval
    PROVE  Spec => [][EntersInOrder]_vars
<1>1. EthRowsInv /\ [Next]_vars => [EntersInOrder]_vars
  BY NodeWalks, EntryEffect DEF EthRowsInv, NodeInv
<1> QED
  BY EthRowsAlways, <1>1, PTL DEF Spec

-----------------------------------------------------------------------------
(* Where the Waves chain is the lower one *)

\* What makes a row of Ethereum Rejected: one of the two closing UPDATEs.
LEMMA EthRowRejected ==
    ASSUME Types, ListStored, EthHeld, HeightRead, WalkInv, [Next]_vars,
           NEW r \in EthRequests, requests'[r].status = Rejected
    PROVE  \/ requests'[r] = requests[r]
           \/ HandleEthLogs /\ requests'[r].createdAt + RqTimeout <= cHeight
           \/ UNCHANGED ethVars /\ requests'[r].createdAt + RqTimeout <= wavesHeight
<1> USE NodeConstants
<1>r. r \in DOMAIN requests /\ r \notin WavesRequests /\ requests[r] \in Row
  BY DEF Types, RequestsTypeOK
<1>1. CASE EthPass
  BY <1>1, CacherRejects DEF EthPass
<1>2. CASE WavesPass
  <2>1. UNCHANGED ethVars
    BY <1>2 DEF WavesPass, ethPart
  <2>2. \/ requests'[r] = requests[r]
        \/ /\ requests'[r] = WithStatus(requests[r], Rejected)
           /\ requests[r].createdAt + RqTimeout <= wavesHeight
    BY <1>2, WavesPassRejects DEF WavesRejects
  <2>3. WithStatus(requests[r], Rejected).createdAt = requests[r].createdAt
    BY <1>r DEF WithStatus, Row
  <2> QED
    BY <2>1, <2>2, <2>3
<1>3. CASE SignerRound
  BY <1>3, <1>r, SignerWrites DEF SignerRound, SaveStatus, WithStatus
<1>4. CASE WavesPhase
  BY <1>4, <1>r, FinalizerWrites DEF WavesPhase, Finalizer!SaveStatus
<1>5. CASE ~EthPass /\ ~WavesPass /\ ~SignerRound /\ ~WavesPhase
  BY <1>5 DEF Next, Step, Environment, EthSide, WavesSide, PeerSigns, Panic, Restart, vars
<1> QED
  BY <1>1, <1>2, <1>3, <1>4, <1>5

\* As long as WavesBehind: a Rejected row is overdue on its own chain.
OverdueInv == \A r \in EthRequests :
    requests[r].status = Rejected => requests[r].createdAt + RqTimeout <= ethHeight

LEMMA OverdueStep ==
    ASSUME EthRowsInv, EthRowsInv', HeightRead, OverdueInv, WavesBehind, [Next]_vars
    PROVE  OverdueInv'
<1> USE NodeConstants DEF EthRowsInv, NodeInv
<1> SUFFICES ASSUME NEW r \in EthRequests, requests'[r].status = Rejected
             PROVE  requests'[r].createdAt + RqTimeout <= ethHeight'
  BY DEF OverdueInv
<1>1. /\ ethHeight \in Nat /\ ethHeight' \in Nat /\ cHeight \in Nat /\ cHeight <= ethHeight
      /\ wavesHeight \in Nat /\ wavesHeight <= ethHeight /\ requests'[r].createdAt \in Nat
  BY ListTypes
  DEF Types, EthTypeOK, CacherTypeOK, RequestsTypeOK, Row, WalkInv, HeadInv, WavesBehind
<1>2. ethHeight <= ethHeight'
  <2>1. CASE UNCHANGED ethVars
    BY <1>1, <2>1 DEF ethVars
  <2>2. CASE ChainMoves
    BY <2>2, ChainEffect DEF WalkInv, Types
  <2>3. HandleEthLogs => UNCHANGED ethVars
    BY CacherType DEF Types
  <2> QED
    BY <2>1, <2>2, <2>3, NodeWalks DEF WalkNext, ChainStep, Beside
<1>3. requests'[r] = requests[r] => requests'[r].createdAt + RqTimeout <= ethHeight
  BY DEF OverdueInv
<1> QED
  BY <1>1, <1>2, <1>3, EthRowRejected

(***************************************************************************)
(* In a validator with both chains, too, what the table has given up is    *)
(* finalized only in a block at most ContractTimeout - RqTimeout above the *)
(* head, while the Waves chain is not the higher one.  Where it is, its    *)
(* cacher's UPDATE gives rows up too early.                                *)
(***************************************************************************)
THEOREM NodeLateSuccessIsBounded ==
    ASSUME MaxReorg <= BlockInterval
    PROVE  Spec /\ []WavesBehind => LateSuccessIsBounded
<1>1. Init => HeightRead /\ OverdueInv
  BY NodeConstants
  DEF Init, Cacher!WavesInit, Cacher!WavesCacherInit, HeightRead, RequestsInit, NoRow, OverdueInv
<1>2. EthRowsInv /\ HeightRead /\ [Next]_vars => HeightRead'
  BY HeightReadStep DEF EthRowsInv, NodeInv
<1>3. EthRowsInv /\ EthRowsInv' /\ HeightRead /\ OverdueInv /\ WavesBehind /\ [Next]_vars => OverdueInv'
  BY OverdueStep
<1>4. EthRowsInv /\ OverdueInv /\ [Next]_vars =>
        [\A r \in EthRequests :
           /\ requests[r].status = Rejected
           /\ ethContract[r].status # Success /\ ethContract'[r].status = Success
           => ethContract'[r].changed + RqTimeout <= ethHeight + ContractTimeout]_vars
  <2> SUFFICES ASSUME EthRowsInv, OverdueInv, [Next]_vars, NEW r \in EthRequests,
                      requests[r].status = Rejected, ethContract[r].status # Success,
                      ethContract'[r].status = Success
               PROVE  ethContract'[r].changed + RqTimeout <= ethHeight + ContractTimeout
    OBVIOUS
  <2>1. Stored(r) /\ requests[r].createdAt + RqTimeout <= ethHeight
    BY DEF Stored, NoRow, OverdueInv
  <2>2. requests[r].createdAt \in Nat /\ ethHeight \in Nat
    BY NodeConstants DEF EthRowsInv, NodeInv, Types, EthTypeOK, RequestsTypeOK, Row
  <2>3. /\ ethContract'[r].changed \in Nat
        /\ ethContract'[r].changed <= requests[r].createdAt + ContractTimeout
    BY <2>1, NodeWalks, SuccessEffect DEF EthRowsInv, NodeInv
  <2> QED
    BY <2>1, <2>2, <2>3, EthAssumption, CacherAssumption
<1> QED
  BY EthRowsAlways, <1>1, <1>2, <1>3, <1>4, PTL DEF Spec, LateSuccessIsBounded

\* An entry is of a block after those no reorganisation replaces.
EntryHeights == \A r \in EthRequests : Logged(r) => EthStart < Height(r) + MaxReorg

LEMMA EntryHeightsStep ==
    ASSUME EthRowsInv, EntryHeights, [Next]_vars
    PROVE  EntryHeights'
<1> USE EthAssumption DEF EthRowsInv, NodeInv, Types
<1>1. CASE UNCHANGED ethVars
  BY <1>1 DEF ethVars, EntryHeights, Logged, Height
<1>2. CASE ChainMoves
  <2> SUFFICES ASSUME NEW r \in EthRequests, Logged(r)'
               PROVE  EthStart < Height(r)' + MaxReorg
    BY DEF EntryHeights
  <2>1. /\ ethHeight \in Nat /\ EthStart \in Nat /\ cHeight \in Nat
        /\ Height(r)' \in Nat /\ Height(r) \in Nat /\ EthStart <= cHeight /\ cHeight <= ethHeight
    <3>1. EthTypeOK'
      BY <1>2, ChainType DEF ChainMoves
    <3> QED
      BY <3>1 DEF EthTypeOK, CacherTypeOK, Entry, Height, WalkInv, HeadInv
  <2>2. Height(r)' = Height(r) \/ Height(r)' = 0 \/ Height(r)' + MaxReorg > ethHeight
    BY <1>2, ChainEffect DEF WalkInv
  <2> QED
    BY <2>1, <2>2 DEF EntryHeights, Logged, Height
<1> QED
  BY <1>1, <1>2, NodeWalks, CacherType DEF WalkNext, ChainStep, Beside

(***************************************************************************)
(* And as long as no height of the Waves chain reaches the last block of a *)
(* request's time, the two chains do not disturb each other at all: seen   *)
(* from Ethereum the validator is one of those EthNode describes, without  *)
(* exception.                                                              *)
(***************************************************************************)
THEOREM NodeIsEthNode ==
    ASSUME MaxReorg <= BlockInterval
    PROVE  Spec /\ []WavesFarBehind => EthView!Spec
<1>1. Init => HeightRead /\ EntryHeights
  BY NodeConstants
  DEF Init, Cacher!WavesInit, Cacher!WavesCacherInit, HeightRead, EthInit, NoEntry, EntryHeights,
      Logged
<1>2. EthRowsInv /\ HeightRead /\ [Next]_vars => HeightRead'
  BY HeightReadStep DEF EthRowsInv, NodeInv
<1>3. EthRowsInv /\ EntryHeights /\ [Next]_vars => EntryHeights'
  BY EntryHeightsStep
<1>4. ASSUME EthRowsInv, HeightRead, EntryHeights, WavesFarBehind, [Next]_vars
      PROVE  [EthView!Next]_(EthView!vars)
  <2>1. [EthView!Next \/ WavesRejects]_(EthView!vars)
    BY <1>4, StepIsSeenFromEthereum DEF EthRowsInv, NodeInv
  <2>2. ASSUME WavesRejects PROVE UNCHANGED EthView!vars
    <3>1. ASSUME NEW r \in EthRequests PROVE requests'[r] = requests[r]
      <4>1. requests[r] \in Row /\ wavesHeight \in Nat /\ EthStart \in Nat /\ RqTimeout \in Nat
        BY <1>4, NodeConstants, ListTypes, EthAssumption
        DEF EthRowsInv, NodeInv, Types, RequestsTypeOK
      <4>2. ASSUME Stored(r) PROVE ~(requests[r].createdAt + RqTimeout <= wavesHeight)
        <5>1. EthStart < requests[r].createdAt + MaxReorg
          BY <1>4, <4>2 DEF EthRowsInv, WalkInv, Settled, EntryHeights, Height
        <5> QED
          BY <1>4, <4>1, <5>1, EthAssumption DEF WavesFarBehind, Row
      <4> QED
        BY <2>2, <4>2 DEF WavesRejects
    <3>2. UNCHANGED EthTable
      BY <3>1 DEF EthTable
    <3>3. UNCHANGED <<ethVars, cacherVars, sPc, sCur, sTodo, signs, peerSigned>>
      BY <2>2 DEF WavesRejects, ethPart, signPart, signerVars
    <3> QED
      BY <3>2, <3>3, QuietForEthereum DEF EthSigns, EthPeerSigned, EthTodo
  <2> QED
    BY <2>1, <2>2
<1> QED
  BY EthRowsAlways, EthViewInit, <1>1, <1>2, <1>3, <1>4, PTL DEF Spec, EthView!Spec

-----------------------------------------------------------------------------
(* One row per validator, and quorums of different validators *)

LEMMA OneSignStep ==
    ASSUME StoreReadsFail = FALSE, OneSignPerValidator, [Next]_vars
    PROVE  OneSignPerValidator'
<1>1. CASE UNCHANGED signs
  BY <1>1 DEF OneSignPerValidator
<1>2. ASSUME NEW r \in sTodo, NEW S \in SUBSET Validators,
             \A v \in S : SignsOf(r, v) = {},
             signs' = signs \cup {NewSign(r, v) : v \in S}
      PROVE  OneSignPerValidator'
  <2>1. ASSUME NEW s \in signs, NEW v \in S
        PROVE  ~(s.rq = r /\ s.validator = v)
    BY <1>2, <2>1 DEF SignsOf
  <2>2. \A v : NewSign(r, v).rq = r /\ NewSign(r, v).validator = v
    BY DEF NewSign
  <2>3. ASSUME NEW s \in signs', s \notin signs
        PROVE  \E v \in S : s = NewSign(r, v)
    BY <1>2, <2>3
  <2>4. ASSUME NEW s \in signs', NEW t \in signs', s.rq = t.rq, s.validator = t.validator,
               s \notin signs
        PROVE  s = t
    <3>1. PICK v \in S : s = NewSign(r, v)
      BY <2>3, <2>4
    <3>2. t \notin signs
      BY <2>1, <2>2, <2>4, <3>1
    <3>3. PICK w \in S : t = NewSign(r, w)
      BY <2>3, <3>2
    <3> QED
      BY <2>2, <2>4, <3>1, <3>3
  <2>5. ASSUME NEW s \in signs', NEW t \in signs', s.rq = t.rq, s.validator = t.validator
        PROVE  s = t
    BY <2>4, <2>5 DEF OneSignPerValidator
  <2> QED
    BY <2>5 DEF OneSignPerValidator
<1> QED
  BY <1>1, <1>2, SignsStep

(***************************************************************************)
(* The table of signatures has one row per validator whichever chain the   *)
(* requests are of, as long as no lookup fails unnoticed.                  *)
(***************************************************************************)
THEOREM NodeSignsOnce ==
    ASSUME StoreReadsFail = FALSE
    PROVE  Spec => []OneSignPerValidator
<1>1. Init => OneSignPerValidator
  BY DEF Init, SignaturesInit, OneSignPerValidator
<1>2. OneSignPerValidator /\ [Next]_vars => OneSignPerValidator'
  BY OneSignStep
<1> QED
  BY <1>1, <1>2, PTL DEF Spec

\* With one row per validator, counting rows is counting validators.
LEMMA RowsAreSigners ==
    ASSUME SignsOwned, OneSignPerValidator, NEW r, NEW n \in Nat,
           Cardinality(SignRows(r)) >= n
    PROVE  Cardinality(Signers(r)) >= n
<1> DEFINE S == SignRows(r)
           T == Signers(r)
           f == [s \in S |-> s.validator]
<1>1. IsFiniteSet(T)
  <2>1. T \in SUBSET Validators
    BY DEF Signers
  <2> QED
    BY <2>1, SignerAssumption, FS_Subset
<1>2. f \in Injection(S, T)
  <2>1. \A s \in S : s \in signs /\ s.rq = r /\ s.validator \in Validators
    BY DEF SignRows, SignsOwned
  <2>2. \A s \in S : s.validator \in T
    BY <2>1 DEF Signers, SignsOf
  <2>3. \A s, t \in S : s.validator = t.validator => s = t
    BY <2>1 DEF OneSignPerValidator
  <2> HIDE DEF S, T
  <2> QED
    BY <2>2, <2>3 DEF Injection, IsInjective
<1>3. IsFiniteSet(S) /\ Cardinality(S) <= Cardinality(T)
  <2> HIDE DEF S, T, f
  <2> QED
    BY <1>1, <1>2, FS_Injection
<1>4. Cardinality(S) >= n
  OBVIOUS
<1>5. Cardinality(S) \in Nat /\ Cardinality(T) \in Nat
  BY <1>1, <1>3, FS_CardinalityType
<1> HIDE DEF S, T, f
<1>6. Cardinality(T) >= n
  BY <1>3, <1>4, <1>5
<1> QED
  BY <1>6 DEF T

\* Who has signed stays one who has signed.
LEMMA SignersGrow ==
    ASSUME [Next]_vars, NEW r, NEW n \in Nat, Cardinality(Signers(r)) >= n
    PROVE  Cardinality(Signers(r)') >= n
<1> DEFINE S == Signers(r)
           T == Signers(r)'
<1>1. S \in SUBSET T /\ T \in SUBSET Validators
  BY SignsGrow DEF Signers, SignsOf
<1>2. Cardinality(S) >= n
  OBVIOUS
<1> HIDE DEF S, T
<1>3. IsFiniteSet(S) /\ IsFiniteSet(T) /\ Cardinality(S) <= Cardinality(T)
  BY <1>1, SignerAssumption, FS_Subset
<1>4. Cardinality(T) >= n
  BY <1>2, <1>3, FS_CardinalityType
<1> QED
  BY <1>4 DEF T

\* What the signer sends, or has sent and waits for.
Sent(r) ==
    \/ sPc = "send" /\ sCur = r
    \/ r \in wavesPool
    \/ fPc \in {"wait", "mark"} /\ Finalizer!First(r)

Counted(r) == Cardinality(Signers(r)) >= BftCoefficient

\* What a phase begins to send has a quorum of rows.
LEMMA SentStep ==
    ASSUME Types, [Next]_vars, NEW r, Sent(r)'
    PROVE  Sent(r) \/ Cardinality(SignRows(r)) >= BftCoefficient
<1> USE DEF Sent
<1>f. UNCHANGED fList => (Finalizer!First(r)' <=> Finalizer!First(r))
  BY DEF Finalizer!First
<1>1. CASE SignerRound
  <2>1. UNCHANGED <<fList, wavesPool>> /\ fPc' \in {"list", fPc}
    BY <1>1 DEF SignerRound, InRound
  <2>2. ASSUME sPc' = "send", sCur' = r
        PROVE  Sent(r) \/ Cardinality(SignRows(r)) >= BftCoefficient
    BY <1>1, <2>2
    DEF SignerRound, SignerStep, BeginSign, BeginGather, BeginFinalize, BeginPhase, AbandonPhase,
        SignRequest, SkipSign, GatherSigns, GatherFrom, CheckRequest, SendChangeStatus, SendFails,
        MarkRow, HasQuorum
  <2> QED
    BY <1>f, <2>1, <2>2
<1>2. CASE WavesPhase
  <2>1. UNCHANGED <<sPc, sCur>> /\ Finalizer!FinalizeWaves
    BY <1>2 DEF WavesPhase, InWavesPhase, signerVars
  <2>2. ASSUME NEW q \in WavesRequests, Finalizer!SubmitInvoke(q)
        PROVE  Sent(r) \/ Cardinality(SignRows(r)) >= BftCoefficient
    <3>1. Finalizer!First(q) /\ wavesPool' = wavesPool \cup {q}
          /\ Cardinality(SignRows(q)) >= BftCoefficient
      BY <2>2, SameCardinality
      DEF Finalizer!SubmitInvoke, Finalizer!Turn, Finalizer!HasWavesQuorum, Finalizer!SignRows,
          SignRows
    <3>2. fPc' = "off" \/ UNCHANGED fList
      BY <2>2 DEF Finalizer!SubmitInvoke, Finalizer!FinalizerReset
    <3>3. CASE r = q
      BY <3>1, <3>3
    <3>4. CASE r # q
      <4>1. ~Finalizer!First(r)
        BY <3>1, <3>4, OneFirst
      <4> QED
        BY <1>f, <2>1, <3>1, <3>2, <3>4, <4>1
    <3> QED
      BY <3>3, <3>4
  <2>3. ASSUME NEW q \in WavesRequests, Finalizer!TxConfirmed(q) PROVE Sent(r)
    BY <1>f, <2>1, <2>3 DEF Finalizer!TxConfirmed
  <2>4. ASSUME ~\E q \in WavesRequests : Finalizer!SubmitInvoke(q) \/ Finalizer!TxConfirmed(q)
        PROVE  UNCHANGED wavesPool /\ fPc' \notin {"wait", "mark"}
    BY <2>1, <2>4
    DEF Finalizer!FinalizeWaves, Finalizer!ListRequests, Finalizer!LoadState,
        Finalizer!MarkFinalized, Finalizer!SkipWithoutQuorum, Finalizer!MarkConfirmed,
        Finalizer!EndWavesPhase, Finalizer!FinalizerReset, Finalizer!Turn
  <2> QED
    BY <2>1, <2>2, <2>3, <2>4
<1>3. CASE Restart
  BY <1>3 DEF Restart, SignerReset, Finalizer!FinalizerReset
<1>4. CASE ~SignerRound /\ ~WavesPhase /\ ~Restart
  <2>1. UNCHANGED <<sPc, sCur, fPc, fList>> /\ wavesPool' \subseteq wavesPool
    BY <1>4
    DEF Next, Step, EthPass, WavesPass, Environment, EthSide, WavesSide, PeerSigns, Panic, vars,
        signPart, signerVars, finalizerVars, Finalizer!MineInvoke, Finalizer!DropInvoke
  <2> QED
    BY <1>f, <2>1
<1> QED
  BY <1>1, <1>2, <1>3, <1>4

(***************************************************************************)
(* What the signer sends to either chain has been signed by BftCoefficient *)
(* different validators, as long as no lookup fails unnoticed: through     *)
(* restarts, answers that were lost, and invocations that wait in a pool.  *)
(***************************************************************************)
THEOREM NodeSentHasQuorum ==
    ASSUME StoreReadsFail = FALSE
    PROVE  Spec => []SentHasQuorum
<1> DEFINE Inv == NodeInv /\ OneSignPerValidator /\ \A r \in RequestIds : Sent(r) => Counted(r)
<1>1. Init => Inv
  BY NodeInit
  DEF Init, SignaturesInit, SignerInit, Finalizer!FinalizerInit, OneSignPerValidator, Sent
<1>2. Inv /\ [Next]_vars => Inv'
  <2> SUFFICES ASSUME Inv, [Next]_vars, NEW r \in RequestIds, Sent(r)' PROVE Counted(r)'
    BY NodeStep, OneSignStep
  <2>1. Counted(r)
    BY SentStep, RowsAreSigners, SignerAssumption DEF NodeInv, Types, Counted
  <2> QED
    BY <2>1, SignersGrow, SignerAssumption DEF Counted
<1>3. Inv => SentHasQuorum
  <2> SUFFICES ASSUME Inv, NEW r \in RequestIds, Sent(r), NEW v \in Signers(r) PROVE Serves(r, v)
    BY DEF SentHasQuorum, Sent, Counted
  <2>1. PICK s \in signs : s.rq = r /\ s.validator = v
    BY DEF Signers, SignsOf
  <2> QED
    BY <2>1 DEF NodeInv, RowsAreSigned
<1> QED
  BY <1>1, <1>2, <1>3, PTL DEF Spec
=============================================================================
