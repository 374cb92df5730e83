----------------------------- MODULE WavesProofs -----------------------------
(***************************************************************************)
(* Proofs of the safety properties of WavesMirror and WavesHistory.        *)
(***************************************************************************)
EXTENDS WavesHistory, TLAPS

USE DEF None, New, Rejected, Success, Returned, Status

-----------------------------------------------------------------------------
(* Type correctness *)

(***************************************************************************)
(* A function on 1 .. n is a sequence.                                     *)
(***************************************************************************)
LEMMA FunctionIsSeq ==
    ASSUME NEW S, NEW n \in Nat, NEW f \in [1 .. n -> S]
    PROVE  f \in Seq(S) /\ Len(f) = n
OBVIOUS

LEMMA SeqElements ==
    ASSUME NEW S, NEW s \in Seq(S)
    PROVE  Len(s) \in Nat /\ DOMAIN s = 1 .. Len(s) /\ \A i \in 1 .. Len(s) : s[i] \in S
OBVIOUS

(***************************************************************************)
(* Beside its type: a pass has a position only once it walks.              *)
(***************************************************************************)
TypeInv == TypeOK /\ (wPc \in {"state", "height"} => wPos = 0)

(***************************************************************************)
(* An entry whose status change is undone is as it was created.            *)
(***************************************************************************)
LEMMA UndoneEntry ==
    ASSUME NEW e \in WavesEntry
    PROVE  /\ [e EXCEPT !.status = New, !.changed = e.height] \in WavesEntry
           /\ [e EXCEPT !.status = New, !.changed = e.height].rq = e.rq
           /\ [e EXCEPT !.status = New, !.changed = e.height].height = e.height
<1> DEFINE x == [e EXCEPT !.status = New]
<1>1. New \in Status /\ e.height \in Nat
  BY DEF WavesEntry
<1> HIDE DEF New, Status
<1>2. x \in WavesEntry /\ x.rq = e.rq /\ x.height = e.height
  BY <1>1 DEF WavesEntry
<1> QED
  BY <1>1, <1>2 DEF WavesEntry

LEMMA ChainTypeStep ==
    ASSUME WavesTypeOK,
           WavesUsers \/ \E r \in WavesRequests : WavesChange(r, Success)
    PROVE  WavesTypeOK'
<1> USE WavesAssumption DEF WavesTypeOK
<1>1. CASE WavesBlock
  BY <1>1 DEF WavesBlock
<1>2. CASE WavesRollback
  <2>1. PICK depth \in 1 .. MaxWavesReorg, n \in 0 .. Len(wavesState) :
          /\ wavesState' = [i \in 1 .. n |->
                LET e == wavesState[i] IN
                IF e.changed > wavesHeight - depth
                THEN [e EXCEPT !.status = New, !.changed = e.height] ELSE e]
          /\ UNCHANGED wavesHeight
    BY <1>2 DEF WavesRollback
  <2>2. n \in Nat /\ \A i \in 1 .. n : wavesState[i] \in WavesEntry
    BY SeqElements
  <2>3. ASSUME NEW i \in 1 .. n PROVE wavesState'[i] \in WavesEntry
    <3>1. wavesState[i] \in WavesEntry
      BY <2>2
    <3> DEFINE e == wavesState[i]
    <3>2. wavesState'[i] \in {e, [e EXCEPT !.status = New, !.changed = e.height]}
      BY <2>1
    <3> QED
      BY <3>1, <3>2, UndoneEntry
  <2>4. wavesState' \in [1 .. n -> WavesEntry]
    BY <2>1, <2>3
  <2> QED
    BY <2>1, <2>2, <2>4, FunctionIsSeq
<1>3. ASSUME NEW r \in WavesRequests, WavesCreate(r) PROVE WavesTypeOK'
  BY <1>3 DEF WavesCreate, WavesEntry
<1>4. ASSUME NEW r \in WavesRequests, NEW s \in Status, WavesChange(r, s) PROVE WavesTypeOK'
  <2>1. ASSUME NEW i \in DOMAIN wavesState PROVE wavesState'[i] \in WavesEntry
    <3>1. wavesState[i] \in WavesEntry
      BY SeqElements
    <3> QED
      BY <1>4, <3>1 DEF WavesChange, WavesEntry
  <2>2. wavesState' \in [1 .. Len(wavesState) -> WavesEntry]
    BY <1>4, <2>1, SeqElements DEF WavesChange
  <2> QED
    BY <1>4, <2>2, FunctionIsSeq, SeqElements DEF WavesChange
<1> QED
  BY <1>1, <1>2, <1>3, <1>4 DEF WavesUsers

LEMMA WavesTypeStep ==
    ASSUME TypeInv, [Next]_vars
    PROVE  TypeInv'
<1> USE WavesCacherAssumption
<1> USE DEF TypeInv, TypeOK, RequestsTypeOK, WavesCacherTypeOK
<1>1. CASE ReadState
  <2>1. wState' \in [1 .. Len(wavesState) -> Known]
    <3>1. \A i \in DOMAIN wavesState : wavesState[i] \in WavesEntry
      BY SeqElements DEF WavesTypeOK
    <3>2. DOMAIN wavesState = 1 .. Len(wavesState)
      BY SeqElements DEF WavesTypeOK
    <3> QED
      BY <1>1, <3>1, <3>2 DEF ReadState, WavesEntry, Known
  <2>2. wState' \in Seq(Known) /\ Len(wState') \in Nat
    BY <2>1, FunctionIsSeq, SeqElements DEF WavesTypeOK
  <2> QED
    BY <1>1, <2>2 DEF ReadState, wavesVars, WavesTypeOK
<1>2. CASE ReadHeight
  BY <1>2 DEF ReadHeight, wavesVars, WavesTypeOK
<1>3. CASE BreakAtExpired
  BY <1>3 DEF BreakAtExpired, wavesVars, WavesTypeOK
<1>4. CASE Refresh
  <2>1. wState[wPos] \in Known
    BY <1>4 DEF Refresh, AtCandidate, AtRequest
  <2> QED
    BY <1>4, <2>1
    DEF Refresh, SaveStatus, WithStatus, Row, Known, wavesVars, wCacherVars, WavesTypeOK
<1>5. CASE StoreMissing
  <2>1. wState[wPos] \in Known /\ wPos - 1 \in 0 .. Len(wState) /\ wPc = "walk"
    BY <1>5 DEF StoreMissing, AtCandidate, AtRequest
  <2> QED
    BY <1>5, <2>1 DEF StoreMissing, Row, Known, wavesVars, WavesTypeOK
<1>6. CASE RejectRows
  BY <1>6 DEF RejectRows, WavesCacherReset, WithStatus, Row, wavesVars, WavesTypeOK
<1>7. CASE FailWavesPass
  BY <1>7 DEF FailWavesPass, WavesCacherReset, wavesVars, WavesTypeOK
<1>8. CASE Others
  <2>1. CASE /\ WavesUsers \/ \E r \in WavesRequests : WavesChange(r, Success)
             /\ UNCHANGED <<requests, wCacherVars>>
    BY <2>1, ChainTypeStep DEF wCacherVars
  <2>2. ASSUME NEW r \in WavesRequests, MarkWavesSuccess(r) PROVE TypeInv'
    BY <2>2
    DEF MarkWavesSuccess, SaveStatus, WithStatus, Row, wavesVars, wCacherVars, WavesTypeOK
  <2>3. CASE RestartWavesCacher
    BY <2>3 DEF RestartWavesCacher, WavesCacherReset, wavesVars, WavesTypeOK
  <2> QED
    BY <1>8, <2>1, <2>2, <2>3 DEF Others
<1>9. CASE UNCHANGED vars
  BY <1>9 DEF vars, wavesVars, wCacherVars, WavesTypeOK
<1> QED
  BY <1>1, <1>2, <1>3, <1>4, <1>5, <1>6, <1>7, <1>8, <1>9 DEF Next, HandleWavesState

LEMMA WavesTypeInit == Init => TypeInv
BY WavesAssumption
DEF Init, WavesInit, RequestsInit, WavesCacherInit, TypeInv, TypeOK, WavesTypeOK,
    RequestsTypeOK, WavesCacherTypeOK, Row, NoRow

(***************************************************************************)
(* The cacher, the chain and the rest of the program keep their types, for *)
(* any requests, heights and depth of rollbacks.                           *)
(***************************************************************************)
THEOREM WavesTypeCorrect == Spec => []TypeOK
<1>1. TypeInv => TypeOK
  BY DEF TypeInv
<1> QED
  BY <1>1, WavesTypeInit, WavesTypeStep, PTL DEF Spec

-----------------------------------------------------------------------------
(* What the chain does to the contract's list *)

Distinct(s) == \A i, j \in DOMAIN s : s[i].rq = s[j].rq => i = j

\* The contract still has the request of e, created in the same block.
InContract(e) ==
    \E i \in DOMAIN wavesState : wavesState[i].rq = e.rq /\ wavesState[i].height = e.height

(***************************************************************************)
(* No request is listed twice, and none comes from before the first block. *)
(***************************************************************************)
ListInv ==
    /\ 0 < wavesHeight
    /\ Distinct(wavesState)
    /\ \A i \in DOMAIN wavesState : wavesState[i].height > 0

(***************************************************************************)
(* A rollback drops only requests of the blocks it replaces, and every     *)
(* other step of the chain drops none.                                     *)
(***************************************************************************)
LEMMA RollbackEffect ==
    ASSUME WavesTypeOK, ListInv, WavesRollback
    PROVE  /\ ListInv' /\ wavesHeight' = wavesHeight
           /\ \A e \in Known :
                InContract(e) /\ e.height + MaxWavesReorg <= wavesHeight => InContract(e)'
<1> USE WavesAssumption DEF WavesTypeOK, ListInv
<1>1. PICK depth \in 1 .. MaxWavesReorg, n \in 0 .. Len(wavesState) :
        /\ \A i \in DOMAIN wavesState : wavesState[i].height <= wavesHeight - depth <=> i <= n
        /\ wavesState' = [i \in 1 .. n |->
              LET e == wavesState[i] IN
              IF e.changed > wavesHeight - depth
              THEN [e EXCEPT !.status = New, !.changed = e.height] ELSE e]
        /\ UNCHANGED wavesHeight
  BY DEF WavesRollback
<1>l. /\ Len(wavesState) \in Nat /\ DOMAIN wavesState = 1 .. Len(wavesState)
      /\ \A i \in DOMAIN wavesState : wavesState[i] \in WavesEntry
  BY SeqElements
<1>2. n \in Nat /\ 1 .. n \subseteq DOMAIN wavesState /\ DOMAIN wavesState' = 1 .. n
  <2>1. DOMAIN wavesState' = 1 .. n
    BY <1>1
  <2> QED
    BY <1>l, <2>1
<1>3. ASSUME NEW i \in 1 .. n
      PROVE  wavesState'[i].rq = wavesState[i].rq /\ wavesState'[i].height = wavesState[i].height
  <2> DEFINE e == wavesState[i]
  <2>1. e \in WavesEntry
    BY <1>2, <1>l
  <2>2. wavesState'[i] \in {e, [e EXCEPT !.status = New, !.changed = e.height]}
    BY <1>1
  <2> QED
    BY <2>1, <2>2, UndoneEntry
<1>4. ListInv'
  <2>1. \A i, j \in 1 .. n : wavesState'[i].rq = wavesState'[j].rq => i = j
    BY <1>2, <1>3 DEF Distinct
  <2> QED
    BY <1>1, <1>2, <1>3, <2>1 DEF Distinct
<1>5. ASSUME NEW e \in Known, InContract(e), e.height + MaxWavesReorg <= wavesHeight
      PROVE  InContract(e)'
  <2>1. PICK i \in DOMAIN wavesState : wavesState[i].rq = e.rq /\ wavesState[i].height = e.height
    BY <1>5 DEF InContract
  <2>2. e.height \in Nat /\ e.height <= wavesHeight - depth
    BY <1>5 DEF Known
  <2>3. i \in 1 .. n
    <3>1. wavesState[i].height <= wavesHeight - depth
      BY <2>1, <2>2
    <3>2. i <= n
      BY <1>1, <3>1
    <3> QED
      BY <1>l, <3>2
  <2> QED
    BY <1>2, <1>3, <2>1, <2>3 DEF InContract
<1> QED
  BY <1>1, <1>4, <1>5

LEMMA GrowthEffect ==
    ASSUME WavesTypeOK, ListInv,
           \/ WavesBlock
           \/ \E r \in WavesRequests : WavesCreate(r) \/ \E s \in Status : WavesChange(r, s)
    PROVE  /\ ListInv' /\ wavesHeight <= wavesHeight'
           /\ \A e \in Known : InContract(e) => InContract(e)'
<1> USE WavesAssumption DEF WavesTypeOK, ListInv
<1>1. CASE WavesBlock
  BY <1>1 DEF WavesBlock, Distinct, InContract
<1>2. ASSUME NEW r \in WavesRequests, WavesCreate(r)
      PROVE  /\ ListInv' /\ wavesHeight <= wavesHeight'
             /\ \A e \in Known : InContract(e) => InContract(e)'
  <2> DEFINE n == Len(wavesState)
             x == [rq |-> r, height |-> wavesHeight, status |-> New, changed |-> wavesHeight]
  <2>1. x \in WavesEntry
    BY DEF WavesEntry
  <2>2. /\ n \in Nat /\ DOMAIN wavesState = 1 .. n /\ DOMAIN wavesState' = 1 .. n + 1
        /\ wavesState'[n + 1] = x /\ \A i \in 1 .. n : wavesState'[i] = wavesState[i]
    BY <1>2, <2>1 DEF WavesCreate
  <2>3. \A i \in 1 .. n : wavesState[i].rq # r
    BY <1>2, <2>2 DEF WavesCreate, Listed
  <2>4. ListInv'
    BY <1>2, <2>2, <2>3 DEF Distinct, WavesCreate
  <2> QED
    BY <1>2, <2>2, <2>4 DEF InContract, WavesCreate
<1>3. ASSUME NEW r \in WavesRequests, NEW s \in Status, WavesChange(r, s)
      PROVE  /\ ListInv' /\ wavesHeight <= wavesHeight'
             /\ \A e \in Known : InContract(e) => InContract(e)'
  <2>1. DOMAIN wavesState' = DOMAIN wavesState /\ wavesHeight' = wavesHeight
    BY <1>3 DEF WavesChange
  <2>2. ASSUME NEW i \in DOMAIN wavesState
        PROVE  /\ wavesState'[i].rq = wavesState[i].rq
               /\ wavesState'[i].height = wavesState[i].height
    <3>1. wavesState[i] \in WavesEntry
      BY SeqElements
    <3> QED
      BY <1>3, <3>1 DEF WavesChange, WavesEntry
  <2> QED
    BY <2>1, <2>2 DEF Distinct, InContract
<1> QED
  BY <1>1, <1>2, <1>3

-----------------------------------------------------------------------------
(* A pass that comes to its UPDATE has left nothing out *)

(***************************************************************************)
(* What the cacher has read is a list without repetitions as well, so that *)
(* a row it writes is not written again for a later position.              *)
(***************************************************************************)
ReadInv ==
    /\ Distinct(wState)
    /\ \A i \in DOMAIN wState : wState[i].height > 0

MirrorInv == TypeInv /\ ListInv /\ ReadInv /\ CompletedPassIsComplete

LEMMA MirrorInit == Init => MirrorInv
<1>1. ASSUME Init PROVE ListInv /\ ReadInv /\ CompletedPassIsComplete
  BY <1>1, WavesAssumption
  DEF Init, WavesInit, WavesCacherInit, ListInv, ReadInv, Distinct, CompletedPassIsComplete
<1> QED
  BY <1>1, WavesTypeInit DEF MirrorInv

\* What a step that is none of the chain's leaves alone.
LEMMA QuietChain ==
    ASSUME ListInv, UNCHANGED wavesVars
    PROVE  ListInv' /\ wavesHeight' = wavesHeight /\ \A e \in Known : InContract(e) => InContract(e)'
BY DEF ListInv, wavesVars, InContract

LEMMA ChainKeepsList ==
    ASSUME MirrorInv, [Next]_vars
    PROVE  ListInv'
<1>1. WavesTypeOK /\ ListInv
  BY DEF MirrorInv, TypeInv, TypeOK
<1>2. CASE HandleWavesState
  BY <1>1, <1>2, QuietChain
  DEF HandleWavesState, ReadState, ReadHeight, BreakAtExpired, Refresh, StoreMissing,
      RejectRows, FailWavesPass
<1>3. CASE WavesUsers \/ \E r \in WavesRequests : WavesChange(r, Success)
  BY <1>1, <1>3, RollbackEffect, GrowthEffect DEF WavesUsers
<1>4. CASE UNCHANGED wavesVars
  BY <1>1, <1>4, QuietChain
<1> QED
  BY <1>2, <1>3, <1>4 DEF Next, Others, MarkWavesSuccess, RestartWavesCacher, vars

LEMMA PassKeepsRead ==
    ASSUME MirrorInv, [Next]_vars
    PROVE  ReadInv' /\ CompletedPassIsComplete'
<1> USE WavesCacherAssumption DEF MirrorInv, ReadInv
<1>t. TypeOK /\ TypeInv'
  BY WavesTypeStep DEF TypeInv
<1>l. /\ Len(wState) \in Nat /\ DOMAIN wState = 1 .. Len(wState) /\ wPos \in 0 .. Len(wState)
      /\ \A i \in DOMAIN wState : wState[i] \in Known
  BY <1>t, SeqElements DEF TypeOK, WavesCacherTypeOK
<1>1. CASE ReadState
  <2>1. DOMAIN wState' = DOMAIN wavesState
    BY <1>1 DEF ReadState
  <2>2. \A i \in DOMAIN wavesState :
          wState'[i].rq = wavesState[i].rq /\ wState'[i].height = wavesState[i].height
    BY <1>1 DEF ReadState
  <2>3. ReadInv'
    BY <2>1, <2>2 DEF ListInv, Distinct
  <2> QED
    BY <1>1, <2>3 DEF ReadState, CompletedPassIsComplete
<1>2. CASE ReadHeight
  BY <1>2, <1>l DEF ReadHeight, CompletedPassIsComplete
<1>3. CASE BreakAtExpired
  BY <1>3 DEF BreakAtExpired, AtRequest, CompletedPassIsComplete
<1>4. ASSUME NEW r \in RequestIds, NEW s, SaveStatus(r, s), UNCHANGED wCacherVars
      PROVE  ReadInv' /\ CompletedPassIsComplete'
  <2>1. \A x \in RequestIds : requests'[x].createdAt = requests[x].createdAt
    BY <1>t, <1>4 DEF SaveStatus, WithStatus, TypeOK, RequestsTypeOK
  <2>2. \A i \in DOMAIN wState : wState[i].rq \in RequestIds
    BY <1>l DEF Known
  <2> QED
    BY <1>4, <2>1, <2>2 DEF CompletedPassIsComplete, wCacherVars
<1>5. CASE Refresh
  <2>1. wState[wPos].rq \in RequestIds
    BY <1>5, <1>l DEF Refresh, AtCandidate, AtRequest, Known
  <2> QED
    BY <1>4, <1>5, <2>1 DEF Refresh
<1>6. CASE StoreMissing
  <2> DEFINE e == wState[wPos]
  <2>1. /\ wPos \in DOMAIN wState /\ e.rq \in RequestIds /\ wPos' = wPos - 1 /\ wState' = wState
        /\ wPc = "walk" /\ wPc' = "walk"
        /\ requests' = [requests EXCEPT ![e.rq] = [createdAt |-> e.height, status |-> e.status]]
    BY <1>6, <1>l DEF StoreMissing, AtCandidate, AtRequest, Known
  <2>2. ASSUME NEW i \in DOMAIN wState, i > wPos'
        PROVE  requests'[wState[i].rq].createdAt = wState[i].height
    <3>1. CASE i = wPos
      BY <2>1, <3>1, <1>t DEF TypeOK, RequestsTypeOK
    <3>2. CASE i # wPos
      <4>1. i > wPos /\ wState[i].rq \in RequestIds /\ wState[i].rq # e.rq
        BY <1>l, <2>1, <2>2, <3>2 DEF Distinct, Known
      <4>2. requests[wState[i].rq].createdAt = wState[i].height
        BY <2>1, <4>1 DEF CompletedPassIsComplete
      <4> QED
        BY <2>1, <4>1, <4>2, <1>t DEF TypeOK, RequestsTypeOK
    <3> QED
      BY <3>1, <3>2
  <2> QED
    BY <2>1, <2>2 DEF CompletedPassIsComplete
<1>7. ASSUME WavesCacherReset PROVE ReadInv' /\ CompletedPassIsComplete'
  BY <1>7 DEF WavesCacherReset, Distinct, CompletedPassIsComplete
<1>8. CASE Others
  <2>1. ASSUME UNCHANGED <<requests, wCacherVars>> PROVE ReadInv' /\ CompletedPassIsComplete'
    BY <2>1 DEF wCacherVars, CompletedPassIsComplete
  <2>2. ASSUME NEW r \in WavesRequests, MarkWavesSuccess(r)
        PROVE  ReadInv' /\ CompletedPassIsComplete'
    BY <1>4, <2>2 DEF MarkWavesSuccess
  <2> QED
    BY <1>7, <1>8, <2>1, <2>2 DEF Others, RestartWavesCacher
<1>9. CASE UNCHANGED vars
  BY <1>9 DEF vars, wCacherVars, CompletedPassIsComplete
<1> QED
  BY <1>1, <1>2, <1>3, <1>5, <1>6, <1>7, <1>8, <1>9
  DEF Next, HandleWavesState, RejectRows, FailWavesPass

(***************************************************************************)
(* Whatever else writes to the table, a pass never leaves out a request    *)
(* that is in time and newer than the first expired one: cacher/waves.go   *)
(* advances only after a Save that has succeeded.                          *)
(***************************************************************************)
THEOREM CompletedPassIsCompleteAlways == Spec => []CompletedPassIsComplete
<1>1. MirrorInv /\ [Next]_vars => MirrorInv'
  <2> SUFFICES ASSUME MirrorInv, [Next]_vars PROVE MirrorInv'
    OBVIOUS
  <2> QED
    BY ChainKeepsList, PassKeepsRead, WavesTypeStep DEF MirrorInv
<1>2. MirrorInv => CompletedPassIsComplete
  BY DEF MirrorInv
<1> QED
  BY <1>1, <1>2, MirrorInit, PTL DEF Spec

-----------------------------------------------------------------------------
(* Rows are backed by entries of the contract *)

(***************************************************************************)
(* In a pass that no rollback has overtaken between its two reads, what    *)
(* it has read is there: first all of it, and once the height is read, all *)
(* that has settled by that height, which no rollback can reach any more.  *)
(***************************************************************************)
PassInv ==
    /\ wHeight <= wavesHeight
    /\ wPc = "height" /\ ~rolledBack => \A i \in DOMAIN wState : InContract(wState[i])
    /\ wPc \in {"walk", "expire"} /\ ~rolledBack =>
          \A i \in DOMAIN wState : SettledAt(wState[i]) => InContract(wState[i])

Backed(r) ==
    /\ InContract([rq |-> r, height |-> requests[r].createdAt, status |-> New])
    /\ requests[r].createdAt + WavesInterval <= wavesHeight

RowsBacked == \A r \in WavesRequests : Stored(r) /\ r \notin torn => Backed(r)

HistoryInv == MirrorInv /\ rolledBack \in BOOLEAN /\ PassInv /\ RowsBacked

LEMMA HistoryInitInv == HistoryInit => HistoryInv
<1>1. ASSUME HistoryInit PROVE PassInv /\ RowsBacked
  BY <1>1, WavesAssumption, WavesCacherAssumption
  DEF HistoryInit, Init, WavesInit, WavesCacherInit, RequestsInit, PassInv, RowsBacked, Stored
<1> QED
  BY <1>1, MirrorInit DEF HistoryInit, HistoryInv

\* Rows that keep their heights are backed if they were.
LEMMA SameRowsBacked ==
    ASSUME HistoryInv, UNCHANGED wavesVars,
           torn' = IF rolledBack THEN torn \cup Inserted ELSE torn \ Inserted,
           NEW r \in WavesRequests, requests'[r].createdAt = requests[r].createdAt,
           Stored(r)' => Stored(r), (Stored(r) /\ r \notin torn)'
    PROVE  Backed(r)'
<1>1. r \notin torn
  BY DEF HistoryInv, Inserted
<1>2. Backed(r)
  BY <1>1 DEF HistoryInv, RowsBacked
<1> QED
  BY <1>2 DEF Backed, InContract, wavesVars

(***************************************************************************)
(* A step of the chain: a rollback reaches no row that is backed, and in a *)
(* pass that it does not overtake, nothing the pass relies on.             *)
(***************************************************************************)
LEMMA ChainKeepsHistory ==
    ASSUME MaxWavesReorg <= WavesInterval, HistoryInv, HistoryNext,
           WavesUsers \/ \E r \in WavesRequests : WavesChange(r, Success),
           UNCHANGED <<requests, wCacherVars>>
    PROVE  PassInv' /\ RowsBacked'
<1> USE WavesAssumption, WavesCacherAssumption
<1>t. /\ wavesHeight \in Nat /\ wHeight \in Nat /\ requests \in [RequestIds -> Row]
      /\ \A i \in DOMAIN wState : wState[i] \in Known
  BY SeqElements
  DEF HistoryInv, MirrorInv, TypeInv, TypeOK, WavesTypeOK, RequestsTypeOK, WavesCacherTypeOK
<1>1. /\ wavesHeight <= wavesHeight' /\ wavesHeight' \in Nat
      /\ \A e \in Known : InContract(e) /\ e.height + MaxWavesReorg <= wavesHeight => InContract(e)'
  <2>1. WavesTypeOK /\ ListInv /\ WavesTypeOK'
    BY ChainTypeStep DEF HistoryInv, MirrorInv, TypeInv, TypeOK
  <2>2. CASE WavesRollback
    BY <2>1, <2>2, <1>t, RollbackEffect
  <2>3. CASE ~WavesRollback
    BY <2>1, <2>3, GrowthEffect DEF WavesUsers, WavesTypeOK
  <2> QED
    BY <2>2, <2>3
<1>2. ASSUME wPc = "height", ~rolledBack', NEW i \in DOMAIN wState PROVE InContract(wState[i])'
  <2>1. InContract(wState[i]) /\ wState[i] \in Known /\ wState' = wState
    BY <1>t, <1>2 DEF HistoryNext, HistoryInv, PassInv, wCacherVars
  <2>2. CASE WavesRollback
    <3>1. wavesState' = wavesState
      BY <1>2, <2>2 DEF HistoryNext
    <3> QED
      BY <2>1, <3>1 DEF InContract
  <2>3. CASE ~WavesRollback
    <3>1. WavesTypeOK /\ ListInv
      BY DEF HistoryInv, MirrorInv, TypeInv, TypeOK
    <3>2. InContract(wState[i]) => InContract(wState[i])'
      <4>1. \A e \in Known : InContract(e) => InContract(e)'
        BY <2>3, <3>1, GrowthEffect DEF WavesUsers
      <4> QED
        BY <2>1, <4>1 DEF InContract
    <3> QED
      BY <2>1, <3>2
  <2> QED
    BY <2>2, <2>3
<1>3. ASSUME wPc \in {"walk", "expire"}, ~rolledBack', NEW i \in DOMAIN wState, SettledAt(wState[i])
      PROVE  InContract(wState[i])'
  <2>1. InContract(wState[i]) /\ wState[i] \in Known /\ wState' = wState
    BY <1>t, <1>3 DEF HistoryNext, HistoryInv, PassInv, wCacherVars
  <2>2. wState[i].height + MaxWavesReorg <= wavesHeight
    BY <1>t, <1>3, <2>1 DEF SettledAt, Known, HistoryInv, PassInv
  <2>3. \E e \in Known : e = wState[i] /\ InContract(e)'
    BY <1>1, <2>1, <2>2
  <2> QED
    BY <2>1, <2>3 DEF InContract
<1>4. PassInv'
  BY <1>1, <1>2, <1>3, <1>t DEF PassInv, HistoryInv, wCacherVars, SettledAt
<1>5. ASSUME NEW r \in WavesRequests, (Stored(r) /\ r \notin torn)'
      PROVE  Backed(r)'
  <2> DEFINE e == [rq |-> r, height |-> requests[r].createdAt, status |-> New]
  <2>1. e \in Known
    BY <1>t DEF Known, Row
  <2>2. InContract(e) /\ requests[r].createdAt + WavesInterval <= wavesHeight
    BY <1>5 DEF HistoryInv, RowsBacked, Backed, HistoryNext, Inserted, Stored
  <2>3. requests[r].createdAt \in Nat
    BY <1>t DEF Row
  <2>4. InContract(e)'
    <3>1. \E x \in Known : x = e /\ InContract(x)'
      BY <1>1, <1>t, <2>1, <2>2, <2>3
    <3> QED
      BY <3>1 DEF InContract
  <2> QED
    BY <1>1, <1>t, <2>2, <2>3, <2>4 DEF Backed
<1> QED
  BY <1>4, <1>5 DEF RowsBacked

(***************************************************************************)
(* A new row is that of an entry which has settled in the state read.  If  *)
(* no rollback came between the two reads, that entry is still there; and  *)
(* if one did, the row is torn.                                            *)
(***************************************************************************)
LEMMA StoreKeepsHistory ==
    ASSUME HistoryInv, HistoryNext, StoreMissing
    PROVE  PassInv' /\ RowsBacked'
<1> USE WavesCacherAssumption
<1> DEFINE e == wState[wPos]
<1>t. /\ wavesHeight \in Nat /\ wHeight \in Nat /\ requests \in [RequestIds -> Row]
      /\ wPos \in DOMAIN wState /\ e \in Known /\ e.height > 0 /\ wPc = "walk" /\ SettledAt(e)
  <2>1. /\ wPos \in 0 .. Len(wState) /\ DOMAIN wState = 1 .. Len(wState) /\ Len(wState) \in Nat
        /\ \A i \in 1 .. Len(wState) : wState[i] \in Known
    BY SeqElements
    DEF HistoryInv, MirrorInv, TypeInv, TypeOK, WavesCacherTypeOK
  <2>2. wPos > 0 /\ wPc = "walk" /\ SettledAt(e)
    BY DEF StoreMissing, AtCandidate, AtRequest
  <2>3. wPos \in DOMAIN wState
    BY <2>1, <2>2
  <2>4. wavesHeight \in Nat /\ wHeight \in Nat /\ requests \in [RequestIds -> Row]
    BY DEF HistoryInv, MirrorInv, TypeInv, TypeOK, WavesTypeOK, RequestsTypeOK, WavesCacherTypeOK
  <2> QED
    BY <2>1, <2>2, <2>3, <2>4 DEF HistoryInv, MirrorInv, ReadInv
<1>1. PassInv'
  BY <1>t DEF HistoryInv, PassInv, HistoryNext, StoreMissing, wavesVars, InContract, SettledAt
<1>2. ASSUME NEW r \in WavesRequests, (Stored(r) /\ r \notin torn)' PROVE Backed(r)'
  <2>1. e.rq \in WavesRequests /\ e.rq \in RequestIds /\ e.height \in Nat
    BY <1>t DEF Known
  <2>2. requests' = [requests EXCEPT ![e.rq] = [createdAt |-> e.height, status |-> e.status]]
    BY DEF StoreMissing
  <2>3. UNCHANGED wavesVars /\ torn' = IF rolledBack THEN torn \cup Inserted ELSE torn \ Inserted
    BY DEF StoreMissing, HistoryNext
  <2>4. CASE r # e.rq
    BY <1>2, <1>t, <2>1, <2>2, <2>3, <2>4, SameRowsBacked DEF Stored
  <2>5. CASE r = e.rq /\ rolledBack
    <3>1. requests'[r].createdAt = e.height /\ requests'[r].createdAt = requests[r].createdAt
      BY <1>2, <1>t, <2>1, <2>2, <2>3, <2>5 DEF Inserted
    <3>2. Stored(r)
      BY <1>t, <3>1 DEF Stored, NoRow
    <3> QED
      BY <1>2, <2>3, <3>1, <3>2, SameRowsBacked
  <2>6. CASE r = e.rq /\ ~rolledBack
    <3>1. InContract(e) /\ e.height + WavesInterval <= wavesHeight
      <4>1. InContract(e) /\ wHeight <= wavesHeight
        BY <1>t, <2>6 DEF HistoryInv, PassInv
      <4>2. e.height <= wHeight - WavesInterval
        BY <1>t DEF SettledAt
      <4> QED
        BY <1>t, <2>1, <4>1, <4>2
    <3>2. requests'[r].createdAt = e.height
      BY <1>t, <2>1, <2>2, <2>6
    <3> QED
      BY <2>3, <2>6, <3>1, <3>2 DEF Backed, InContract, wavesVars
  <2> QED
    BY <2>4, <2>5, <2>6
<1> QED
  BY <1>1, <1>2 DEF RowsBacked

(***************************************************************************)
(* The other steps create no row of a Waves request and move none.         *)
(***************************************************************************)
LEMMA QuietKeepsRows ==
    ASSUME HistoryInv, UNCHANGED wavesVars,
           torn' = IF rolledBack THEN torn \cup Inserted ELSE torn \ Inserted,
           \A r \in WavesRequests :
              requests'[r].createdAt = requests[r].createdAt /\ (Stored(r)' => Stored(r))
    PROVE  RowsBacked'
BY SameRowsBacked DEF RowsBacked

LEMMA SaveMovesNoRow ==
    ASSUME RequestsTypeOK, NEW x \in RequestIds, Stored(x), NEW s, SaveStatus(x, s)
    PROVE  \A r \in RequestIds :
              requests'[r].createdAt = requests[r].createdAt /\ (Stored(r)' => Stored(r))
BY DEF RequestsTypeOK, SaveStatus, WithStatus, Stored, NoRow, Row

LEMMA FoundIsStored == ASSUME NEW r, TRUE \in FindRequest(r) PROVE Stored(r)
BY DEF FindRequest, Stored

LEMMA ReadsKeepHistory ==
    ASSUME HistoryInv, HistoryNext,
           \/ ReadState \/ ReadHeight \/ BreakAtExpired \/ RejectRows \/ FailWavesPass
           \/ RestartWavesCacher
    PROVE  PassInv' /\ RowsBacked'
<1> USE WavesCacherAssumption
<1>t. wavesHeight \in Nat /\ wHeight \in Nat /\ requests \in [RequestIds -> Row]
  BY DEF HistoryInv, MirrorInv, TypeInv, TypeOK, WavesTypeOK, RequestsTypeOK, WavesCacherTypeOK
<1>1. UNCHANGED wavesVars
  BY DEF ReadState, ReadHeight, BreakAtExpired, RejectRows, FailWavesPass, RestartWavesCacher
<1>2. RowsBacked'
  <2>1. \A r \in WavesRequests : requests'[r] = requests[r]
    BY <1>t DEF ReadState, ReadHeight, BreakAtExpired, RejectRows, FailWavesPass, RestartWavesCacher
  <2>2. \A r \in WavesRequests :
          requests'[r].createdAt = requests[r].createdAt /\ (Stored(r)' => Stored(r))
    BY <2>1 DEF Stored
  <2> QED
    BY <1>1, <2>2, QuietKeepsRows DEF HistoryNext
<1>3. CASE ReadState
  <2>1. \A i \in DOMAIN wState' : InContract(wState'[i])
    BY <1>3 DEF ReadState, InContract
  <2> QED
    BY <1>1, <1>2, <1>3, <1>t, <2>1 DEF ReadState, HistoryInv, PassInv, InContract, wavesVars
<1>4. CASE ReadHeight
  BY <1>1, <1>2, <1>4, <1>t
  DEF ReadHeight, HistoryInv, HistoryNext, PassInv, InContract, wavesVars
<1>5. CASE BreakAtExpired
  BY <1>1, <1>2, <1>5, <1>t
  DEF BreakAtExpired, AtRequest, HistoryInv, HistoryNext, PassInv, InContract, SettledAt, wavesVars
<1>6. CASE WavesCacherReset
  BY <1>1, <1>2, <1>6, <1>t DEF WavesCacherReset, PassInv, wavesVars
<1> QED
  BY <1>3, <1>4, <1>5, <1>6 DEF RejectRows, FailWavesPass, RestartWavesCacher

LEMMA HistoryStep ==
    ASSUME MaxWavesReorg <= WavesInterval, HistoryInv, [HistoryNext]_historyVars
    PROVE  HistoryInv'
<1> USE WavesCacherAssumption
<1>1. [Next]_vars
  BY DEF HistoryNext, historyVars
<1>2. MirrorInv'
  BY <1>1, ChainKeepsList, PassKeepsRead, WavesTypeStep DEF HistoryInv, MirrorInv
<1>3. CASE UNCHANGED historyVars
  BY <1>2, <1>3
  DEF HistoryInv, historyVars, vars, wavesVars, wCacherVars, PassInv, RowsBacked, Backed,
      InContract, SettledAt, Stored
<1>4. CASE HistoryNext
  <2>1. rolledBack' \in BOOLEAN
    BY <1>4 DEF HistoryNext, HistoryInv
  <2>2. ASSUME NEW x \in RequestIds, Stored(x), NEW s, SaveStatus(x, s),
               UNCHANGED <<wCacherVars, wavesVars>>
        PROVE  PassInv' /\ RowsBacked'
    <3>1. RowsBacked'
      <4>1. RequestsTypeOK
        BY DEF HistoryInv, MirrorInv, TypeInv, TypeOK
      <4>2. \A r \in RequestIds :
              requests'[r].createdAt = requests[r].createdAt /\ (Stored(r)' => Stored(r))
        BY <2>2, <4>1, SaveMovesNoRow
      <4> QED
        BY <1>4, <2>2, <4>2, QuietKeepsRows DEF HistoryNext
    <3>2. PassInv'
      BY <1>4, <2>2
      DEF HistoryNext, HistoryInv, PassInv, InContract, SettledAt, wavesVars, wCacherVars
    <3> QED
      BY <3>1, <3>2
  <2>3. ASSUME Refresh PROVE PassInv' /\ RowsBacked'
    <3>1. wState[wPos].rq \in RequestIds
      <4>1. wPos \in 1 .. Len(wState) /\ \A i \in 1 .. Len(wState) : wState[i] \in Known
        BY <2>3, SeqElements
        DEF Refresh, AtCandidate, AtRequest, HistoryInv, MirrorInv, TypeInv, TypeOK,
            WavesCacherTypeOK
      <4> QED
        BY <4>1 DEF Known
    <3>2. Stored(wState[wPos].rq) /\ SaveStatus(wState[wPos].rq, wState[wPos].status)
      BY <2>3, FoundIsStored DEF Refresh
    <3> QED
      BY <2>2, <2>3, <3>1, <3>2 DEF Refresh
  <2>4. ASSUME NEW r \in WavesRequests, MarkWavesSuccess(r) PROVE PassInv' /\ RowsBacked'
    BY <2>2, <2>4 DEF MarkWavesSuccess
  <2>5. PassInv' /\ RowsBacked'
    BY <1>4, <2>3, <2>4, StoreKeepsHistory, ReadsKeepHistory, ChainKeepsHistory
    DEF HistoryNext, Next, HandleWavesState, Others
  <2> QED
    BY <1>2, <2>1, <2>5 DEF HistoryInv
<1> QED
  BY <1>3, <1>4

(***************************************************************************)
(* If no rollback is deeper than the interval that the cacher waits, a row *)
(* of a Waves request is backed by the contract, for any number of         *)
(* requests, unless a rollback came between the two reads of its pass.     *)
(***************************************************************************)
THEOREM SettledUnlessTornAlways ==
    ASSUME MaxWavesReorg <= WavesInterval
    PROVE  HistorySpec => []SettledUnlessTorn
<1>1. HistoryInv /\ [HistoryNext]_historyVars => HistoryInv'
  BY HistoryStep
<1>2. HistoryInv => SettledUnlessTorn
  BY DEF HistoryInv, RowsBacked, Backed, InContract, SettledUnlessTorn
<1> QED
  BY <1>1, <1>2, HistoryInitInv, PTL DEF HistorySpec
=============================================================================
