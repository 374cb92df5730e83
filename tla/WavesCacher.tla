---------------------------- MODULE WavesCacher -----------------------------
(***************************************************************************)
(* cacher/waves.go: the goroutine that copies requests of the Waves        *)
(* contract into the database.  One pass of handleWavesState reads the     *)
(* contract's state, then the height, and walks that state from the newest *)
(* request towards the oldest.  Only an expired request ends the walk:     *)
(*   - at a request that has not settled, "continue" repeats the test on   *)
(*     the same state and height, for ever; that is no step of this model; *)
(*   - at a request that has a row, "continue" looks the row up again and  *)
(*     gives it back the status of the state that was read (Refresh);      *)
(*   - beyond the oldest request the keys are missing, and the type        *)
(*     assertion panics (WalkPanics).                                      *)
(* A call that fails ends the pass.                                        *)
(***************************************************************************)
EXTENDS WavesChain, Requests

CONSTANTS
    WavesInterval,  \* config Waves.BlockInterval: blocks a request is left to settle
    RqTimeout,      \* config RqTimeout: blocks after which a request is given up
    EthRows         \* the ids whose rows have chain_type Ethereum

ASSUME WavesCacherAssumption ==
    /\ WavesRequests \subseteq RequestIds /\ EthRows \subseteq RequestIds
    /\ WavesRequests \cap EthRows = {}
    /\ WavesInterval \in Nat /\ RqTimeout \in Nat

VARIABLES
    wPc,      \* next call of handleWavesState
    wState,   \* state: the requests read at the start of the pass
    wHeight,  \* height: read after the state
    wPos      \* orderId: position in wState, 0 beyond the oldest request

wCacherVars == <<wPc, wState, wHeight, wPos>>

Known == [rq : WavesRequests, height : Nat, status : Status]

WavesCacherTypeOK ==
    /\ wPc \in {"state", "height", "walk", "expire"}
    /\ wState \in Seq(Known)
    /\ wHeight \in Nat
    /\ wPos \in 0 .. Len(wState)

WavesCacherInit == wPc = "state" /\ wState = <<>> /\ wHeight = 0 /\ wPos = 0

\* Mutant of WavesCacherReset: the position outlives the state it points into.
WavesCacherKeepsPos == wPc' = "state" /\ wState' = <<>> /\ wHeight' = 0 /\ UNCHANGED wPos

\* The pass is over, whatever it was doing.
WavesCacherReset == wPc' = "state" /\ wState' = <<>> /\ wHeight' = 0 /\ wPos' = 0

\* nodeClient.GetStateByAddress(contractAddress)
ReadState ==
    /\ wPc = "state"
    /\ wState' = [i \in DOMAIN wavesState |->
           [rq |-> wavesState[i].rq, height |-> wavesState[i].height,
            status |-> wavesState[i].status]]
    /\ wPc' = "height"
    /\ UNCHANGED <<wHeight, wPos, wavesVars, requests>>

\* nodeClient.GetHeight(), and orderId = last_element
ReadHeight ==
    /\ wPc = "height"
    /\ wHeight' = wavesHeight
    /\ wPos' = Len(wState)
    /\ wPc' = "walk"
    /\ UNCHANGED <<wState, wavesVars, requests>>

SettledByOne(e) == e.height <= wHeight - WavesInterval + 1   \* mutant of SettledAt

SettledAt(e) == e.height <= wHeight - WavesInterval
ExpiredAt(e) == wHeight > e.height + RqTimeout

AtRequest == wPc = "walk" /\ wPos > 0

\* An expired request ends the walk.
BreakAtExpired ==
    /\ AtRequest /\ SettledAt(wState[wPos]) /\ ExpiredAt(wState[wPos])
    /\ wPc' = "expire"
    /\ UNCHANGED <<wState, wHeight, wPos, wavesVars, requests>>

\* The walk is at a request to be looked up in the database.
AtCandidate == AtRequest /\ SettledAt(wState[wPos]) /\ ~ExpiredAt(wState[wPos])

\* The row is found: it takes the status of the state read, and the walk
\* stays where it is.
Refresh ==
    /\ AtCandidate
    /\ LET e == wState[wPos] IN
         /\ TRUE \in FindRequest(e.rq) /\ requests[e.rq].status # e.status
         /\ SaveStatus(e.rq, e.status)
    /\ UNCHANGED <<wCacherVars, wavesVars>>

\* Mutant of StoreMissing: an error of Save is not looked at.
StoreMissingUnseen ==
    /\ AtCandidate
    /\ LET e == wState[wPos] IN
         /\ FALSE \in FindRequest(e.rq)
         /\ \/ requests' = [requests EXCEPT
                             ![e.rq] = [createdAt |-> e.height, status |-> e.status]]
            \/ UNCHANGED requests
    /\ wPos' = wPos - 1
    /\ UNCHANGED <<wPc, wState, wHeight, wavesVars>>

\* Mutant of StoreMissing: the walk does not move on.
StoreMissingStays ==
    /\ AtCandidate
    /\ LET e == wState[wPos] IN
         /\ FALSE \in FindRequest(e.rq)
         /\ requests' = [requests EXCEPT
                             ![e.rq] = [createdAt |-> e.height, status |-> e.status]]
    /\ UNCHANGED <<wCacherVars, wavesVars>>

\* The row is not found: it is written, and the walk goes on to prev_rq.
StoreMissing ==
    /\ AtCandidate
    /\ LET e == wState[wPos] IN
         /\ FALSE \in FindRequest(e.rq)
         /\ requests' = [requests EXCEPT
                             ![e.rq] = [createdAt |-> e.height, status |-> e.status]]
    /\ wPos' = wPos - 1
    /\ UNCHANGED <<wPc, wState, wHeight, wavesVars>>

WithinWavesTime(row) == row.createdAt <= wHeight   \* mutant of PastWavesTime

PastWavesTime(row) == row.createdAt <= wHeight - RqTimeout

\* The closing UPDATE, on the rows of the other chain; its error is ignored.
RejectRows ==
    /\ wPc = "expire"
    /\ \/ requests' = [r \in RequestIds |->
             IF r \in EthRows /\ Stored(r) /\ PastWavesTime(requests[r])
             THEN WithStatus(requests[r], Rejected)
             ELSE requests[r]]
       \/ UNCHANGED requests
    /\ WavesCacherReset
    /\ UNCHANGED wavesVars

\* The row is missing or has another status, so that a Save is due.
SaveIsDue ==
    /\ AtCandidate
    /\ LET e == wState[wPos] IN
         FALSE \in FindRequest(e.rq) \/ requests[e.rq].status # e.status

\* GetHeight or a Save returns an error.
FailWavesPass ==
    /\ wPc = "height" \/ SaveIsDue
    /\ WavesCacherReset
    /\ UNCHANGED <<wavesVars, requests>>

\* The walk has left the list and the next key is missing.
WalkPanics == wPc = "walk" /\ wPos = 0

HandleWavesState ==
    \/ ReadState \/ ReadHeight \/ BreakAtExpired \/ Refresh \/ StoreMissing
    \/ RejectRows \/ FailWavesPass
=============================================================================
