---------------------------- MODULE WavesHistory ----------------------------
(***************************************************************************)
(* WavesMirror with a record of rollbacks.  handleWavesState reads the     *)
(* state before the height (cacher/waves.go:37 and 41), where the Ethereum *)
(* cacher reads the head first.  If blocks are replaced between the two    *)
(* calls, a request that is gone is judged by the new height.              *)
(***************************************************************************)
EXTENDS WavesMirror

VARIABLES
    rolledBack,  \* blocks were replaced since this pass has read the state
    torn         \* requests whose row was written by such a pass

historyVars == <<vars, rolledBack, torn>>

HistoryInit == Init /\ rolledBack = FALSE /\ torn = {}

Inserted == {r \in WavesRequests : requests[r].createdAt # requests'[r].createdAt}

HistoryNext ==
    /\ Next
    /\ rolledBack' = IF wPc = "state" THEN FALSE
                     ELSE rolledBack \/ (wPc = "height" /\ WavesRollback /\ wavesState' # wavesState)
    /\ torn' = IF rolledBack THEN torn \cup Inserted ELSE torn \ Inserted

\* The goroutine runs for ever.  Nothing is assumed of the chain or of the
\* rest of the program; calls may fail without end.
HistorySpec == HistoryInit /\ [][HistoryNext]_historyVars /\ WF_vars(HandleWavesState)

(***************************************************************************)
(* A row of a Waves request is backed by an entry of the contract, at the  *)
(* same height and under at least WavesInterval blocks, unless the pass    *)
(* that wrote it was overtaken by a rollback between its two reads.        *)
(***************************************************************************)
SettledUnlessTorn ==
    \A r \in WavesRequests : Stored(r) /\ r \notin torn =>
        /\ \E i \in DOMAIN wavesState :
              wavesState[i].rq = r /\ wavesState[i].height = requests[r].createdAt
        /\ requests[r].createdAt + WavesInterval <= wavesHeight
=============================================================================
