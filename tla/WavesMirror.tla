---------------------------- MODULE WavesMirror -----------------------------
(***************************************************************************)
(* What the Waves cacher does to the rows of Waves requests, with the rest *)
(* of the program reduced to two steps: the signer may mark any stored     *)
(* request Success, whether or not that is right, and the process may end  *)
(* and start again at any time.                                            *)
(***************************************************************************)
EXTENDS WavesCacher

vars == <<wavesVars, requests, wCacherVars>>

\* The last write of finalizeWavesRequest, seen from the table.
MarkWavesSuccess(r) ==
    /\ Stored(r) /\ SaveStatus(r, Success)
    /\ UNCHANGED <<wavesVars, wCacherVars>>

\* The process ends, by a signal or by the panic of a walk that has left the
\* list, and starts again.
RestartWavesCacher == WavesCacherReset /\ UNCHANGED <<wavesVars, requests>>

Others ==
    \/ (WavesUsers \/ \E r \in WavesRequests : WavesChange(r, Success))
          /\ UNCHANGED <<requests, wCacherVars>>
    \/ \E r \in WavesRequests : MarkWavesSuccess(r)
    \/ RestartWavesCacher

Init == WavesInit /\ RequestsInit /\ WavesCacherInit
Next == HandleWavesState \/ Others
Spec == Init /\ [][Next]_vars

-----------------------------------------------------------------------------
\* Every variable has its type.
TypeOK == WavesTypeOK /\ RequestsTypeOK /\ WavesCacherTypeOK

(***************************************************************************)
(* Only the break of cacher/waves.go:54 leads out of the walk, and the     *)
(* walk moves on only after a Save that succeeded (line 88): when a pass   *)
(* comes to its UPDATE, every request of the state it read that is still   *)
(* in time and newer than the first expired one has a row, at the height   *)
(* of the contract's entry.                                                *)
(***************************************************************************)
CompletedPassIsComplete ==
    \A i \in DOMAIN wState :
        wPc \in {"walk", "expire"} /\ i > wPos
          => requests[wState[i].rq].createdAt = wState[i].height

(***************************************************************************)
(* From here down to the first expired request, every request of the state *)
(* read has settled and has no row.                                        *)
(***************************************************************************)
ClearAhead ==
    /\ wPc = "walk"
    /\ \E x \in 1 .. wPos :
         /\ SettledAt(wState[x]) /\ ExpiredAt(wState[x])
         /\ \A i \in x + 1 .. wPos : SettledAt(wState[i]) /\ ~Stored(wState[i].rq)

(***************************************************************************)
(* The two "continue"s and the missing end of the list stop a walk or kill *)
(* the process; a walk that meets none of them comes to its end, or fails  *)
(* and is started anew.                                                    *)
(***************************************************************************)
ClearWalkEnds == ClearAhead ~> wPc = "state"
=============================================================================
