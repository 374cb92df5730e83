----------------------------- MODULE WavesChain -----------------------------
(***************************************************************************)
(* The Waves chain with the Waves contract, as the validator sees it       *)
(* through GetStateByAddress and GetHeight.  The contract keeps its        *)
(* requests as a list: last_element names the newest, prev_rq_<id> the one *)
(* before it, height_<id> and status_<id> its block and its status.  The   *)
(* contract itself is not part of the repository.                          *)
(*                                                                         *)
(* A rollback replaces up to MaxWavesReorg of the newest blocks: it drops  *)
(* the requests and undoes the status changes they carried.                *)
(***************************************************************************)
EXTENDS Models, Integers, Sequences

CONSTANTS
    WavesRequests,   \* request ids that users may create
    WavesStart,      \* height of the chain when the model starts
    MaxWavesHeight,  \* bound: no block above this height
    MaxWavesReorg    \* deepest rollback, in blocks

ASSUME WavesAssumption ==
    /\ WavesStart \in Nat \ {0} /\ MaxWavesHeight \in Nat
    /\ MaxWavesReorg \in Nat /\ MaxWavesReorg < WavesStart

VARIABLES
    wavesHeight,  \* height of the chain
    wavesState    \* the contract's requests, oldest first

wavesVars == <<wavesHeight, wavesState>>

WavesEntry == [rq : WavesRequests, height : Nat, status : Status, changed : Nat]

WavesTypeOK ==
    /\ wavesHeight \in Nat
    /\ wavesState \in Seq(WavesEntry)

WavesInit == wavesHeight = WavesStart /\ wavesState = <<>>

Listed(r) == \E i \in DOMAIN wavesState : wavesState[i].rq = r

\* status_<r>, None when the key is missing.
WavesStatus(r) ==
    IF Listed(r) THEN wavesState[CHOOSE i \in DOMAIN wavesState : wavesState[i].rq = r].status
    ELSE None

WavesBlock ==
    /\ wavesHeight < MaxWavesHeight
    /\ wavesHeight' = wavesHeight + 1
    /\ UNCHANGED wavesState

\* A user creates request r.
WavesCreate(r) ==
    /\ ~Listed(r)
    /\ wavesState' = Append(wavesState, [rq |-> r, height |-> wavesHeight,
                                         status |-> New, changed |-> wavesHeight])
    /\ UNCHANGED wavesHeight

\* The contract's entry of a New request takes status s.
WavesChange(r, s) ==
    /\ WavesStatus(r) = New
    /\ wavesState' = [i \in DOMAIN wavesState |->
           IF wavesState[i].rq = r
           THEN [wavesState[i] EXCEPT !.status = s, !.changed = wavesHeight]
           ELSE wavesState[i]]
    /\ UNCHANGED wavesHeight

\* The first n requests are those of the blocks that stay.
WavesRollback ==
    \E depth \in 1 .. MaxWavesReorg, n \in 0 .. Len(wavesState) :
      LET base == wavesHeight - depth IN
      /\ \A i \in DOMAIN wavesState : wavesState[i].height <= base <=> i <= n
      /\ wavesState' = [i \in 1 .. n |->
            LET e == wavesState[i] IN
            IF e.changed > base THEN [e EXCEPT !.status = New, !.changed = e.height] ELSE e]
      /\ UNCHANGED wavesHeight

\* Users and the contract: whether a change to Success has the signatures it
\* needs is left to the modules that know them.
WavesUsers ==
    \/ WavesBlock \/ WavesRollback
    \/ \E r \in WavesRequests : WavesCreate(r) \/ WavesChange(r, Returned)
=============================================================================
