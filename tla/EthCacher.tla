----------------------------- MODULE EthCacher ------------------------------
(***************************************************************************)
(* cacher/eth.go: the goroutine that copies requests of the Ethereum       *)
(* contract into the database, over and over.  One pass of handleEthLogs   *)
(* reads the head of the chain, then the NewRequest events, then, event by *)
(* event in block order, the contract's current entry and the row; it ends *)
(* by rejecting the rows that are past their time.  The chain and the      *)
(* signer move between any two of these reads and writes.                  *)
(***************************************************************************)
EXTENDS EthChain, Requests

CONSTANTS
    BlockInterval,  \* config Ethereum.BlockInterval: blocks a request is left to settle
    RqTimeout       \* config RqTimeout: blocks after which a request is given up

ASSUME CacherAssumption ==
    /\ EthRequests \subseteq RequestIds
    /\ BlockInterval \in Nat /\ RqTimeout \in Nat
    /\ RqTimeout < EthStart   \* so that an entry read as zero is past its time

VARIABLES
    cPc,      \* next call of handleEthLogs
    cHeight,  \* height: the head read at the start of the pass
    cLogs,    \* logs: the events not yet visited
    cRead     \* request: the event being handled and the entry read for it

cacherVars == <<cPc, cHeight, cLogs, cRead>>

Log    == [rq : EthRequests, height : Nat]
Read   == [rq : EthRequests, height : Nat, status : Status]
NoRead == [height |-> 0, status |-> None]

CacherTypeOK ==
    /\ cPc \in {"head", "filter", "next", "store", "expire"}
    /\ cHeight \in Nat
    /\ cLogs \subseteq Log
    /\ cPc = "store" => cRead \in Read
    /\ cPc # "store" => cRead = NoRead
    /\ cPc # "next" /\ cPc # "store" => cLogs = {}

CacherInit ==
    /\ cPc = "head" /\ cHeight = EthStart /\ cLogs = {} /\ cRead = NoRead

\* client.HeaderByNumber(ctx, nil)
ReadHead ==
    /\ cPc = "head"
    /\ cHeight' = ethHeight
    /\ cPc' = "filter"
    /\ UNCHANGED <<cLogs, cRead, ethVars, requests>>

\* contract.FilterNewRequest from block 0 to the latest
FilterLogs ==
    /\ cPc = "filter"
    /\ cLogs' = {[rq |-> r, height |-> ethContract[r].height] :
                    r \in {q \in EthRequests : Logged(q)}}
    /\ cPc' = "next"
    /\ UNCHANGED <<cHeight, cRead, ethVars, requests>>

Oldest(l) == l \in cLogs /\ \A m \in cLogs : l.height <= m.height

TooRecentByOne(e) == e.height > cHeight - BlockInterval + 1   \* mutant of TooRecent
TooOldEarly(e)    == cHeight >= e.height + RqTimeout          \* mutant of TooOld
TooOldLate(e)     == cHeight > e.height + RqTimeout + 1       \* mutant of TooOld

TooRecent(e) == e.height > cHeight - BlockInterval
TooOld(e)    == cHeight > e.height + RqTimeout

\* A request that has not settled is left for a later pass ("continue").
SkipRecent(l) ==
    /\ cPc = "next" /\ Oldest(l)
    /\ TooRecent(ethContract[l.rq])
    /\ cLogs' = cLogs \ {l}
    /\ UNCHANGED <<cPc, cHeight, cRead, ethVars, requests>>

\* Mutant of StopAtExpired: "continue" for "break".
PassOverExpired(l) ==
    /\ cPc = "next" /\ Oldest(l)
    /\ ~TooRecent(ethContract[l.rq]) /\ TooOld(ethContract[l.rq])
    /\ cLogs' = cLogs \ {l}
    /\ UNCHANGED <<cPc, cHeight, cRead, ethVars, requests>>

\* A request past its time ends the walk ("break"), whatever comes after it.
StopAtExpired(l) ==
    /\ cPc = "next" /\ Oldest(l)
    /\ ~TooRecent(ethContract[l.rq]) /\ TooOld(ethContract[l.rq])
    /\ cPc' = "expire"
    /\ cLogs' = {}
    /\ UNCHANGED <<cHeight, cRead, ethVars, requests>>

\* Any other request goes on to the database with the entry just read.
ReadRequest(l) ==
    /\ cPc = "next" /\ Oldest(l)
    /\ ~TooRecent(ethContract[l.rq]) /\ ~TooOld(ethContract[l.rq])
    /\ cRead' = [rq |-> l.rq, height |-> ethContract[l.rq].height,
                 status |-> ethContract[l.rq].status]
    /\ cLogs' = cLogs \ {l}
    /\ cPc' = "store"
    /\ UNCHANGED <<cHeight, ethVars, requests>>

EndOfLogs ==
    /\ cPc = "next" /\ cLogs = {}
    /\ cPc' = "expire"
    /\ UNCHANGED <<cHeight, cLogs, cRead, ethVars, requests>>

\* Mutant of Refreshed: a row that exists is left alone.
Kept(row) == row

\* The row takes the status that was read.
Refreshed(row) == WithStatus(row, cRead.status)

(***************************************************************************)
(* A row that is found is refreshed; a request the lookup does not find is *)
(* written whole.  The other writers set nothing but Status, so the lookup *)
(* and the Save that follows it are one step.                              *)
(***************************************************************************)
StoreRequest ==
    /\ cPc = "store"
    /\ LET r == cRead.rq IN
       \E found \in FindRequest(r) :
         requests' = [requests EXCEPT ![r] =
             IF found THEN Refreshed(requests[r])
                      ELSE [createdAt |-> cRead.height, status |-> cRead.status]]
    /\ cPc' = "next"
    /\ cRead' = NoRead
    /\ UNCHANGED <<cHeight, cLogs, ethVars>>

PastTimeEarly(row) == row.createdAt <= cHeight - RqTimeout + 1   \* mutant of PastTime

PastTime(row) == row.createdAt <= cHeight - RqTimeout

\* The rows after the closing UPDATE: every Ethereum row old enough becomes
\* Rejected, also those the walk has just refreshed and those already Success.
Expired == [r \in RequestIds |->
    IF r \in EthRequests /\ Stored(r) /\ PastTime(requests[r])
    THEN WithStatus(requests[r], Rejected)
    ELSE requests[r]]

\* The end of the pass.  An error of the UPDATE is ignored.
ExpireRequests ==
    /\ cPc = "expire"
    /\ requests' = Expired \/ UNCHANGED requests
    /\ cPc' = "head"
    /\ UNCHANGED <<cHeight, cLogs, cRead, ethVars>>

\* The goroutine is back at the top of its loop and has forgotten the pass.
CacherReset == cPc' = "head" /\ cLogs' = {} /\ cRead' = NoRead

\* A call to the Ethereum node or to the database returns an error: the pass
\* is abandoned, without the closing UPDATE, and a new one starts later.
FailPass ==
    /\ cPc \in {"filter", "next", "store"}
    /\ CacherReset
    /\ UNCHANGED <<cHeight, ethVars, requests>>

HandleEthLogs ==
    \/ ReadHead \/ FilterLogs
    \/ \E l \in cLogs : SkipRecent(l) \/ StopAtExpired(l) \/ ReadRequest(l)
    \/ EndOfLogs \/ StoreRequest \/ ExpireRequests \/ FailPass

-----------------------------------------------------------------------------
(***************************************************************************)
(* A stored request is in the contract, at the height the row records, and *)
(* buried under at least BlockInterval blocks, although the head, the      *)
(* events and the entry were read at different moments with the chain free *)
(* to reorganise in between (the blockTimeout test of cacher/eth.go).      *)
(***************************************************************************)
Settled ==
    \A r \in EthRequests : Stored(r) =>
        /\ Logged(r) /\ requests[r].createdAt = ethContract[r].height
        /\ requests[r].createdAt + BlockInterval <= ethHeight

\* A row that is new is not of a request behind one past its time.
EntersInOrder ==
    \A r, q \in EthRequests :
        ~Stored(r) /\ requests'[r] # NoRow /\ Logged(q)
          /\ ethContract[q].height < ethContract[r].height
          => cHeight <= ethContract[q].height + RqTimeout
=============================================================================
