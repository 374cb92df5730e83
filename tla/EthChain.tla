------------------------------ MODULE EthChain ------------------------------
(***************************************************************************)
(* The Ethereum chain with the Supersymmetry contract, as the validator    *)
(* sees it through the binding in contracts/eth.go.  The rules of the      *)
(* contract are those of its compiled code (SupersymmetryBin):             *)
(*   changeStatus          needs a New request, a block no later than      *)
(*                         height + timeout, and enough admin signatures;  *)
(*   withdrawPastDueReqest needs a New request and a later block.          *)
(* The validators of this repository never sign anything but Success, so   *)
(* the contract's own Rejected outcome does not occur.                     *)
(*                                                                         *)
(* A reorganisation replaces up to MaxReorg of the newest blocks by as     *)
(* many others.  What the old ones carried is undone, and the new ones     *)
(* carry whatever blocks of their numbers may carry.                       *)
(***************************************************************************)
EXTENDS Models

CONSTANTS
    EthRequests,      \* request hashes that users may create
    EthStart,         \* height of the chain when the model starts
    MaxEthHeight,     \* bound: no block above this height
    MaxReorg,         \* deepest reorganisation, in blocks
    ContractTimeout   \* the contract's rqTimeout, in blocks

ASSUME EthAssumption ==
    /\ EthStart \in Nat \ {0} /\ MaxEthHeight \in Nat
    /\ MaxReorg \in Nat /\ MaxReorg < EthStart
    /\ ContractTimeout \in Nat

VARIABLES
    ethHeight,    \* number of the latest block
    ethContract,  \* the contract's requests mapping
    ethPool       \* requests with a changeStatus transaction not yet mined

ethVars == <<ethHeight, ethContract, ethPool>>

(***************************************************************************)
(* A mapping entry: block of creation, status, block of the last status    *)
(* change.  A request that is not in the contract reads as NoEntry.        *)
(***************************************************************************)
Entry   == [height : Nat, status : Status, changed : Nat]
NoEntry == [height |-> 0, status |-> None, changed |-> 0]

EthTypeOK ==
    /\ ethHeight \in Nat
    /\ ethContract \in [EthRequests -> Entry]
    /\ ethPool \subseteq EthRequests

EthInit ==
    /\ ethHeight = EthStart
    /\ ethContract = [r \in EthRequests |-> NoEntry]
    /\ ethPool = {}

Logged(r) == ethContract[r].height > 0

\* changeStatus(r, Success) does not revert in block h on the entry e of r.
Accepts(e, h) == e.status = New /\ h <= e.height + ContractTimeout

\* withdrawPastDueReqest(r) does not revert in block h on the entry e of r.
PastDue(e, h) == e.status = New /\ h > e.height + ContractTimeout

\* The entry that block h makes of e.
Created(h)       == [height |-> h, status |-> New, changed |-> h]
Changed(e, s, h) == [height |-> e.height, status |-> s, changed |-> h]

(***************************************************************************)
(* A block: users create requests or withdraw expired ones, and pending    *)
(* changeStatus transactions take effect.                                  *)
(***************************************************************************)
MineBlock ==
    LET h == ethHeight + 1 IN
    /\ h <= MaxEthHeight
    /\ ethHeight' = h
    /\ \E created   \in SUBSET {r \in EthRequests : ~Logged(r)},
          finalized \in SUBSET {r \in ethPool : Accepts(ethContract[r], h)},
          withdrawn \in SUBSET {r \in EthRequests : PastDue(ethContract[r], h)} :
         /\ ethContract' = [r \in EthRequests |->
              IF r \in created THEN Created(h)
              ELSE IF r \in finalized THEN Changed(ethContract[r], Success, h)
              ELSE IF r \in withdrawn THEN Changed(ethContract[r], Returned, h)
              ELSE ethContract[r]]
         /\ ethPool' = ethPool \ finalized

\* The entry e once the blocks above base are gone.
RolledBack(e, base) ==
    IF e.height > base THEN NoEntry
    ELSE IF e.changed > base THEN Changed(e, New, e.height)
    ELSE e

\* The changeStatus transactions that are undone with the blocks above base.
Undone(base) ==
    {r \in EthRequests : ethContract[r].status = Success /\ ethContract[r].changed > base}

(***************************************************************************)
(* The entries of r that a new set of blocks from base + 1 to ethHeight    *)
(* may leave: a request that is not there may be created, and one that is  *)
(* there finalized, if it has a transaction, or withdrawn.                 *)
(***************************************************************************)
Rewritten(r, base) ==
    LET blocks  == base + 1 .. ethHeight
        e       == RolledBack(ethContract[r], base)
        pending == r \in ethPool \cup Undone(base)
        live    == {e} \cup {Created(h) : h \in {b \in blocks : e.height = 0}}
        Ends(l) == {l}
            \cup {Changed(l, Success, h) :
                     h \in {b \in blocks : pending /\ l.height <= b /\ Accepts(l, b)}}
            \cup {Changed(l, Returned, h) : h \in {b \in blocks : PastDue(l, b)}}
    IN  UNION {Ends(l) : l \in live}

(***************************************************************************)
(* The blocks above base are replaced.  A changeStatus transaction that    *)
(* was undone is mined again, or finds its way back into the pool, or is   *)
(* lost.                                                                   *)
(***************************************************************************)
ReplaceBlocks(base) ==
    \E entries \in [EthRequests -> UNION {Rewritten(r, base) : r \in EthRequests}],
       back \in SUBSET Undone(base) :
      /\ \A r \in EthRequests : entries[r] \in Rewritten(r, base)
      /\ ethContract' = entries
      /\ ethPool' = (ethPool \cup back) \
            {r \in EthRequests : entries[r].status = Success /\ entries[r].changed > base}
      /\ UNCHANGED ethHeight

Reorganize ==
    \E base \in 0 .. ethHeight - 1 : ethHeight <= base + MaxReorg /\ ReplaceBlocks(base)

\* A changeStatus(r, Success) transaction enters the pool.  The node runs it
\* against the next block first and refuses one that would revert.
Submit(r) ==
    /\ Accepts(ethContract[r], ethHeight + 1)
    /\ ethPool' = ethPool \cup {r}
    /\ UNCHANGED <<ethHeight, ethContract>>

\* A pending transaction is evicted, or mined and reverted.
DropTx(r) ==
    /\ r \in ethPool
    /\ ethPool' = ethPool \ {r}
    /\ UNCHANGED <<ethHeight, ethContract>>

EthEnvironment ==
    \/ MineBlock
    \/ Reorganize
    \/ \E r \in EthRequests : DropTx(r)
=============================================================================
