# Verification of the anti-validators bridge

The program in `src/` is one validator of a bridge between an Ethereum
contract ("Supersymmetry") and its Waves counterpart. Users lock or burn tokens
on one chain by creating a *request*; validators copy the requests of both
contracts into a local database, sign the ones whose token is approved, poll
each other for signatures, and, once they hold a quorum, send a `changeStatus`
transaction that makes the contract call the request `Success`. A request that
is not finalized within a number of blocks can be withdrawn by its owner.

This directory holds TLA+ models of the program, TLC configurations that check
them on small instances, and proofs that TLAPS checks for every instance.

## The system

| Part | Code | State it keeps | Operations |
|---|---|---|---|
| Ethereum cacher | `cacher/eth.go` | rows of `requests`; within a pass: head, events, entry read | `handleEthLogs`, every 5 s |
| Waves cacher | `cacher/waves.go` | rows of `requests`; within a pass: state, height, position | `handleWavesState`, every 5 s |
| Signer | `signer/signer.go`, `signer/eth.go`, `signer/waves.go` | rows of `signs`, `Status` of rows of `requests` | `signRequest`, `getSigns`, `finalizeEthRequest`, `finalizeWavesRequest`, in a loop |
| HTTP server | `server/server.go` | none (reads both tables) | `handleGetSign`: this validator's signature for a request |
| Database | `models/`, gorm, SQLite | tables `requests` (key `Id`) and `signs` (no key) | lookups, `Save`, one bulk UPDATE per cacher pass |
| Waves client | `wavesapi/client.go` | none; `WaitTx` has a goroutine and a channel | one HTTP request per call |
| Waves transactions | `wavesapi/transactions/` | none | built, marshalled, signed by the node, parsed, broadcast |
| Ethereum contract | `contracts/eth.go` (generated binding and compiled code) | `requests`, `tokens`, `admins` | `createEthRequest`, `changeStatus`, `withdrawPastDueReqest`, `registerNativeToken` |
| Event bindings | `contracts/eth.go` | a goroutine and a channel for each iterator or watch | `Filter...`, `Next`, `Close`, `Watch...`, `Unsubscribe` |
| Process | `main.go`, `config/config.go`, `StartServer` | none | starts the goroutines on one database; ends on a signal or a panic |
| Converter | `converter/currency.go` | none | pure, called from nowhere |

How they interact: the two cachers, the signer and the server are goroutines of
one process and share nothing but the database; there are no transactions
around their lookups and Saves. The cachers and the signer talk to an Ethereum
and a Waves node; chains move, and are reorganised, between any two calls.
Validators poll each other over HTTP. A Go panic in any goroutine ends the
process; the database survives.

What is hard, and what makes each part correct:

* **Ethereum cacher.** It reads the head, the events and the contract's entry
  at three different moments; it walks oldest first and breaks at the first
  expired event; the walk and the closing UPDATE test expiry differently.
  Correct if a row is always backed by a settled entry (`Settled`), if what it
  calls Rejected is over but for the difference of the timeouts
  (`LateSuccessIsBounded`), if the two tests disagree only where they must
  (`ReopensOnlyAtDeadline`), and if requests get through
  (`VisibleIsCached`, limited by `NoEntryBehindExpired`).
* **Waves cacher.** It reads the state before the height, so a rollback between
  the two lets it judge a request that is gone; two of the ways through its
  walk do not advance, one leaves the list and panics. Correct, as far as it
  is, if the rows it writes are backed unless torn in that way
  (`SettledUnlessTorn`), if a pass that completes has left nothing out
  (`CompletedPassIsComplete`), and if a walk with nothing in its way ends
  (`ClearWalkEnds`).
* **Signer.** Lists go stale while a phase works through them; errors of
  lookups and of a contract call are ignored; an Ethereum transaction that is
  only sent is recorded as Success; the Waves phase ends at its first error.
  Correct if no validator is counted twice (`OneSignPerValidator`), if the
  quorum it counts is real (`QuorumIsReal`, `SentHasQuorum`), if Success is never made up on
  either chain (`SuccessHasQuorum`), and if what has a quorum is submitted, again
  after a loss (`QuorumIsSubmitted`, `FirstIsSubmitted`).
* **Server and peers.** The lookup before an insert is for the request asked
  for, the insert for the one the answer names, and the error of that lookup is
  ignored. Correct if a table holds no duplicates where lookups do not fail
  (`OneRowEach`), and no signature its owner has not made (`SignsAreGenuine`),
  and if the signatures for approved tokens get around (`SignaturesSpread`).
* **Database.** Several writers of one row. The sides agree on who may write
  what if the composition implements each cacher's abstract environment
  (`MirrorSpec`, `WavesMirrorSpec`, `EthNodeSpec`, `RejectedInTimeReopens`).
* **Waves client.** An unbuffered channel with two sends, a lookup that races a
  rollback, an answer that is lost after the transaction was taken, a proof that
  was made before the numbers were rounded. Correct if "confirmed" means in a
  block (`ConfirmationSpec`) and leaves no goroutine (`SubmissionEnds`),
  and if nothing is accepted that was not asked for (`AcceptedIsWanted`,
  `FittingIsSigned`).
* **Ethereum contract.** Deposits and claims, settled by votes or by time.
  Correct if it is an escrow (`EscrowSpec`) and if it is the contract that the
  models of the validator assume (`ChainSpec`).
* **Event bindings.** A goroutine and a user at two ends of a channel, either of
  which may leave first. Correct if nothing is lost silently
  (`EndedIsComplete`, `NothingSkipped`) and no goroutine and no caller is left
  waiting (`GoroutineReturns`, `UnsubscribeReturns`).
* **Process.** Started in steps of which some may fail, ended from outside or by
  any goroutine. Correct if what says "Started..." is a whole validator
  (`StartedIsWhole`) and if one that cannot be asked does not go on (`NeverDeaf`).

`PROJECT.json` lists the hazards one by one with the line where each bites.

## The modules

| Module | Models | Uses |
|---|---|---|
| `Models` | the status codes of `models/enums.go` | |
| `EthChain` | the chain and the contract's `requests`: blocks, reorganisations, pending transactions | `Models` |
| `Requests` | the table `requests` and its lookups | `Models` |
| `Signatures` | the table `signs` | `Requests` |
| `EthCacher` | `cacher/eth.go` | `EthChain`, `Requests` |
| `EthMirror` | the cacher with the rest of the program reduced to what it may do to the chain and the table | `EthCacher` |
| `Signer` | `signer/signer.go`, `signer/eth.go` | `EthChain`, `Signatures` |
| `EthNode` | one validator on Ethereum requests: cacher, signer, peers, chain, restarts | `EthCacher`, `Signer` |
| `WavesChain` | the Waves chain and the list its contract keeps: blocks, rollbacks | `Models` |
| `WavesCacher` | `cacher/waves.go` | `WavesChain`, `Requests` |
| `WavesMirror` | the Waves cacher with the rest of the program reduced to what it may do to the table | `WavesCacher` |
| `WavesHistory` | `WavesMirror` with a record of the rollbacks that overtake a pass | `WavesMirror` |
| `WavesApi` | what a call of `wavesapi/client.go` makes of a reply | |
| `WavesFinalizer` | `signer/waves.go` | `WavesChain`, `Signatures`, `WavesApi` |
| `Node` | one validator with both chains on one database | `EthCacher`, `Signer`; instances of `WavesCacher`, `WavesFinalizer`, `WavesMirror`, `EthNode` |
| `Network` | several validators, each with its tables, its signer and its server | `Models` |
| `Confirmation` | what waiting for a transaction promises (abstract) | |
| `WaitTx` | `WaitTx` and its caller | `WavesApi` |
| `Invocation` | a transaction on its way to the node, twice | `WavesApi` |
| `Submission` | one request from its invocation to the end of `WaitTx` | instances of `Invocation`, `WaitTx`, `Confirmation` |
| `Escrow` | what the Supersymmetry contract promises (abstract) | |
| `Supersymmetry` | the compiled contract in `contracts/eth.go` | `Models`; instances of `Escrow`, `EthChain` |
| `ContractEvents` | the events of that file | |
| `EventIterator` | `Filter...`, `Next` and `Close` | `ContractEvents` |
| `EventWatch` | `Watch...` and `Unsubscribe` | `ContractEvents` |
| `Process` | `main.go`, `StartServer` | |
| `Converter` | `converter/currency.go` | |
| `Goroutines` | one of `Process`, `Submission`, `EventIterator`, `EventWatch`, `Converter` at a time | instances of these |
| `EthCacherProofs` | types of the chain and the cacher, and the invariant behind `Settled` | `EthCacher`, `TLAPS` |
| `EthMirrorProofs` | theorems about `EthMirror` | `EthMirror`, `EthCacherProofs` |
| `EthNodeProofs` | theorems about `EthNode` | `EthNode`, `EthCacherProofs` |
| `WavesProofs` | theorems about `WavesMirror` and `WavesHistory` | `WavesHistory` |
| `NodeProofs` | theorems about `Node` | `Node`, `EthCacherProofs`; an instance of `WavesProofs` |
| `NetworkProofs` | theorems about `Network` | `Network` |
| `SupersymmetryProofs` | theorems about `Supersymmetry`, lemmas about sums | `Supersymmetry` |
| `GoroutinesProofs` | theorems about the parts of `Goroutines` | `Goroutines` |
| `MC...` | values for TLC | |

A module that is only instantiated names its assumption on the constants
(`WaitAssumption`, `IteratorAssumption`, ...) and the module that instantiates
it makes it (`NodeAssumption`, `GoroutinesAssumption`).

### Correspondence

*Ethereum chain.* `ethContract[r]` is what `contract.Requests(r)` returns, with
the block of the last status change added so that a reorganisation can undo it;
a request that is not there reads as the zero record, as it does in Go. The
tests of `changeStatus` and `withdrawPastDueReqest` (`Accepts`, `PastDue`) are
those of the compiled code in `contracts/eth.go`. `ethPool` holds requests with a
pending `changeStatus`; `DropTx` loses one, `MineBlock` mines any subset.
`Reorganize` replaces up to `MaxReorg` blocks by as many others, which may carry
whatever a block of that number may: requests created anew, `changeStatus`
transactions from the pool or from the blocks that are gone (`Undone`),
withdrawals. A transaction that was undone and is not mined again returns to the
pool or is lost. The new chain is as long as the old one; that it is shorter for
a moment is not modelled.

*Ethereum cacher.* `cPc` is the next call of `handleEthLogs`: `ReadHead`,
`FilterLogs`, then for the oldest event `SkipRecent` (line 89), `StopAtExpired`
(93) or `ReadRequest` followed by `StoreRequest` (97-124), then `ExpireRequests`
(126). `handleEthLogs` ends its loop when `Next` returns false and never asks
`logs.Error()`, so a log that cannot be decoded would look like the end of the
list; the cacher of the model has no such log (`EventIterator` has).
The tests of lines 88 and 92 and the read of the entry are one step:
nothing the code reads changes in between that it could notice. `FailPass` is
every `return err`. The other writers of a row change only `Status`, and the
cacher's Save does too, so the lookup at 97 and the Save that follows are one
step.

*Signer.* `sPc` is the phase of the loop in `StartSigner`, `sTodo` what is left
of the list the phase loaded, `sCur` the request in the hands of
`finalizeEthRequest`. `TokenPair` is what `Tokens` and the Waves state say of the
request's token; "unregistered" is a key missing from that state, whose type
assertion panics (`SignPanics`, `Panic`). `getSigns` is `GatherFrom`: any subset
of the peers that could answer does. Between `CheckRequest`, `SendChangeStatus`
and `MarkRow` the cacher and the chain move. `StoreReadsFail` lets the lookups
whose error the code ignores (`eth.go:97`, `signer.go:114`, `217`) miss a row.

*Waves chain.* The contract's keys form a list (`last_element`, `prev_rq_<id>`);
`wavesState` is that list, oldest first. The contract is not in the repository:
users create requests, and a New entry becomes Success or Returned. A rollback
drops the requests of the blocks it replaces and undoes the changes made in
them. The height stays, and the new blocks start empty: what they carry besides
comes with later steps, under the number of the newest block. For rollbacks of
one block, as the runs have them, that is exact.

*Waves cacher.* `wPc` is the next call of `handleWavesState`, `wPos` the place of
`orderId` in the state it read. The walk goes from the newest request to the
oldest; only the break at an expired request leads to the UPDATE. At a request
that has not settled, `continue` comes back to the same test on the same values
for ever: that is no step, and the pass stays where it is until the process
ends. At a request with a row, `continue` looks the row up again and again, and
changes it only where its status differs from the state's (`Refresh`). Beyond
the oldest request the key is missing and the process panics (`WalkPanics`).
`WavesHistory` adds two variables and changes nothing: `rolledBack` says that
blocks were replaced since the pass read its state, `torn` names the rows such a
pass has written.

*Waves finalizer.* `fList` is what is left of the New rows the phase has loaded;
it visits them in the table's order (`RowOrder`), so the next one is `First`.
`fState` is the contract's state when the phase began. At each request:
`MarkFinalized`, `SkipWithoutQuorum`, or `SubmitInvoke`, `TxConfirmed`
and `MarkConfirmed`. Every error ends it (`EndWavesPhase`), and so the requests
behind stay unvisited. `WaitTx` enters as what `Confirmation` promises of it: a
confirmed transaction has been in a block, everything else is an error.

*Node.* All goroutines of `main.go` on one database. `SignerRound` is the signer up
to `finalizeEthRequest`, `WavesPhase` the phase after it. `peerSigned` is what the
other validators' databases hold; they sign what they find in a contract and
submit when the admins have signed. `Restart` keeps the tables and the chains and
drops everything else. `EthNode` is the same for Ethereum requests alone.

*Network.* Here the peers are validators of their own. `Visit` takes one request
and one peer out of the list a phase has loaded; the call to the peer and its
answer are one step, because the server only reads. A row of `signs` is a record
with a copy number, so that a table without a key can hold equal rows. As in
`Signer`, a request is signed only if its token is approved (`TokenPair`), and
one whose token is unregistered makes the process panic; a lookup of a signature
whose error is ignored may miss a row, here for the validators in `FailingDbs`.

*Submission.* `SignTx` and `Broadcast` are one step each with the node's answer,
which may be lost after the node has acted. An integer is written exactly and
decoded to the nearest float (`Float`), the proof is over what was written first,
and the node compares. In `WaitTx` the goroutine and the caller meet at the
channel in `Receive`; `sendTwice` is the branch of `client.go:192` that goes on
after its error.

*Supersymmetry.* Each action is a transaction that does not revert, read off the
compiled code of the contract in `contracts/eth.go` (`SupersymmetryBin`), since
there is no Solidity source in the repository. What the code shows and an
interface would not: `changeTokenStatus` requires two different statuses at once
and always reverts; `createTokenRequest` needs a token that it would have
approved, and reverts; `registerInputToken` deploys a token whose constructor
reverts. So all requests are of ether. The amount of a Lock is the ether sent,
that of an Unlock an argument, and ether sent with an Unlock is kept. The type is
not part of the request's hash. `signed` are the signatures oracles have made
off the chain, `pool` the `changeStatus` transactions under way.

*Bindings.* Eight events have the same generated code; the parameter of `Filter`,
`Next`, `Close` and `Watch` is the event. In `EventIterator` the library's
goroutine fills a bounded channel and the user takes from it, stops, fails or
leaves without `Close` as the cacher does. In `EventWatch` the forwarding goroutine
holds at most one log between the library and the sink.

*Process.* `proc[i]` is what `main` of instance `i` does next and which goroutines
it has started. `http.HandleFunc` panics when a pattern is registered again, so
the loop in `StartServer` ends the process in its second round.

*Converter.* A value of `big.Float` is a fraction that each operation rounds to
`Precision` bits, to the nearest value and the even one of two. `Power` is a
recursive function, and `Rounded` finds the power of two it scales by as the
least one that is large enough, so that both can be proved about.

## The runs

| Run | Question | Bounds |
|---|---|---|
| `eth_mirror` | Is the table always backed by settled entries; what does expiry do, and how late can what is given up still succeed? | 2 requests, blocks 4-9, reorganisations of 2 = `BlockInterval`, timeouts of 3 for the validator and 4 for the contract: settling, deadline and the passes after it all fit; lookups may fail |
| `eth_mirror_progress` | Does every visible request reach the table? | 2 requests, blocks 4-7, reorganisations of 1, timeout and `BlockInterval` 1, so that a request is visible at one head only and an older one in time is of the same block |
| `eth_node` | Are quorums and Success real, to the deadline and beyond? | 1 request, 3 validators of which 1 polled without being an admin, quorum 2, blocks 3-7, reorganisations of 1 |
| `eth_node_lost_reads` | What remains when ignored lookup errors happen, and does the validator stay within what `EthMirror` allows? | 2 requests, one of them makes the signer panic, 2 validators, up to 2 rows per validator and request, blocks 3-7, timeouts of 2, no reorganisations |
| `eth_node_progress` | Is what has a quorum submitted, also after a loss? | 1 request, 2 validators, blocks 4-7, reorganisations of 1 |
| `waves_cacher` | What do the rows of Waves requests promise, and which passes end? | 2 requests, blocks 3-5, rollbacks of 1 = `WavesInterval`, timeout of 1; lookups may fail |
| `node_waves` | Is Success real on Waves, has what is sent a quorum of different validators, does the validator stay within `WavesMirror`? | 1 Waves request, 3 validators of which 1 is not an admin, quorum 2, blocks 3-5, rollbacks of 1, restarts |
| `waves_queue` | Is the first request that is not passed over submitted? | 2 Waves requests in the order of their rows, 1 validator that is its own quorum, blocks 3-4, restarts; the passes of the Ethereum cacher, which has no request there, are left out |
| `node_both` | What does the Waves cacher's UPDATE do to Ethereum rows? | 1 request on each chain, Waves blocks 3-5 over Ethereum blocks 3-5, timeouts of 1, `BlockInterval` 0 as in `config.json`: a row is stored a block before its deadline, and until then only the Waves UPDATE rejects it |
| `network` | Do signatures spread, once each, from those who made them? | 2 requests, one with an approved and one with an unregistered token, 2 validators that poll each other, one of them with failing lookups, up to 2 equal rows |
| `supersymmetry` | Is the compiled contract an escrow, and the one `EthChain` models? | 2 requests of one user, amounts 0 and 1, either type, 2 slots of admins, quorum 2, both verdicts, blocks 1-3, timeout of 1 |
| `goroutines` | Does everybody who waits get an answer, and is nothing lost or left behind on the way? | 2 instances on one port; 10 polls as in the code; mantissas of 3 bits with numbers 8, 9, 11; up to 3 logs, a channel of 1; conversions of 30 amounts between 0, 1 and 2 decimals with mantissas of 5 bits |

Bounds are named constants: `MaxEthHeight` and `MaxWavesHeight` (in the guards of
`MineBlock` and `WavesBlock`), `MaxReorg`, `MaxWavesReorg`, `MaxCopies` (in
`FindSign`), `MaxHeight`, `MaxRequests`, `MaxItems`, `MaxLogs`, `WaitCount`. Two
requests are enough for the ordering properties, which speak of pairs; the
signer handles the requests of a phase one by one and keeps nothing from one to
the next but the list. Three blocks are enough for the Waves cacher with a
timeout of 1: a request settles in the first, is in time in the second and
expired in the third. The mantissas are scaled down from 53 bits with the
numbers; what matters is that some numbers fit, some are rounded up and some
down. Symmetry is used in `eth_mirror` only, whose properties quantify over all
requests. Deadlock is not checked in `supersymmetry` and `goroutines`, where
everything may be done.

The five parts of `goroutines` share no variable, so a behaviour of all of them
is one behaviour of each: the run starts in one of five scenes and stays there,
and explores the sum of the state spaces instead of their product.

### What the properties do not say, and why

* `Settled` needs `MaxReorg <= BlockInterval`: with deeper reorganisations TLC
  finds it violated. The program checks nothing of the kind, and `config.json`
  ships `BlockInterval` 0: under it the theorems with that assumption speak only of
  a chain without reorganisations.
* Rejected is not final. The pass that rejects (`eth.go:126`) does so at the head
  `createdAt + RqTimeout`, in the last block of the request's time, and a
  reorganisation may replace that block, even if it is only one deep, by one with
  the pending `changeStatus`; the row stays Rejected if no pass with that head
  follows. A contract that accepts a request for longer than the validator keeps it
  adds the difference. `LateSuccessIsBounded` says that this is all: the block of the
  change is numbered at most `ContractTimeout - RqTimeout` above the head of the
  pass, with equal timeouts a block that is there already. The program does not
  compare the timeouts. With a contract that gives up `MaxReorg` blocks earlier than
  the validator, Rejected is final (`GivenUpWithMarginIsFinal`).
* `OneSignPerValidator` is not checked in `eth_node_lost_reads` because it does
  not hold there: a lookup that fails unnoticed inserts a second row, and the
  local quorum then counts one validator twice. That run shows that the
  contract's own count still protects Success.
* The counterpart of `Settled` for Waves does not hold: rows that a torn pass
  has written are excepted, until a pass that is not torn writes them again.
* `ClearWalkEnds` speaks of walks that meet no unsettled request, no row and no
  end of the list before an expired request. The others do not end: with one row
  already there a pass stays at it, looking it up again and again, until a Save
  of its status fails or the process ends.
* `FirstIsSubmitted` speaks of the first New row that `finalizeWavesRequest` does
  not pass over: those before it lack a quorum, or are Success already and only
  to be marked (`PassedOver`). The requests behind it have no such promise: one that
  cannot be submitted, for instance one the contract has Returned after its row was
  written, ends the phase in every round, and no Waves row is ever Rejected.
* `OneRowEach` says nothing of a validator in `FailingDbs`: its table does repeat
  rows. `SignaturesSpread` says nothing of a request whose token is not approved, for
  it is never signed, and of a validator with a New request of an unregistered
  token, for its process may end in every round before it polls.
* `StartedIsWhole` says that the goroutine of the server and all loops have been
  started. It does not say that the server has its port, which another instance
  may hold; `NeverDeaf` is about that.
* `EthNodeSpec` excepts the UPDATE of `cacher/waves.go:95`, which compares
  Ethereum rows with the height of the Waves chain. It rejects rows whose time
  is not over (`node_both` has states where it does); `RejectedInTimeReopens` says
  that the Ethereum cacher undoes that as long as the request's time lasts.
  `NodeImplementsEthNode` proves that there is no other difference, and two
  theorems say what it takes for there to be none: as long as no height of the
  Waves chain reaches the end of a request's time (`WavesFarBehind`), the validator
  with both chains is an `EthNode` without exception, and what is proved of
  `EthNode` is proved of it; as long as the Waves chain is not the higher one
  (`WavesBehind`), the bound on late finalizations holds whichever UPDATE has
  rejected a row. The program does not compare the two heights; on the public
  networks the Waves chain is far behind.
* In `Escrow` the pot may be negative: nothing in the contract ties what the
  oracles let it pay to what they have let it keep.
* `ChainSpec` holds while oracles sign nothing but Success, which is all that the
  validators of this repository sign.
* `WithinOneUnit` is not exactness: two roundings and a cut may lose or gain a
  unit even between equal decimals. Nor does it speak of amounts or results that
  need more bits than the mantissa has: those are rounded before they are cut.
* `SubmissionEnds` is about confirmed transactions: after an error of
  `GetTxById` the goroutine does stay for ever at its second send.

### Fairness

`EthMirror!FairSpec`: the goroutine of the cacher runs forever
(`WF(HandleEthLogs)`: an endless loop with a sleep), and a call that is repeated
for the same request succeeds in the end (`SF` on `FilterLogs`, on visiting a
request's event, and on storing it). Errors and restarts may occur without end.
`EthNode!FairSpec` adds the same for the signer: weak fairness of its loop, and
strong fairness of signing, polling each peer, checking and submitting a request.
It has no restarts: what a restart leaves behind is also left behind by failing
calls, which it allows without end. Nothing is assumed of the chain, of the
other validators, or of transactions once they are sent. What is assumed, and
what the code does not ensure, is that a call returns at all: the Waves client
and the contract calls of the signer have no time limit.

`WavesHistory!HistorySpec` assumes only that the pass goes on; calls may fail and
the process restart without end. `Node!WavesFairSpec` has the weak fairness of the
signer's phases, the strong fairness of signing, polling a peer, loading the list
and the state, counting a request's rows, and submitting, and the weak fairness of
a panic: a goroutine at a missing key does not wait there. `WavesOnlySpec` of
`MCNode` is the same without the passes of an Ethereum cacher that has nothing
to do. `FirstIsSubmitted` holds if there comes a time
without restarts (`Calm`): a panic of the Waves cacher takes the signer with it,
and a process that dies in every round submits nothing. `Node!EthFairSpec` is
that of the Ethereum cacher, without restarts, and assumes nothing of the Waves
cacher. `Network!FairSpec`: each validator's loop runs, and signing a request of an
approved token and being answered by a peer for it succeed if they can be
repeated. In `Goroutines`
no goroutine that can go on is held up; the users of the bindings need neither
read nor unsubscribe, the node and the chain need do nothing but answer.

`Visible`, `Submittable` and `FirstToSubmit` are the preconditions of the progress
properties and say what limits them: a request behind an expired one is not
visible, a request at its exact deadline, where the row alternates between New
and Rejected, need not be submitted, and neither need a Waves request behind
another one that is not passed over.

## The proofs

`EthCacherProofs` has what the theorems about `EthMirror`, `EthNode` and `Node` share.
`Settled` is not inductive: the row is written from `cRead`, and the entry may have
been reorganised away since it was read. The invariant `WalkInv` adds that the
head of a pass is no newer than the chain (`HeadInv`), that an entry in the
cacher's hands is settled, in time, and still the contract's (`ReadInv`), and
that the events still to be visited are those the contract has, apart from what
is too recent, while what has been visited was not expired (`LogsInv`, which
gives the order property). `ChainEffect` says once what a step of the chain can
do to an entry; `ChainKeepsWalk`, `CacherKeepsWalk` and `QuietKeepsWalk` go through
the steps. `WalkNext` are the steps of any system the cacher is a part of: its own,
the chain's, and those `Beside` it, which leave the chain and the head of the pass
alone and may set a stored row to Success or Rejected. `RewriteEffect` says what the
new blocks of a reorganisation may leave of an entry, and `LateSuccessEffect` what a
step that finalizes one may do. `RejectedInv`, that a
Rejected row was past its time at the head of some pass, holds as long as nothing
beside the cacher rejects rows (`RejectsOverdue`). Assumptions: `EthAssumption`,
`RequestsAssumption` and `CacherAssumption`, of which `RqTimeout < EthStart` says
that the chain is older than the timeout; the code relies on it where an entry that
vanished reads as height 0 and must count as expired.

`EthMirrorProofs` proves, for any number of requests, any chain and any timeouts,

* `TypeCorrect`: `Spec => []TypeOK`;
* under `MaxReorg <= BlockInterval`: `SettledAlways`,
  `ReopensOnlyAtDeadlineAlways`, `NoEntryBehindExpiredAlways`,
  `LateSuccessIsBoundedAlways`, for whatever timeouts, and, with
  `ContractTimeout + MaxReorg <= RqTimeout`, `GivenUpWithMarginIsFinal`.

`EthNodeProofs` proves, for any set of requests, validators and admins, any
thresholds, and any depth of reorganisations,

* `NodeTypeCorrect`: `Spec => []TypeOK`. The part that takes an argument is that the
  signer never holds a request the table does not: a row must never look like no
  row. `HeightsInv` says that every row has a positive height, because the
  cacher takes an entry that vanished for an expired one and does not store it.
* `SuccessHasQuorumAlways`. `SuccessInv` adds that every row of `signs` is the
  signature of a validator that has signed (`RowsAreSigned`), and that a Success the
  cacher or the signer carries from one step to the next has its quorum already
  (`InHandsInv`). Signatures only grow (`SignsGrow`, `QuorumGrows`), so a quorum
  outlives stale lists, reorganisations and restarts. No assumption is made on
  `StoreReadsFail`: failing lookups do no harm here.
* `OneSignPerValidatorAlways` and `QuorumIsRealAlways`, under `StoreReadsFail = FALSE`:
  a step inserts rows for validators that have none (`InsertsOnlyMissing`), and with
  one row per validator counting rows is counting validators (`RowsAreSigners`).
* `NodeImplementsMirror`: `Spec => MirrorSpec`. The cacher and the chain are the same
  in both; a step of the signer is a transaction, a stored row marked Success, or
  a stutter; a panic is a restart.
* under the assumptions of the corresponding theorems about `EthMirror`:
  `NodeRowsAreSettled`, `NodeLateSuccessIsBounded` and `NodeReopensOnlyAtDeadline`. The signer
  is beside the cacher (`SignerIsBeside`): it marks only rows that are there.

`WavesProofs` proves, for any set of requests, any number of Waves blocks and any
timeouts,

* `WavesTypeCorrect` and `CompletedPassIsCompleteAlways`, for rollbacks of any
  depth. The invariant `MirrorInv` adds that the list has each request once,
  above height 0, and that the copy a pass reads has too (`ListInv`, `ReadInv`):
  a key looked up in that copy is then the place the walk is at.
* `SettledUnlessTornAlways`, under `MaxWavesReorg <= WavesInterval`. `PassInv` says
  that as long as no rollback has come between the two reads, the settled
  entries of the copy are still in the contract, for the rollbacks that come
  later do not reach them; `RowsBacked`, that a row not torn is in the contract
  under enough blocks, follows when the pass stores one. `RollbackEffect` says
  once what a rollback leaves.

`NodeProofs` proves of one validator with both chains, for any requests,
validators, thresholds and depths, and also when lookups fail unnoticed,

* `NodeSuccessHasQuorum`, with the invariant `NodeInv`: types; the requests the last
  phase still has to visit are stored (`ListStored`); a row of `signs` is of a
  validator that has signed (`RowsAreSigned`); a Success that is anywhere on
  the way, in a cacher's copy, in the signer's hands, in a pool, in the
  finalizer's state, in a row or in a contract, has its quorum (`EthBacked`,
  `WavesBacked`). The Waves cacher is where it takes an argument: it copies a
  status from a state that a rollback may have made stale, and a quorum once
  there outlives that.
* `NodeImplementsWavesMirror`: the Waves side is a `WavesMirror`; every step of the
  Ethereum side is a stutter of it. `NodeCompletesPasses` carries over to the
  validator what `WavesProofs` has proved.
* `NodeImplementsEthNode`: the Ethereum side is an `EthNode`, but for `WavesRejects`,
  whose guard is proved with `HeightRead`: the height a pass has read is one the
  Waves chain has.
* under `MaxReorg <= BlockInterval`: `NodeEthRowsAreSettled` and `NodeEntersInOrder`.
  The Waves cacher's UPDATE is beside the Ethereum cacher, for it changes no height;
  it does reject by another chain's height, so the properties of Rejected rows
  are not among them. `EthHeld` is added: the signer marks only rows that are
  there, or an empty row would look like a stored one.
* under that assumption and `[]WavesBehind`, for whatever timeouts:
  `NodeLateSuccessIsBounded`. `OverdueInv`, that a Rejected row is past its time on its own
  chain, is kept by either UPDATE then.
* under the same assumption and `[]WavesFarBehind`: `NodeIsEthNode`, the refinement
  without the exception. `EntryHeights` says that every entry is of a block after
  the first, so no row's time ends before `EthStart + RqTimeout`; the UPDATE of the
  Waves cacher is then a stutter. `[]WavesBehind` and `[]WavesFarBehind` are
  hypotheses about the chains, which no step of the validator can make false.
* under `StoreReadsFail = FALSE`: `NodeSignsOnce`, and `NodeSentHasQuorum`: what the
  signer sends to Ethereum, has in the pool of the Waves node or waits for has been
  signed by `BftCoefficient` different validators. `SentStep` follows a request from
  the count of its rows to the pool and back; signers are never lost
  (`SignersGrow`), so the count stays true while the transaction is under way.

`NetworkProofs` proves `NetworkTypeCorrect`, `OneRowEachAlways` and
`SignsAreGenuineAlways` for any number of validators that poll each other in any
pattern, any of which may have failing lookups. Each of the two properties is
inductive with the types. A row is inserted only where a lookup has found none,
which means that there is none if the lookup cannot fail (`SaveUnfound`), so
`OneRowEach` holds of the validators outside `FailingDbs` whatever the tables of the
others repeat; and what a server answers is a row of its own table.

`SupersymmetryProofs` proves of the compiled contract, for any users, oracles,
amounts, quorum and timeout,

* `ContractTypeCorrect`, of which the part with content is that the balance is
  never negative and only requests that exist are signed or sent;
* `ContractImplementsChain`, with `BlockInv`: the dates of an entry are those its
  status allows, and what is under way has been signed. The blocks of `Chain` are
  the sealed ones; the transactions before `SealBlock` are stutters
  (`UnseenStep`, `SealIsMineBlock`).
* `ContractImplementsEscrow`, whatever the oracles sign, with `EscrowInv`, which adds
  that the requests made so far are finitely many. `Total` is a fold, of which
  the provers know only its definition; `SumOf` describes it by the partial sums
  along some order, and the lemmas of the section "Sums" show that the order does not
  matter and what an entry more or less does to it. Where one would use
  induction over the set of entries the proofs take a smallest counterexample
  (`MinimalSubset`).

Both refinements assume `Start <= MaxHeight`: the first block is within the bound.

`GoroutinesProofs` proves of the parts that only meet through a channel, a port
or the node, for any number of instances, logs and polls and any capacity,

* `StartedIsWholeAlways`; `OneProcess` says what a step may change of the instance
  it is about, and of the others.
* `SubmissionImplementsPromise`, the refinement `ConfirmationSpec`. `SubmissionInv`
  relates the channel to the chain: "nil" is sent only once the transaction has
  been in a block, and not before it was broadcast.
* `AcceptedIsWantedAlways` and `FittingIsSignedAlways`, for any arguments, fees and
  width of the mantissa: what is broadcast is the proof over what was wanted with
  numbers that may have been rounded, and the node compares. `FloatType` is all
  that is needed of the rounding; `JsonIsWhole` says that a number that fits
  is not changed.
* `EndedIsCompleteAlways` and `NothingSkippedAlways`, with the counts of what was
  found, sent and taken (`IteratorInv`) or fetched and delivered (`WatchInv`).
* `WithinOneUnitAlways`, for mantissas of two bits or more, any base, amounts and
  decimals. A rounding moves a number by at most its part `1 / (2 * Low)`
  (`RoundedIsClose`). If the second power is the larger one, the division was by a
  factor that the product has again, and the product misses the exact integer
  by no more than that part of it (`NearAfterRaising`); otherwise the quotient is
  halved at least, and so is its error (`NearAfterLowering`). Either way the
  product is `Near` the exact result, which leaves the second rounding no more
  than one unit (`CutIsNear`). The boundaries are where this is tight: a result of
  one unit above the mantissa's range rounds down, since `Low` is even.
  That `Power` exists at all takes an induction, for which `EveryNatural` does
  what the library's theorem would: it is about a set instead of an operator.

Only model-checked are the progress properties, for liveness under fairness is
out of the prover's reach: `VisibleIsCached`, `QuorumIsSubmitted`, `ClearWalkEnds`,
`FirstIsSubmitted`, `RejectedInTimeReopens`, `SignaturesSpread`, `SubmissionEnds`,
`NeverDeaf`, `GoroutineReturns` and `UnsubscribeReturns`.

Every other property of every run is a theorem.

## Not modelled

* The bytes of messages, signatures, addresses and transactions: a signature is
  one that verifies, an id stands for what was hashed.
* Columns of `requests` other than `CreatedAt`, `Status` and `ChainType` (as a
  partition of the ids): the others are written once, with the row, from the
  entry, and no control depends on them but `TokenPair`.
* An invocation that the Waves chain mines as failed: `MineInvoke` mines what
  takes effect, and one that would fail stays pending or is dropped.
* A stall of a call without a time limit (`signer.go:230`): the models have no
  step for it, the fairness above assumes it away.
* The shutdown after a signal has reached `main` (`main.go:70`): `Process` has its
  steps, but nothing in the program depends on their order, for the loops go on
  until the process ends and a restart may come at any point of them anyway.
* `GetBalance`, `GetTransactions` and `VerifyMsg` of the Waves client, the other
  generated bindings of `contracts/eth.go` (`ERC20`, `IERC20`, `MinterRole`,
  `SafeMath`, ..., and the functions of `Token`): nothing in the program calls
  them, and the contract cannot create a `Token`.
* Amounts that are not natural numbers: the converter divides a nil for a text
  that is no number, and nothing calls it.
* Logging, and the loading of the configuration beyond its failing.

## Plan

What would be worth adding, in this order:

1. The signer of `Network` against a contract that counts signatures, so that the
   quorums of `Node`, whose peers are abstract, are those of real tables.
2. A counterpart of `NodeLateSuccessIsBounded` without `WavesBehind`, which excepts the
   rows the Waves cacher's UPDATE has rejected, as `SettledUnlessTorn` excepts torn
   ones.
