----------------------------- MODULE EventWatch -----------------------------
(***************************************************************************)
(* The Watch... functions that contracts/eth.go generates for the events   *)
(* of its contracts.  The library subscribes at the node, whose logs come  *)
(* through a channel of bounded capacity; a goroutine decodes each of them *)
(* and hands it over to the subscriber's sink.  It ends when a log cannot  *)
(* be decoded, when the subscription at the node fails, or when the user   *)
(* unsubscribes, which closes quit and waits for it.                       *)
(***************************************************************************)
EXTENDS ContractEvents, Naturals

CONSTANTS
    Capacity,  \* of the library's channel
    MaxLogs    \* bound: logs of one subscription

WatchAssumption == Capacity \in Nat \ {0} /\ MaxLogs \in Nat

VARIABLES
    event,        \* the event that is watched
    undecodable,  \* logs UnpackLog cannot decode
    upstream,     \* subscription at the node: "off", "live", "failed" or "cancelled"
    emitted,      \* logs put into the channel by the library
    fetched,      \* logs fetched from it
    delivered,    \* logs received from the sink
    forwarder,    \* goroutine: "off", "select", "forward", "returned" or "done"
    fault,        \* the goroutine has returned an error
    quit,         \* Unsubscribe was the first to end the subscription
    told,         \* the error is in the channel of the subscriber's Err()
    subscriber    \* "start", "reading", "leaving", "left", "ended" or "failed"

vars == <<event, undecodable, upstream, emitted, fetched, delivered, forwarder, fault, quit, told, subscriber>>

Init ==
    /\ event \in Events /\ undecodable = {}
    /\ upstream = "off" /\ emitted = 0 /\ fetched = 0 /\ delivered = 0
    /\ forwarder = "off" /\ fault = FALSE /\ quit = FALSE /\ told = FALSE /\ subscriber = "start"

\* The call of Watch<Event>.
Subscribe ==
    /\ subscriber = "start"
    /\ \/ /\ upstream' = "live" /\ forwarder' = "select" /\ subscriber' = "reading"
          /\ undecodable' \in SUBSET (1 .. MaxLogs)
       \/ subscriber' = "failed" /\ UNCHANGED <<upstream, forwarder, undecodable>>
    /\ UNCHANGED <<emitted, fetched, delivered, fault>>

\* The goroutine ends with err; the deferred call cancels the subscription.
Returns(err) == forwarder' = "returned" /\ fault' = err /\ upstream' = "cancelled"

\* Mutant of TakeLog: a log that cannot be decoded ends the watch without an error.
TakeLogQuietly ==
    /\ forwarder = "select" /\ fetched < emitted
    /\ fetched' = fetched + 1
    /\ IF fetched + 1 \in undecodable THEN Returns(FALSE)
       ELSE forwarder' = "forward" /\ UNCHANGED <<upstream, fault>>
    /\ UNCHANGED <<emitted, delivered, subscriber>>

\* The outer select takes a log.
TakeLog ==
    /\ forwarder = "select" /\ fetched < emitted
    /\ fetched' = fetched + 1
    /\ IF fetched + 1 \in undecodable THEN Returns(TRUE)
       ELSE forwarder' = "forward" /\ UNCHANGED <<upstream, fault>>
    /\ UNCHANGED <<emitted, delivered, subscriber>>

\* The inner select: the user receives the log.
Deliver ==
    /\ forwarder = "forward" /\ subscriber = "reading"
    /\ delivered' = delivered + 1
    /\ forwarder' = "select"
    /\ UNCHANGED <<upstream, emitted, fetched, fault, subscriber>>

\* Either select finds the subscription at the node ended, by an error or not.
NodeEnds ==
    /\ forwarder \in {"select", "forward"} /\ upstream = "failed"
    /\ \E err \in BOOLEAN : Returns(err)
    /\ UNCHANGED <<emitted, fetched, delivered, subscriber>>

\* Mutant of Quits: only the outer select looks at quit.
QuitsBetweenLogs ==
    /\ forwarder = "select" /\ quit
    /\ Returns(FALSE)
    /\ UNCHANGED <<emitted, fetched, delivered, subscriber>>

\* Either select finds quit closed.
Quits ==
    /\ forwarder \in {"select", "forward"} /\ quit
    /\ Returns(FALSE)
    /\ UNCHANGED <<emitted, fetched, delivered, subscriber>>

Goroutine == TakeLog \/ Deliver \/ NodeEnds \/ Quits

\* The code of one of the functions.
Watch(e) ==
    /\ event = e
    /\ Subscribe \/ (Goroutine /\ UNCHANGED undecodable)
    /\ UNCHANGED <<event, quit, told>>

WatchMint          == Watch("Mint")
WatchNewRequest    == Watch("NewRequest")
WatchReturn        == Watch("Return")
WatchStatusChanged == Watch("StatusChanged")
WatchApproval      == Watch("Approval")
WatchMinterAdded   == Watch("MinterAdded")
WatchMinterRemoved == Watch("MinterRemoved")
WatchTransfer      == Watch("Transfer")

-----------------------------------------------------------------------------
\* The library at the node's end: logs, and the end of the subscription.
Emit ==
    /\ upstream = "live" /\ emitted < MaxLogs /\ emitted - fetched < Capacity
    /\ emitted' = emitted + 1
    /\ UNCHANGED <<event, undecodable, upstream, fetched, delivered, forwarder, fault, quit, told, subscriber>>

Break ==
    /\ upstream = "live" /\ upstream' = "failed"
    /\ UNCHANGED <<event, undecodable, emitted, fetched, delivered, forwarder, fault, quit, told, subscriber>>

\* The library at the subscriber's end.  The goroutine is over: its error is passed
\* on unless the user was first.
Finish ==
    /\ forwarder = "returned" /\ forwarder' = "done"
    /\ told' = (fault /\ ~quit)
    /\ UNCHANGED <<event, undecodable, upstream, emitted, fetched, delivered, fault, quit, subscriber>>

Unsubscribe ==
    /\ subscriber = "reading"
    /\ IF forwarder = "done" THEN subscriber' = "left" /\ UNCHANGED quit
       ELSE subscriber' = "leaving" /\ quit' = TRUE
    /\ UNCHANGED <<event, undecodable, upstream, emitted, fetched, delivered, forwarder, fault, told>>

Unsubscribed ==
    /\ subscriber = "leaving" /\ forwarder = "done"
    /\ subscriber' = "left"
    /\ UNCHANGED <<event, undecodable, upstream, emitted, fetched, delivered, forwarder, fault, quit, told>>

\* The user finds Err() closed.
SeesEnd ==
    /\ subscriber = "reading" /\ forwarder = "done"
    /\ subscriber' = "ended"
    /\ UNCHANGED <<event, undecodable, upstream, emitted, fetched, delivered, forwarder, fault, quit, told>>

Step ==
    \/ WatchMint \/ WatchNewRequest \/ WatchReturn \/ WatchStatusChanged
    \/ WatchApproval \/ WatchMinterAdded \/ WatchMinterRemoved \/ WatchTransfer
    \/ Emit \/ Break \/ Finish \/ Unsubscribe \/ Unsubscribed \/ SeesEnd

\* The goroutines are not held up; the user need not read.
Fairness ==
    /\ WF_vars(Watch(event) /\ forwarder \in {"select", "forward"} /\ subscriber # "reading")
    /\ WF_vars(Finish) /\ WF_vars(Unsubscribed)

-----------------------------------------------------------------------------
\* Every variable has its type; a log is received once, after it was fetched.
TypeOK ==
    /\ event \in Events /\ undecodable \subseteq 1 .. MaxLogs
    /\ upstream \in {"off", "live", "failed", "cancelled"}
    /\ emitted \in 0 .. MaxLogs /\ fetched \in 0 .. emitted /\ delivered \in 0 .. fetched
    /\ emitted - fetched <= Capacity
    /\ forwarder \in {"off", "select", "forward", "returned", "done"}
    /\ fault \in BOOLEAN /\ quit \in BOOLEAN /\ told \in BOOLEAN
    /\ subscriber \in {"start", "reading", "leaving", "left", "ended", "failed"}

(***************************************************************************)
(* A user who has been told of no error and has not unsubscribed misses at *)
(* most the log in the goroutine's hands: while the watch goes on, every   *)
(* log fetched from the channel has been received.                         *)
(***************************************************************************)
NothingSkipped ==
    /\ forwarder = "select" => delivered = fetched
    /\ subscriber = "ended" /\ fetched \in undecodable => told

(***************************************************************************)
(* Unsubscribe returns: the goroutine looks at quit even where it holds a  *)
(* log that the user, who waits in Unsubscribe, no longer receives; and by *)
(* then the node has been told to stop.                                    *)
(***************************************************************************)
UnsubscribeReturns ==
    subscriber = "leaving" ~> subscriber = "left" /\ upstream = "cancelled"
=============================================================================
