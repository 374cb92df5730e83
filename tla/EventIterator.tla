--------------------------- MODULE EventIterator ----------------------------
(***************************************************************************)
(* The iterators that contracts/eth.go generates for the events of its     *)
(* contracts; the cacher walks that of NewRequest.  Filter... has the      *)
(* library fetch all logs of an event and start a goroutine that puts them *)
(* into a channel of bounded capacity.  Next takes from that channel until *)
(* the goroutine has returned, and then what is left in it.                *)
(* The user may stop at any log; the cacher stops at an expired request    *)
(* or an error, and never calls Close.                                     *)
(***************************************************************************)
EXTENDS ContractEvents, Naturals

CONSTANTS
    Capacity,  \* of the library's channel
    MaxLogs    \* bound: logs of one event

IteratorAssumption == Capacity \in Nat \ {0} /\ MaxLogs \in Nat

VARIABLES
    event,        \* the event that is iterated over
    found,        \* number of logs the library has fetched
    malformed,    \* those UnpackLog cannot decode
    sent,         \* logs put into the channel
    taken,        \* logs taken from it by Next
    producer,     \* the library's goroutine: "off", "sending" or "returned"
    unsubscribed, \* Unsubscribe has been called
    done,         \* it.done
    user          \* "start", "reading", "ended", "failed", "left" or "closed"

vars == <<event, found, malformed, sent, taken, producer, unsubscribed, done, user>>

Init ==
    /\ event \in Events
    /\ found = 0 /\ malformed = {} /\ sent = 0 /\ taken = 0
    /\ producer = "off" /\ unsubscribed = FALSE /\ done = FALSE /\ user = "start"

\* Filter<Event>: an error of the fetch leaves no iterator.  What the addresses
\* of the arguments leave out of the logs, the node leaves out.
Filter(e) ==
    /\ event = e /\ user = "start"
    /\ \/ /\ \E n \in 0 .. MaxLogs :
               /\ found' = n
               /\ malformed' \in SUBSET (1 .. n)
          /\ producer' = "sending" /\ user' = "reading"
       \/ user' = "failed" /\ UNCHANGED <<found, malformed, producer>>
    /\ UNCHANGED <<event, sent, taken, unsubscribed, done>>

FilterMint          == Filter("Mint")
FilterNewRequest    == Filter("NewRequest")
FilterReturn        == Filter("Return")
FilterStatusChanged == Filter("StatusChanged")
FilterApproval      == Filter("Approval")
FilterMinterAdded   == Filter("MinterAdded")
FilterMinterRemoved == Filter("MinterRemoved")
FilterTransfer      == Filter("Transfer")

\* The select of Next takes a log; one that cannot be decoded fails it.
TakeLog ==
    /\ taken < sent
    /\ taken' = taken + 1
    /\ user' = IF taken + 1 \in malformed THEN "failed" ELSE "reading"
    /\ UNCHANGED done

\* Mutant of ProducerGone: what is still in the channel is forgotten.
ProducerGoneEnds ==
    /\ ~done /\ producer = "returned"
    /\ done' = TRUE /\ user' = "ended"
    /\ UNCHANGED taken

\* The select of Next finds sub.Err() closed, and Next calls itself.
ProducerGone ==
    /\ ~done /\ producer = "returned"
    /\ done' = TRUE
    /\ UNCHANGED <<taken, user>>

\* Nothing is left in the channel of a goroutine that has returned.
NoMoreLogs ==
    /\ done /\ taken = sent
    /\ user' = "ended"
    /\ UNCHANGED <<taken, done>>

Next(e) ==
    /\ event = e /\ user = "reading"
    /\ TakeLog \/ ProducerGone \/ NoMoreLogs
    /\ UNCHANGED <<event, found, malformed, sent, producer, unsubscribed>>

NextMint          == Next("Mint")
NextNewRequest    == Next("NewRequest")
NextReturn        == Next("Return")
NextStatusChanged == Next("StatusChanged")
NextApproval      == Next("Approval")
NextMinterAdded   == Next("MinterAdded")
NextMinterRemoved == Next("MinterRemoved")
NextTransfer      == Next("Transfer")

\* Mutant of Close: the subscription is kept.
CloseSilently(e) ==
    /\ event = e /\ producer # "off" /\ user # "closed"
    /\ user' = "closed"
    /\ UNCHANGED <<event, found, malformed, sent, taken, producer, unsubscribed, done>>

\* Close unsubscribes, which the goroutine sees even where it cannot send.
Close(e) ==
    /\ event = e /\ producer # "off" /\ user # "closed"
    /\ unsubscribed' = TRUE /\ user' = "closed"
    /\ UNCHANGED <<event, found, malformed, sent, taken, producer, done>>

CloseMint          == Close("Mint")
CloseNewRequest    == Close("NewRequest")
CloseReturn        == Close("Return")
CloseStatusChanged == Close("StatusChanged")
CloseApproval      == Close("Approval")
CloseMinterAdded   == Close("MinterAdded")
CloseMinterRemoved == Close("MinterRemoved")
CloseTransfer      == Close("Transfer")

\* break and return in handleEthLogs: the iterator is dropped as it is.
Leave ==
    /\ user = "reading" /\ taken > 0
    /\ user' = "left"
    /\ UNCHANGED <<event, found, malformed, sent, taken, producer, unsubscribed, done>>

-----------------------------------------------------------------------------
Produce ==
    /\ producer = "sending" /\ sent < found /\ sent - taken < Capacity
    /\ sent' = sent + 1
    /\ UNCHANGED <<event, found, malformed, taken, producer, unsubscribed, done, user>>

Return ==
    /\ producer = "sending" /\ (sent = found \/ unsubscribed)
    /\ producer' = "returned"
    /\ UNCHANGED <<event, found, malformed, sent, taken, unsubscribed, done, user>>

Iterate ==
    \/ NextMint \/ NextNewRequest \/ NextReturn \/ NextStatusChanged
    \/ NextApproval \/ NextMinterAdded \/ NextMinterRemoved \/ NextTransfer

Step ==
    \/ FilterMint \/ FilterNewRequest \/ FilterReturn \/ FilterStatusChanged
    \/ FilterApproval \/ FilterMinterAdded \/ FilterMinterRemoved \/ FilterTransfer
    \/ Iterate
    \/ CloseMint \/ CloseNewRequest \/ CloseReturn \/ CloseStatusChanged
    \/ CloseApproval \/ CloseMinterAdded \/ CloseMinterRemoved \/ CloseTransfer
    \/ Leave \/ Produce \/ Return

\* The library's goroutine and a user that reads on are not held up.
Fairness == WF_vars(Produce \/ Return) /\ WF_vars(Iterate)

-----------------------------------------------------------------------------
\* Every variable has its type; the channel never holds more than it can.
TypeOK ==
    /\ event \in Events /\ found \in 0 .. MaxLogs /\ malformed \subseteq 1 .. found
    /\ sent \in 0 .. found /\ taken \in 0 .. sent /\ sent - taken <= Capacity
    /\ producer \in {"off", "sending", "returned"}
    /\ unsubscribed \in BOOLEAN /\ done \in BOOLEAN
    /\ user \in {"start", "reading", "ended", "failed", "left", "closed"}

(***************************************************************************)
(* When Next says that there are no more events and Error says that        *)
(* nothing failed, the user has seen every log: the end of the goroutine   *)
(* and the logs still in the channel arrive in either order.               *)
(***************************************************************************)
EndedIsComplete == user = "ended" => taken = found /\ malformed = {}

\* The user is done with the iterator, and what it has not taken fits into
\* the channel, or Close was called.
Released ==
    \/ user \in {"ended", "closed"}
    \/ user \in {"failed", "left"} /\ producer # "off" /\ found - taken <= Capacity

(***************************************************************************)
(* An iterator that is left without Close, as cacher/eth.go:93 leaves it,  *)
(* keeps its goroutine only if more logs were left than the channel holds; *)
(* one that is closed or read to its end keeps none.                       *)
(***************************************************************************)
GoroutineReturns == Released ~> producer = "returned"

=============================================================================
