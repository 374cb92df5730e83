---------------------------- MODULE Goroutines -----------------------------
(***************************************************************************)
(* The goroutines that somebody waits for or leaves behind: those that     *)
(* main starts (Process), the one that polls for a transaction             *)
(* (Submission), and those of the library behind an iterator               *)
(* (EventIterator) or a watch (EventWatch); and the converter, which a     *)
(* goroutine calls by itself.  They share nothing with each other, so a    *)
(* behaviour of all of them is one of each: this module picks one, the     *)
(* scene, and the variables of the others keep their values.               *)
(***************************************************************************)
EXTENDS Naturals, FiniteSets

CONSTANTS
    Instances, Capacity, MaxLogs, Mantissa, Numbers, MaxItems, WaitCount,
    Precision, Base, Amounts, Decimals

VARIABLES
    scene,
    proc, port,                                                  \* Process
    wanted, transaction, pc, pool,                               \* Submission
    tx, wasMined, gPc, i, result, caller,
    event,                                                       \* both bindings
    found, malformed, sent, taken, producer, unsubscribed,       \* EventIterator
    done, user,
    undecodable, upstream, emitted, fetched, delivered,          \* EventWatch
    forwarder, fault, quit, told, subscriber,
    conversion                                                   \* Converter

Main     == INSTANCE Process
Tx       == INSTANCE Submission
Iterator == INSTANCE EventIterator
Watch    == INSTANCE EventWatch
Amount   == INSTANCE Converter

ASSUME GoroutinesAssumption ==
    Tx!SubmissionAssumption /\ Iterator!IteratorAssumption /\ Watch!WatchAssumption
    /\ Amount!ConverterAssumption

mainVars     == <<proc, port>>
txVars       == <<wanted, transaction, pc, pool, tx, wasMined, gPc, i, result, caller>>
iteratorVars == <<found, malformed, sent, taken, producer, unsubscribed, done, user>>
watchVars    == <<undecodable, upstream, emitted, fetched, delivered, forwarder, fault, quit, told,
                  subscriber>>
vars         == <<scene, mainVars, txVars, event, iteratorVars, watchVars, conversion>>

Init ==
    /\ scene \in {"main", "submission", "iterator", "watch", "converter"}
    /\ Main!Init /\ Tx!Init /\ Iterator!Init /\ Watch!Init /\ Amount!Init
    /\ scene # "submission" => wanted = Tx!Invoke!NewMassTransfer(<<>>).content
    /\ scene \notin {"iterator", "watch"} => event = "NewRequest"

InMain       == scene = "main" /\ UNCHANGED <<scene, txVars, event, iteratorVars, watchVars, conversion>>
InSubmission == scene = "submission" /\ UNCHANGED <<scene, mainVars, event, iteratorVars, watchVars, conversion>>
InIterator   == scene = "iterator" /\ UNCHANGED <<scene, mainVars, txVars, watchVars, conversion>>
InWatch      == scene = "watch" /\ UNCHANGED <<scene, mainVars, txVars, iteratorVars, conversion>>
InConverter ==
    scene = "converter" /\ UNCHANGED <<scene, mainVars, txVars, event, iteratorVars, watchVars>>

Next ==
    \/ InMain /\ Main!Next
    \/ InSubmission /\ Tx!Next
    \/ InIterator /\ Iterator!Step
    \/ InWatch /\ Watch!Step
    \/ InConverter /\ Amount!Next

(***************************************************************************)
(* No goroutine is held up, and every call to the node returns.  What the  *)
(* bindings and main assume is never enabled in another scene.             *)
(***************************************************************************)
Spec ==
    /\ Init /\ [][Next]_vars
    /\ Main!Fairness /\ Iterator!Fairness /\ Watch!Fairness
    /\ WF_vars(InSubmission /\ (Tx!Sign \/ Tx!Broadcast))
    /\ WF_vars(InSubmission /\ Tx!Polls) /\ WF_vars(InSubmission /\ Tx!Receives)

-----------------------------------------------------------------------------
(***************************************************************************)
(* finalizeWavesRequest gets of SignTx, Broadcast and WaitTx what          *)
(* Confirmation promises, although answers are lost or late, the           *)
(* transaction leaves the pool between two calls, and a block that had it  *)
(* is replaced.                                                            *)
(***************************************************************************)
ConfirmationSpec == Tx!Promise!Spec

(***************************************************************************)
(* It does get an answer, and a goroutine that stays for ever at its       *)
(* second send (client.go:192) has told its caller an error: the wait for  *)
(* a confirmed transaction leaves nothing behind.                          *)
(***************************************************************************)
SubmissionEnds ==
    /\ scene = "submission" ~> Tx!Outcome # "waiting"
    /\ caller = "confirmed" ~> gPc = "done"

\* From Invocation: what the node accepts is what was wanted, whatever rounding
\* and decoding do, and what is waited for has been accepted.
AcceptedIsWanted == Tx!Invoke!AcceptedIsWanted

\* The numbers that fit a float64 come back from SignTx as the node signed them.
FittingIsSigned == Tx!Invoke!FittingIsSigned

\* From Process: a validator that says "Started..." is a whole one.
StartedIsWhole == Main!StartedIsWhole

\* A validator whose server does not come up, or does not stay, ends.
NeverDeaf == Main!NeverDeaf

\* From EventIterator: an iterator that ends without an error has shown all logs.
EndedIsComplete == Iterator!EndedIsComplete

\* The goroutine behind an iterator that is closed, read to its end, or left
\* with no more logs than the channel holds, returns.
GoroutineReturns == Iterator!GoroutineReturns

\* From EventWatch: no log is skipped unsaid.
NothingSkipped == Watch!NothingSkipped

\* Unsubscribe returns, even where the goroutine holds a log, and the node has
\* been told to stop.
UnsubscribeReturns == Watch!UnsubscribeReturns

\* From Converter: the two roundings cost a unit at most.
WithinOneUnit == Amount!WithinOneUnit
=============================================================================
