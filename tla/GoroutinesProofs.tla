-------------------------- MODULE GoroutinesProofs --------------------------
(***************************************************************************)
(* Proofs of the safety properties of Goroutines.  Each part is proved by  *)
(* itself: in its own scene it makes its own steps, and in the others its  *)
(* variables do not change.                                                *)
(***************************************************************************)
EXTENDS Goroutines, Sequences, WellFoundedInduction, TLAPS

-----------------------------------------------------------------------------
(* Process *)

(***************************************************************************)
(* How far main has come tells what has been started.                      *)
(***************************************************************************)
LoopsAt(main) ==
    CASE main = "wavesCacher" -> {"ethCacher"}
      [] main = "signer" -> {"ethCacher", "wavesCacher"}
      [] main \in {"notify", "wait", "exit"} -> Main!Loops
      [] OTHER -> {}

Whole(p) ==
    /\ p.loops = LoopsAt(p.main)
    /\ p.main \in {"ethCacher", "wavesCacher", "signer", "notify", "wait", "exit"} => p.server # "off"
    /\ p.main \in {"startServer", "ethCacher", "wavesCacher", "signer", "notify", "wait"} => p.db = "open"
    /\ p.main = "exit" => p.signal = "told"

MainInv ==
    /\ proc \in [Instances -> Main!Process]
    /\ \A x \in Instances : Whole(proc[x])

LEMMA EndedIsWhole == Main!Ended \in Main!Process /\ Whole(Main!Ended)
BY DEF Main!Ended, Main!Process, Whole, LoopsAt, Main!Loops

(***************************************************************************)
(* A step changes the process of one instance: to one that has ended, or   *)
(* to one of which this step has changed no more than it should.           *)
(***************************************************************************)
LEMMA OneProcess ==
    ASSUME MainInv, NEW x \in Instances, NEW p \in Main!Process, Whole(p),
           proc' = [proc EXCEPT ![x] = p]
    PROVE  MainInv'
BY DEF MainInv

\* main goes on to its next call.
LEMMA MainGoesOn ==
    ASSUME MainInv, NEW x \in Instances,
           \/ Main!StartAgain(x) \/ Main!Load(x) \/ Main!OpenDb(x) \/ Main!GoServer(x)
           \/ Main!StartEthCacher(x) \/ Main!StartWavesCacher(x) \/ Main!StartSigner(x)
           \/ Main!Notify(x) \/ Main!Stop(x)
    PROVE  MainInv'
<1> DEFINE p == proc[x]
<1>t. p \in Main!Process /\ Whole(p) /\ proc \in [Instances -> Main!Process]
  BY DEF MainInv
<1>1. PICK q : /\ proc' = [proc EXCEPT ![x] = q]
               /\ q \in Main!Process /\ Whole(q)
  <2> USE <1>t DEF Main!Process, Whole, LoopsAt, Main!Loops
  <2>1. CASE Main!StartAgain(x)
    <3> WITNESS [p EXCEPT !.main = "load"]
    <3> QED BY <2>1 DEF Main!StartAgain, Main!Up
  <2>2. CASE Main!Load(x)
    <3> WITNESS [p EXCEPT !.main = "openDb"]
    <3> QED BY <2>2 DEF Main!Load, Main!Then
  <2>3. CASE Main!OpenDb(x)
    <3> WITNESS [[p EXCEPT !.db = "open"] EXCEPT !.main = "startServer"]
    <3> QED BY <2>3 DEF Main!OpenDb, Main!Then
  <2>4. CASE Main!GoServer(x)
    <3> WITNESS [[p EXCEPT !.server = "register"] EXCEPT !.main = "ethCacher"]
    <3> QED BY <2>4 DEF Main!GoServer, Main!Then
  <2>5. CASE Main!StartEthCacher(x)
    <3> WITNESS [[p EXCEPT !.loops = @ \cup {"ethCacher"}] EXCEPT !.main = "wavesCacher"]
    <3> QED BY <2>5 DEF Main!StartEthCacher, Main!Start, Main!Then
  <2>6. CASE Main!StartWavesCacher(x)
    <3> WITNESS [[p EXCEPT !.loops = @ \cup {"wavesCacher"}] EXCEPT !.main = "signer"]
    <3> QED BY <2>6 DEF Main!StartWavesCacher, Main!Start, Main!Then
  <2>7. CASE Main!StartSigner(x)
    <3> WITNESS [[p EXCEPT !.loops = @ \cup {"signer"}] EXCEPT !.main = "notify"]
    <3> QED BY <2>7 DEF Main!StartSigner, Main!Start, Main!Then
  <2>8. CASE Main!Notify(x)
    <3> WITNESS [p EXCEPT !.main = "wait"]
    <3> QED BY <2>8 DEF Main!Notify, Main!Then
  <2>9. CASE Main!Stop(x)
    <3> WITNESS [[p EXCEPT !.db = "closed"] EXCEPT !.main = "exit"]
    <3> QED BY <2>9 DEF Main!Stop, Main!Then
  <2> QED
    BY <2>1, <2>2, <2>3, <2>4, <2>5, <2>6, <2>7, <2>8, <2>9
<1> QED
  BY <1>1, OneProcess

\* The process ends.
LEMMA MainEnds ==
    ASSUME MainInv, NEW x \in Instances, Main!End(x)
    PROVE  MainInv'
BY EndedIsWhole, OneProcess DEF Main!End

\* The server's goroutine, and the signal on its way.
LEMMA MainIsServed ==
    ASSUME MainInv, NEW x \in Instances,
           \/ Main!Register(x) \/ Main!Listen(x) \/ Main!ServerReturns(x)
           \/ Main!Signal(x) \/ Main!PassOn(x)
    PROVE  MainInv'
<1> DEFINE p == proc[x]
<1>t. p \in Main!Process /\ Whole(p) /\ proc \in [Instances -> Main!Process]
  BY DEF MainInv
<1>1. ASSUME NEW s \in {"register", "listen", "serving"}, NEW g \in BOOLEAN,
             p.server # "off",
             proc' = [proc EXCEPT ![x] = [p EXCEPT !.server = s, !.registered = g]]
      PROVE  MainInv'
  <2> DEFINE q == [p EXCEPT !.server = s, !.registered = g]
  <2>1. q \in Main!Process /\ Whole(q)
    BY <1>t, <1>1 DEF Main!Process, Whole
  <2> QED
    BY <1>1, <2>1, OneProcess
<1>2. ASSUME NEW k \in {"caught", "told"}, p.signal # "told",
             proc' = [proc EXCEPT ![x] = [p EXCEPT !.signal = k]]
      PROVE  MainInv'
  <2> DEFINE q == [p EXCEPT !.signal = k]
  <2>1. q \in Main!Process /\ Whole(q)
    BY <1>t, <1>2 DEF Main!Process, Whole
  <2> QED
    BY <1>2, <2>1, OneProcess
<1>g. p.registered \in BOOLEAN /\ p = [p EXCEPT !.registered = p.registered]
  BY <1>t DEF Main!Process
<1>3. CASE Main!Register(x)
  <2>1. CASE Main!End(x)
    BY <2>1, MainEnds
  <2>2. CASE proc' = [proc EXCEPT ![x].server = "listen", ![x].registered = TRUE]
    <3>1. proc' = [proc EXCEPT ![x] = [p EXCEPT !.server = "listen", !.registered = TRUE]]
      BY <1>t, <2>2
    <3> QED
      BY <1>1, <1>3, <3>1 DEF Main!Register
  <2> QED
    BY <1>3, <2>1, <2>2 DEF Main!Register
<1>4. ASSUME NEW s \in {"register", "serving"}, p.server \in {"listen", "serving"},
             proc' = [proc EXCEPT ![x].server = s]
      PROVE  MainInv'
  <2>1. proc' = [proc EXCEPT ![x] = [p EXCEPT !.server = s, !.registered = p.registered]]
    BY <1>t, <1>4 DEF Main!Process
  <2> QED
    BY <1>1, <1>4, <1>g, <2>1
<1>5. CASE Main!Listen(x) \/ Main!ServerReturns(x)
  BY <1>4, <1>5 DEF Main!Listen, Main!ServerReturns
<1>6. CASE Main!Signal(x) \/ Main!PassOn(x)
  BY <1>2, <1>6 DEF Main!Signal, Main!PassOn
<1> QED
  BY <1>3, <1>5, <1>6

(***************************************************************************)
(* Whatever fails, is killed, panics or returns, and however many          *)
(* instances share the port, one that says "Started..." has started its    *)
(* server and every loop.  Which of them has the port is not claimed.      *)
(***************************************************************************)
THEOREM StartedIsWholeAlways == Spec => []StartedIsWhole
<1>1. Init => MainInv
  BY EndedIsWhole DEF Init, Main!Init, MainInv
<1>2. MainInv /\ [Next]_vars => MainInv'
  <2> SUFFICES ASSUME MainInv, [Next]_vars PROVE MainInv'
    OBVIOUS
  <2>1. CASE Main!Next
    <3>1. PICK x \in Instances :
            \/ Main!StartAgain(x) \/ Main!Load(x) \/ Main!OpenDb(x) \/ Main!GoServer(x)
            \/ Main!StartEthCacher(x) \/ Main!StartWavesCacher(x) \/ Main!StartSigner(x)
            \/ Main!Notify(x) \/ Main!Stop(x)
            \/ Main!Register(x) \/ Main!Listen(x) \/ Main!ServerReturns(x)
            \/ Main!Signal(x) \/ Main!PassOn(x)
            \/ Main!End(x)
      BY <2>1
      DEF Main!Next, Main!StartFails, Main!LoopPanics, Main!SignalKills, Main!Exit
    <3> QED
      BY <3>1, MainGoesOn, MainEnds, MainIsServed
  <2>2. CASE UNCHANGED mainVars
    BY <2>2 DEF mainVars, MainInv
  <2> QED
    BY <2>1, <2>2 DEF Next, InMain, InSubmission, InIterator, InWatch, InConverter, vars
<1>3. MainInv => StartedIsWhole
  BY DEF MainInv, Whole, LoopsAt, StartedIsWhole, Main!StartedIsWhole
<1> QED
  BY <1>1, <1>2, <1>3, PTL DEF Spec

-----------------------------------------------------------------------------
(* Submission *)

SubmissionInv ==
    /\ pc \in {"sign", "broadcast", "sent", "failed"}
    /\ wasMined \in BOOLEAN
    /\ pc # "sent" => caller = "waiting"
    /\ tx = "mined" => wasMined
    /\ result = "nil" => wasMined

(***************************************************************************)
(* "nil" is sent only for a transaction that the node has found in a block.*)
(***************************************************************************)
LEMMA FoundIsMined ==
    ASSUME NEW has \in BOOLEAN, NEW reply \in Tx!Wait!Replies(has),
           Tx!Wait!GetTxById(reply).found, ~Tx!Wait!GetTxById(reply).err
    PROVE  has
BY DEF Tx!Wait!Replies, Tx!Wait!Reply, Tx!Wait!GetTxById, Tx!Wait!SendRequest

LEMMA SubmissionInit == Tx!Init => SubmissionInv
BY DEF Tx!Init, Tx!Invoke!Init, Tx!Wait!Init, Tx!Wait!NoResult, SubmissionInv

\* In its own scene, or with its variables untouched.
SubmissionNext == Tx!Next \/ UNCHANGED txVars

LEMMA SubmissionStep ==
    ASSUME SubmissionInv, SubmissionNext
    PROVE  SubmissionInv' /\ [Tx!Promise!Mine \/ Tx!Promise!Answer]_Tx!Promise!confirmationVars
<1> USE DEF SubmissionInv, Tx!invokeVars, Tx!waitVars, Tx!Outcome, Tx!Promise!confirmationVars,
            Tx!Promise!Mine, Tx!Promise!Answer
<1>1. CASE Tx!Sign
  BY <1>1 DEF Tx!Sign, Tx!Invoke!SignTx
<1>2. CASE Tx!Broadcast
  BY <1>2 DEF Tx!Broadcast, Tx!Invoke!Broadcast
<1>3. CASE Tx!Chain
  BY <1>3 DEF Tx!Chain, Tx!Wait!Chain
<1>4. CASE Tx!Polls
  <2>1. CASE Tx!Wait!Poll
    BY <1>4, <2>1 DEF Tx!Polls, Tx!Wait!Poll, Tx!Wait!Sends
  <2>2. CASE Tx!Wait!Lookup
    <3>1. result' = "nil" => wasMined
      <4>1. PICK reply \in Tx!Wait!Replies(tx = "mined") :
              LET rs == Tx!Wait!GetTxById(reply) IN
              \/ rs.err /\ Tx!Wait!Sends("error", "sendTwice")
              \/ ~rs.err /\ Tx!Wait!Sends(IF rs.found THEN "nil" ELSE "error", "send")
        BY <2>2 DEF Tx!Wait!Lookup
      <4>2. CASE tx = "mined"
        BY <4>2
      <4>3. CASE tx # "mined"
        <5>1. ~(Tx!Wait!GetTxById(reply).found /\ ~Tx!Wait!GetTxById(reply).err)
          BY <4>3, FoundIsMined
        <5> QED
          BY <4>1, <5>1 DEF Tx!Wait!Sends
      <4> QED
        BY <4>2, <4>3
    <3> QED
      BY <1>4, <2>2, <3>1 DEF Tx!Polls, Tx!Wait!Lookup
  <2> QED
    BY <1>4, <2>1, <2>2 DEF Tx!Polls
<1>5. CASE Tx!Receives
  BY <1>5 DEF Tx!Receives, Tx!Wait!Receive, Tx!Wait!NoResult
<1>6. CASE UNCHANGED txVars
  BY <1>6 DEF txVars
<1> QED
  BY <1>1, <1>2, <1>3, <1>4, <1>5, <1>6 DEF SubmissionNext, Tx!Next

LEMMA EachSubmits == [Next]_vars => SubmissionNext
BY DEF Next, InMain, InSubmission, InIterator, InWatch, InConverter, SubmissionNext, vars

(***************************************************************************)
(* Every behaviour of SignTx, Broadcast, WaitTx and their caller is one of *)
(* Confirmation, whatever the node answers and the chain does: "confirmed" *)
(* is said once, and only of a transaction that has been in a block.       *)
(***************************************************************************)
THEOREM SubmissionImplementsPromise == Spec => ConfirmationSpec
<1>1. Init => SubmissionInv /\ Tx!Promise!Init
  BY SubmissionInit
  DEF Init, Tx!Init, Tx!Invoke!Init, Tx!Wait!Init, Tx!Promise!Init, Tx!Outcome
<1>2. SubmissionInv /\ [Next]_vars =>
        SubmissionInv' /\ [Tx!Promise!Mine \/ Tx!Promise!Answer]_Tx!Promise!confirmationVars
  BY SubmissionStep, EachSubmits
<1> QED
  BY <1>1, <1>2, PTL DEF Spec, ConfirmationSpec, Tx!Promise!Spec

-----------------------------------------------------------------------------
(* The transaction that is submitted *)

LEMMA FloatType ==
    ASSUME NEW n \in Nat
    PROVE  Tx!Invoke!Float(n) \in Nat /\ (n <= 2 ^ Mantissa => Tx!Invoke!Float(n) = n)
BY DEF Tx!Invoke!Float

LEMMA ItemsAreSeqs == Tx!Invoke!Items \subseteq Seq(Nat)
<1> SUFFICES ASSUME NEW args \in Tx!Invoke!Items PROVE args \in Seq(Nat)
  OBVIOUS
<1>1. Numbers \subseteq Nat
  BY GoroutinesAssumption DEF Tx!SubmissionAssumption, Tx!Invoke!InvocationAssumption
<1>2. PICK m \in 0 .. MaxItems : args \in [1 .. m -> Numbers]
  BY DEF Tx!Invoke!Items, Tx!Invoke!SeqOf
<1>3. m \in Nat
  BY GoroutinesAssumption DEF Tx!SubmissionAssumption, Tx!Invoke!InvocationAssumption
<1>4. args \in [1 .. m -> Nat]
  BY <1>1, <1>2
<1> QED
  BY <1>3, <1>4

(***************************************************************************)
(* A transaction of a known type survives JsonMap; Parse rounds its        *)
(* numbers and leaves the rest, and all of it if the numbers fit.          *)
(***************************************************************************)
FitsContent(c) == c.fee <= 2 ^ Mantissa /\ \A k \in DOMAIN c.items : c.items[k] <= 2 ^ Mantissa

LEMMA JsonIsWhole ==
    ASSUME NEW t \in Tx!Invoke!Transaction, t.content.type \in Tx!Invoke!Known
    PROVE  Tx!Invoke!JsonMap(t) = t
BY DEF Tx!Invoke!JsonMap

LEMMA ParseEffect ==
    ASSUME NEW t \in Tx!Invoke!Transaction, t.content.type \in Tx!Invoke!Known
    PROVE  LET u == Tx!Invoke!Parse(t) IN
           /\ u \in Tx!Invoke!Transaction /\ u.content.type = t.content.type
           /\ u.proof = t.proof /\ u.id = t.id
           /\ FitsContent(t.content) => u.content = t.content
<1> DEFINE c     == t.content
           items == [k \in DOMAIN c.items |-> Tx!Invoke!Float(c.items[k])]
           d     == [type |-> c.type, fee |-> Tx!Invoke!Float(c.fee), items |-> items]
<1>1. /\ c \in Tx!Invoke!Content /\ c.fee \in Nat /\ c.items \in Seq(Nat)
      /\ t = [content |-> c, proof |-> t.proof, id |-> t.id]
      /\ c = [type |-> c.type, fee |-> c.fee, items |-> c.items]
      /\ t.proof \in Tx!Invoke!Content /\ t.id \in Tx!Invoke!Content
  BY DEF Tx!Invoke!Transaction, Tx!Invoke!Content
<1>2. Tx!Invoke!Parse(t) = [content |-> d, proof |-> t.proof, id |-> t.id]
  <2>1. Tx!Invoke!Parse(t) = [t EXCEPT !.content.fee = Tx!Invoke!Float(t.content.fee),
                                       !.content.items = [k \in DOMAIN @ |-> Tx!Invoke!Float(@[k])]]
    BY JsonIsWhole DEF Tx!Invoke!Parse
  <2> QED
    BY <1>1, <2>1
<1>3. items \in Seq(Nat) /\ (FitsContent(c) => items = c.items)
  <2>1. Len(c.items) \in Nat /\ DOMAIN c.items = 1 .. Len(c.items)
        /\ \A k \in 1 .. Len(c.items) : c.items[k] \in Nat
    BY <1>1
  <2>2. items \in [1 .. Len(c.items) -> Nat]
    BY <2>1, FloatType
  <2>3. items \in Seq(Nat)
    <3> HIDE DEF items
    <3> QED BY <2>1, <2>2
  <2>4. ASSUME FitsContent(c) PROVE items = c.items
    <3>1. \A k \in DOMAIN c.items : Tx!Invoke!Float(c.items[k]) = c.items[k]
      BY <2>1, <2>4, FloatType DEF FitsContent
    <3>2. items = [k \in DOMAIN c.items |-> c.items[k]]
      BY <3>1
    <3> QED
      BY <1>1, <2>1, <3>2
  <2> QED
    BY <2>3, <2>4
<1>4. d \in Tx!Invoke!Content
  BY <1>1, <1>3, FloatType DEF Tx!Invoke!Content
<1>5. ASSUME FitsContent(c) PROVE d = c
  BY <1>1, <1>3, <1>5, FloatType DEF FitsContent
<1> HIDE DEF d, items
<1>6. d.type = c.type
  BY DEF d
<1> QED
  BY <1>1, <1>2, <1>4, <1>5, <1>6 DEF Tx!Invoke!Transaction

(***************************************************************************)
(* The proof and the id that come back from SignTx are of the content that *)
(* was wanted; only the content itself may have changed.                   *)
(***************************************************************************)
InvocationInv ==
    /\ wanted \in Tx!Invoke!Content /\ wanted.type \in Tx!Invoke!Known
    /\ transaction \in Tx!Invoke!Transaction /\ transaction.content.type = wanted.type
    /\ pc = "sign" => transaction.content = wanted /\ pool = {}
    /\ pc = "broadcast" =>
         /\ transaction.proof = wanted /\ transaction.id = wanted /\ pool = {}
         /\ FitsContent(wanted) => transaction.content = wanted
    /\ AcceptedIsWanted

LEMMA InvocationInit == Tx!Init => InvocationInv
<1> SUFFICES ASSUME Tx!Init PROVE InvocationInv
  OBVIOUS
<1>1. PICK args \in Tx!Invoke!Items :
        transaction \in {Tx!Invoke!NewMassTransfer(args)}
                        \cup {Tx!Invoke!NewInvokeScript(args, fee) : fee \in Numbers}
  BY DEF Tx!Init, Tx!Invoke!Init
<1>2. args \in Seq(Nat) /\ Len(args) \in Nat
  BY ItemsAreSeqs
<1>3. \A fee \in Numbers : fee \in Nat
  BY GoroutinesAssumption DEF Tx!SubmissionAssumption, Tx!Invoke!InvocationAssumption
<1>4. PICK type \in Tx!Invoke!Known, fee \in Nat :
        transaction = Tx!Invoke!New([type |-> type, fee |-> fee, items |-> args])
  <2>1. CASE transaction = Tx!Invoke!NewMassTransfer(args)
    <3>1. Len(args) + 1 + 2 \in Nat /\ "MassTransfer" \in Tx!Invoke!Known
      BY <1>2 DEF Tx!Invoke!Known
    <3> QED
      BY <2>1, <3>1, Zenon DEF Tx!Invoke!NewMassTransfer
  <2>2. ASSUME NEW fee \in Numbers, transaction = Tx!Invoke!NewInvokeScript(args, fee)
        PROVE  \E type \in Tx!Invoke!Known, x \in Nat :
                 transaction = Tx!Invoke!New([type |-> type, fee |-> x, items |-> args])
    <3>1. fee \in Nat /\ "InvokeScript" \in Tx!Invoke!Known
      BY <1>3 DEF Tx!Invoke!Known
    <3> QED
      BY <2>2, <3>1, Zenon DEF Tx!Invoke!NewInvokeScript
  <2> QED
    BY <1>1, <2>1, <2>2
<1>5. transaction \in Tx!Invoke!Transaction /\ transaction.content.type = type
  BY <1>2, <1>4
  DEF Tx!Invoke!New, Tx!Invoke!NoContent, Tx!Invoke!Transaction, Tx!Invoke!Content
<1>6. wanted = transaction.content /\ pc = "sign" /\ pool = {}
  BY DEF Tx!Init, Tx!Invoke!Init
<1> QED
  BY <1>5, <1>6
  DEF InvocationInv, AcceptedIsWanted, Tx!Invoke!AcceptedIsWanted, Tx!Invoke!Transaction

LEMMA SignedIsWanted ==
    ASSUME InvocationInv, Tx!Invoke!SignTx
    PROVE  InvocationInv'
<1> DEFINE t == Tx!Invoke!NodeSigns(transaction)
<1>1. /\ transaction \in Tx!Invoke!Transaction /\ transaction.content = wanted
      /\ wanted \in Tx!Invoke!Content /\ wanted.type \in Tx!Invoke!Known /\ pool = {}
      /\ UNCHANGED <<wanted, pool>>
  BY DEF InvocationInv, Tx!Invoke!SignTx
<1>2. CASE pc' = "failed" /\ UNCHANGED transaction
  BY <1>1, <1>2 DEF InvocationInv, AcceptedIsWanted, Tx!Invoke!AcceptedIsWanted
<1>3. CASE pc' = "broadcast" /\ transaction' = Tx!Invoke!Parse(Tx!Invoke!NodeSigns(Tx!Invoke!JsonMap(transaction)))
  <2>1. transaction' = Tx!Invoke!Parse(t)
    BY <1>1, <1>3, JsonIsWhole
  <2>2. /\ t \in Tx!Invoke!Transaction
        /\ t.content = wanted /\ t.proof = wanted /\ t.id = wanted
    BY <1>1 DEF Tx!Invoke!NodeSigns, Tx!Invoke!Transaction
  <2> HIDE DEF t
  <2>3. /\ transaction' \in Tx!Invoke!Transaction /\ transaction'.content.type = wanted.type
        /\ transaction'.proof = wanted /\ transaction'.id = wanted
        /\ FitsContent(wanted) => transaction'.content = wanted
    BY <1>1, <2>1, <2>2, ParseEffect
  <2> QED
    BY <1>1, <1>3, <2>3 DEF InvocationInv, AcceptedIsWanted, Tx!Invoke!AcceptedIsWanted
<1> QED
  BY <1>2, <1>3 DEF Tx!Invoke!SignTx

LEMMA BroadcastIsWanted ==
    ASSUME InvocationInv, Tx!Invoke!Broadcast
    PROVE  InvocationInv'
<1>1. /\ Tx!Invoke!JsonMap(transaction) = transaction /\ pool = {}
      /\ transaction.proof = wanted /\ transaction.id = wanted
      /\ UNCHANGED <<wanted, transaction>>
  BY JsonIsWhole DEF InvocationInv, Tx!Invoke!Broadcast
<1>2. \/ pool' = {} /\ pc' = "failed"
      \/ pool' = {transaction} /\ transaction.content = wanted /\ pc' \in {"sent", "failed"}
  BY <1>1 DEF Tx!Invoke!Broadcast, Tx!Invoke!NodeAccepts
<1> QED
  BY <1>1, <1>2 DEF InvocationInv, AcceptedIsWanted, Tx!Invoke!AcceptedIsWanted

LEMMA InvocationStep ==
    ASSUME InvocationInv, SubmissionNext
    PROVE  InvocationInv'
<1>1. ASSUME UNCHANGED <<wanted, transaction, pc, pool>> PROVE InvocationInv'
  BY <1>1 DEF InvocationInv, AcceptedIsWanted, Tx!Invoke!AcceptedIsWanted
<1> QED
  BY <1>1, SignedIsWanted, BroadcastIsWanted
  DEF SubmissionNext, Tx!Next, Tx!Sign, Tx!Broadcast, Tx!Chain, Tx!Polls, Tx!Receives,
      Tx!invokeVars, txVars

LEMMA InvocationAlways == Spec => []InvocationInv
<1>1. Init => InvocationInv
  BY InvocationInit DEF Init
<1>2. InvocationInv /\ [Next]_vars => InvocationInv'
  BY InvocationStep, EachSubmits
<1> QED
  BY <1>1, <1>2, PTL DEF Spec

(***************************************************************************)
(* Whatever the arguments, the fee and the width of the mantissa: what the *)
(* node accepts is what the caller wanted, and what WaitTx is given the id *)
(* of is something the node has accepted.                                  *)
(***************************************************************************)
THEOREM AcceptedIsWantedAlways == Spec => []AcceptedIsWanted
<1>1. InvocationInv => AcceptedIsWanted
  BY DEF InvocationInv
<1> QED
  BY <1>1, InvocationAlways, PTL

(***************************************************************************)
(* A transaction whose numbers fit the mantissa is never refused for its   *)
(* proof.                                                                  *)
(***************************************************************************)
THEOREM FittingIsSignedAlways == Spec => []FittingIsSigned
<1>1. InvocationInv => FittingIsSigned
  BY JsonIsWhole
  DEF InvocationInv, FitsContent, FittingIsSigned, Tx!Invoke!FittingIsSigned, Tx!Invoke!Fits,
      Tx!Invoke!NodeAccepts
<1> QED
  BY <1>1, InvocationAlways, PTL

-----------------------------------------------------------------------------
(* Iterator *)

(***************************************************************************)
(* done is set only once the goroutine has returned, and it returns before *)
(* its last log only if the user has closed the iterator.                  *)
(***************************************************************************)
IteratorInv ==
    /\ found \in Nat /\ sent \in 0 .. found /\ taken \in 0 .. sent
    /\ malformed \subseteq 1 .. found
    /\ producer = "off" => sent = 0 /\ ~done /\ user \in {"start", "failed"}
    /\ producer = "returned" => sent = found \/ unsubscribed
    /\ user = "start" => producer = "off"
    /\ unsubscribed => user = "closed"
    /\ done => producer = "returned"
    /\ user = "reading" => malformed \cap (1 .. taken) = {}
    /\ EndedIsComplete

\* A step of the functions, whichever the event.
LEMMA IteratorAction ==
    ASSUME Iterator!Step
    PROVE  \E e \in {"Mint", "NewRequest", "Return", "StatusChanged", "Approval", "MinterAdded",
                     "MinterRemoved", "Transfer"} :
              \/ Iterator!Filter(e) \/ Iterator!Next(e) \/ Iterator!Close(e)
              \/ Iterator!Leave \/ Iterator!Produce \/ Iterator!Return
BY DEF Iterator!Step, Iterator!Iterate,
       Iterator!FilterMint, Iterator!FilterNewRequest, Iterator!FilterReturn,
       Iterator!FilterStatusChanged, Iterator!FilterApproval, Iterator!FilterMinterAdded,
       Iterator!FilterMinterRemoved, Iterator!FilterTransfer,
       Iterator!NextMint, Iterator!NextNewRequest, Iterator!NextReturn,
       Iterator!NextStatusChanged, Iterator!NextApproval, Iterator!NextMinterAdded,
       Iterator!NextMinterRemoved, Iterator!NextTransfer,
       Iterator!CloseMint, Iterator!CloseNewRequest, Iterator!CloseReturn,
       Iterator!CloseStatusChanged, Iterator!CloseApproval, Iterator!CloseMinterAdded,
       Iterator!CloseMinterRemoved, Iterator!CloseTransfer

LEMMA IteratorStep ==
    ASSUME IteratorInv, Iterator!Step
    PROVE  IteratorInv'
<1> USE DEF IteratorInv, EndedIsComplete, Iterator!EndedIsComplete
<1>1. PICK e : \/ Iterator!Filter(e) \/ Iterator!Next(e) \/ Iterator!Close(e)
               \/ Iterator!Leave \/ Iterator!Produce \/ Iterator!Return
  BY IteratorAction
<1>2. CASE Iterator!Filter(e)
  <2>1. CASE user' = "failed" /\ UNCHANGED <<found, malformed, producer>>
    BY <1>2, <2>1 DEF Iterator!Filter
  <2>2. ASSUME NEW n \in 0 .. MaxLogs, found' = n, malformed' \in SUBSET (1 .. n),
               producer' = "sending", user' = "reading"
        PROVE  IteratorInv'
    <3>1. n \in Nat
      BY <2>2, GoroutinesAssumption DEF Iterator!IteratorAssumption
    <3>2. sent' = 0 /\ taken' = 0 /\ ~unsubscribed' /\ ~done'
      BY <1>2 DEF Iterator!Filter
    <3> QED
      BY <2>2, <3>1, <3>2
  <2> QED
    BY <1>2, <2>1, <2>2 DEF Iterator!Filter
<1>3. CASE Iterator!Next(e)
  <2>1. user = "reading" /\ UNCHANGED <<found, malformed, sent, producer, unsubscribed>>
    BY <1>3 DEF Iterator!Next
  <2>2. CASE Iterator!TakeLog
    <3>1. taken < sent /\ taken' = taken + 1 /\ UNCHANGED done
      BY <2>2 DEF Iterator!TakeLog
    <3>2. user' = "reading" => malformed \cap (1 .. taken') = {}
      <4>1. user' = "reading" => taken + 1 \notin malformed
        BY <2>2 DEF Iterator!TakeLog
      <4> QED
        BY <2>1, <3>1, <4>1
    <3>3. user' \in {"reading", "failed"} /\ producer # "off"
      BY <2>1, <2>2 DEF Iterator!TakeLog
    <3> QED
      BY <2>1, <3>1, <3>2, <3>3
  <2>3. CASE Iterator!ProducerGone
    BY <2>1, <2>3 DEF Iterator!ProducerGone
  <2>4. CASE Iterator!NoMoreLogs
    <3>1. done /\ taken = sent /\ user' = "ended" /\ UNCHANGED <<taken, done>>
      BY <2>4 DEF Iterator!NoMoreLogs
    <3>2. sent = found
      BY <2>1, <3>1
    <3>3. malformed = {}
      BY <2>1, <3>1, <3>2
    <3> QED
      BY <2>1, <3>1, <3>2, <3>3
  <2> QED
    BY <1>3, <2>2, <2>3, <2>4 DEF Iterator!Next
<1>4. CASE Iterator!Close(e)
  BY <1>4 DEF Iterator!Close
<1>5. CASE Iterator!Leave
  BY <1>5 DEF Iterator!Leave
<1>6. CASE Iterator!Produce
  BY <1>6 DEF Iterator!Produce
<1>7. CASE Iterator!Return
  BY <1>7 DEF Iterator!Return
<1> QED
  BY <1>1, <1>2, <1>3, <1>4, <1>5, <1>6, <1>7

(***************************************************************************)
(* For any number of logs and any capacity of the channel, an iterator     *)
(* that ends without an error has shown every log.                         *)
(***************************************************************************)
THEOREM EndedIsCompleteAlways == Spec => []EndedIsComplete
<1>1. Init => IteratorInv
  BY DEF Init, Iterator!Init, IteratorInv, EndedIsComplete, Iterator!EndedIsComplete
<1>2. IteratorInv /\ [Next]_vars => IteratorInv'
  <2> SUFFICES ASSUME IteratorInv, [Next]_vars PROVE IteratorInv'
    OBVIOUS
  <2>1. CASE Iterator!Step
    BY <2>1, IteratorStep
  <2>2. CASE UNCHANGED iteratorVars
    BY <2>2 DEF iteratorVars, IteratorInv, EndedIsComplete, Iterator!EndedIsComplete
  <2> QED
    BY <2>1, <2>2 DEF Next, InMain, InSubmission, InIterator, InWatch, InConverter, vars
<1>3. IteratorInv => EndedIsComplete
  BY DEF IteratorInv
<1> QED
  BY <1>1, <1>2, <1>3, PTL DEF Spec

-----------------------------------------------------------------------------
(* Watch *)

(***************************************************************************)
(* The goroutine holds one log at most, and one that it cannot decode is   *)
(* its last: it returns the error, which only the user's own end of the    *)
(* watch keeps from being told.                                            *)
(***************************************************************************)
WatchInv ==
    /\ undecodable \subseteq Nat \ {0}
    /\ fetched \in Nat /\ delivered \in Nat
    /\ subscriber = "start" => forwarder = "off"
    /\ forwarder = "off" => fetched = 0 /\ delivered = 0 /\ ~fault /\ ~quit
    /\ forwarder = "off" => subscriber \in {"start", "failed"}
    /\ forwarder = "select" => delivered = fetched
    /\ forwarder = "forward" => delivered + 1 = fetched
    /\ forwarder \in {"select", "forward"} => fetched \notin undecodable
    /\ forwarder \in {"returned", "done"} /\ fetched \in undecodable => fault
    /\ forwarder = "done" /\ fault /\ ~quit => told
    /\ quit => subscriber \in {"leaving", "left"}
    /\ subscriber = "ended" => forwarder = "done"

LEMMA WatchAction ==
    ASSUME Watch!Step
    PROVE  \/ (Watch!Subscribe \/ (Watch!Goroutine /\ UNCHANGED undecodable))
                /\ UNCHANGED <<quit, told>>
           \/ Watch!Emit \/ Watch!Break \/ Watch!Finish \/ Watch!Unsubscribe
           \/ Watch!Unsubscribed \/ Watch!SeesEnd
BY DEF Watch!Step, Watch!Watch, Watch!WatchMint, Watch!WatchNewRequest, Watch!WatchReturn,
       Watch!WatchStatusChanged, Watch!WatchApproval, Watch!WatchMinterAdded,
       Watch!WatchMinterRemoved, Watch!WatchTransfer

LEMMA WatchStep ==
    ASSUME WatchInv, Watch!Step
    PROVE  WatchInv'
<1> USE DEF WatchInv
<1>1. CASE Watch!Subscribe /\ UNCHANGED <<quit, told>>
  <2>1. \A s \in SUBSET (1 .. MaxLogs) : s \subseteq Nat \ {0}
    OBVIOUS
  <2> QED
    BY <1>1, <2>1 DEF Watch!Subscribe
<1>2. ASSUME Watch!Goroutine, UNCHANGED <<undecodable, quit, told>> PROVE WatchInv'
  <2> USE DEF Watch!Returns
  <2>1. CASE Watch!TakeLog
    BY <1>2, <2>1 DEF Watch!TakeLog
  <2>2. CASE Watch!Deliver
    BY <1>2, <2>2 DEF Watch!Deliver
  <2>3. CASE Watch!NodeEnds
    BY <1>2, <2>3 DEF Watch!NodeEnds
  <2>4. CASE Watch!Quits
    BY <1>2, <2>4 DEF Watch!Quits
  <2> QED
    BY <1>2, <2>1, <2>2, <2>3, <2>4 DEF Watch!Goroutine
<1>3. CASE Watch!Emit
  BY <1>3 DEF Watch!Emit
<1>b. CASE Watch!Break
  BY <1>b DEF Watch!Break
<1>4. CASE Watch!Finish
  BY <1>4 DEF Watch!Finish
<1>5. CASE Watch!Unsubscribe
  BY <1>5 DEF Watch!Unsubscribe
<1>6. CASE Watch!Unsubscribed
  BY <1>6 DEF Watch!Unsubscribed
<1>7. CASE Watch!SeesEnd
  BY <1>7 DEF Watch!SeesEnd
<1> QED
  BY <1>1, <1>2, <1>3, <1>b, <1>4, <1>5, <1>6, <1>7, WatchAction

(***************************************************************************)
(* For any number of logs and any capacity: no log is lost between the     *)
(* node and a user who reads on, and a watch that ends at a log it cannot  *)
(* decode says so.                                                         *)
(***************************************************************************)
THEOREM NothingSkippedAlways == Spec => []NothingSkipped
<1>1. Init => WatchInv
  BY DEF Init, Watch!Init, WatchInv
<1>2. WatchInv /\ [Next]_vars => WatchInv'
  <2> SUFFICES ASSUME WatchInv, [Next]_vars PROVE WatchInv'
    OBVIOUS
  <2>1. CASE Watch!Step
    BY <2>1, WatchStep
  <2>2. CASE UNCHANGED watchVars
    BY <2>2 DEF watchVars, WatchInv
  <2> QED
    BY <2>1, <2>2 DEF Next, InMain, InSubmission, InIterator, InWatch, InConverter, vars
<1>3. WatchInv => NothingSkipped
  BY DEF WatchInv, NothingSkipped, Watch!NothingSkipped
<1> QED
  BY <1>1, <1>2, <1>3, PTL DEF Spec
-----------------------------------------------------------------------------
(* Converter *)

\* A set of numbers that is not empty has a least one.
LEMMA LeastNatural ==
    ASSUME NEW S \in SUBSET Nat, S # {}
    PROVE  \E x \in S : \A y \in S : x <= y
<1>1. PICK x \in S : \A y \in S : <<y, x>> \notin OpToRel(<, Nat)
  BY NatLessThanWellFounded, WFMin
<1>2. ASSUME NEW y \in S PROVE x <= y
  <2>1. ~(y < x)
    BY <1>1 DEF OpToRel
  <2> QED
    BY <2>1
<1> QED
  BY <1>2

\* Induction, over the numbers of a set.
LEMMA EveryNatural ==
    ASSUME NEW S, 0 \in S, \A n \in Nat : n \in S => n + 1 \in S
    PROVE  Nat \subseteq S
<1> DEFINE bad == Nat \ S
<1> SUFFICES ASSUME bad # {} PROVE FALSE
  OBVIOUS
<1>1. PICK x \in bad : \A y \in bad : x <= y
  <2>1. bad \in SUBSET Nat
    OBVIOUS
  <2> HIDE DEF bad
  <2> QED
    BY <2>1, LeastNatural
<1>2. x # 0 /\ x - 1 \in Nat /\ ~(x <= x - 1)
  OBVIOUS
<1>3. x - 1 \in S
  BY <1>1, <1>2
<1> QED
  BY <1>2, <1>3

(***************************************************************************)
(* t holds the powers of b up to the Nth.                                  *)
(***************************************************************************)
IsTable(t, b, N) == t = [n \in 0 .. N |-> IF n = 0 THEN 1 ELSE b * t[n - 1]]

LEMMA TableExists == ASSUME NEW b, NEW N \in Nat PROVE \E t : IsTable(t, b, N)
<1> DEFINE S == {n \in Nat : \E t : IsTable(t, b, n)}
<1>1. 0 \in S
  <2>1. IsTable([n \in 0 .. 0 |-> 1], b, 0)
    BY DEF IsTable
  <2> QED
    BY <2>1
<1>2. ASSUME NEW n \in Nat, n \in S PROVE n + 1 \in S
  <2>1. PICK t : IsTable(t, b, n)
    BY <1>2
  <2> DEFINE u == [k \in 0 .. n + 1 |-> IF k = n + 1 THEN b * t[n] ELSE t[k]]
  <2>2. \A k \in 0 .. n : t[k] = IF k = 0 THEN 1 ELSE b * t[k - 1]
    BY <2>1 DEF IsTable
  <2>3. \A k \in 0 .. n + 1 : u[k] = IF k = 0 THEN 1 ELSE b * u[k - 1]
    <3> TAKE k \in 0 .. n + 1
    <3>1. CASE k = n + 1
      BY <3>1
    <3>2. CASE k # n + 1
      BY <2>2, <3>2
    <3> QED BY <3>1, <3>2
  <2>4. IsTable(u, b, n + 1)
    <3> DEFINE v == [k \in 0 .. n + 1 |-> IF k = 0 THEN 1 ELSE b * u[k - 1]]
    <3>1. DOMAIN u = DOMAIN v /\ \A k \in DOMAIN u : u[k] = v[k]
      <4> HIDE DEF u
      <4>1. \A k \in 0 .. n + 1 : u[k] = v[k]
        BY <2>3
      <4>2. DOMAIN u = 0 .. n + 1
        BY DEF u
      <4> QED BY <4>1, <4>2
    <3>2. u = [k \in DOMAIN u |-> u[k]] /\ v = [k \in DOMAIN v |-> v[k]]
      OBVIOUS
    <3> HIDE DEF u, v
    <3>3. u = v
      BY <3>1, <3>2
    <3> QED
      BY <3>3 DEF IsTable, v
  <2> QED
    BY <2>4
<1>3. Nat \subseteq S
  <2> HIDE DEF S
  <2> QED BY <1>1, <1>2, EveryNatural
<1> QED
  BY <1>3

LEMMA TablesAgree ==
    ASSUME NEW b, NEW M \in Nat, NEW N \in Nat, NEW t, NEW u, IsTable(t, b, M), IsTable(u, b, N)
    PROVE  \A n \in Nat : n <= M /\ n <= N => t[n] = u[n]
<1> DEFINE S == {n \in Nat : n <= M /\ n <= N => t[n] = u[n]}
<1>1. /\ \A n \in 0 .. M : t[n] = IF n = 0 THEN 1 ELSE b * t[n - 1]
      /\ \A n \in 0 .. N : u[n] = IF n = 0 THEN 1 ELSE b * u[n - 1]
  BY DEF IsTable
<1>2. 0 \in S
  BY <1>1
<1>3. ASSUME NEW n \in Nat, n \in S PROVE n + 1 \in S
  BY <1>1, <1>3
<1>4. Nat \subseteq S
  <2> HIDE DEF S
  <2> QED BY <1>2, <1>3, EveryNatural
<1> QED
  BY <1>4

\* The recursive function Power exists: each of its values is that of a table.
LEMMA PowerSteps ==
    ASSUME NEW b \in Nat
    PROVE  /\ Amount!Power(b)[0] = 1
           /\ \A n \in Nat : Amount!Power(b)[n + 1] = b * Amount!Power(b)[n]
<1> DEFINE T(n) == CHOOSE t : IsTable(t, b, n)
           q == [n \in Nat |-> T(n)[n]]
           IsP(p) == p = [n \in Nat |-> IF n = 0 THEN 1 ELSE b * p[n - 1]]
<1>1. ASSUME NEW n \in Nat PROVE IsTable(T(n), b, n)
  <2>1. \E t : IsTable(t, b, n)
    BY TableExists
  <2> HIDE DEF IsTable
  <2> QED BY <2>1
<1> HIDE DEF T
<1>2. \A n \in Nat : q[n] = IF n = 0 THEN 1 ELSE b * q[n - 1]
  <2> TAKE n \in Nat
  <2>1. T(n)[n] = IF n = 0 THEN 1 ELSE b * T(n)[n - 1]
    <3>1. \A k \in 0 .. n : T(n)[k] = IF k = 0 THEN 1 ELSE b * T(n)[k - 1]
      BY <1>1 DEF IsTable
    <3> QED BY <3>1
  <2>2. CASE n = 0
    BY <2>1, <2>2
  <2>3. CASE n # 0
    <3>1. n - 1 \in Nat /\ n - 1 <= n /\ n - 1 <= n - 1
      BY <2>3
    <3>2. T(n)[n - 1] = T(n - 1)[n - 1]
      BY <1>1, <3>1, TablesAgree
    <3> QED BY <2>1, <2>3, <3>1, <3>2
  <2> QED BY <2>2, <2>3
<1>3. IsP(q)
  <2> DEFINE v == [n \in Nat |-> IF n = 0 THEN 1 ELSE b * q[n - 1]]
  <2>1. q = [n \in Nat |-> q[n]] /\ v = [n \in Nat |-> v[n]]
    OBVIOUS
  <2>2. \A n \in Nat : q[n] = v[n]
    <3> HIDE DEF q
    <3> QED BY <1>2
  <2> HIDE DEF q, v
  <2>3. q = v
    BY <2>1, <2>2
  <2> QED BY <2>3 DEF v
<1> HIDE DEF q
<1>4. Amount!Power(b) = CHOOSE p : IsP(p)
  BY DEF Amount!Power
<1>5. IsP(Amount!Power(b))
  <2> HIDE DEF IsP
  <2> QED BY <1>3, <1>4
<1> DEFINE p == Amount!Power(b)
<1>6. p = [n \in Nat |-> IF n = 0 THEN 1 ELSE b * p[n - 1]]
  BY <1>5
<1> HIDE DEF p
<1>7. p[0] = 1 /\ \A n \in Nat : p[n + 1] = b * p[n]
  <2>1. \A n \in Nat : p[n] = IF n = 0 THEN 1 ELSE b * p[n - 1]
    BY <1>6
  <2>2. \A n \in Nat : n + 1 \in Nat /\ n + 1 # 0 /\ (n + 1) - 1 = n
    OBVIOUS
  <2> HIDE <1>6
  <2> QED BY <2>1, <2>2
<1> QED
  BY <1>7 DEF p

LEMMA DivRem ==
    ASSUME NEW a \in Nat, NEW d \in Nat \ {0}
    PROVE  /\ a \div d \in Nat /\ a % d \in 0 .. d - 1
           /\ a = d * (a \div d) + (a % d)
OBVIOUS
LEMMA PowerPositive ==
    ASSUME NEW b \in Nat \ {0}
    PROVE  \A n \in Nat : Amount!Power(b)[n] \in Nat \ {0}
<1> DEFINE p == Amount!Power(b)
           S == {n \in Nat : p[n] \in Nat \ {0}}
<1>1. p[0] = 1 /\ \A n \in Nat : p[n + 1] = b * p[n]
  BY PowerSteps
<1> HIDE DEF p
<1>2. 0 \in S /\ \A n \in Nat : n \in S => n + 1 \in S
  BY <1>1
<1>3. Nat \subseteq S
  <2> HIDE DEF S
  <2> QED BY <1>2, EveryNatural
<1> QED
  BY <1>3 DEF p

LEMMA PowerGrows ==
    ASSUME NEW b \in Nat \ {0, 1}
    PROVE  \A n \in Nat : Amount!Power(b)[n] > n
<1> DEFINE p == Amount!Power(b)
           S == {n \in Nat : p[n] > n}
<1>1. p[0] = 1 /\ (\A n \in Nat : p[n + 1] = b * p[n]) /\ \A n \in Nat : p[n] \in Nat \ {0}
  BY PowerSteps, PowerPositive
<1> HIDE DEF p
<1>2. ASSUME NEW n \in Nat, n \in S PROVE n + 1 \in S
  <2>1. p[n + 1] = b * p[n] /\ p[n] \in Nat /\ p[n] > n
    BY <1>1, <1>2
  <2>2. b * p[n] >= 2 * p[n]
    BY <2>1
  <2> QED BY <2>1, <2>2
<1>3. 0 \in S
  BY <1>1
<1>4. Nat \subseteq S
  <2> HIDE DEF S
  <2> QED BY <1>2, <1>3, EveryNatural
<1> QED
  BY <1>4 DEF p

LEMMA PowerSum ==
    ASSUME NEW b \in Nat \ {0}, NEW m \in Nat
    PROVE  \A n \in Nat : Amount!Power(b)[m + n] = Amount!Power(b)[m] * Amount!Power(b)[n]
<1> DEFINE p == Amount!Power(b)
           S == {n \in Nat : p[m + n] = p[m] * p[n]}
<1>1. p[0] = 1 /\ (\A n \in Nat : p[n + 1] = b * p[n]) /\ \A n \in Nat : p[n] \in Nat \ {0}
  BY PowerSteps, PowerPositive
<1> HIDE DEF p
<1>2. ASSUME NEW n \in Nat, n \in S PROVE n + 1 \in S
  <2>1. m + n \in Nat /\ m + (n + 1) = (m + n) + 1
    OBVIOUS
  <2>2. p[m + (n + 1)] = b * p[m + n] /\ p[n + 1] = b * p[n] /\ p[m + n] = p[m] * p[n]
    BY <1>1, <1>2, <2>1
  <2>3. p[m] \in Nat /\ p[n] \in Nat
    BY <1>1
  <2>4. p[m + (n + 1)] = p[m] * p[n + 1]
    BY <2>2, <2>3
  <2> QED BY <2>4
<1>3. 0 \in S
  <2>1. m + 0 = m /\ p[m] \in Nat
    BY <1>1
  <2> QED BY <1>1, <2>1
<1>4. Nat \subseteq S
  <2> HIDE DEF S
  <2> QED BY <1>2, <1>3, EveryNatural
<1> QED
  BY <1>4 DEF p

LEMMA Scaled ==
    ASSUME NEW x \in Int, NEW y \in Int, NEW c \in Nat \ {0}
    PROVE  (x <= y <=> x * c <= y * c) /\ (x < y <=> x * c < y * c)
OBVIOUS

LEMMA Quotient ==
    ASSUME NEW a \in Nat, NEW d \in Nat \ {0}, NEW q \in Int, q * d <= a, a < (q + 1) * d
    PROVE  a \div d = q
<1> DEFINE e == a \div d
<1>1. e \in Nat /\ e * d <= a /\ a < (e + 1) * d
  BY DivRem
<1> HIDE DEF e
<1>2. e * d < (q + 1) * d /\ q * d < (e + 1) * d
  BY <1>1
<1>3. e < q + 1 /\ q < e + 1
  BY <1>1, <1>2, Scaled
<1> QED
  BY <1>1, <1>3 DEF e

\* A tie goes to the even number.
LEMMA NearestIsNear ==
    ASSUME NEW num \in Nat, NEW den \in Nat \ {0}, NEW k, k = Amount!Nearest(num, den)
    PROVE  /\ k \in Nat
           /\ 2 * k * den - 2 * num <= den /\ 2 * num - 2 * k * den <= den
           /\ 2 * k * den - 2 * num = den => k % 2 = 0
<1> DEFINE q == num \div den
           r == num % den
<1>1. q \in Nat /\ r \in 0 .. den - 1 /\ num = den * q + r
  BY DivRem
<1>2. k = IF 2 * r > den \/ (2 * r = den /\ q % 2 = 1) THEN q + 1 ELSE q
  BY DEF Amount!Nearest
<1> HIDE DEF q, r
<1>3. CASE k = q
  <2>1. ~(2 * r > den)
    BY <1>1, <1>2, <1>3
  <2>2. k * den = num - r
    BY <1>1, <1>3
  <2>3. 2 * k * den = 2 * num - 2 * r
    BY <1>1, <1>3, <2>2
  <2> QED BY <1>1, <1>3, <2>1, <2>3
<1>4. CASE k = q + 1
  <2>1. 2 * r > den \/ (2 * r = den /\ q % 2 = 1)
    BY <1>1, <1>2, <1>4
  <2>2. 2 * k * den - 2 * num = 2 * den - 2 * r
    BY <1>1, <1>4
  <2>3. q % 2 = 1 => (q + 1) % 2 = 0
    BY <1>1
  <2> QED BY <1>1, <1>4, <2>1, <2>2, <2>3
<1> QED
  BY <1>2, <1>3, <1>4

LEMMA NearestExact ==
    ASSUME NEW m \in Nat, NEW den \in Nat \ {0}
    PROVE  Amount!Nearest(m * den, den) = m
<1> DEFINE k == Amount!Nearest(m * den, den)
<1>1. k \in Nat /\ 2 * k * den - 2 * (m * den) <= den /\ 2 * (m * den) - 2 * k * den <= den
  <2>1. m * den \in Nat
    OBVIOUS
  <2> QED BY <2>1, NearestIsNear
<1> HIDE DEF k
<1>2. (2 * k - 2 * m) * den <= 1 * den /\ (2 * m - 2 * k) * den <= 1 * den
  BY <1>1
<1>3. 2 * k - 2 * m <= 1 /\ 2 * m - 2 * k <= 1
  BY <1>1, <1>2, Scaled
<1> QED
  BY <1>1, <1>3 DEF k
\* A number with all the bits of the mantissa is at least Low and below 2 * Low.
Low == Amount!Power(2)[Precision - 1]

LEMMA LowIsEven ==
    ASSUME Amount!ConverterAssumption
    PROVE  /\ Low \in Nat \ {0, 1} /\ Low % 2 = 0
           /\ Amount!Power(2)[Precision] = 2 * Low
<1> DEFINE p == Amount!Power(2)
<1>1. (\A n \in Nat : p[n + 1] = 2 * p[n]) /\ \A n \in Nat : p[n] \in Nat \ {0}
  BY PowerSteps, PowerPositive
<1> HIDE DEF p
<1>2. Precision - 2 \in Nat /\ Precision - 1 = (Precision - 2) + 1 /\ Precision = (Precision - 1) + 1
      /\ Precision - 1 \in Nat
  BY DEF Amount!ConverterAssumption
<1>3. p[Precision] = 2 * p[Precision - 1] /\ p[Precision - 1] = 2 * p[Precision - 2]
  BY <1>1, <1>2
<1>4. p[Precision - 2] \in Nat \ {0}
  BY <1>1, <1>2
<1> HIDE <1>1
<1> QED
  BY <1>3, <1>4 DEF Low, p

\* The least power of two that brings num up to limit is one above c.
LEMMA Smallest ==
    ASSUME NEW num \in Nat \ {0}, NEW limit \in Nat, num < limit,
           NEW up, up = CHOOSE s \in 0 .. limit :
                          /\ num * Amount!Power(2)[s] >= limit
                          /\ s > 0 => num * Amount!Power(2)[s - 1] < limit
    PROVE  \E c \in Nat \ {0} : /\ Amount!Power(2)[up] = 2 * c
                                /\ num * c < limit /\ limit <= num * (2 * c)
<1> DEFINE p == Amount!Power(2)
           Reaches(s) == num * p[s] >= limit
           Fits(s) == Reaches(s) /\ (s > 0 => num * p[s - 1] < limit)
<1>1. /\ p[0] = 1 /\ \A n \in Nat : p[n + 1] = 2 * p[n]
      /\ \A n \in Nat : p[n] \in Nat \ {0} /\ p[n] > n
  BY PowerSteps, PowerPositive, PowerGrows
<1>2. up = CHOOSE s \in 0 .. limit : Fits(s)
  OBVIOUS
<1> HIDE DEF p
<1>3. \E s \in 0 .. limit : Fits(s)
  <2> DEFINE S == {s \in Nat : Reaches(s)}
  <2>1. limit \in S
    <3>1. p[limit] \in Nat /\ p[limit] > limit
      BY <1>1
    <3>2. 1 * p[limit] <= num * p[limit]
      BY <3>1
    <3> QED BY <3>1, <3>2
  <2>2. PICK s \in S : \A t \in S : s <= t
    <3> HIDE DEF Reaches
    <3> QED BY <2>1, LeastNatural
  <2>3. s \in 0 .. limit
    BY <2>1, <2>2
  <2>4. ASSUME s > 0 PROVE num * p[s - 1] < limit
    <3>1. s - 1 \in Nat /\ ~(s <= s - 1)
      BY <2>3, <2>4
    <3>2. p[s - 1] \in Nat /\ ~Reaches(s - 1)
      BY <1>1, <2>2, <3>1
    <3> QED BY <3>2
  <2> QED BY <2>2, <2>3, <2>4
<1>4. up \in 0 .. limit /\ Fits(up)
  <2> HIDE DEF Fits
  <2> QED BY <1>2, <1>3
<1>5. up # 0
  <2> SUFFICES ASSUME up = 0 PROVE FALSE
    OBVIOUS
  <2>1. p[up] = 1
    BY <1>1
  <2>2. num * 1 >= limit
    BY <1>4, <2>1
  <2> QED BY <2>2
<1>6. up - 1 \in Nat /\ (up - 1) + 1 = up /\ up > 0
  BY <1>4, <1>5
<1>7. p[up - 1] \in Nat \ {0} /\ p[up] = 2 * p[up - 1]
  <2>1. p[(up - 1) + 1] = 2 * p[up - 1]
    BY <1>1, <1>6
  <2> QED BY <1>1, <1>6, <2>1
<1>8. num * p[up - 1] < limit /\ limit <= num * p[up]
  BY <1>4, <1>6, <1>7
<1> QED
  BY <1>7, <1>8 DEF p

\* The least power of two above num / high.
LEMMA Largest ==
    ASSUME NEW num \in Nat, NEW high \in Nat \ {0},
           NEW down, down = CHOOSE s \in 0 .. num :
                          /\ num < high * Amount!Power(2)[s]
                          /\ s > 0 => num >= high * Amount!Power(2)[s - 1]
    PROVE  /\ num < high => Amount!Power(2)[down] = 1
           /\ num >= high => \E c \in Nat \ {0} : /\ Amount!Power(2)[down] = 2 * c
                                                  /\ high * c <= num /\ num < high * (2 * c)
<1> DEFINE p == Amount!Power(2)
           Stays(s) == num < high * p[s]
           Fits(s) == Stays(s) /\ (s > 0 => num >= high * p[s - 1])
<1>1. /\ p[0] = 1 /\ \A n \in Nat : p[n + 1] = 2 * p[n]
      /\ \A n \in Nat : p[n] \in Nat \ {0} /\ p[n] > n
  BY PowerSteps, PowerPositive, PowerGrows
<1>2. down = CHOOSE s \in 0 .. num : Fits(s)
  OBVIOUS
<1> HIDE DEF p
<1>3. \E s \in 0 .. num : Fits(s)
  <2> DEFINE S == {s \in Nat : Stays(s)}
  <2>1. num \in S
    <3>1. p[num] \in Nat /\ p[num] > num
      BY <1>1
    <3>2. 1 * p[num] <= high * p[num]
      BY <3>1
    <3> QED BY <3>1, <3>2
  <2>2. PICK s \in S : \A t \in S : s <= t
    <3> HIDE DEF Stays
    <3> QED BY <2>1, LeastNatural
  <2>3. s \in 0 .. num
    BY <2>1, <2>2
  <2>4. ASSUME s > 0 PROVE num >= high * p[s - 1]
    <3>1. s - 1 \in Nat /\ ~(s <= s - 1)
      BY <2>3, <2>4
    <3>2. p[s - 1] \in Nat /\ ~Stays(s - 1)
      BY <1>1, <2>2, <3>1
    <3> QED BY <3>2
  <2> QED BY <2>2, <2>3, <2>4
<1>4. down \in 0 .. num /\ Fits(down)
  <2> HIDE DEF Fits
  <2> QED BY <1>2, <1>3
<1>5. ASSUME down # 0
      PROVE  /\ p[down - 1] \in Nat \ {0} /\ p[down] = 2 * p[down - 1]
             /\ high * p[down - 1] <= num /\ num < high * p[down]
  <2>1. down - 1 \in Nat /\ (down - 1) + 1 = down /\ down > 0
    BY <1>4, <1>5
  <2>2. p[(down - 1) + 1] = 2 * p[down - 1]
    BY <1>1, <2>1
  <2>3. p[down - 1] \in Nat \ {0} /\ p[down] = 2 * p[down - 1]
    BY <1>1, <2>1, <2>2
  <2> QED BY <1>4, <2>1, <2>3
<1>6. ASSUME num < high PROVE p[down] = 1
  <2>1. down = 0
    <3> SUFFICES ASSUME down # 0 PROVE FALSE
      OBVIOUS
    <3>1. p[down - 1] \in Nat \ {0} /\ high * p[down - 1] <= num
      BY <1>5
    <3>2. high * 1 <= high * p[down - 1]
      BY <3>1
    <3> QED BY <1>6, <3>1, <3>2
  <2> QED BY <1>1, <2>1
<1>7. ASSUME num >= high PROVE down # 0
  <2> SUFFICES ASSUME down = 0 PROVE FALSE
    OBVIOUS
  <2>1. p[down] = 1
    BY <1>1
  <2>2. num < high * 1
    BY <1>4, <2>1
  <2> QED BY <1>7, <2>2
<1> QED
  BY <1>5, <1>6, <1>7 DEF p

(***************************************************************************)
(* What Rounded gives: zero; a small quotient scaled up; one that fills    *)
(* the mantissa as it is; a large one scaled down.                         *)
(***************************************************************************)
LEMMA RoundedCases ==
    ASSUME Amount!ConverterAssumption, NEW num \in Nat, NEW den \in Nat \ {0}
    PROVE  /\ num = 0 => Amount!Rounded(num, den) = Amount!Value(0, 1)
           /\ num # 0 /\ num < Low * den =>
                \E c \in Nat \ {0} :
                  /\ num * c < Low * den /\ Low * den <= num * (2 * c)
                  /\ Amount!Rounded(num, den)
                       = Amount!Value(Amount!Nearest(num * (2 * c), den), 2 * c)
           /\ Low * den <= num /\ num < 2 * Low * den =>
                Amount!Rounded(num, den) = Amount!Value(Amount!Nearest(num, den), 1)
           /\ 2 * Low * den <= num =>
                \E c \in Nat \ {0} :
                  /\ 2 * Low * den * c <= num /\ num < 2 * Low * den * (2 * c)
                  /\ Amount!Rounded(num, den)
                       = Amount!Value(Amount!Nearest(num, den * (2 * c)) * (2 * c), 1)
<1> DEFINE p == Amount!Power(2)
           up == CHOOSE s \in 0 .. Low * den :
                   num * p[s] >= Low * den /\ (s > 0 => num * p[s - 1] < Low * den)
           down == CHOOSE s \in 0 .. num :
                   num < 2 * Low * den * p[s] /\ (s > 0 => num >= 2 * Low * den * p[s - 1])
           R == Amount!Rounded(num, den)
<1>1. R = IF num = 0 THEN Amount!Value(0, 1)
          ELSE IF num < Low * den
            THEN Amount!Value(Amount!Nearest(num * p[up], den), p[up])
            ELSE Amount!Value(Amount!Nearest(num, den * p[down]) * p[down], 1)
  BY DEF Amount!Rounded, Low
<1>2. /\ Low \in Nat \ {0} /\ Low * den \in Nat \ {0} /\ 2 * Low * den \in Nat
      /\ 2 * Low * den = 2 * (Low * den) /\ Low * den < 2 * Low * den
  BY LowIsEven
<1> DEFINE l == Low * den
           h == 2 * Low * den
<1>3. num # 0 /\ num < l =>
        \E c \in Nat \ {0} : p[up] = 2 * c /\ num * c < l /\ l <= num * (2 * c)
  <2>1. up = CHOOSE s \in 0 .. l : num * p[s] >= l /\ (s > 0 => num * p[s - 1] < l)
    OBVIOUS
  <2> HIDE DEF up, l
  <2> QED BY <1>2, <2>1, Smallest DEF l
<1>4. /\ num < h => p[down] = 1
      /\ num >= h => \E c \in Nat \ {0} : /\ p[down] = 2 * c
                                          /\ h * c <= num /\ num < h * (2 * c)
  <2>1. down = CHOOSE s \in 0 .. num : num < h * p[s] /\ (s > 0 => num >= h * p[s - 1])
    OBVIOUS
  <2>2. h \in Nat \ {0}
    BY <1>2
  <2> HIDE DEF down, l, h
  <2> QED BY <2>1, <2>2, Largest
<1> HIDE DEF up, down, p, R, l, h
<1>5. l = Low * den /\ h = 2 * Low * den
  BY DEF l, h
<1>6. num = 0 => R = Amount!Value(0, 1)
  BY <1>1
<1>7. ASSUME num # 0, num < l
      PROVE  \E c \in Nat \ {0} :
                  /\ num * c < l /\ l <= num * (2 * c)
                  /\ R = Amount!Value(Amount!Nearest(num * (2 * c), den), 2 * c)
  <2>1. PICK c \in Nat \ {0} : p[up] = 2 * c /\ num * c < l /\ l <= num * (2 * c)
    BY <1>3, <1>7
  <2>2. R = Amount!Value(Amount!Nearest(num * p[up], den), p[up])
    BY <1>1, <1>5, <1>7
  <2> QED BY <2>1, <2>2
<1>8. ASSUME l <= num, num < h PROVE R = Amount!Value(Amount!Nearest(num, den), 1)
  <2>1. ~(num < l) /\ num # 0 /\ p[down] = 1
    BY <1>2, <1>4, <1>5, <1>8
  <2>2. R = Amount!Value(Amount!Nearest(num, den * p[down]) * p[down], 1)
    BY <1>1, <1>5, <2>1
  <2>3. den * 1 = den /\ Amount!Nearest(num, den) * 1 = Amount!Nearest(num, den)
    BY NearestIsNear
  <2> QED BY <2>1, <2>2, <2>3
<1>9. ASSUME h <= num
      PROVE  \E c \in Nat \ {0} :
                  /\ h * c <= num /\ num < h * (2 * c)
                  /\ R = Amount!Value(Amount!Nearest(num, den * (2 * c)) * (2 * c), 1)
  <2>1. ~(num < l) /\ num # 0 /\ num >= h
    BY <1>2, <1>5, <1>9
  <2>2. PICK c \in Nat \ {0} : p[down] = 2 * c /\ h * c <= num /\ num < h * (2 * c)
    BY <1>4, <2>1
  <2>3. R = Amount!Value(Amount!Nearest(num, den * p[down]) * p[down], 1)
    BY <1>1, <1>5, <2>1
  <2> QED BY <2>2, <2>3
<1> QED
  BY <1>5, <1>6, <1>7, <1>8, <1>9 DEF R
(***************************************************************************)
(* Rounding moves a number by at most its part 1 / (2 * Low).              *)
(***************************************************************************)
LEMMA RoundedIsClose ==
    ASSUME Amount!ConverterAssumption, NEW num \in Nat, NEW den \in Nat \ {0},
           NEW v, v = Amount!Rounded(num, den)
    PROVE  /\ v.num \in Nat /\ v.den \in Nat \ {0}
           /\ 2 * Low * (v.num * den - num * v.den) <= num * v.den
           /\ 2 * Low * (num * v.den - v.num * den) <= num * v.den
<1>0. Low \in Nat \ {0}
  BY LowIsEven
<1> DEFINE Goal == /\ v.num \in Nat /\ v.den \in Nat \ {0}
                   /\ 2 * Low * (v.num * den - num * v.den) <= num * v.den
                   /\ 2 * Low * (num * v.den - v.num * den) <= num * v.den
<1>1. ASSUME num = 0 PROVE Goal
  <2>1. v.num = 0 /\ v.den = 1
    BY <1>1, RoundedCases DEF Amount!Value
  <2> QED BY <1>0, <1>1, <2>1
<1>2. ASSUME NEW x \in Nat, NEW y \in Nat \ {0}, NEW k, k = Amount!Nearest(x, y), Low * y <= x
      PROVE  k \in Nat /\ 2 * Low * (k * y - x) <= x /\ 2 * Low * (x - k * y) <= x
  <2>1. k \in Nat /\ 2 * (k * y - x) <= y /\ 2 * (x - k * y) <= y
    <3>1. k \in Nat /\ 2 * k * y - 2 * x <= y /\ 2 * x - 2 * k * y <= y
      BY <1>2, NearestIsNear
    <3>2. k * y \in Nat /\ 2 * k * y = 2 * (k * y)
      BY <3>1
    <3> DEFINE ky == k * y
    <3>3. ky \in Nat /\ 2 * ky - 2 * x <= y /\ 2 * x - 2 * ky <= y
      BY <3>1, <3>2
    <3> HIDE DEF ky
    <3>4. 2 * (ky - x) <= y /\ 2 * (x - ky) <= y
      BY <3>3
    <3> QED BY <3>1, <3>4 DEF ky
  <2>2. k * y - x \in Int /\ x - k * y \in Int
    BY <2>1
  <2>3. Low * (2 * (k * y - x)) <= Low * y /\ Low * (2 * (x - k * y)) <= Low * y
    <3> DEFINE d == k * y - x
               e == x - k * y
    <3>1. d \in Int /\ e \in Int /\ 2 * d <= y /\ 2 * e <= y
      BY <2>1, <2>2
    <3> HIDE DEF d, e
    <3>2. Low * (2 * d) <= Low * y /\ Low * (2 * e) <= Low * y
      BY <1>0, <3>1
    <3> QED BY <3>2 DEF d, e
  <2> QED BY <1>0, <1>2, <2>1, <2>2, <2>3
<1>3. ASSUME num # 0, num < Low * den PROVE Goal
  <2>1. PICK c \in Nat \ {0} :
          /\ Low * den <= num * (2 * c)
          /\ v = Amount!Value(Amount!Nearest(num * (2 * c), den), 2 * c)
    BY <1>3, RoundedCases
  <2>2. v.num = Amount!Nearest(num * (2 * c), den) /\ v.den = 2 * c
    BY <2>1 DEF Amount!Value
  <2>3. num * (2 * c) \in Nat
    OBVIOUS
  <2>4. v.num \in Nat /\ 2 * Low * (v.num * den - num * (2 * c)) <= num * (2 * c)
                      /\ 2 * Low * (num * (2 * c) - v.num * den) <= num * (2 * c)
    BY <1>2, <2>1, <2>2, <2>3
  <2>5. 2 * c \in Nat \ {0}
    OBVIOUS
  <2> QED BY <2>2, <2>4, <2>5
<1>4. ASSUME Low * den <= num, num < 2 * Low * den PROVE Goal
  <2>1. v = Amount!Value(Amount!Nearest(num, den), 1)
    BY <1>4, RoundedCases
  <2>2. v.num = Amount!Nearest(num, den) /\ v.den = 1 /\ num * 1 = num
    BY <2>1 DEF Amount!Value
  <2> QED BY <1>2, <1>4, <2>2
<1>5. ASSUME 2 * Low * den <= num PROVE Goal
  <2>1. PICK c \in Nat \ {0} :
          /\ 2 * Low * den * c <= num
          /\ v = Amount!Value(Amount!Nearest(num, den * (2 * c)) * (2 * c), 1)
    BY <1>5, RoundedCases
  <2> DEFINE k == Amount!Nearest(num, den * (2 * c))
  <2>2. v.num = k * (2 * c) /\ v.den = 1 /\ num * 1 = num
    BY <2>1 DEF Amount!Value
  <2>3. den * (2 * c) \in Nat \ {0} /\ Low * (den * (2 * c)) <= num
    BY <1>0, <2>1
  <2>4. k \in Nat /\ 2 * Low * (k * (den * (2 * c)) - num) <= num
                  /\ 2 * Low * (num - k * (den * (2 * c))) <= num
    BY <1>2, <2>3
  <2> HIDE DEF k
  <2>5. k * (den * (2 * c)) = v.num * den /\ v.num \in Nat
    BY <2>2, <2>4
  <2> QED BY <2>2, <2>4, <2>5
<1>6. Low * den \in Nat /\ 2 * Low * den \in Nat
  BY <1>0
<1> QED
  BY <1>1, <1>3, <1>4, <1>5, <1>6

\* Of the numbers that need scaling down, the smallest are halved.
LEMMA LeastPower ==
    ASSUME NEW l \in Nat \ {0, 1}, NEW num \in Nat, NEW den \in Nat \ {0}, NEW c \in Nat \ {0},
           2 * l * den * c <= num, num <= (2 * l + 1) * den
    PROVE  c = 1
<1>1. (2 * l * c) * den <= (2 * l + 1) * den
  OBVIOUS
<1>2. 2 * l * c <= 2 * l + 1
  BY <1>1, Scaled
<1>3. c * l < 2 * l
  BY <1>2
<1> QED
  BY <1>3, Scaled

\* An amount that fits the mantissa is read as it is.
LEMMA SmallIsExact ==
    ASSUME Amount!ConverterAssumption, NEW a \in Nat, a <= 2 * Low,
           NEW v, v = Amount!SetString(a)
    PROVE  v.den \in Nat \ {0} /\ v.num = a * v.den
<1>0. Low \in Nat \ {0, 1} /\ Low * 1 = Low /\ 2 * Low * 1 = 2 * Low /\ 1 \in Nat \ {0}
  BY LowIsEven
<1>1. v = Amount!Rounded(a, 1)
  BY DEF Amount!SetString
<1>2. CASE a = 0
  BY <1>0, <1>1, <1>2, RoundedCases DEF Amount!Value
<1>3. CASE a # 0 /\ a < Low
  <2>1. PICK c \in Nat \ {0} : v = Amount!Value(Amount!Nearest(a * (2 * c), 1), 2 * c)
    BY <1>0, <1>1, <1>3, RoundedCases
  <2>2. a * (2 * c) \in Nat /\ (a * (2 * c)) * 1 = a * (2 * c) /\ 2 * c \in Nat \ {0}
    OBVIOUS
  <2>3. Amount!Nearest(a * (2 * c), 1) = a * (2 * c)
    BY <1>0, <2>2, NearestExact
  <2> QED BY <2>1, <2>2, <2>3 DEF Amount!Value
<1>4. CASE Low <= a /\ a < 2 * Low
  <2>1. v = Amount!Value(Amount!Nearest(a, 1), 1)
    BY <1>0, <1>1, <1>4, RoundedCases
  <2>2. Amount!Nearest(a, 1) = a
    BY <1>0, NearestExact
  <2> QED BY <1>0, <2>1, <2>2 DEF Amount!Value
<1>5. CASE a = 2 * Low
  <2>1. PICK c \in Nat \ {0} :
          /\ 2 * Low * 1 * c <= a
          /\ v = Amount!Value(Amount!Nearest(a, 1 * (2 * c)) * (2 * c), 1)
    BY <1>0, <1>1, <1>5, RoundedCases
  <2>2. c = 1
    <3>1. a <= (2 * Low + 1) * 1
      BY <1>0, <1>5
    <3> QED BY <1>0, <2>1, <3>1, LeastPower
  <2>3. 1 * (2 * c) = 2 /\ a = Low * 2
    BY <1>0, <1>5, <2>2
  <2>4. Amount!Nearest(a, 2) = Low
    BY <1>0, <2>3, NearestExact
  <2>5. v.num = Low * 2 /\ v.den = 1
    BY <2>1, <2>2, <2>3, <2>4 DEF Amount!Value
  <2> QED BY <1>0, <2>3, <2>5
<1> QED
  BY <1>0, <1>2, <1>3, <1>4, <1>5
(***************************************************************************)
(* How near num / den must be to n for its rounding, cut to an integer, to *)
(* be n or a neighbour of it: within one below and less than one and a     *)
(* half above; within three quarters below where a fraction may be         *)
(* rounded; and within one unit of the limit where integers are.           *)
(***************************************************************************)
Near(num, den, n) ==
    /\ (n - 1) * den <= num
    /\ 2 * num < (2 * n + 3) * den
    /\ num < Low * den => (4 * n - 3) * den <= 4 * num
    /\ 2 * Low * den <= num => num <= (2 * Low + 1) * den /\ n >= 2 * Low - 1

LEMMA CutIsNear ==
    ASSUME Amount!ConverterAssumption, NEW num \in Nat, NEW den \in Nat \ {0},
           NEW n \in Nat, n <= 2 * Low, Near(num, den, n),
           NEW r, r = Amount!ToInt(Amount!Rounded(num, den))
    PROVE  r \in {n - 1, n, n + 1}
<1>0. Low \in Nat \ {0, 1} /\ Low % 2 = 0
  BY LowIsEven
<1> DEFINE v == Amount!Rounded(num, den)
<1>1. r = v.num \div v.den
  BY DEF Amount!ToInt
<1>2. /\ (n - 1) * den <= num /\ 2 * num < (2 * n + 3) * den
      /\ num < Low * den => (4 * n - 3) * den <= 4 * num
      /\ 2 * Low * den <= num => num <= (2 * Low + 1) * den /\ n >= 2 * Low - 1
  BY DEF Near
<1> HIDE DEF v, Near
<1>3. CASE num = 0
  <2>1. v = Amount!Value(0, 1)
    BY <1>3, RoundedCases DEF v
  <2>2. v.num = 0 /\ v.den = 1 /\ 0 \div 1 = 0
    BY <2>1 DEF Amount!Value
  <2>3. n - 1 <= 0
    BY <1>2, <1>3, Scaled
  <2> QED BY <1>1, <2>2, <2>3
<1>4. CASE num # 0 /\ num < Low * den
  <2>1. PICK c \in Nat \ {0} : v = Amount!Value(Amount!Nearest(num * (2 * c), den), 2 * c)
    BY <1>4, RoundedCases DEF v
  <2> DEFINE k == Amount!Nearest(num * (2 * c), den)
  <2>2. r = k \div (2 * c)
    BY <1>1, <2>1 DEF Amount!Value
  <2>3. num * (2 * c) \in Nat /\ 2 * c \in Nat \ {0}
    OBVIOUS
  <2>4. /\ k \in Nat /\ 2 * k * den - 2 * (num * (2 * c)) <= den
        /\ 2 * (num * (2 * c)) - 2 * k * den <= den
    BY <2>3, NearestIsNear
  <2> HIDE DEF k
  <2>5. k < (n + 2) * (2 * c)
    <3>1. 2 * num * (2 * c) < (2 * n + 3) * den * (2 * c)
      <4>1. 2 * num \in Int /\ (2 * n + 3) * den \in Int
        OBVIOUS
      <4> QED BY <1>2, <2>3, <4>1, Scaled
    <3>2. (2 * k) * den < ((2 * n + 3) * (2 * c) + 1) * den
      BY <2>4, <3>1
    <3>3. 2 * k < (2 * n + 3) * (2 * c) + 1
      BY <2>4, <3>2, Scaled
    <3> QED BY <2>4, <3>3
  <2>6. (n - 1) * (2 * c) <= k
    <3>1. (4 * n - 3) * den * (2 * c) <= 4 * num * (2 * c)
      <4>1. 4 * num \in Int /\ (4 * n - 3) * den \in Int
        OBVIOUS
      <4> QED BY <1>2, <1>4, <2>3, <4>1, Scaled
    <3>2. ((4 * n - 3) * (2 * c) - 2) * den <= (4 * k) * den
      BY <2>4, <3>1
    <3>3. (4 * n - 3) * (2 * c) - 2 <= 4 * k
      BY <2>4, <3>2, Scaled
    <3> QED BY <2>4, <3>3
  <2>7. r \in Nat /\ n - 1 <= r /\ r < n + 2
    <3>1. r \in Nat /\ r * (2 * c) <= k /\ k < (r + 1) * (2 * c)
      <4> DEFINE d == 2 * c
      <4>1. d \in Nat \ {0} /\ r = k \div d
        BY <2>2, <2>3
      <4> HIDE DEF d
      <4>2. r \in Nat /\ r * d <= k /\ k < (r + 1) * d
        <5>1. r \in Nat /\ k % d \in 0 .. d - 1 /\ k = d * r + (k % d)
          BY <2>4, <4>1, DivRem
        <5> DEFINE x == k % d
        <5>2. x \in 0 .. d - 1 /\ k = d * r + x
          BY <5>1
        <5> HIDE DEF x
        <5>3. d \in Int /\ r \in Int
          BY <4>1, <5>1
        <5>4. d * r = r * d
          BY <5>3
        <5>5. (r + 1) * d = r * d + d
          BY <5>3
        <5> QED BY <4>1, <5>1, <5>2, <5>3, <5>4, <5>5
      <4> QED BY <4>2 DEF d
    <3>2. r * (2 * c) < (n + 2) * (2 * c) /\ (n - 1) * (2 * c) < (r + 1) * (2 * c)
      BY <2>4, <2>5, <2>6, <3>1
    <3>3. r < n + 2 /\ n - 1 < r + 1
      BY <2>3, <3>1, <3>2, Scaled
    <3> QED BY <3>1, <3>3
  <2> QED BY <2>7
<1>5. CASE Low * den <= num /\ num < 2 * Low * den
  <2>1. v = Amount!Value(Amount!Nearest(num, den), 1)
    BY <1>5, RoundedCases DEF v
  <2> DEFINE k == Amount!Nearest(num, den)
  <2>2. k \in Nat /\ 2 * k * den - 2 * num <= den /\ 2 * num - 2 * k * den <= den
    BY NearestIsNear
  <2>3. r = k
    <3>1. r = k \div 1
      BY <1>1, <2>1 DEF Amount!Value
    <3> QED BY <2>2, <3>1
  <2> HIDE DEF k
  <2>4. (2 * k) * den < (2 * n + 4) * den /\ (2 * n - 3) * den <= (2 * k) * den
    BY <1>2, <2>2
  <2>5. 2 * k < 2 * n + 4 /\ 2 * n - 3 <= 2 * k
    BY <2>2, <2>4, Scaled
  <2> QED BY <2>2, <2>3, <2>5
<1>6. CASE 2 * Low * den <= num
  <2>1. PICK c \in Nat \ {0} :
          /\ 2 * Low * den * c <= num
          /\ v = Amount!Value(Amount!Nearest(num, den * (2 * c)) * (2 * c), 1)
    BY <1>6, RoundedCases DEF v
  <2>2. c = 1
    BY <1>0, <1>2, <1>6, <2>1, LeastPower
  <2> DEFINE d == den * 2
             k == Amount!Nearest(num, d)
  <2>3. d \in Nat \ {0} /\ d = 2 * den
    OBVIOUS
  <2>4. r = k * 2
    <3>1. 2 * c = 2 /\ k \in Nat
      BY <2>2, <2>3, NearestIsNear
    <3>2. r = (k * 2) \div 1
      BY <1>1, <2>1, <3>1 DEF Amount!Value
    <3> QED BY <3>1, <3>2
  <2> HIDE DEF d
  <2>5. /\ k \in Nat /\ 2 * k * d - 2 * num <= d /\ 2 * num - 2 * k * d <= d
        /\ 2 * k * d - 2 * num = d => k % 2 = 0
    BY <2>3, NearestIsNear
  <2> HIDE DEF k
  <2>6. num <= (2 * Low + 1) * den /\ n >= 2 * Low - 1
    BY <1>2, <1>6
  <2>7. k = Low
    <3>1. (2 * k) * den <= (2 * Low + 2) * den /\ (2 * Low - 1) * den <= (2 * k) * den
      BY <1>0, <1>6, <2>3, <2>5, <2>6
    <3>2. 2 * k <= 2 * Low + 2 /\ 2 * Low - 1 <= 2 * k
      BY <1>0, <2>5, <3>1, Scaled
    <3>3. CASE k = Low + 1
      <4>1. k * den = Low * den + den
        BY <1>0, <3>3
      <4>2. 2 * k * d = 4 * (Low * den) + 4 * den
        BY <1>0, <2>3, <2>5, <4>1
      <4>3. num <= 2 * (Low * den) + den
        BY <1>0, <2>6
      <4>4. 2 * k * d - 2 * num = d
        BY <1>0, <2>3, <2>5, <4>2, <4>3
      <4> QED BY <1>0, <2>5, <3>3, <4>4
    <3> QED BY <1>0, <2>5, <3>2, <3>3
  <2> QED BY <1>0, <2>4, <2>6, <2>7
<1>7. Low * den \in Nat /\ 2 * Low * den \in Nat
  BY <1>0
<1> QED
  BY <1>3, <1>4, <1>5, <1>6, <1>7
\* Multiplied after the division: off by no more than the quotient was, n times.
LEMMA NearAfterRaising ==
    ASSUME Amount!ConverterAssumption, NEW n \in Nat, n <= 2 * Low, NEW den \in Nat \ {0},
           NEW num \in Nat,
           2 * Low * (num - n * den) <= n * den, 2 * Low * (n * den - num) <= n * den
    PROVE  Near(num, den, n)
<1>0. Low \in Nat \ {0, 1}
  BY LowIsEven
<1> DEFINE x == n * den
           e == x - num
<1>1. x \in Nat /\ e \in Int /\ 2 * Low * (-e) <= x /\ 2 * Low * e <= x /\ num = x - e
  OBVIOUS
<1>2. x <= 2 * Low * den
  BY <1>0, Scaled
<1>3. e <= den /\ -e <= den
  <2> HIDE DEF x, e
  <2>1. e * (2 * Low) <= den * (2 * Low) /\ (-e) * (2 * Low) <= den * (2 * Low)
    BY <1>0, <1>1, <1>2
  <2>2. 2 * Low \in Nat \ {0} /\ e \in Int /\ -e \in Int
    BY <1>0, <1>1
  <2> QED BY <2>1, <2>2, Scaled
<1>4. (n - 1) * den = x - den /\ (2 * n + 3) * den = 2 * x + 3 * den /\ (4 * n - 3) * den = 4 * x - 3 * den
  OBVIOUS
<1>5. (2 * Low + 1) * den = 2 * Low * den + den
  BY <1>0
<1>6. ASSUME num < Low * den PROVE 4 * e <= 3 * den
  <2> HIDE DEF x, e
  <2>1. (2 * Low - 1) * e < Low * den
    BY <1>0, <1>1, <1>6
  <2>2. ASSUME 4 * e > 3 * den PROVE FALSE
    <3>1. (3 * den) * (2 * Low - 1) < (4 * e) * (2 * Low - 1)
      <4>1. 2 * Low - 1 \in Nat \ {0} /\ 3 * den \in Int /\ 4 * e \in Int
        BY <1>0, <1>1
      <4> QED BY <2>2, <4>1, Scaled
    <3>2. (3 * (2 * Low - 1)) * den < (4 * Low) * den
      BY <1>0, <1>1, <2>1, <3>1
    <3>3. 3 * (2 * Low - 1) < 4 * Low
      BY <1>0, <3>2, Scaled
    <3> QED BY <1>0, <3>3
  <2> QED BY <1>1, <2>2
<1>7. ASSUME 2 * Low * den <= num PROVE n >= 2 * Low - 1
  <2>1. (2 * Low - 1) * den <= n * den
    BY <1>0, <1>3, <1>7
  <2> QED BY <1>0, <2>1, Scaled
<1> HIDE DEF x, e
<1>8. 2 * Low * den \in Nat
  BY <1>0
<1> QED
  BY <1>1, <1>2, <1>3, <1>4, <1>5, <1>6, <1>7, <1>8 DEF Near

\* Divided by g more than is multiplied again: off by less than the fraction.
LEMMA NearAfterLowering ==
    ASSUME Amount!ConverterAssumption, NEW a \in Nat, a <= 2 * Low, NEW g \in Nat \ {0, 1},
           NEW n \in Nat, n * g <= a, a < (n + 1) * g, NEW den \in Nat \ {0}, NEW num \in Nat,
           2 * Low * (num * g - a * den) <= a * den, 2 * Low * (a * den - num * g) <= a * den
    PROVE  Near(num, den, n)
<1>0. Low \in Nat \ {0, 1}
  BY LowIsEven
<1> DEFINE e == num * g - a * den
<1>1. num * g <= a * den + den /\ a * den <= num * g + den
  <2>1. a * den <= (2 * Low) * den
    BY <1>0, Scaled
  <2>2. e \in Int /\ 2 * Low * e <= a * den /\ 2 * Low * (-e) <= a * den /\ a * den \in Nat
    OBVIOUS
  <2> HIDE DEF e
  <2>3. e * (2 * Low) <= den * (2 * Low) /\ (-e) * (2 * Low) <= den * (2 * Low)
    BY <1>0, <2>1, <2>2
  <2>4. 2 * Low \in Nat \ {0} /\ -e \in Int
    BY <1>0, <2>2
  <2>5. e <= den /\ -e <= den
    BY <2>2, <2>3, <2>4, Scaled
  <2> QED BY <2>2, <2>5 DEF e
<1>2. num <= (n + 1) * den
  <2>1. (a + 1) * den <= ((n + 1) * g) * den
    BY Scaled
  <2>2. num * g <= ((n + 1) * den) * g
    BY <1>1, <2>1
  <2> QED BY <2>2, Scaled
<1>3. (4 * n - 2) * den <= 4 * num
  <2>1. (n * g) * den <= a * den
    BY Scaled
  <2>2. 2 * den <= g * den
    BY Scaled
  <2>3. ((4 * n - 2) * den) * g <= (4 * num) * g
    BY <1>1, <2>1, <2>2
  <2>4. (4 * n - 2) * den \in Int /\ 4 * num \in Int
    OBVIOUS
  <2> QED BY <2>3, <2>4, Scaled
<1>4. ASSUME 2 * Low * den <= num PROVE FALSE
  <2>1. (2 * Low * den) * g <= num * g /\ a * den <= (2 * Low) * den
    <3>1. 2 * Low * den \in Int
      BY <1>0
    <3> QED BY <1>0, <1>4, <3>1, Scaled
  <2>2. (2 * Low * g) * den <= (2 * Low + 1) * den
    BY <1>0, <1>1, <2>1
  <2>3. 2 * Low * g <= 2 * Low + 1
    BY <1>0, <2>2, Scaled
  <2>4. (2 * Low) * 2 <= (2 * Low) * g
    BY <1>0
  <2> QED BY <1>0, <2>3, <2>4
<1>5. (n - 1) * den = n * den - den /\ (2 * n + 3) * den = 2 * (n * den) + 3 * den
      /\ (4 * n - 3) * den = 4 * (n * den) - 3 * den /\ (n + 1) * den = n * den + den
      /\ (4 * n - 2) * den = 4 * (n * den) - 2 * den
  OBVIOUS
<1> QED
  BY <1>2, <1>3, <1>4, <1>5 DEF Near

LEMMA ConvertedWithinOne ==
    ASSUME Amount!ConverterAssumption, NEW a \in Nat, a <= Amount!Power(2)[Precision],
           NEW from \in Nat, NEW to \in Nat,
           NEW n, n = Amount!Exact(a, from, to), n <= Amount!Power(2)[Precision]
    PROVE  Amount!ConvertStrAmount(a, from, to) \in {n - 1, n, n + 1}
<1>0. Low \in Nat \ {0, 1} /\ Amount!Power(2)[Precision] = 2 * Low
  BY LowIsEven
<1> DEFINE F == Amount!Power(Base)[from]
           T == Amount!Power(Base)[to]
           v == Amount!SetString(a)
           q == Amount!Rounded(v.num, v.den * F)
<1>1. Base \in Nat \ {0, 1} /\ Base \in Nat \ {0}
  BY DEF Amount!ConverterAssumption
<1>2. F \in Nat \ {0} /\ T \in Nat \ {0}
  BY <1>1, PowerPositive
<1>3. n = (a * T) \div F /\ n <= 2 * Low /\ a <= 2 * Low
  BY <1>0 DEF Amount!Exact
<1>4. v.den \in Nat \ {0} /\ v.num = a * v.den /\ v.num \in Nat
  BY <1>3, SmallIsExact
<1>5. Amount!ConvertStrAmount(a, from, to) = Amount!ToInt(Amount!Rounded(q.num * T, q.den))
  BY DEF Amount!ConvertStrAmount, Amount!Mul, Amount!Quo
<1>6. \/ \E k \in Nat \ {0} : T = F * k
      \/ \E g \in Nat \ {0, 1} : F = T * g
  <2>1. CASE from <= to
    <3>1. to - from \in Nat /\ from + (to - from) = to
      BY <2>1
    <3>2. Amount!Power(Base)[to - from] \in Nat \ {0}
      BY <1>1, <3>1, PowerPositive
    <3>3. T = F * Amount!Power(Base)[to - from]
      BY <1>1, <3>1, PowerSum
    <3> QED BY <3>2, <3>3
  <2>2. CASE from > to
    <3>1. from - to \in Nat \ {0} /\ to + (from - to) = from
      BY <2>2
    <3>2. Amount!Power(Base)[from - to] \in Nat \ {0} /\ Amount!Power(Base)[from - to] > from - to
      BY <1>1, <3>1, PowerPositive, PowerGrows
    <3>3. F = T * Amount!Power(Base)[from - to]
      BY <1>1, <3>1, PowerSum
    <3>4. Amount!Power(Base)[from - to] \in Nat \ {0, 1}
      BY <3>1, <3>2
    <3> QED BY <3>3, <3>4
  <2> QED BY <2>1, <2>2
<1> HIDE DEF F, T, v
<1>7. /\ q.num \in Nat /\ q.den \in Nat \ {0}
      /\ 2 * Low * (q.num * F - a * q.den) <= a * q.den
      /\ 2 * Low * (a * q.den - q.num * F) <= a * q.den
  <2>1. v.den * F \in Nat \ {0}
    BY <1>2, <1>4
  <2>2. /\ q.num \in Nat /\ q.den \in Nat \ {0}
        /\ 2 * Low * (q.num * (v.den * F) - v.num * q.den) <= v.num * q.den
        /\ 2 * Low * (v.num * q.den - q.num * (v.den * F)) <= v.num * q.den
    BY <1>4, <2>1, RoundedIsClose
  <2> HIDE DEF q
  <2> DEFINE x == q.num * F
             y == a * q.den
  <2>3. q.num * (v.den * F) = x * v.den /\ v.num * q.den = y * v.den /\ x \in Nat /\ y \in Nat
    BY <1>2, <1>4, <2>2
  <2> HIDE DEF x, y
  <2>4. /\ (2 * Low * (x - y)) * v.den <= y * v.den
        /\ (2 * Low * (y - x)) * v.den <= y * v.den
    BY <1>0, <1>4, <2>2, <2>3
  <2>5. 2 * Low * (x - y) \in Int /\ 2 * Low * (y - x) \in Int
    BY <1>0, <2>3
  <2>6. 2 * Low * (x - y) <= y /\ 2 * Low * (y - x) <= y
    BY <1>4, <2>3, <2>4, <2>5, Scaled
  <2> QED BY <2>2, <2>6 DEF x, y
<1> HIDE DEF q
<1>8. Near(q.num * T, q.den, n) /\ n \in Nat
  <2>1. ASSUME NEW k \in Nat \ {0}, T = F * k PROVE Near(q.num * T, q.den, n) /\ n \in Nat
    <3>1. n = a * k
      <4>1. a * T \in Nat /\ a * k \in Int /\ (a * k) * F <= a * T /\ a * T < (a * k + 1) * F
        BY <1>2, <2>1
      <4> QED BY <1>2, <1>3, <4>1, Quotient
    <3>2. n \in Nat
      BY <3>1
    <3> DEFINE x == q.num * F
               y == a * q.den
    <3>3. x \in Nat /\ y \in Nat /\ q.num * T = x * k /\ n * q.den = y * k
      BY <1>2, <1>7, <2>1, <3>1
    <3>4. 2 * Low * (x - y) \in Int /\ 2 * Low * (y - x) \in Int
          /\ 2 * Low * (x - y) <= y /\ 2 * Low * (y - x) <= y
      BY <1>0, <1>7, <3>3
    <3> HIDE DEF x, y
    <3>5. (2 * Low * (x - y)) * k <= y * k /\ (2 * Low * (y - x)) * k <= y * k
      BY <3>3, <3>4, Scaled
    <3>6. 2 * Low * (x * k - y * k) <= y * k /\ 2 * Low * (y * k - x * k) <= y * k
      BY <1>0, <3>3, <3>5
    <3>7. q.num * T \in Nat
      BY <3>3
    <3> QED BY <1>3, <1>7, <3>2, <3>3, <3>6, <3>7, NearAfterRaising
  <2>2. ASSUME NEW g \in Nat \ {0, 1}, F = T * g PROVE Near(q.num * T, q.den, n) /\ n \in Nat
    <3>1. n \in Nat /\ n * F <= a * T /\ a * T < (n + 1) * F
      <4>1. a * T \in Nat
        BY <1>2
      <4> DEFINE x == a * T
                 r == x % F
      <4>2. n \in Nat /\ r \in 0 .. F - 1 /\ x = F * n + r
        BY <1>2, <1>3, <4>1, DivRem
      <4> HIDE DEF x, r
      <4>3. F \in Int /\ n \in Int
        BY <1>2, <4>2
      <4>4. F * n = n * F
        BY <4>3
      <4>5. (n + 1) * F = n * F + F
        BY <4>3
      <4>6. n * F <= x /\ x < (n + 1) * F
        BY <4>2, <4>3, <4>4, <4>5
      <4> QED BY <4>2, <4>6 DEF x
    <3>2. (n * g) * T <= a * T /\ a * T < ((n + 1) * g) * T
      BY <1>2, <2>2, <3>1
    <3>3. n * g <= a /\ a < (n + 1) * g
      <4>1. n * g \in Int /\ (n + 1) * g \in Int
        BY <3>1
      <4> QED BY <1>2, <3>2, <4>1, Scaled
    <3>4. (q.num * T) * g = q.num * F /\ q.num * T \in Nat
      BY <1>2, <1>7, <2>2
    <3>5. /\ 2 * Low * ((q.num * T) * g - a * q.den) <= a * q.den
          /\ 2 * Low * (a * q.den - (q.num * T) * g) <= a * q.den
      BY <1>7, <3>4
    <3> QED BY <1>3, <1>7, <3>1, <3>3, <3>4, <3>5, NearAfterLowering
  <2> QED BY <1>6, <2>1, <2>2
<1>9. q.num * T \in Nat
  BY <1>2, <1>7
<1> QED
  BY <1>3, <1>5, <1>7, <1>8, <1>9, CutIsNear

(***************************************************************************)
(* For any width of the mantissa from two bits, any base, any amount and   *)
(* any decimals: an amount that fits the mantissa, as the exact result     *)
(* does, becomes that result or a neighbour of it.                         *)
(***************************************************************************)
THEOREM WithinOneUnitAlways == Spec => []WithinOneUnit
<1> DEFINE Inv == /\ conversion.amount \in Nat /\ conversion.from \in Nat /\ conversion.to \in Nat
                  /\ conversion.result # Amount!NotCalled =>
                       conversion.result
                         = Amount!ConvertStrAmount(conversion.amount, conversion.from, conversion.to)
<1>1. Init => Inv
  BY DEF Init, Amount!Init
<1>2. Inv /\ [Next]_vars => Inv'
  <2> SUFFICES ASSUME Inv, [Next]_vars PROVE Inv'
    OBVIOUS
  <2>1. CASE Amount!Next
    <3>1. PICK amount \in Amounts, from \in Decimals, to \in Decimals :
            Amount!Convert(amount, from, to)
      BY <2>1 DEF Amount!Next
    <3>2. amount \in Nat /\ from \in Nat /\ to \in Nat
      BY GoroutinesAssumption DEF Amount!ConverterAssumption
    <3> QED
      BY <3>1, <3>2 DEF Amount!Convert
  <2>2. CASE UNCHANGED conversion
    BY <2>2
  <2> QED
    BY <2>1, <2>2 DEF Next, InMain, InSubmission, InIterator, InWatch, InConverter, vars
<1>3. Inv => WithinOneUnit
  <2> DEFINE n == Amount!Exact(conversion.amount, conversion.from, conversion.to)
  <2> SUFFICES ASSUME Inv, conversion.result # Amount!NotCalled,
                      conversion.amount <= Amount!Power(2)[Precision],
                      n <= Amount!Power(2)[Precision]
               PROVE  conversion.result \in {n - 1, n, n + 1}
    BY DEF WithinOneUnit, Amount!WithinOneUnit
  <2> HIDE DEF n
  <2>1. n = Amount!Exact(conversion.amount, conversion.from, conversion.to)
    BY DEF n
  <2> QED
    BY <2>1, GoroutinesAssumption, ConvertedWithinOne
<1> QED
  BY <1>1, <1>2, <1>3, PTL DEF Spec
=============================================================================
