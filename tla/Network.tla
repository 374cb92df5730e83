------------------------------- MODULE Network -------------------------------
(***************************************************************************)
(* Several validators, each with a database, a signer and a server of its  *)
(* own: signRequest and getSigns of signer/signer.go against handleGetSign *)
(* of server/server.go on the other side.  A validator has one address on  *)
(* each chain.  The cachers and the finalizing phases are reduced to what  *)
(* they do to the status of a row.  The lookups of a signature before its  *)
(* insert ignore the error, so that they may miss a row that is there.     *)
(***************************************************************************)
EXTENDS Models, Integers, FiniteSets

CONSTANTS
    Validators,
    RequestIds,
    ChainType,   \* request -> "Ethereum" or "Waves"
    TokenPair,   \* registration of each request's token on the two chains
    Ips,         \* validator -> the validators at config Ips
    FailingDbs,  \* validators whose lookups of a signature may fail
    MaxCopies    \* bound: equal rows in one table of signatures

ASSUME NetworkAssumption ==
    /\ ChainType \in [RequestIds -> {"Ethereum", "Waves"}]
    /\ TokenPair \in [RequestIds -> {"approved", "refused", "unregistered"}]
    /\ Ips \in [Validators -> SUBSET Validators]
    /\ FailingDbs \subseteq Validators
    /\ MaxCopies \in Nat \ {0}

VARIABLES
    requests,  \* validator -> request -> status of its row
    signs,     \* validator -> rows of its table of signatures
    phase,     \* validator -> "sign" or "gather"
    todo       \* validator -> <<request, peer>>: still to be visited

vars == <<requests, signs, phase, todo>>

Address == [validator : Validators, chain : {"Ethereum", "Waves"}]
Sign    == [rq : RequestIds, address : Address]
Row     == [sign : Sign, copy : 1 .. MaxCopies]

TheEthereumOracle(v, r) == [validator |-> v, chain |-> "Ethereum"]   \* mutant of ServerOracle

\* The address under which v signs r, and the one its server looks for.
OracleAddress(v, r) == [validator |-> v, chain |-> ChainType[r]]
ServerOracle(v, r)  == [validator |-> v, chain |-> ChainType[r]]

Init ==
    /\ requests = [v \in Validators |-> [r \in RequestIds |-> None]]
    /\ signs = [v \in Validators |-> {}]
    /\ phase = [v \in Validators |-> "gather"]
    /\ todo = [v \in Validators |-> {}]

Holds(v, sign) == \E row \in signs[v] : row.sign = sign

Copies(v, sign) == Cardinality({row \in signs[v] : row.sign = sign})

\* What First(...) of a signature may report to a caller that looks at the
\* result and not at the error.
FindSign(v, sign) ==
    IF v \in FailingDbs /\ Copies(v, sign) < MaxCopies
    THEN {FALSE, Holds(v, sign)} ELSE {Holds(v, sign)}

\* db.Save: the table has no key, so an equal row is one more row.
Save(v, sign) ==
    signs' = [signs EXCEPT ![v] = @ \cup {[sign |-> sign, copy |-> Copies(v, sign) + 1]}]

NewOrUnknown(v) == {r \in RequestIds : requests[v][r] \in {None, New}}   \* mutant of NewRows

NewRows(v) == {r \in RequestIds : requests[v][r] = New}

-----------------------------------------------------------------------------
\* The cachers store a request, and they and the finalizers change it.
ChangeRow(v, r) ==
    /\ \/ requests[v][r] = None /\ requests' = [requests EXCEPT ![v][r] = New]
       \/ requests[v][r] = New  /\ requests' = [requests EXCEPT ![v][r] = Success]
       \/ requests[v][r] = Success /\ requests' = [requests EXCEPT ![v][r] = New]
    /\ UNCHANGED <<signs, phase, todo>>

Begin(v, next, list) ==
    /\ todo[v] = {} /\ phase[v] # next
    /\ phase' = [phase EXCEPT ![v] = next]
    /\ todo' = [todo EXCEPT ![v] = list]
    /\ UNCHANGED <<requests, signs>>

\* The list of signRequest; a request is its own peer, so to speak.
BeginSign(v)   == Begin(v, "sign", NewRows(v) \X {v})
BeginGather(v) == Begin(v, "gather", NewRows(v) \X Ips[v])

Visit(v, r, w) ==
    /\ <<r, w>> \in todo[v]
    /\ todo' = [todo EXCEPT ![v] = @ \ {<<r, w>>}]
    /\ UNCHANGED <<requests, phase>>

OwnSign(v, r) == [rq |-> r, address |-> OracleAddress(v, r)]

\* signRequest: unless its own signature is found and if the token is approved
\* on both chains, the validator signs the request.
SignRequest(v, r) ==
    /\ phase[v] = "sign" /\ Visit(v, r, v)
    /\ FALSE \in FindSign(v, OwnSign(v, r)) /\ TokenPair[r] = "approved"
    /\ Save(v, OwnSign(v, r))

\* Signed already, token not approved, or a call to a node failed.
SkipRequest(v, r) ==
    /\ phase[v] = "sign" /\ Visit(v, r, v)
    /\ UNCHANGED signs

\* The Waves contract has no entry for the token: the process panics, and is
\* started again on its database.
SignPanics(v, r) ==
    /\ phase[v] = "sign" /\ <<r, v>> \in todo[v]
    /\ FALSE \in FindSign(v, OwnSign(v, r)) /\ TokenPair[r] = "unregistered"
    /\ phase' = [phase EXCEPT ![v] = "gather"]
    /\ todo' = [todo EXCEPT ![v] = {}]
    /\ UNCHANGED <<requests, signs>>

\* Mutants of HandleGetSign: any signature of the server's own; and a row
\* that is filled in before it is looked up.
ServeAnyRequest(w, r) ==
    {s \in Sign : requests[w][r] # None /\ s.address = ServerOracle(w, r) /\ Holds(w, s)}
ServeUnsigned(w, r) ==
    {s \in Sign : requests[w][r] # None /\ s.rq = r /\ s.address = ServerOracle(w, r)}

(***************************************************************************)
(* handleGetSign on w's server: the row of the request tells which of w's  *)
(* addresses to look for; the answer is w's signature for that request, if *)
(* there is one, and an error otherwise.                                   *)
(***************************************************************************)
HandleGetSign(w, r) ==
    {s \in Sign : /\ requests[w][r] # None
                  /\ s.rq = r /\ s.address = ServerOracle(w, r)
                  /\ Holds(w, s)}

\* getSigns: an answer is inserted under the request and the address that it
\* names, unless a row is found for that address and the request asked for.
GetSign(v, r, w) ==
    /\ phase[v] = "gather" /\ Visit(v, r, w)
    /\ \E answer \in HandleGetSign(w, r) :
       \E found \in FindSign(v, [rq |-> r, address |-> answer.address]) :
         IF found THEN UNCHANGED signs ELSE Save(v, answer)

\* No answer in time, or an error, or the end of the phase by one.
NoAnswer(v, r, w) ==
    /\ phase[v] = "gather" /\ Visit(v, r, w)
    /\ UNCHANGED signs

Next == \E v \in Validators :
    \/ BeginSign(v) \/ BeginGather(v)
    \/ \E r \in RequestIds :
         \/ ChangeRow(v, r) \/ SignRequest(v, r) \/ SkipRequest(v, r) \/ SignPanics(v, r)
         \/ \E w \in Validators : GetSign(v, r, w) \/ NoAnswer(v, r, w)

Spec == Init /\ [][Next]_vars

\* The signer's loop of each validator.
Loop(v) ==
    \/ BeginSign(v) \/ BeginGather(v)
    \/ \E r \in RequestIds :
         \/ SignRequest(v, r) \/ SkipRequest(v, r) \/ SignPanics(v, r)
         \/ \E w \in Validators : GetSign(v, r, w) \/ NoAnswer(v, r, w)

\* The loops run for ever, and a call that is repeated succeeds in the end.
FairSpec ==
    /\ Spec
    /\ \A v \in Validators : WF_vars(Loop(v))
    /\ \A v \in Validators, r \in RequestIds :
         /\ SF_vars(SignRequest(v, r))
         /\ \A w \in Ips[v] : SF_vars(GetSign(v, r, w))

-----------------------------------------------------------------------------
\* Every variable has its type; what is to be visited is in the database.
TypeOK ==
    /\ requests \in [Validators -> [RequestIds -> Status]]
    /\ signs \in [Validators -> SUBSET Row]
    /\ phase \in [Validators -> {"sign", "gather"}]
    /\ todo \in [Validators -> SUBSET (RequestIds \X Validators)]
    /\ \A v \in Validators : \A visit \in todo[v] : requests[v][visit[1]] # None

(***************************************************************************)
(* The lookup before the insert is for the request that was asked for, the *)
(* insert for the one the answer names (signer.go:217 and 221).  As every  *)
(* server answers for the request it is asked for, a validator whose own   *)
(* lookups do not fail stores no signature twice, however often it is in   *)
(* the tables of its peers.                                                *)
(***************************************************************************)
OneRowEach ==
    \A v \in Validators \ FailingDbs :
        \A a, b \in signs[v] : a.sign = b.sign => a = b

(***************************************************************************)
(* A signature in anybody's table is in the table of the validator whose   *)
(* address it bears, which has made it with its key for that chain.        *)
(***************************************************************************)
SignsAreGenuine ==
    \A v \in Validators : \A row \in signs[v] :
        /\ Holds(row.sign.address.validator, row.sign)
        /\ row.sign.address.chain = ChainType[row.sign.rq]

\* v asks for signatures of r, and its process is not ended by another request.
Open(v, r) ==
    /\ requests[v][r] = New
    /\ \A q \in NewRows(v) : TokenPair[q] # "unregistered"

(***************************************************************************)
(* A validator that keeps a request New, whose token is approved, gets the *)
(* signature of every peer that has the request and keeps it New as well,  *)
(* on either chain, as long as no request of an unregistered token makes   *)
(* one of the two panic.                                                   *)
(***************************************************************************)
SignaturesSpread ==
    \A v \in Validators, r \in RequestIds : \A w \in Ips[v] :
        LET open == TokenPair[r] = "approved" /\ Open(v, r) /\ Open(w, r) IN
        open ~> ~open \/ Holds(v, OwnSign(w, r))
=============================================================================
