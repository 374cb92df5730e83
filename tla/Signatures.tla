----------------------------- MODULE Signatures -----------------------------
(***************************************************************************)
(* The table "signs" of the database (models/signs.go).  It has no primary *)
(* key: Save always inserts, and nothing but the callers' own lookups      *)
(* keeps a validator from having several rows for one request.  Such rows  *)
(* are told apart by copy.  The signature itself is not modelled: a row    *)
(* stands for a signature over (request, Success) that verifies.           *)
(***************************************************************************)
EXTENDS Requests, FiniteSets

CONSTANTS
    Validators,      \* oracle addresses
    MaxCopies        \* bound: rows for one request and validator

ASSUME SignaturesAssumption == MaxCopies \in Nat \ {0}

VARIABLE signs

Sign == [rq : RequestIds, validator : Validators, copy : Nat]

SignaturesTypeOK == signs \subseteq Sign /\ IsFiniteSet(signs)

SignaturesInit == signs = {}

SignRows(r)   == {s \in signs : s.rq = r}
SignsOf(r, v) == {s \in signs : s.rq = r /\ s.validator = v}
Signers(r)    == {v \in Validators : SignsOf(r, v) # {}}

\* What First(...) of a signature may report to a caller that looks at the
\* result and not at the error.
FindSign(r, v) ==
    IF StoreReadsFail /\ Cardinality(SignsOf(r, v)) < MaxCopies
    THEN {FALSE, (v \in Signers(r))} ELSE {(v \in Signers(r))}

NewSign(r, v) ==
    [rq |-> r, validator |-> v, copy |-> Cardinality(SignsOf(r, v)) + 1]
=============================================================================
