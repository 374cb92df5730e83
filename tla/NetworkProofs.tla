--------------------------- MODULE NetworkProofs ----------------------------
(***************************************************************************)
(* Proofs of the safety properties of Network, for any set of validators   *)
(* and requests and any configuration of peers.                            *)
(***************************************************************************)
EXTENDS Network, FiniteSetTheorems, TLAPS

USE DEF None, New, Rejected, Success, Returned, Status

(***************************************************************************)
(* Equal rows of a table are finitely many, since their copies differ.     *)
(***************************************************************************)
LEMMA CopiesType ==
    ASSUME signs \in [Validators -> SUBSET Row], NEW v \in Validators, NEW sign
    PROVE  Copies(v, sign) \in Nat
<1> DEFINE rows == {row \in signs[v] : row.sign = sign}
           f == [row \in rows |-> row.copy]
<1>1. f \in [rows -> 1 .. MaxCopies]
  BY DEF Row
<1>2. \A a, b \in rows : f[a] = f[b] => a = b
  BY DEF Row
<1>3. f \in Injection(rows, 1 .. MaxCopies)
  BY <1>1, <1>2 DEF Injection, IsInjective
<1>4. IsFiniteSet(1 .. MaxCopies)
  BY FS_Interval, NetworkAssumption
<1>5. IsFiniteSet(rows)
  BY <1>3, <1>4, FS_Injection
<1> QED
  BY <1>5, FS_CardinalityType DEF Copies

(***************************************************************************)
(* The insert of a row that a lookup has not found: where lookups do not   *)
(* fail the row was not there.                                             *)
(***************************************************************************)
LEMMA SaveUnfound ==
    ASSUME signs \in [Validators -> SUBSET Row],
           NEW v \in Validators, NEW sign \in Sign,
           FALSE \in FindSign(v, sign), Save(v, sign)
    PROVE  /\ v \notin FailingDbs => ~Holds(v, sign)
           /\ \E copy \in 1 .. MaxCopies :
                signs' = [signs EXCEPT ![v] = @ \cup {[sign |-> sign, copy |-> copy]}]
<1> DEFINE copy == Copies(v, sign) + 1
<1>1. Copies(v, sign) \in Nat
  BY CopiesType
<1>2. ~Holds(v, sign) \/ (v \in FailingDbs /\ Copies(v, sign) < MaxCopies)
  BY DEF FindSign, Holds
<1>3. ASSUME ~Holds(v, sign) PROVE Copies(v, sign) = 0
  <2>1. {row \in signs[v] : row.sign = sign} = {}
    BY <1>3 DEF Holds
  <2> QED
    BY <2>1, FS_EmptySet DEF Copies
<1>4. copy \in 1 .. MaxCopies
  BY <1>1, <1>2, <1>3, NetworkAssumption
<1> QED
  BY <1>2, <1>4 DEF Save

(***************************************************************************)
(* What a validator inserts is either its own signature, made with the key *)
(* of the request's chain, or one that the peer it comes from has, under   *)
(* that peer's address; where lookups do not fail, it is found nowhere in  *)
(* the table before.                                                       *)
(***************************************************************************)
Inserts(v, sign) ==
    /\ \E copy \in 1 .. MaxCopies :
         signs' = [signs EXCEPT ![v] = @ \cup {[sign |-> sign, copy |-> copy]}]
    /\ v \notin FailingDbs => ~Holds(v, sign)
    /\ sign.address.validator \in Validators
    /\ sign.address.chain = ChainType[sign.rq]
    /\ v = sign.address.validator \/ Holds(sign.address.validator, sign)

LEMMA SignInserts ==
    ASSUME signs \in [Validators -> SUBSET Row],
           NEW v \in Validators, NEW r \in RequestIds, SignRequest(v, r)
    PROVE  \E sign \in Sign : Inserts(v, sign)
<1> DEFINE sign == OwnSign(v, r)
<1>1. sign \in Sign
  BY NetworkAssumption DEF Sign, Address, OwnSign, OracleAddress
<1>2. FALSE \in FindSign(v, sign) /\ Save(v, sign)
  BY DEF SignRequest
<1>3. sign.address.validator = v /\ sign.address.chain = ChainType[sign.rq]
  BY DEF OwnSign, OracleAddress
<1> HIDE DEF sign
<1> QED
  BY <1>1, <1>2, <1>3, SaveUnfound DEF Inserts

LEMMA GetInserts ==
    ASSUME signs \in [Validators -> SUBSET Row],
           NEW v \in Validators, NEW w \in Validators, NEW r \in RequestIds, GetSign(v, r, w)
    PROVE  UNCHANGED signs \/ \E sign \in Sign : Inserts(v, sign)
<1>1. PICK answer \in HandleGetSign(w, r) :
        \E found \in FindSign(v, [rq |-> r, address |-> answer.address]) :
          IF found THEN UNCHANGED signs ELSE Save(v, answer)
  BY DEF GetSign
<1>2. /\ answer \in Sign /\ answer.rq = r /\ Holds(w, answer)
      /\ answer.address.validator = w /\ answer.address.chain = ChainType[r]
  BY DEF HandleGetSign, ServerOracle
<1>3. answer = [rq |-> r, address |-> answer.address]
  BY <1>2 DEF Sign
<1>4. PICK found \in FindSign(v, answer) : IF found THEN UNCHANGED signs ELSE Save(v, answer)
  BY <1>1, <1>3
<1>5. found \in BOOLEAN
  BY <1>4 DEF FindSign, Holds
<1>6. CASE found
  BY <1>4, <1>6
<1>7. CASE ~found
  <2>1. FALSE \in FindSign(v, answer) /\ Save(v, answer)
    BY <1>4, <1>5, <1>7, Zenon
  <2> QED
    BY <1>2, <2>1, SaveUnfound DEF Inserts
<1> QED
  BY <1>6, <1>7

LEMMA SignsStep ==
    ASSUME signs \in [Validators -> SUBSET Row], [Next]_vars
    PROVE  UNCHANGED signs \/ \E v \in Validators, sign \in Sign : Inserts(v, sign)
<1>1. ASSUME NEW v \in Validators, NEW r \in RequestIds, SignRequest(v, r)
      PROVE  \E x \in Validators, sign \in Sign : Inserts(x, sign)
  BY <1>1, SignInserts
<1>2. ASSUME NEW v \in Validators, NEW r \in RequestIds, NEW w \in Validators, GetSign(v, r, w)
      PROVE  UNCHANGED signs \/ \E x \in Validators, sign \in Sign : Inserts(x, sign)
  BY <1>2, GetInserts
<1> QED
  BY <1>1, <1>2
  DEF Next, BeginSign, BeginGather, Begin, ChangeRow, SkipRequest, SignPanics, NoAnswer, vars

-----------------------------------------------------------------------------
(* Type correctness *)

LEMMA NetworkTypeInit == Init => TypeOK
BY DEF Init, TypeOK

(***************************************************************************)
(* A step changes the status of one row, or one validator's list.          *)
(***************************************************************************)
LEMMA NetworkTypeStep == TypeOK /\ [Next]_vars => TypeOK'
<1> SUFFICES ASSUME TypeOK, [Next]_vars PROVE TypeOK'
  OBVIOUS
<1> USE NetworkAssumption DEF TypeOK
<1>1. signs' \in [Validators -> SUBSET Row]
  <2>1. ASSUME NEW v \in Validators, NEW sign \in Sign, Inserts(v, sign)
        PROVE  signs' \in [Validators -> SUBSET Row]
    BY <2>1 DEF Inserts, Row
  <2> QED
    BY <2>1, SignsStep
<1>2. ASSUME NEW v \in Validators, NEW r \in RequestIds, ChangeRow(v, r) PROVE TypeOK'
  <2>1. PICK s \in Status \ {None} : requests' = [requests EXCEPT ![v][r] = s]
    <3>1. New \in Status \ {None} /\ Success \in Status \ {None}
      OBVIOUS
    <3> QED
      BY <1>2, <3>1, Zenon DEF ChangeRow
  <2>2. requests' \in [Validators -> [RequestIds -> Status]]
    BY <2>1
  <2>3. \A x \in Validators, q \in RequestIds : requests[x][q] # None => requests'[x][q] # None
    BY <2>1
  <2>4. UNCHANGED <<phase, todo>>
    BY <1>2 DEF ChangeRow
  <2>5. \A x \in Validators : \A visit \in todo[x] : visit[1] \in RequestIds
    OBVIOUS
  <2> QED
    BY <1>1, <2>2, <2>3, <2>4, <2>5
<1>3. ASSUME NEW v \in Validators, NEW next \in {"sign", "gather"},
             NEW ws \in SUBSET Validators, Begin(v, next, NewRows(v) \X ws)
      PROVE  TypeOK'
  <2>1. NewRows(v) \X ws \in SUBSET (RequestIds \X Validators)
    BY DEF NewRows
  <2>2. \A visit \in NewRows(v) \X ws : requests[v][visit[1]] # None
    BY DEF NewRows
  <2> QED
    BY <1>1, <1>3, <2>1, <2>2 DEF Begin
<1>4. ASSUME NEW v \in Validators, NEW r \in RequestIds, NEW w \in Validators, Visit(v, r, w)
      PROVE  TypeOK'
  BY <1>1, <1>4 DEF Visit
<1>5. ASSUME NEW v \in Validators, BeginSign(v) \/ BeginGather(v) PROVE TypeOK'
  <2>1. {v} \in SUBSET Validators /\ Ips[v] \in SUBSET Validators
    OBVIOUS
  <2> QED
    BY <1>3, <1>5, <2>1 DEF BeginSign, BeginGather
<1>6. ASSUME NEW v \in Validators, NEW r \in RequestIds, SignPanics(v, r) PROVE TypeOK'
  BY <1>1, <1>6 DEF SignPanics
<1>7. CASE UNCHANGED vars
  BY <1>7 DEF vars
<1> QED
  BY <1>2, <1>4, <1>5, <1>6, <1>7 DEF Next, SignRequest, SkipRequest, GetSign, NoAnswer

(***************************************************************************)
(* Tables and lists keep their types, and a validator visits only requests *)
(* that it holds.                                                          *)
(***************************************************************************)
THEOREM NetworkTypeCorrect == Spec => []TypeOK
BY NetworkTypeInit, NetworkTypeStep, PTL DEF Spec

-----------------------------------------------------------------------------
(* Signatures *)

(***************************************************************************)
(* A validator whose lookups do not fail inserts a row only where there is *)
(* none, so that its table holds no signature twice, in whatever order the *)
(* validators poll each other and however often a peer whose lookups fail  *)
(* has stored what it serves.  Nothing is claimed of that peer's table.    *)
(***************************************************************************)
THEOREM OneRowEachAlways == Spec => []OneRowEach
<1>1. Init => OneRowEach
  BY DEF Init, OneRowEach
<1>2. TypeOK /\ OneRowEach /\ [Next]_vars => OneRowEach'
  <2> SUFFICES ASSUME TypeOK, OneRowEach, [Next]_vars PROVE OneRowEach'
    OBVIOUS
  <2>1. CASE UNCHANGED signs
    BY <2>1 DEF OneRowEach
  <2>2. ASSUME NEW v \in Validators, NEW sign \in Sign, Inserts(v, sign) PROVE OneRowEach'
    BY <2>2 DEF TypeOK, OneRowEach, Inserts, Holds
  <2> QED
    BY <2>1, <2>2, SignsStep DEF TypeOK
<1> QED
  BY <1>1, <1>2, NetworkTypeInit, NetworkTypeStep, PTL DEF Spec

(***************************************************************************)
(* A signature spreads only from the table of the validator that made it:  *)
(* a server answers with its own and with no other, and no row is deleted. *)
(***************************************************************************)
THEOREM SignsAreGenuineAlways == Spec => []SignsAreGenuine
<1>1. Init => SignsAreGenuine
  BY DEF Init, SignsAreGenuine
<1>2. TypeOK /\ SignsAreGenuine /\ [Next]_vars => SignsAreGenuine'
  <2> SUFFICES ASSUME TypeOK, SignsAreGenuine, [Next]_vars PROVE SignsAreGenuine'
    OBVIOUS
  <2>1. CASE UNCHANGED signs
    BY <2>1 DEF SignsAreGenuine, Holds
  <2>2. ASSUME NEW v \in Validators, NEW sign \in Sign, Inserts(v, sign)
        PROVE  SignsAreGenuine'
    <3>1. \A x \in Validators, s \in Sign : Holds(x, s) => Holds(x, s)'
      BY <2>2 DEF TypeOK, Inserts, Holds
    <3>2. Holds(v, sign)'
      <4>1. PICK copy : [sign |-> sign, copy |-> copy] \in signs'[v]
        BY <2>2 DEF TypeOK, Inserts
      <4> QED
        BY <4>1 DEF Holds
    <3>3. ASSUME NEW x \in Validators, NEW row \in signs'[x]
          PROVE  /\ Holds(row.sign.address.validator, row.sign)'
                 /\ row.sign.address.chain = ChainType[row.sign.rq]
      <4>1. CASE row \in signs[x]
        <5>1. row.sign \in Sign /\ row.sign.address.validator \in Validators
          BY <4>1 DEF TypeOK, Row, Sign, Address
        <5> QED
          BY <3>1, <4>1, <5>1 DEF SignsAreGenuine
      <4>2. CASE row \notin signs[x]
        <5>1. row.sign = sign
          BY <2>2, <4>2 DEF TypeOK, Inserts
        <5> QED
          BY <2>2, <3>1, <3>2, <5>1 DEF Inserts
      <4> QED
        BY <4>1, <4>2
    <3> QED
      BY <3>3 DEF SignsAreGenuine
  <2> QED
    BY <2>1, <2>2, SignsStep DEF TypeOK
<1> QED
  BY <1>1, <1>2, NetworkTypeInit, NetworkTypeStep, PTL DEF Spec
=============================================================================
