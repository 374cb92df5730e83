------------------------ MODULE SupersymmetryProofs -------------------------
(***************************************************************************)
(* Proofs about Supersymmetry: its types, that the blocks it makes are     *)
(* those EthChain describes, what sums over finite functions do, and with  *)
(* them that the contract is an escrow.                                    *)
(***************************************************************************)
EXTENDS Supersymmetry, FiniteSetTheorems, TLAPS

USE DEF None, New, Rejected, Success, Returned, Status

-----------------------------------------------------------------------------
(* Steps of the contract *)

(***************************************************************************)
(* What a put does: one entry is new or replaced, the others stay.         *)
(***************************************************************************)
LEMMA PutEffect ==
    ASSUME NEW id, NEW entry, Put(id, entry)
    PROVE  /\ DOMAIN requests' = DOMAIN requests \cup {id}
           /\ requests'[id] = entry
           /\ \A x \in DOMAIN requests : x # id => requests'[x] = requests[x]
BY DEF Put

(***************************************************************************)
(* The transactions by what they do to the entries: createEthRequest adds  *)
(* a New one, of the block being built; changeStatus and                   *)
(* withdrawPastDueReqest settle a New one.                                 *)
(***************************************************************************)
Creates(id, rType, value) ==
    /\ id \in Id /\ id.height = height + 1 /\ id \notin DOMAIN requests
    /\ rType \in {"Lock", "Unlock"} /\ value \in Nat
    /\ rType = "Lock" => value = id.amount
    /\ Put(id, [rType |-> rType, status |-> New, changed |-> height + 1])
    /\ balance' = balance + value
    /\ UNCHANGED <<height, registered, signed, pool>>

SettlesAs(id, status) ==
    /\ Unsettled(id)
    /\ Put(id, [rType |-> requests[id].rType, status |-> status, changed |-> height + 1])
    /\ \/ status \in {Rejected, Success} /\ <<id, status>> \in pool /\ Acceptable(id, status)
       \/ status = Returned /\ ~InTime(id)
    /\ IF (requests[id].rType = "Unlock") = (status = Success)
       THEN PaysOut(id.amount)
       ELSE UNCHANGED balance
    /\ UNCHANGED <<height, registered, signed, pool>>

\* The other steps leave the entries alone.
Around ==
    /\ UNCHANGED <<requests, balance>>
    /\ \/ \E t \in TokenContracts : RegisterNativeToken(t)
       \/ \E id \in DOMAIN requests, verdict \in Verdicts :
            Send(id, verdict) \/ Drop(id, verdict) \/ \E o \in Oracles : SignVerdict(o, id, verdict)
       \/ Seal

LEMMA SettledEntry ==
    ASSUME TypeOK, NEW id, Unsettled(id), NEW s
    PROVE  [requests[id] EXCEPT !.status = s, !.changed = height + 1]
             = [rType |-> requests[id].rType, status |-> s, changed |-> height + 1]
<1> DEFINE e == requests[id]
           x == [e EXCEPT !.status = s]
<1>1. e \in Entry
  BY DEF TypeOK, Unsettled
<1>2. x = [rType |-> e.rType, status |-> s, changed |-> e.changed]
  BY <1>1 DEF Entry
<1>3. [e EXCEPT !.status = s, !.changed = height + 1] = [x EXCEPT !.changed = height + 1]
  OBVIOUS
<1> HIDE DEF x
<1>4. [x EXCEPT !.changed = height + 1] = [rType |-> e.rType, status |-> s, changed |-> height + 1]
  BY <1>2
<1> QED
  BY <1>3, <1>4

LEMMA ContractSteps ==
    ASSUME TypeOK, Next
    PROVE  \/ \E id, rType, value : Creates(id, rType, value)
           \/ \E id, status : SettlesAs(id, status)
           \/ Around
<1> USE ContractAssumption
<1>1. ASSUME NEW owner \in Users, NEW target \in Targets, NEW a \in Amounts, NEW value \in Amounts,
             NEW rType \in {"Lock", "Unlock"},
             CreateEthRequest(owner, target, rType, a, value)
      PROVE  \E id : Creates(id, rType, value)
  <2> DEFINE amount == IF rType = "Lock" THEN value ELSE a
             id     == [owner |-> owner, target |-> target, amount |-> amount, height |-> height + 1]
  <2>1. id \in Id /\ id.height = height + 1 /\ id.amount = amount /\ value \in Nat
    BY DEF Id, TypeOK
  <2>2. /\ id \notin DOMAIN requests
        /\ Put(id, [rType |-> rType, status |-> New, changed |-> height + 1])
        /\ balance' = balance + value
        /\ UNCHANGED <<height, registered, signed, pool>>
    BY <1>1 DEF CreateEthRequest
  <2> QED
    BY <2>1, <2>2 DEF Creates
<1>2. ASSUME NEW owner \in Users, NEW target \in Targets, NEW value \in Amounts,
             CreateEthRequest(owner, target, "Lock", 0, value)
      PROVE  \E id : Creates(id, "Lock", value)
  <2>1. CreateEthRequest(owner, target, "Lock", value, value)
    BY <1>2 DEF CreateEthRequest
  <2> QED
    BY <1>1, <2>1
<1>3. ASSUME NEW id, NEW verdict \in Verdicts, ChangeStatus(id, verdict)
      PROVE  SettlesAs(id, verdict)
  <2>1. Put(id, [rType |-> requests[id].rType, status |-> verdict, changed |-> height + 1])
    <3>1. Put(id, [requests[id] EXCEPT !.status = verdict, !.changed = height + 1])
      BY <1>3 DEF ChangeStatus, Settle
    <3>2. Unsettled(id)
      BY <1>3 DEF ChangeStatus, Acceptable
    <3> QED
      BY <3>1, <3>2, SettledEntry
  <2>2. verdict \in {Rejected, Success} /\ Unsettled(id)
    BY <1>3 DEF ChangeStatus, Acceptable
  <2> QED
    BY <1>3, <2>1, <2>2 DEF ChangeStatus, SettlesAs
<1>4. ASSUME NEW id, WithdrawPastDueReqest(id)
      PROVE  SettlesAs(id, Returned)
  <2>1. requests[id].rType \in {"Lock", "Unlock"}
    BY <1>4 DEF WithdrawPastDueReqest, Unsettled, TypeOK, Entry
  <2>2. Put(id, [rType |-> requests[id].rType, status |-> Returned, changed |-> height + 1])
    <3>1. Put(id, [requests[id] EXCEPT !.status = Returned, !.changed = height + 1])
      BY <1>4 DEF WithdrawPastDueReqest, Settle
    <3>2. Unsettled(id)
      BY <1>4 DEF WithdrawPastDueReqest
    <3> QED
      BY <3>1, <3>2, SettledEntry
  <2>3. (requests[id].rType = "Unlock") = (Returned = Success) <=> requests[id].rType = "Lock"
    BY <2>1
  <2> QED
    BY <1>4, <2>2, <2>3 DEF WithdrawPastDueReqest, SettlesAs
<1>5. ASSUME \/ \E t \in TokenContracts : RegisterNativeToken(t)
             \/ \E id \in DOMAIN requests, verdict \in Verdicts :
                  \/ Send(id, verdict) \/ Drop(id, verdict)
                  \/ \E o \in Oracles : SignVerdict(o, id, verdict)
             \/ Seal
      PROVE  Around
  BY <1>5 DEF Around, RegisterNativeToken, Send, Drop, SignVerdict, Seal
<1> QED
  BY <1>1, <1>2, <1>3, <1>4, <1>5 DEF Next

(***************************************************************************)
(* What becomes of the entries, field by field.                            *)
(***************************************************************************)
LEMMA CreatesEffect ==
    ASSUME TypeOK, NEW id, NEW rType, NEW value, Creates(id, rType, value)
    PROVE  /\ id \in Id /\ id.height = height + 1 /\ id \notin DOMAIN requests
           /\ rType \in {"Lock", "Unlock"} /\ value \in Nat
           /\ DOMAIN requests' = DOMAIN requests \cup {id}
           /\ requests'[id] = [rType |-> rType, status |-> New, changed |-> height + 1]
           /\ requests'[id] \in Entry
           /\ \A x \in DOMAIN requests : x # id /\ requests'[x] = requests[x]
           /\ UNCHANGED <<height, registered, signed, pool>>
<1> DEFINE entry == [rType |-> rType, status |-> New, changed |-> height + 1]
<1>1. entry \in Entry /\ Put(id, entry)
  BY DEF Creates, Entry, TypeOK
<1> HIDE DEF entry
<1>2. /\ DOMAIN requests' = DOMAIN requests \cup {id} /\ requests'[id] = entry
      /\ \A x \in DOMAIN requests : x # id => requests'[x] = requests[x]
  BY <1>1, PutEffect
<1>3. requests'[id] = [rType |-> rType, status |-> New, changed |-> height + 1]
  BY <1>2 DEF entry
<1> QED
  BY <1>1, <1>2, <1>3 DEF Creates

LEMMA SettlesEffect ==
    ASSUME TypeOK, NEW id, NEW status, SettlesAs(id, status)
    PROVE  /\ id \in DOMAIN requests /\ id \in Id /\ id.amount \in Nat /\ status \in Status
           /\ requests[id] \in Entry /\ requests[id].status = New
           /\ DOMAIN requests' = DOMAIN requests
           /\ requests'[id] = [rType |-> requests[id].rType, status |-> status, changed |-> height + 1]
           /\ requests'[id] \in Entry
           /\ \A x \in DOMAIN requests : x # id => requests'[x] = requests[x]
           /\ UNCHANGED <<height, registered, signed, pool>>
<1> DEFINE entry == [rType |-> requests[id].rType, status |-> status, changed |-> height + 1]
<1>1. /\ id \in DOMAIN requests /\ id \in Id /\ id.amount \in Nat /\ requests[id] \in Entry
      /\ requests[id].status = New /\ status \in Status
  <2>1. id \in DOMAIN requests /\ requests[id].status = New /\ status \in Status
    BY DEF SettlesAs, Unsettled
  <2>2. id \in Id /\ requests[id] \in Entry
    BY <2>1 DEF TypeOK
  <2>3. id.amount \in Nat
    BY <2>2, ContractAssumption DEF Id
  <2> QED
    BY <2>1, <2>2, <2>3
<1>2. entry \in Entry /\ Put(id, entry)
  BY <1>1 DEF SettlesAs, Entry, TypeOK
<1> HIDE DEF entry
<1>3. /\ DOMAIN requests' = DOMAIN requests \cup {id} /\ requests'[id] = entry
      /\ \A x \in DOMAIN requests : x # id => requests'[x] = requests[x]
  BY <1>2, PutEffect
<1>4. requests'[id] = [rType |-> requests[id].rType, status |-> status, changed |-> height + 1]
  BY <1>3 DEF entry
<1>5. DOMAIN requests' = DOMAIN requests /\ requests'[id] \in Entry
  BY <1>1, <1>2, <1>3
<1> QED
  BY <1>1, <1>3, <1>4, <1>5 DEF SettlesAs

-----------------------------------------------------------------------------
(* Type correctness *)

LEMMA ContractTypeStep ==
    ASSUME TypeOK, [Next]_vars
    PROVE  TypeOK'
<1> USE ContractAssumption DEF TypeOK
<1>1. ASSUME NEW id, NEW rType, NEW value, Creates(id, rType, value) PROVE TypeOK'
  <2>1. balance' \in Nat
    BY <1>1 DEF Creates
  <2>2. /\ DOMAIN requests \subseteq DOMAIN requests' /\ DOMAIN requests' \subseteq Id
        /\ \A x \in DOMAIN requests' : requests'[x] \in Entry
    <3> HIDE DEF TypeOK
    <3>1. /\ DOMAIN requests \subseteq Id
          /\ \A x \in DOMAIN requests : requests[x] \in Entry
      BY DEF TypeOK
    <3>2. /\ id \in Id /\ requests'[id] \in Entry /\ DOMAIN requests' = DOMAIN requests \cup {id}
          /\ \A x \in DOMAIN requests : x # id /\ requests'[x] = requests[x]
      BY <1>1, CreatesEffect
    <3> QED
      BY <3>1, <3>2
  <2>3. UNCHANGED <<height, registered, signed, pool>>
    BY <1>1 DEF Creates
  <2> QED
    BY <2>1, <2>2, <2>3
<1>2. ASSUME NEW id, NEW status, SettlesAs(id, status) PROVE TypeOK'
  <2>1. balance' \in Nat
    BY <1>2, SettlesEffect DEF SettlesAs, PaysOut
  <2>2. DOMAIN requests' = DOMAIN requests /\ \A x \in DOMAIN requests : requests'[x] \in Entry
    BY <1>2, SettlesEffect
  <2> QED
    BY <1>2, <2>1, <2>2 DEF SettlesAs
<1>3. CASE Around
  <2>1. ASSUME NEW id \in DOMAIN requests, NEW verdict \in Verdicts,
               Send(id, verdict) \/ Drop(id, verdict)
        PROVE  TypeOK'
    BY <2>1 DEF Send, Drop
  <2>2. ASSUME NEW id \in DOMAIN requests, NEW verdict \in Verdicts, NEW o \in Oracles,
               SignVerdict(o, id, verdict)
        PROVE  TypeOK'
    BY <2>2 DEF SignVerdict
  <2>3. ASSUME NEW t \in TokenContracts, RegisterNativeToken(t) PROVE TypeOK'
    BY <2>3 DEF RegisterNativeToken
  <2>4. CASE Seal
    BY <2>4 DEF Seal
  <2> QED
    BY <1>3, <2>1, <2>2, <2>3, <2>4 DEF Around
<1>4. CASE UNCHANGED vars
  BY <1>4 DEF vars
<1> QED
  BY <1>1, <1>2, <1>3, <1>4, ContractSteps

LEMMA ContractTypeInit == Init => TypeOK
BY ContractAssumption DEF Init, TypeOK

(***************************************************************************)
(* For any users, amounts, oracles and timeout the contract's balance      *)
(* stays a natural number, and what is signed or sent is about requests    *)
(* that exist.                                                             *)
(***************************************************************************)
THEOREM ContractTypeCorrect == Spec => []TypeOK
BY ContractTypeInit, ContractTypeStep, PTL DEF Spec

-----------------------------------------------------------------------------
(* The blocks are those of EthChain *)

(***************************************************************************)
(* When an entry says what it says.  A New one is as it was created; one   *)
(* that was signed was settled by a transaction still in the pool until    *)
(* its block is sealed, in time and after its own block; one that was      *)
(* Returned was past due.                                                  *)
(***************************************************************************)
SignedBy(id, verdict) == \E o \in Oracles : <<o, id, verdict>> \in signed

Dated(id) ==
    /\ id.height \in Start + 1 .. height + 1
    /\ requests[id].changed <= height + 1
    /\ requests[id].status # None
    /\ requests[id].status = New => requests[id].changed = id.height
    /\ requests[id].status # New => id.height <= height
    /\ requests[id].status = Returned => requests[id].changed > id.height + Timeout
    /\ requests[id].status \in {Rejected, Success} =>
         /\ requests[id].changed <= id.height + Timeout
         /\ SignedBy(id, requests[id].status)
         /\ requests[id].changed = height + 1 => <<id, requests[id].status>> \in pool

EntriesDated == \A id \in DOMAIN requests : Dated(id)

\* Oracles sign what is in a block, and what is sent has been signed.
SentIsSigned ==
    /\ \A t \in signed : t[2].height <= height
    /\ \A t \in pool : SignedBy(t[1], t[2])

BlockInv == TypeOK /\ height \in Start .. MaxHeight /\ EntriesDated /\ SentIsSigned

\* A quorum has a member.
LEMMA AcceptableIsSigned ==
    ASSUME TypeOK, NEW id, NEW verdict, Acceptable(id, verdict)
    PROVE  SignedBy(id, verdict)
<1> DEFINE voters == {s \in Slots : <<Admin[s], id, verdict>> \in signed}
<1>1. Cardinality(voters) >= BftCoefficent
  BY DEF Acceptable, Votes
<1>2. voters # {}
  <2>1. Cardinality({}) = 0 /\ BftCoefficent >= 1
    BY FS_EmptySet, ContractAssumption
  <2> HIDE DEF voters
  <2> QED
    BY <1>1, <2>1, ContractAssumption
<1>3. PICK s \in Slots : <<Admin[s], id, verdict>> \in signed
  BY <1>2
<1>4. Admin[s] \in Oracles
  BY ContractAssumption
<1> QED
  BY <1>3, <1>4 DEF SignedBy

LEMMA BlockStep ==
    ASSUME Start <= MaxHeight, BlockInv, [Next]_vars
    PROVE  BlockInv'
<1> USE ContractAssumption
<1>0. TypeOK'
  BY ContractTypeStep DEF BlockInv
<1>1. ASSUME NEW id, NEW rType, NEW value, Creates(id, rType, value) PROVE BlockInv'
  <2>1. /\ id.height = height + 1 /\ id \notin DOMAIN requests
        /\ DOMAIN requests' = DOMAIN requests \cup {id}
        /\ requests'[id] = [rType |-> rType, status |-> New, changed |-> height + 1]
        /\ \A x \in DOMAIN requests : x # id /\ requests'[x] = requests[x]
        /\ UNCHANGED <<height, signed, pool>>
    BY <1>1, CreatesEffect DEF BlockInv
  <2>2. requests'[id].status = New /\ requests'[id].changed = height + 1
    BY <2>1
  <2>3. Dated(id)'
    BY <2>1, <2>2 DEF BlockInv, Dated, TypeOK
  <2>4. ASSUME NEW x \in DOMAIN requests PROVE Dated(x)'
    BY <2>1, <2>4 DEF BlockInv, EntriesDated, Dated, SignedBy
  <2>5. SentIsSigned'
    BY <2>1 DEF BlockInv, SentIsSigned, SignedBy
  <2> QED
    BY <1>0, <2>1, <2>3, <2>4, <2>5 DEF BlockInv, EntriesDated
<1>2. ASSUME NEW id, NEW status, SettlesAs(id, status) PROVE BlockInv'
  <2>1. /\ id \in DOMAIN requests /\ requests[id].status = New
        /\ DOMAIN requests' = DOMAIN requests
        /\ requests'[id] = [rType |-> requests[id].rType, status |-> status, changed |-> height + 1]
        /\ \A x \in DOMAIN requests : x # id => requests'[x] = requests[x]
        /\ UNCHANGED <<height, signed, pool>>
    BY <1>2, SettlesEffect DEF BlockInv
  <2>2. requests'[id].status = status /\ requests'[id].changed = height + 1
    BY <2>1
  <2>3. Dated(id) /\ height \in Nat /\ id.height \in Nat
    <3>1. Dated(id) /\ height \in Nat
      BY <2>1 DEF BlockInv, EntriesDated, TypeOK
    <3> QED
      BY <3>1 DEF Dated
  <2>4. Dated(id)'
    <3>1. ASSUME status \in {Rejected, Success}, <<id, status>> \in pool, Acceptable(id, status)
          PROVE  Dated(id)'
      <4>1. SignedBy(id, status)
        BY <3>1, AcceptableIsSigned DEF BlockInv
      <4>2. id.height <= height
        BY <4>1 DEF SignedBy, BlockInv, SentIsSigned
      <4>3. height + 1 <= id.height + Timeout
        BY <3>1 DEF Acceptable, InTime
      <4> QED
        BY <2>1, <2>2, <2>3, <3>1, <4>1, <4>2, <4>3 DEF Dated, SignedBy
    <3>2. ASSUME status = Returned, ~InTime(id)
          PROVE  Dated(id)'
      BY <2>1, <2>2, <2>3, <3>2 DEF Dated, InTime
    <3> QED
      BY <1>2, <3>1, <3>2 DEF SettlesAs
  <2>5. ASSUME NEW x \in DOMAIN requests, x # id PROVE Dated(x)'
    BY <2>1, <2>5 DEF BlockInv, EntriesDated, Dated, SignedBy
  <2>6. SentIsSigned'
    BY <2>1 DEF BlockInv, SentIsSigned, SignedBy
  <2> QED
    BY <1>0, <2>1, <2>4, <2>5, <2>6 DEF BlockInv, EntriesDated
<1>3. ASSUME NEW t \in TokenContracts, RegisterNativeToken(t) PROVE BlockInv'
  BY <1>0, <1>3 DEF RegisterNativeToken, BlockInv, EntriesDated, Dated, SentIsSigned, SignedBy
<1>4. ASSUME NEW id \in DOMAIN requests, NEW verdict \in Verdicts, Send(id, verdict) PROVE BlockInv'
  <2>1. SignedBy(id, verdict)
    BY <1>4, AcceptableIsSigned DEF Send, BlockInv
  <2>2. pool' = pool \cup {<<id, verdict>>} /\ UNCHANGED <<height, requests, signed>>
    BY <1>4 DEF Send
  <2>3. EntriesDated'
    BY <2>2 DEF BlockInv, EntriesDated, Dated, SignedBy
  <2>4. SentIsSigned'
    BY <2>1, <2>2 DEF BlockInv, SentIsSigned, SignedBy
  <2> QED
    BY <1>0, <2>2, <2>3, <2>4 DEF BlockInv
<1>5. ASSUME NEW id \in DOMAIN requests, NEW verdict \in Verdicts, Drop(id, verdict) PROVE BlockInv'
  <2>1. /\ pool' = pool \ {<<id, verdict>>} /\ UNCHANGED <<height, requests, signed>>
        /\ ~(requests[id].status = verdict /\ requests[id].changed = height + 1)
    BY <1>5 DEF Drop, Executed
  <2>2. EntriesDated'
    BY <2>1 DEF BlockInv, EntriesDated, Dated, SignedBy
  <2>3. SentIsSigned'
    BY <2>1 DEF BlockInv, SentIsSigned, SignedBy
  <2> QED
    BY <1>0, <2>1, <2>2, <2>3 DEF BlockInv
<1>6. ASSUME NEW id \in DOMAIN requests, NEW verdict \in Verdicts, NEW o \in Oracles,
             SignVerdict(o, id, verdict)
      PROVE  BlockInv'
  <2>1. /\ id.height <= height /\ signed' = signed \cup {<<o, id, verdict>>}
        /\ UNCHANGED <<height, requests, pool>>
    BY <1>6 DEF SignVerdict
  <2>2. EntriesDated'
    BY <2>1 DEF BlockInv, EntriesDated, Dated, SignedBy
  <2>3. SentIsSigned'
    BY <2>1 DEF BlockInv, SentIsSigned, SignedBy
  <2> QED
    BY <1>0, <2>1, <2>2, <2>3 DEF BlockInv
<1>7. ASSUME Seal PROVE BlockInv'
  <2>1. /\ height' = height + 1 /\ height < MaxHeight /\ UNCHANGED <<requests, signed>>
        /\ pool' \subseteq pool /\ height \in Nat
    BY <1>7 DEF Seal, BlockInv, TypeOK
  <2>2. ASSUME NEW id \in DOMAIN requests PROVE Dated(id)'
    <3>1. Dated(id) /\ requests[id].changed \in Nat
      BY DEF BlockInv, EntriesDated, TypeOK, Entry
    <3> QED
      BY <2>1, <3>1 DEF Dated, SignedBy
  <2>3. SentIsSigned'
    <3>1. \A t \in signed : t[2].height <= height /\ t[2].height \in Nat
      BY DEF BlockInv, SentIsSigned, TypeOK, Id
    <3>2. \A t \in signed : t[2].height <= height'
      BY <2>1, <3>1
    <3>3. \A t \in pool' : SignedBy(t[1], t[2])'
      BY <2>1 DEF BlockInv, SentIsSigned, SignedBy
    <3> QED
      BY <2>1, <3>2, <3>3 DEF SentIsSigned
  <2> QED
    BY <1>0, <2>1, <2>2, <2>3 DEF BlockInv, EntriesDated
<1>8. CASE UNCHANGED vars
  BY <1>0, <1>8 DEF vars, BlockInv, EntriesDated, Dated, SentIsSigned, SignedBy
<1> QED
  BY <1>1, <1>2, <1>3, <1>4, <1>5, <1>6, <1>7, <1>8, ContractSteps DEF Around, BlockInv

USE DEF Chain!None, Chain!New, Chain!Rejected, Chain!Success, Chain!Returned

Entries == [id \in Ids |-> Published(id)]
Waiting == {t[1] : t \in pool}

\* What EthChain sees of a step is what changes in sealed blocks and the pool.
LEMMA UnseenStep ==
    ASSUME UNCHANGED <<height, pool>>, \A id \in Ids : Published(id)' = Published(id)
    PROVE  UNCHANGED Chain!ethVars
BY DEF Chain!ethVars

LEMMA RequestsAreIds ==
    ASSUME Start <= MaxHeight, BlockInv
    PROVE  DOMAIN requests \subseteq Ids
<1>1. ASSUME NEW id \in DOMAIN requests PROVE id \in Ids
  <2>1. id \in Id /\ id.height \in Start + 1 .. height + 1 /\ height \in Start .. MaxHeight
    BY DEF BlockInv, TypeOK, EntriesDated, Dated
  <2>2. id.height \in Start + 1 .. MaxHeight + 1
    BY <2>1, ContractAssumption
  <2> QED
    BY <2>1, <2>2 DEF Id, Ids
<1> QED
  BY <1>1

\* What the oracles sign is all that is sent.
LEMMA OnlySuccessIsSent ==
    ASSUME BlockInv, OnlySuccess
    PROVE  /\ \A id, verdict : SignedBy(id, verdict) => verdict = Success
           /\ \A t \in pool : t = <<t[1], Success>>
<1>1. ASSUME NEW id, NEW verdict, SignedBy(id, verdict) PROVE verdict = Success
  <2>1. PICK o \in Oracles : <<o, id, verdict>> \in signed
    BY <1>1 DEF SignedBy
  <2> QED
    BY <2>1 DEF OnlySuccess
<1>2. ASSUME NEW t \in pool PROVE t = <<t[1], Success>>
  <2>1. t = <<t[1], t[2]>>
    BY DEF BlockInv, TypeOK
  <2> QED
    BY <1>1, <2>1 DEF BlockInv, SentIsSigned
<1> QED
  BY <1>1, <1>2

LEMMA SealIsMineBlock ==
    ASSUME Start <= MaxHeight, BlockInv, OnlySuccess, Seal
    PROVE  Chain!MineBlock
<1> DEFINE h == height + 1
           created   == {id \in DOMAIN requests : id.height = h}
           finalized == {id \in DOMAIN requests :
                           requests[id].status = Success /\ requests[id].changed = h}
           withdrawn == {id \in DOMAIN requests :
                           requests[id].status = Returned /\ requests[id].changed = h}
<1>0. /\ height \in Nat /\ height \in Start .. MaxHeight /\ Start \in Nat \ {0}
      /\ MaxHeight \in Nat /\ Timeout \in Nat
      /\ \A id \in DOMAIN requests : Dated(id) /\ requests[id] \in Entry
  BY ContractAssumption DEF BlockInv, TypeOK, EntriesDated
<1>1. h <= MaxHeight /\ height' = h /\ requests' = requests
  BY <1>0 DEF Seal
<1>2. \A id \in DOMAIN requests : requests[id].status # Rejected
  <2>1. TAKE id \in DOMAIN requests
  <2>2. requests[id].status = Rejected => SignedBy(id, Rejected)
    BY <1>0 DEF Dated
  <2> QED
    BY <2>2, OnlySuccessIsSent
<1>3. \A id \in Ids : id \notin DOMAIN requests =>
        /\ Published(id)  = [height |-> 0, status |-> None, changed |-> 0]
        /\ Published(id)' = [height |-> 0, status |-> None, changed |-> 0]
  BY <1>1 DEF Published
<1>4. \A id \in DOMAIN requests :
        /\ id.height \in Nat /\ id.height <= h /\ requests[id].changed \in Nat
        /\ requests[id].changed <= h
        /\ requests[id].status \in {New, Success, Returned}
  <2>1. TAKE id \in DOMAIN requests
  <2>2. Dated(id) /\ requests[id].changed \in Nat /\ requests[id].status \in Status
    BY <1>0 DEF Entry
  <2> QED
    BY <1>0, <1>2, <2>2 DEF Dated
<1>5. \A id \in DOMAIN requests :
        Published(id)' = [height |-> id.height, status |-> requests[id].status,
                          changed |-> requests[id].changed]
  BY <1>0, <1>1, <1>4 DEF Published
<1>6. ASSUME NEW id \in created
      PROVE  /\ Entries[id] = [height |-> 0, status |-> None, changed |-> 0]
             /\ Published(id)' = Chain!Created(h)
             /\ id \notin finalized /\ id \notin withdrawn
  <2>1. id \in Ids /\ id.height = h
    BY RequestsAreIds
  <2>2. requests[id].status = New /\ requests[id].changed = h
    <3>1. Dated(id) /\ ~(id.height <= height)
      BY <1>0, <2>1
    <3> QED
      BY <2>1, <3>1 DEF Dated
  <2> QED
    BY <1>0, <1>5, <2>1, <2>2 DEF Entries, Published, Chain!Created
<1>7. ASSUME NEW id \in finalized \cup withdrawn
      PROVE  /\ id \in Ids /\ id \notin created
             /\ Entries[id] = [height |-> id.height, status |-> New, changed |-> id.height]
             /\ Published(id)' = Chain!Changed(Entries[id], requests[id].status, h)
  <2>1. id \in Ids /\ requests[id].changed = h /\ requests[id].status # New
    BY RequestsAreIds
  <2>2. id.height <= height
    BY <1>0, <2>1 DEF Dated
  <2>3. Entries[id] = [height |-> id.height, status |-> New, changed |-> id.height]
    BY <1>0, <1>4, <2>1, <2>2 DEF Entries, Published
  <2> QED
    BY <1>0, <1>4, <1>5, <2>1, <2>2, <2>3 DEF Chain!Changed
<1>8. ASSUME NEW id \in Ids, id \notin created, id \notin finalized, id \notin withdrawn
      PROVE  Published(id)' = Entries[id]
  <2>1. CASE id \notin DOMAIN requests
    BY <1>3, <2>1 DEF Entries
  <2>2. CASE id \in DOMAIN requests
    <3>1. id.height <= height /\ (requests[id].changed <= height \/ requests[id].status = New)
      BY <1>0, <1>4, <1>8, <2>2
    <3>2. requests[id].changed <= height
      BY <1>0, <2>2, <3>1 DEF Dated
    <3> QED
      BY <1>0, <1>4, <1>5, <2>2, <3>1, <3>2 DEF Entries, Published
  <2> QED
    BY <2>1, <2>2
<1>9. created \in SUBSET {id \in Ids : ~Chain!Logged(id)}
  BY <1>6, RequestsAreIds DEF Chain!Logged, Entries
<1>10. finalized \in SUBSET {id \in Waiting : Chain!Accepts(Entries[id], h)}
  <2>1. ASSUME NEW id \in finalized PROVE id \in Waiting /\ Chain!Accepts(Entries[id], h)
    <3>1. <<id, Success>> \in pool /\ requests[id].changed <= id.height + Timeout
      BY <1>0 DEF Dated
    <3>2. /\ id \in Ids
          /\ Entries[id] = [height |-> id.height, status |-> New, changed |-> id.height]
      BY <1>7
    <3> QED
      BY <3>1, <3>2 DEF Chain!Accepts, Entries, Waiting
  <2> QED
    BY <2>1
<1>11. withdrawn \in SUBSET {id \in Ids : Chain!PastDue(Entries[id], h)}
  <2>1. ASSUME NEW id \in withdrawn PROVE id \in Ids /\ Chain!PastDue(Entries[id], h)
    <3>1. requests[id].changed > id.height + Timeout
      BY <1>0 DEF Dated
    <3>2. /\ id \in Ids
          /\ Entries[id] = [height |-> id.height, status |-> New, changed |-> id.height]
      BY <1>7
    <3> QED
      BY <3>1, <3>2 DEF Chain!PastDue, Entries
  <2> QED
    BY <2>1
<1>12. Entries' = [r \in Ids |->
              IF r \in created THEN Chain!Created(h)
              ELSE IF r \in finalized THEN Chain!Changed(Entries[r], Success, h)
              ELSE IF r \in withdrawn THEN Chain!Changed(Entries[r], Returned, h)
              ELSE Entries[r]]
  <2>1. ASSUME NEW r \in Ids
        PROVE  Published(r)' = IF r \in created THEN Chain!Created(h)
              ELSE IF r \in finalized THEN Chain!Changed(Entries[r], Success, h)
              ELSE IF r \in withdrawn THEN Chain!Changed(Entries[r], Returned, h)
              ELSE Entries[r]
    BY <1>6, <1>7, <1>8
  <2> QED
    BY <2>1 DEF Entries
<1>13. Waiting' = Waiting \ finalized
  <2>1. pool' = {t \in pool : ~Executed(t[1], t[2])}
    BY DEF Seal
  <2>2. \A t \in pool : t = <<t[1], Success>> /\ t[1] \in DOMAIN requests
    BY OnlySuccessIsSent DEF BlockInv, TypeOK
  <2>3. \A t \in pool : t \in pool' <=> t[1] \notin finalized
    BY <2>1, <2>2 DEF Executed
  <2>4. ASSUME NEW id \in Waiting' PROVE id \in Waiting \ finalized
    BY <2>1, <2>3 DEF Waiting
  <2>5. ASSUME NEW id \in Waiting \ finalized PROVE id \in Waiting'
    BY <2>3 DEF Waiting
  <2> QED
    BY <2>4, <2>5
<1> HIDE DEF created, finalized, withdrawn
<1> QED
  BY <1>1, <1>9, <1>10, <1>11, <1>12, <1>13 DEF Chain!MineBlock, Entries, Waiting

LEMMA ChainStepStep ==
    ASSUME Start <= MaxHeight, BlockInv, [Next]_vars
    PROVE  [OnlySuccess => ChainStep]_(Chain!ethVars)
<1> SUFFICES ASSUME OnlySuccess
             PROVE  ChainStep \/ UNCHANGED Chain!ethVars
  OBVIOUS
<1>0. height \in Nat /\ Timeout \in Nat /\ DOMAIN requests \subseteq Ids
  BY RequestsAreIds, ContractAssumption DEF BlockInv, TypeOK
<1>1. ASSUME NEW id, NEW rType, NEW value, Creates(id, rType, value)
      PROVE  UNCHANGED Chain!ethVars
  <2>1. /\ id.height = height + 1 /\ id \notin DOMAIN requests
        /\ DOMAIN requests' = DOMAIN requests \cup {id}
        /\ \A x \in DOMAIN requests : requests'[x] = requests[x]
        /\ UNCHANGED <<height, pool>>
    BY <1>1, CreatesEffect DEF BlockInv
  <2>2. \A x \in Ids : Published(x)' = Published(x)
    BY <1>0, <2>1 DEF Published
  <2> QED
    BY <2>1, <2>2, UnseenStep
<1>2. ASSUME NEW id, NEW status, SettlesAs(id, status)
      PROVE  UNCHANGED Chain!ethVars
  <2>1. /\ id \in DOMAIN requests /\ requests[id].status = New
        /\ DOMAIN requests' = DOMAIN requests
        /\ requests'[id] = [rType |-> requests[id].rType, status |-> status, changed |-> height + 1]
        /\ \A x \in DOMAIN requests : x # id => requests'[x] = requests[x]
        /\ UNCHANGED <<height, pool>>
    BY <1>2, SettlesEffect DEF BlockInv
  <2>2. requests'[id].changed = height + 1
    BY <2>1
  <2>3. requests[id].changed = id.height
    BY <2>1 DEF BlockInv, EntriesDated, Dated
  <2>4. ASSUME NEW x \in Ids, x # id PROVE Published(x)' = Published(x)
    BY <2>1, <2>4 DEF Published
  <2>5. Published(id)' = Published(id)
    BY <1>0, <2>1, <2>2, <2>3 DEF Published
  <2> QED
    BY <2>1, <2>4, <2>5, UnseenStep
<1>3. ASSUME UNCHANGED <<height, requests, pool>>
      PROVE  UNCHANGED Chain!ethVars
  BY <1>3, UnseenStep DEF Published
<1>4. ASSUME NEW id \in DOMAIN requests, NEW verdict \in Verdicts, Send(id, verdict)
      PROVE  ChainStep
  <2>1. /\ requests[id].status = New /\ height + 1 <= id.height + Timeout
        /\ pool' = pool \cup {<<id, verdict>>} /\ UNCHANGED <<height, requests>>
    BY <1>4 DEF Send, Acceptable, Unsettled, InTime
  <2>2. id.height <= height /\ requests[id].changed = id.height
    <3>1. SignedBy(id, verdict)
      BY <1>4, AcceptableIsSigned DEF Send, BlockInv
    <3>2. id.height <= height
      BY <3>1 DEF SignedBy, BlockInv, SentIsSigned
    <3>3. requests[id].changed = id.height
      BY <2>1 DEF BlockInv, EntriesDated, Dated
    <3> QED
      BY <3>2, <3>3
  <2>3. Entries[id] = [height |-> id.height, status |-> New, changed |-> id.height]
    <3>1. ~(id.height > height)
      BY <1>0, <2>2 DEF BlockInv, TypeOK, Id
    <3>2. id \in Ids
      BY <1>0
    <3>3. Published(id) = [height |-> id.height, status |-> requests[id].status,
                           changed |-> requests[id].changed]
      BY <2>2, <3>1 DEF Published
    <3> QED
      BY <2>1, <2>2, <3>2, <3>3 DEF Entries
  <2>4. Chain!Accepts(Entries[id], height + 1)
    BY <2>1, <2>3 DEF Chain!Accepts, Entries
  <2>5. Waiting' = Waiting \cup {id}
    <3>1. Waiting' = {t[1] : t \in pool'}
      BY DEF Waiting
    <3>2. {t[1] : t \in pool \cup {<<id, verdict>>}} = {t[1] : t \in pool} \cup {id}
      <4>1. <<id, verdict>>[1] = id
        OBVIOUS
      <4> QED
        BY <4>1, Zenon
    <3> QED
      BY <2>1, <3>1, <3>2 DEF Waiting
  <2>6. Entries' = Entries
    BY <2>1 DEF Entries, Published
  <2>7. Chain!Submit(id)
    BY <2>1, <2>4, <2>5, <2>6 DEF Chain!Submit, Entries, Waiting
  <2> QED
    BY <1>0, <2>7 DEF ChainStep
<1>5. ASSUME NEW id \in DOMAIN requests, NEW verdict \in Verdicts, Drop(id, verdict)
      PROVE  ChainStep
  <2>1. /\ <<id, verdict>> \in pool /\ pool' = pool \ {<<id, verdict>>}
        /\ UNCHANGED <<height, requests>>
    BY <1>5 DEF Drop
  <2>2. verdict = Success /\ \A t \in pool : t = <<t[1], Success>>
    BY <2>1, OnlySuccessIsSent
  <2>3. Waiting' = Waiting \ {id} /\ id \in Waiting
    BY <2>1, <2>2 DEF Waiting
  <2>4. Entries' = Entries
    BY <2>1 DEF Entries, Published
  <2>5. Chain!DropTx(id)
    BY <2>1, <2>3, <2>4 DEF Chain!DropTx, Entries, Waiting
  <2> QED
    BY <1>0, <2>5 DEF ChainStep
<1>6. ASSUME Seal PROVE ChainStep
  BY <1>6, SealIsMineBlock DEF ChainStep
<1>7. CASE Around
  BY <1>3, <1>4, <1>5, <1>6, <1>7 DEF Around, RegisterNativeToken, SignVerdict
<1>8. CASE UNCHANGED vars
  BY <1>3, <1>8 DEF vars
<1> QED
  BY <1>1, <1>2, <1>7, <1>8, ContractSteps DEF BlockInv

LEMMA ChainInit ==
    ASSUME Start <= MaxHeight, Init
    PROVE  BlockInv /\ Chain!EthInit
<1>1. BlockInv
  BY ContractTypeInit, ContractAssumption DEF Init, BlockInv, EntriesDated, SentIsSigned
<1>2. \A id \in Ids : Published(id) = [height |-> 0, status |-> None, changed |-> 0]
  BY DEF Init, Published
<1>3. Chain!EthInit
  BY <1>2 DEF Init, Chain!EthInit, Chain!NoEntry
<1> QED
  BY <1>1, <1>3

(***************************************************************************)
(* For any users, oracles, timeout and number of blocks: seen from sealed  *)
(* blocks, the contract and the transactions sent to it take no step but   *)
(* those of EthChain, as long as the oracles sign nothing but Success.     *)
(***************************************************************************)
THEOREM ContractImplementsChain ==
    ASSUME Start <= MaxHeight
    PROVE  Spec => ChainSpec
<1>1. Init => BlockInv /\ Chain!EthInit
  BY ChainInit
<1>2. BlockInv /\ [Next]_vars => BlockInv'
  BY BlockStep
<1>3. BlockInv /\ [Next]_vars => [OnlySuccess => ChainStep]_(Chain!ethVars)
  BY ChainStepStep
<1> QED
  BY <1>1, <1>2, <1>3, PTL DEF Spec, ChainSpec

-----------------------------------------------------------------------------
(* Sums *)

First(s) == CHOOSE x \in s : TRUE

(***************************************************************************)
(* h[s] is the sum of f over s, for every subset s of S, in the order      *)
(* FoldFunction takes.                                                     *)
(***************************************************************************)
IsSum(h, f, S) ==
    h = [s \in SUBSET S |-> IF s = {} THEN 0 ELSE f[First(s)] + h[s \ {First(s)}]]

SumOf(f) == (CHOOSE h : IsSum(h, f, DOMAIN f))[DOMAIN f]

LEMMA FoldIsSum == ASSUME NEW f PROVE FoldFunction(+, 0, f) = SumOf(f)
BY DEF FoldFunction, FoldFunctionOnSet, MapThenFoldSet, SumOf, IsSum, First

LEMMA TotalIsSum == ASSUME NEW f PROVE Funds!Total(f) = SumOf(f)
BY DEF Funds!Total, Funds!FoldFunction, Funds!FoldFunctionOnSet, Funds!MapThenFoldSet, SumOf, IsSum, First

\* Among subsets of a finite set one is minimal.
LEMMA MinimalSubset ==
    ASSUME NEW S, IsFiniteSet(S), NEW bad \in SUBSET SUBSET S, bad # {}
    PROVE  \E s \in bad : \A t \in SUBSET s : t # s => t \notin bad
<1>1. IsWellFoundedOn(StrictSubsetOrdering(S), SUBSET S)
  BY FS_StrictSubsetOrderingWellFounded, FS_FiniteSubsetsOfFinite
<1>2. PICK s \in bad : \A t \in bad : <<t, s>> \notin StrictSubsetOrdering(S)
  BY <1>1, WFMin
<1>3. ASSUME NEW t \in SUBSET s, t # s, t \in bad PROVE FALSE
  <2>1. <<t, s>> \in StrictSubsetOrdering(S)
    BY <1>3 DEF StrictSubsetOrdering
  <2> QED
    BY <1>2, <1>3, <2>1
<1> QED
  BY <1>2, <1>3

LEMMA SumSteps ==
    ASSUME NEW h, NEW f, NEW S, IsSum(h, f, S)
    PROVE  /\ h[{}] = 0
           /\ \A s \in SUBSET S : s # {} =>
                /\ First(s) \in s
                /\ h[s] = f[First(s)] + h[s \ {First(s)}]
<1>1. ASSUME NEW s \in SUBSET S, s # {} PROVE First(s) \in s
  BY <1>1 DEF First
<1> QED
  BY <1>1 DEF IsSum

LEMMA SumsAgree ==
    ASSUME NEW f, NEW g, NEW S, NEW T, IsFiniteSet(S), S \subseteq T,
           \A x \in S : f[x] = g[x],
           NEW h, NEW k, IsSum(h, f, S), IsSum(k, g, T)
    PROVE  \A s \in SUBSET S : h[s] = k[s]
<1> DEFINE bad == {s \in SUBSET S : h[s] # k[s]}
<1> SUFFICES ASSUME bad # {} PROVE FALSE
  OBVIOUS
<1>1. PICK s \in bad : \A t \in SUBSET s : t # s => t \notin bad
  <2>1. bad \in SUBSET SUBSET S
    OBVIOUS
  <2> HIDE DEF bad
  <2> QED
    BY <2>1, MinimalSubset
<1>2. s # {}
  BY SumSteps
<1>3. /\ First(s) \in s
      /\ h[s] = f[First(s)] + h[s \ {First(s)}]
      /\ k[s] = g[First(s)] + k[s \ {First(s)}]
  BY <1>2, SumSteps
<1>4. h[s \ {First(s)}] = k[s \ {First(s)}]
  BY <1>1, <1>3
<1> QED
  BY <1>3, <1>4

LEMMA SumOnSubset ==
    ASSUME NEW f, NEW S, NEW T, IsFiniteSet(S), S \subseteq T,
           NEW h, NEW k, IsSum(h, f, S), IsSum(k, f, T)
    PROVE  h[S] = k[S]
<1>1. \A s \in SUBSET S : h[s] = k[s]
  <2>1. \A x \in S : f[x] = f[x]
    OBVIOUS
  <2> QED
    BY <2>1, SumsAgree
<1> QED
  BY <1>1

LEMMA SumExists ==
    ASSUME NEW f, NEW S, IsFiniteSet(S)
    PROVE  \E h : IsSum(h, f, S)
<1> DEFINE bad == {s \in SUBSET S : ~\E h : IsSum(h, f, s)}
<1> SUFFICES ASSUME bad # {} PROVE FALSE
  OBVIOUS
<1>1. PICK T \in bad : \A t \in SUBSET T : t # T => t \notin bad
  <2>1. bad \in SUBSET SUBSET S
    OBVIOUS
  <2> HIDE DEF bad
  <2> QED
    BY <2>1, MinimalSubset
<1> DEFINE H(s) == CHOOSE h : IsSum(h, f, s)
           k == [s \in SUBSET T |->
                   IF s = {} THEN 0 ELSE f[First(s)] + H(s \ {First(s)})[s \ {First(s)}]]
<1>2. ASSUME NEW s \in SUBSET T, s # T PROVE IsSum(H(s), f, s) /\ IsFiniteSet(s)
  <2>1. \E h : IsSum(h, f, s)
    BY <1>1, <1>2
  <2>2. IsSum(H(s), f, s)
    <3> HIDE DEF IsSum
    <3> QED BY <2>1
  <2> QED
    BY <2>2, FS_Subset
<1>3. ASSUME NEW u \in SUBSET T, u # T PROVE k[u] = H(u)[u]
  <2> HIDE DEF H
  <2>1. CASE u = {}
    BY <1>2, <1>3, <2>1, SumSteps
  <2>2. CASE u # {}
    <3> DEFINE v == u \ {First(u)}
    <3>1. /\ H(u)[u] = f[First(u)] + H(u)[v] /\ First(u) \in u
      <4>1. IsSum(H(u), f, u) /\ u \in SUBSET u
        BY <1>2, <1>3
      <4> HIDE DEF v
      <4>2. First(u) \in u /\ H(u)[u] = f[First(u)] + H(u)[u \ {First(u)}]
        BY <2>2, <4>1, SumSteps
      <4> QED
        BY <4>2 DEF v
    <3>2. v \in SUBSET T /\ v # T /\ v \subseteq u
      BY <1>3, <3>1
    <3>3. IsSum(H(v), f, v) /\ IsFiniteSet(v) /\ IsSum(H(u), f, u)
      BY <1>2, <1>3, <3>2
    <3>4. H(v)[v] = H(u)[v]
      <4> HIDE DEF v, k, bad
      <4> QED
        BY <3>2, <3>3, SumOnSubset
    <3>5. k[u] = f[First(u)] + H(v)[v]
      BY <2>2
    <3> QED
      BY <3>1, <3>4, <3>5
  <2> QED
    BY <2>1, <2>2
<1>4. ASSUME NEW s \in SUBSET T, s # {}
      PROVE  H(s \ {First(s)})[s \ {First(s)}] = k[s \ {First(s)}]
  <2>1. First(s) \in s
    BY <1>4 DEF First
  <2>2. s \ {First(s)} \in SUBSET T /\ s \ {First(s)} # T
    BY <2>1
  <2> HIDE DEF H, k
  <2> QED
    BY <1>3, <2>2
<1>5. IsSum(k, f, T)
  <2>1. k = [s \in SUBSET T |-> IF s = {} THEN 0 ELSE f[First(s)] + k[s \ {First(s)}]]
    <3> HIDE DEF H
    <3>1. \A s \in SUBSET T :
            (IF s = {} THEN 0 ELSE f[First(s)] + H(s \ {First(s)})[s \ {First(s)}])
              = (IF s = {} THEN 0 ELSE f[First(s)] + k[s \ {First(s)}])
      <4> HIDE DEF k
      <4> QED BY <1>4
    <3>2. k = [s \in SUBSET T |->
                   IF s = {} THEN 0 ELSE f[First(s)] + H(s \ {First(s)})[s \ {First(s)}]]
      OBVIOUS
    <3> HIDE DEF k
    <3> QED
      BY <3>1, <3>2, Zenon
  <2> QED
    BY <2>1 DEF IsSum
<1> QED
  BY <1>1, <1>5

LEMMA SumOrder ==
    ASSUME NEW h, NEW f, NEW S, IsFiniteSet(S), IsSum(h, f, S), \A x \in S : f[x] \in Int
    PROVE  \A s \in SUBSET S : h[s] \in Int /\ \A x \in s : h[s] = f[x] + h[s \ {x}]
<1> DEFINE Fine(s) == h[s] \in Int /\ \A x \in s : h[s] = f[x] + h[s \ {x}]
           bad == {s \in SUBSET S : ~Fine(s)}
<1> SUFFICES ASSUME bad # {} PROVE FALSE
  OBVIOUS
<1>1. PICK s \in bad : \A t \in SUBSET s : t # s => t \notin bad
  <2>1. bad \in SUBSET SUBSET S
    OBVIOUS
  <2> HIDE DEF bad
  <2> QED
    BY <2>1, MinimalSubset
<1>2. \A t \in SUBSET s : t # s => Fine(t)
  <2> HIDE DEF Fine
  <2> QED BY <1>1
<1>3. CASE s = {}
  BY <1>1, <1>3, SumSteps
<1>4. CASE s # {}
  <2> DEFINE p == First(s)
             u == s \ {p}
  <2>1. p \in s /\ h[s] = f[p] + h[u] /\ s \in SUBSET S
    BY <1>4, SumSteps
  <2> HIDE DEF p
  <2>2. Fine(u)
    <3> HIDE DEF Fine
    <3> QED BY <1>2, <2>1
  <2>3. f[p] \in Int /\ h[u] \in Int /\ h[s] \in Int
    BY <2>1, <2>2
  <2>4. ASSUME NEW x \in s PROVE h[s] = f[x] + h[s \ {x}]
    <3>1. CASE x = p
      BY <2>1, <3>1
    <3>2. CASE x # p
      <4> DEFINE v == s \ {x}
                 w == u \ {x}
      <4>1. Fine(v)
        <5> HIDE DEF Fine
        <5> QED BY <1>2
      <4>2. h[v] = f[p] + h[v \ {p}]
        BY <2>1, <3>2, <4>1
      <4>3. v \ {p} = w
        OBVIOUS
      <4>4. h[u] = f[x] + h[w]
        BY <2>2, <3>2
      <4>5. Fine(w)
        <5>1. w \in SUBSET s /\ w # s
          BY <2>1
        <5> HIDE DEF Fine, w
        <5> QED BY <1>2, <5>1
      <4>6. h[w] \in Int /\ f[x] \in Int /\ f[p] \in Int
        BY <2>1, <4>5
      <4>7. h[s] = f[p] + h[u] /\ h[u] = f[x] + h[w] /\ h[v] = f[p] + h[w]
        BY <2>1, <4>2, <4>3, <4>4
      <4> HIDE DEF v, w, u
      <4>8. h[s] = f[x] + h[v]
        BY <4>6, <4>7
      <4> QED
        BY <4>8 DEF v
    <3> QED
      BY <3>1, <3>2
  <2> QED
    BY <2>3, <2>4
<1> QED
  BY <1>3, <1>4

(***************************************************************************)
(* A sum with one more entry is larger by that entry.                      *)
(***************************************************************************)
LEMMA SumExtends ==
    ASSUME NEW f, NEW g, NEW x, IsFiniteSet(DOMAIN f), x \notin DOMAIN f,
           DOMAIN g = DOMAIN f \cup {x}, \A y \in DOMAIN f : g[y] = f[y],
           \A y \in DOMAIN g : g[y] \in Int
    PROVE  SumOf(f) \in Int /\ SumOf(g) = SumOf(f) + g[x]
<1> DEFINE h == CHOOSE h : IsSum(h, f, DOMAIN f)
           k == CHOOSE k : IsSum(k, g, DOMAIN g)
<1>1. IsSum(h, f, DOMAIN f)
  <2>1. \E c : IsSum(c, f, DOMAIN f)
    BY SumExists
  <2> QED
    BY <2>1
<1>2. IsFiniteSet(DOMAIN g)
  BY FS_AddElement
<1>3. IsSum(k, g, DOMAIN g)
  <2>1. \E c : IsSum(c, g, DOMAIN g)
    BY <1>2, SumExists
  <2> QED
    BY <2>1
<1>4. SumOf(f) = h[DOMAIN f] /\ SumOf(g) = k[DOMAIN g]
  BY DEF SumOf
<1> HIDE DEF h, k
<1>5. h[DOMAIN f] = k[DOMAIN f]
  BY <1>1, <1>3, SumsAgree
<1>6. \A s \in SUBSET DOMAIN g : k[s] \in Int /\ \A y \in s : k[s] = g[y] + k[s \ {y}]
  BY <1>2, <1>3, SumOrder
<1>7. DOMAIN g \ {x} = DOMAIN f /\ x \in DOMAIN g
  OBVIOUS
<1>8. k[DOMAIN f] \in Int /\ k[DOMAIN g] = g[x] + k[DOMAIN f] /\ g[x] \in Int
  BY <1>6, <1>7
<1> QED
  BY <1>4, <1>5, <1>8

LEMMA SumOfNothing == ASSUME NEW f, DOMAIN f = {} PROVE SumOf(f) = 0
<1> DEFINE h == CHOOSE h : IsSum(h, f, DOMAIN f)
<1>1. \E c : IsSum(c, f, DOMAIN f)
  BY SumExists, FS_EmptySet
<1>2. IsSum(h, f, DOMAIN f)
  BY <1>1
<1>3. SumOf(f) = h[DOMAIN f]
  BY DEF SumOf
<1> QED
  BY <1>2, <1>3, SumSteps

-----------------------------------------------------------------------------
(* The contract is an escrow *)

\* Of enough signatures some are exactly as many as a quorum needs.
LEMMA SubsetOfSize ==
    ASSUME NEW S, IsFiniteSet(S), NEW n \in Nat, Cardinality(S) >= n
    PROVE  \E Q \in SUBSET S : Cardinality(Q) = n
<1> DEFINE large == {s \in SUBSET S : Cardinality(s) >= n}
<1>1. PICK Q \in large : \A t \in SUBSET Q : t # Q => t \notin large
  <2>1. large \in SUBSET SUBSET S /\ large # {}
    OBVIOUS
  <2> HIDE DEF large
  <2> QED
    BY <2>1, MinimalSubset
<1>2. IsFiniteSet(Q) /\ Cardinality(Q) \in Nat /\ Cardinality(Q) >= n
  BY <1>1, FS_Subset, FS_CardinalityType
<1>3. ASSUME Cardinality(Q) # n PROVE FALSE
  <2>1. Q # {}
    BY <1>2, <1>3, FS_EmptySet
  <2>2. PICK x \in Q : TRUE
    BY <2>1
  <2>3. Cardinality(Q \ {x}) = Cardinality(Q) - 1
    BY <1>2, FS_RemoveElement
  <2>4. Q \ {x} \in large
    BY <1>1, <1>2, <1>3, <2>3
  <2> QED
    BY <1>1, <2>4
<1> QED
  BY <1>1, <1>3

LEMMA AcceptableIsDecided ==
    ASSUME NEW id, NEW verdict, Acceptable(id, verdict)
    PROVE  id \in Decided(verdict)
<1> DEFINE voters == {s \in Slots : <<Admin[s], id, verdict>> \in signed}
<1>1. IsFiniteSet(voters) /\ Cardinality(voters) >= BftCoefficent /\ BftCoefficent \in Nat
  <2>1. voters \in SUBSET Slots /\ IsFiniteSet(Slots)
    BY ContractAssumption
  <2>2. IsFiniteSet(voters)
    BY <2>1, FS_Subset
  <2> QED
    BY <2>2, ContractAssumption DEF Acceptable, Votes
<1>2. PICK quorum \in SUBSET voters : Cardinality(quorum) = BftCoefficent
  <2> HIDE DEF voters
  <2> QED
    BY <1>1, SubsetOfSize
<1>3. quorum \in SUBSET Slots /\ \A s \in quorum : <<Admin[s], id, verdict>> \in signed
  BY <1>2
<1> QED
  BY <1>2, <1>3 DEF Decided, Acceptable, Unsettled

\* The amounts of the requests of a set, open deposits or open claims.
AmountsOf(ids) == [id \in ids |-> id.amount]

LEMMA AmountsOpen ==
    ASSUME NEW ids, NEW id \in Ids, id \notin ids, id.amount \in Nat
    PROVE  Funds!Opens(AmountsOf(ids), AmountsOf(ids \cup {id}), id)
BY DEF Funds!Opens, AmountsOf

LEMMA AmountsSettle ==
    ASSUME NEW ids, NEW id \in ids
    PROVE  Funds!Settles(AmountsOf(ids), AmountsOf(ids \ {id}), id)
BY DEF Funds!Settles, AmountsOf

LEMMA TotalOfOneMore ==
    ASSUME NEW ids, IsFiniteSet(ids), NEW id, id \notin ids,
           \A x \in ids \cup {id} : x.amount \in Int
    PROVE  /\ SumOf(AmountsOf(ids)) \in Int
           /\ SumOf(AmountsOf(ids \cup {id})) = SumOf(AmountsOf(ids)) + id.amount
<1> DEFINE f == AmountsOf(ids)
           g == AmountsOf(ids \cup {id})
<1>1. /\ DOMAIN f = ids /\ DOMAIN g = ids \cup {id}
      /\ \A y \in ids : g[y] = f[y]
      /\ \A y \in ids \cup {id} : g[y] \in Int
      /\ g[id] = id.amount
  BY DEF AmountsOf
<1> HIDE DEF f, g
<1>2. SumOf(f) \in Int /\ SumOf(g) = SumOf(f) + g[id]
  BY <1>1, SumExtends
<1> QED
  BY <1>1, <1>2 DEF f, g

LEMMA CreatesPending ==
    ASSUME TypeOK, NEW id, NEW rType, NEW value, Creates(id, rType, value)
    PROVE  /\ \A r \in {"Lock", "Unlock"} : id \notin Pending(r)
           /\ Pending(rType)' = Pending(rType) \cup {id}
           /\ \A r \in {"Lock", "Unlock"} : r # rType => Pending(r)' = Pending(r)
<1>1. /\ id \notin DOMAIN requests /\ DOMAIN requests' = DOMAIN requests \cup {id}
      /\ requests'[id] = [rType |-> rType, status |-> New, changed |-> height + 1]
      /\ \A x \in DOMAIN requests : x # id /\ requests'[x] = requests[x]
  BY CreatesEffect
<1>2. requests'[id].rType = rType /\ requests'[id].status = New
  BY <1>1
<1> QED
  BY <1>1, <1>2 DEF Pending, Unsettled

LEMMA SettlesPending ==
    ASSUME TypeOK, NEW id, NEW status, SettlesAs(id, status)
    PROVE  /\ id \in Pending(requests[id].rType)
           /\ \A r \in {"Lock", "Unlock"} : Pending(r)' = Pending(r) \ {id}
           /\ \A r \in {"Lock", "Unlock"} : r # requests[id].rType => Pending(r)' = Pending(r)
<1>1. /\ id \in DOMAIN requests /\ DOMAIN requests' = DOMAIN requests
      /\ requests[id].status = New /\ requests[id] \in Entry
      /\ requests'[id] = [rType |-> requests[id].rType, status |-> status, changed |-> height + 1]
      /\ \A x \in DOMAIN requests : x # id => requests'[x] = requests[x]
  BY SettlesEffect
<1>2. status # New
  BY DEF SettlesAs
<1>3. requests'[id].status = status
  BY <1>1
<1> QED
  BY <1>1, <1>2, <1>3 DEF Pending, Unsettled

\* What Escrow calls the pot, and its total.
Pot == balance - SumOf(AmountsOf(Pending("Lock")))

LEMMA EscrowState ==
    /\ Deposits = AmountsOf(Pending("Lock")) /\ Deposits' = AmountsOf(Pending("Lock")')
    /\ balance - FoldFunction(+, 0, Deposits) = Pot
    /\ (balance - FoldFunction(+, 0, Deposits))' = Pot'
    /\ Funds!Total(Deposits) = SumOf(AmountsOf(Pending("Lock")))
    /\ [id \in Pending("Unlock") |-> id.amount] = AmountsOf(Pending("Unlock"))
    /\ [id \in Pending("Unlock") |-> id.amount]' = AmountsOf(Pending("Unlock")')
<1>1. /\ Deposits = AmountsOf(Pending("Lock")) /\ Deposits' = AmountsOf(Pending("Lock")')
  BY DEF Deposits, AmountsOf
<1>2. FoldFunction(+, 0, Deposits) = SumOf(Deposits)
  BY FoldIsSum
<1>3. FoldFunction(+, 0, Deposits)' = SumOf(Deposits)'
  BY DEF FoldFunction, FoldFunctionOnSet, MapThenFoldSet, SumOf, IsSum, First
<1>4. SumOf(Deposits)' = SumOf(AmountsOf(Pending("Lock")))'
  BY <1>1 DEF SumOf, AmountsOf
<1>5. Funds!Total(Deposits) = SumOf(Deposits)
  BY TotalIsSum
<1>6. /\ [id \in Pending("Unlock") |-> id.amount] = AmountsOf(Pending("Unlock"))
      /\ [id \in Pending("Unlock") |-> id.amount]' = AmountsOf(Pending("Unlock")')
  BY DEF AmountsOf
<1> QED
  BY <1>1, <1>2, <1>3, <1>4, <1>5, <1>6 DEF Pot

EscrowInv == BlockInv /\ IsFiniteSet(DOMAIN requests)

(***************************************************************************)
(* Only finitely many requests have been created.                          *)
(***************************************************************************)
LEMMA EscrowStepInv ==
    ASSUME Start <= MaxHeight, EscrowInv, [Next]_vars
    PROVE  EscrowInv'
<1> USE DEF EscrowInv, BlockInv
<1>1. BlockInv'
  BY BlockStep
<1>2. ASSUME NEW id, NEW rType, NEW value, Creates(id, rType, value)
      PROVE  IsFiniteSet(DOMAIN requests')
  <2>1. DOMAIN requests' = DOMAIN requests \cup {id}
    BY <1>2, CreatesEffect
  <2> QED
    BY <2>1, FS_AddElement
<1>3. ASSUME NEW id, NEW status, SettlesAs(id, status)
      PROVE  IsFiniteSet(DOMAIN requests')
  <2>1. DOMAIN requests' = DOMAIN requests
    BY <1>3, SettlesEffect
  <2> QED
    BY <2>1
<1> QED
  BY <1>1, <1>2, <1>3, ContractSteps DEF Around, vars

LEMMA PendingAmounts ==
    ASSUME EscrowInv, NEW rType
    PROVE  IsFiniteSet(Pending(rType)) /\ \A id \in Pending(rType) : id.amount \in Nat
<1>1. Pending(rType) \in SUBSET DOMAIN requests
  BY DEF Pending
<1>2. \A id \in DOMAIN requests : id.amount \in Nat
  BY ContractAssumption DEF EscrowInv, BlockInv, TypeOK, Id
<1> QED
  BY <1>1, <1>2, FS_Subset DEF EscrowInv

LEMMA TotalIsInt ==
    ASSUME NEW ids, IsFiniteSet(ids), \A x \in ids : x.amount \in Int
    PROVE  SumOf(AmountsOf(ids)) \in Int
<1> DEFINE f == AmountsOf(ids)
<1>1. DOMAIN f = ids /\ \A y \in ids : f[y] \in Int
  BY DEF AmountsOf
<1> HIDE DEF f
<1>2. PICK h : IsSum(h, f, DOMAIN f)
  BY <1>1, SumExists
<1>3. \E c : IsSum(c, f, DOMAIN f)
  BY <1>2
<1> DEFINE k == CHOOSE c : IsSum(c, f, DOMAIN f)
<1>4. IsSum(k, f, DOMAIN f) /\ SumOf(f) = k[DOMAIN f]
  BY <1>3 DEF SumOf
<1> HIDE DEF k
<1>5. \A s \in SUBSET ids : k[s] \in Int
  BY <1>1, <1>4, SumOrder
<1> QED
  BY <1>1, <1>4, <1>5 DEF f

(***************************************************************************)
(* The steps of Escrow in terms of the pending requests.                   *)
(***************************************************************************)
LEMMA CreatesOpens ==
    ASSUME EscrowInv, NEW id, NEW rType, NEW value, Creates(id, rType, value)
    PROVE  \E x \in Ids : Funds!Deposit(x) \/ Funds!Claim(x)
<1> USE DEF EscrowInv, BlockInv
<1> DEFINE locks   == Pending("Lock")
           unlocks == Pending("Unlock")
<1>0. /\ id \in Ids /\ id.amount \in Nat /\ value \in Nat /\ balance \in Nat
      /\ balance' = balance + value /\ (rType = "Lock" => value = id.amount)
      /\ rType \in {"Lock", "Unlock"}
  <2>1. /\ id \in Id /\ id.height = height + 1 /\ height \in Start .. MaxHeight
        /\ value \in Nat /\ balance \in Nat
        /\ balance' = balance + value /\ (rType = "Lock" => value = id.amount)
        /\ rType \in {"Lock", "Unlock"}
    BY DEF Creates, TypeOK
  <2>2. id.height \in Start + 1 .. MaxHeight + 1
    BY <2>1, ContractAssumption
  <2>3. id \in Ids
    BY <2>1, <2>2 DEF Id, Ids
  <2>4. id.amount \in Nat
    BY <2>1, ContractAssumption DEF Id
  <2> QED
    BY <2>1, <2>3, <2>4
<1>1. /\ id \notin locks /\ id \notin unlocks
      /\ Pending(rType)' = Pending(rType) \cup {id}
      /\ rType = "Lock" => unlocks' = unlocks
      /\ rType = "Unlock" => locks' = locks
  BY CreatesPending
<1>2. /\ SumOf(AmountsOf(locks)) \in Int
      /\ SumOf(AmountsOf(locks \cup {id})) = SumOf(AmountsOf(locks)) + id.amount
  <2>1. IsFiniteSet(locks) /\ \A x \in locks : x.amount \in Nat
    BY PendingAmounts
  <2>2. \A x \in locks \cup {id} : x.amount \in Int
    BY <1>0, <2>1
  <2> HIDE DEF locks
  <2> QED
    BY <1>1, <2>1, <2>2, TotalOfOneMore
<1>3. CASE rType = "Lock"
  <2>1. Funds!Opens(Deposits, Deposits', id)
    <3>1. Deposits = AmountsOf(locks) /\ Deposits' = AmountsOf(locks \cup {id})
      BY <1>1, <1>3, EscrowState
    <3> QED
      BY <1>0, <1>1, <3>1, AmountsOpen
  <2>2. [x \in unlocks |-> x.amount]' = [x \in unlocks |-> x.amount]
    BY <1>1, <1>3
  <2>3. Pot' = Pot
    <3>1. Pot = balance - SumOf(AmountsOf(locks)) /\ Pot' = balance' - SumOf(AmountsOf(locks'))
      BY DEF Pot
    <3>2. locks' = locks \cup {id}
      BY <1>1, <1>3
    <3> HIDE DEF locks
    <3> QED
      BY <1>0, <1>3, <1>2, <3>1, <3>2
  <2> QED
    BY <1>0, <2>1, <2>2, <2>3, EscrowState DEF Funds!Deposit
<1>4. CASE rType = "Unlock"
  <2>1. Funds!Opens([x \in unlocks |-> x.amount], [x \in unlocks |-> x.amount]', id)
    <3>1. Funds!Opens(AmountsOf(unlocks), AmountsOf(unlocks \cup {id}), id)
      BY <1>0, <1>1, AmountsOpen
    <3> QED
      BY <1>1, <1>4, <3>1, EscrowState
  <2>2. Deposits' = Deposits
    BY <1>1, <1>4, EscrowState
  <2>3. Pot' >= Pot
    <3>1. Pot = balance - SumOf(AmountsOf(locks)) /\ Pot' = balance' - SumOf(AmountsOf(locks'))
      BY DEF Pot
    <3>2. locks' = locks
      BY <1>1, <1>4
    <3> HIDE DEF locks
    <3> QED
      BY <1>0, <1>2, <3>1, <3>2
  <2> QED
    BY <1>0, <2>1, <2>2, <2>3, EscrowState DEF Funds!Claim
<1> QED
  BY <1>0, <1>3, <1>4

LEMMA SettlesCloses ==
    ASSUME Start <= MaxHeight, EscrowInv, NEW id, NEW status, SettlesAs(id, status)
    PROVE  \E x \in Ids : Funds!HandBack(x) \/ Funds!Release(x) \/ Funds!Pay(x) \/ Funds!Close(x)
<1> USE DEF EscrowInv, BlockInv
<1> DEFINE locks   == Pending("Lock")
           unlocks == Pending("Unlock")
           due     == [x \in unlocks |-> x.amount]
<1>0. /\ id \in Ids
      /\ id \in DOMAIN requests /\ id.amount \in Nat /\ id.height \in Nat
      /\ height \in Nat /\ balance \in Nat /\ Timeout \in Nat
      /\ requests[id].rType \in {"Lock", "Unlock"}
  <2>1. id \in DOMAIN requests /\ id \in Id /\ requests[id] \in Entry
    BY SettlesEffect
  <2> QED
    BY <2>1, RequestsAreIds, ContractAssumption DEF Id, Entry, TypeOK
<1>1. /\ requests[id].rType = "Lock" =>
           id \in locks /\ locks' = locks \ {id} /\ unlocks' = unlocks
      /\ requests[id].rType = "Unlock" =>
           id \in unlocks /\ unlocks' = unlocks \ {id} /\ locks' = locks
  BY <1>0, SettlesPending
\* What the verdict is seen as: a Success was approved in time.
<1>2. status = Success => Funds!Passed(id)
  <2>1. ASSUME status = Success PROVE Acceptable(id, Success)
    BY <2>1 DEF SettlesAs
  <2>2. ASSUME status = Success PROVE id \in Decided(Success) /\ ~(height - id.height >= Timeout)
    BY <1>0, <2>1, <2>2, AcceptableIsDecided DEF Acceptable, InTime
  <2> QED
    BY <2>2 DEF Funds!Passed, Funds!InTime
<1>3. status # Success => Funds!Failed(id)
  <2>1. ASSUME status = Rejected PROVE id \in Decided(Rejected)
    BY <2>1, AcceptableIsDecided DEF SettlesAs
  <2>2. ASSUME status = Returned PROVE height - id.height >= Timeout
    BY <1>0, <2>2 DEF SettlesAs, InTime
  <2>3. status \in {Rejected, Success, Returned}
    BY DEF SettlesAs
  <2> QED
    BY <1>0, <2>1, <2>2, <2>3 DEF Funds!Failed, Funds!InTime
<1>4. /\ SumOf(AmountsOf(locks)) \in Int
      /\ Pot = balance - SumOf(AmountsOf(locks)) /\ Pot' = balance' - SumOf(AmountsOf(locks'))
      /\ Pot \in Int
  <2>1. IsFiniteSet(locks) /\ \A x \in locks : x.amount \in Nat
    BY PendingAmounts
  <2>2. \A x \in locks : x.amount \in Int
    BY <2>1
  <2>3. Pot = balance - SumOf(AmountsOf(locks)) /\ Pot' = balance' - SumOf(AmountsOf(locks'))
    BY DEF Pot
  <2> HIDE DEF locks
  <2>4. SumOf(AmountsOf(locks)) \in Int
    BY <2>1, <2>2, TotalIsInt
  <2> QED
    BY <1>0, <2>3, <2>4
<1>5. IF (requests[id].rType = "Unlock") = (status = Success)
      THEN balance >= id.amount /\ balance' = balance - id.amount
      ELSE balance' = balance
  BY DEF SettlesAs, PaysOut
<1>6. CASE requests[id].rType = "Lock"
  <2>1. id \in locks /\ locks' = locks \ {id} /\ unlocks' = unlocks
    BY <1>1, <1>6
  <2>2. Funds!Settles(Deposits, Deposits', id) /\ Deposits[id] = id.amount
    <3>1. Deposits = AmountsOf(locks) /\ Deposits' = AmountsOf(locks \ {id})
      BY <2>1, EscrowState
    <3> QED
      BY <2>1, <3>1, AmountsSettle DEF AmountsOf
  <2>3. SumOf(AmountsOf(locks')) = SumOf(AmountsOf(locks)) - id.amount
    <3> DEFINE rest == locks \ {id}
    <3>1. IsFiniteSet(locks) /\ \A x \in locks : x.amount \in Nat
      BY PendingAmounts
    <3>2. IsFiniteSet(rest) /\ id \notin rest /\ rest \cup {id} = locks
      BY <2>1, <3>1, FS_RemoveElement
    <3>3. \A x \in rest \cup {id} : x.amount \in Int
      BY <3>1, <3>2
    <3>4. locks' = rest
      BY <2>1
    <3> HIDE DEF rest, locks
    <3>5. /\ SumOf(AmountsOf(rest)) \in Int
          /\ SumOf(AmountsOf(rest \cup {id})) = SumOf(AmountsOf(rest)) + id.amount
      BY <3>2, <3>3, TotalOfOneMore
    <3>6. SumOf(AmountsOf(locks)) = SumOf(AmountsOf(rest)) + id.amount
      BY <3>2, <3>5
    <3>7. SumOf(AmountsOf(locks')) = SumOf(AmountsOf(rest))
      BY <3>4
    <3> QED
      BY <1>0, <3>5, <3>6, <3>7
  <2>4. due' = due
    BY <2>1
  <2>5. ASSUME status = Success PROVE Funds!Release(id)
    <3>1. Pot' = Pot + Deposits[id]
      BY <1>0, <1>4, <1>5, <1>6, <2>2, <2>3, <2>5
    <3> QED
      BY <1>2, <2>2, <2>4, <2>5, <3>1, EscrowState DEF Funds!Release
  <2>6. ASSUME status # Success PROVE Funds!HandBack(id)
    <3>1. Pot' = Pot /\ Pot + SumOf(AmountsOf(locks)) >= Deposits[id]
      BY <1>0, <1>4, <1>5, <1>6, <2>2, <2>3, <2>6
    <3> QED
      BY <1>3, <2>2, <2>4, <2>6, <3>1, EscrowState DEF Funds!HandBack
  <2> QED
    BY <1>0, <2>5, <2>6
<1>7. CASE requests[id].rType = "Unlock"
  <2>1. id \in unlocks /\ unlocks' = unlocks \ {id} /\ locks' = locks
    BY <1>1, <1>7
  <2>2. Funds!Settles(due, due', id) /\ due[id] = id.amount
    <3>1. due = AmountsOf(unlocks) /\ due' = AmountsOf(unlocks \ {id})
      BY <2>1, EscrowState
    <3>2. due[id] = id.amount
      BY <2>1
    <3> HIDE DEF due
    <3> QED
      BY <2>1, <3>1, <3>2, AmountsSettle
  <2>3. Deposits' = Deposits
    BY <2>1, EscrowState
  <2>4. SumOf(AmountsOf(locks')) = SumOf(AmountsOf(locks))
    BY <2>1
  <2>5. ASSUME status = Success PROVE Funds!Pay(id)
    <3>1. Pot' = Pot - due[id] /\ Pot + SumOf(AmountsOf(locks)) >= due[id]
      <4> HIDE DEF due
      <4> QED
        BY <1>0, <1>4, <1>5, <1>7, <2>2, <2>4, <2>5
    <3> QED
      BY <1>2, <2>2, <2>3, <2>5, <3>1, EscrowState DEF Funds!Pay
  <2>6. ASSUME status # Success PROVE Funds!Close(id)
    <3>1. Pot' = Pot
      BY <1>0, <1>4, <1>5, <1>7, <2>4, <2>6
    <3> QED
      BY <1>3, <2>2, <2>3, <2>6, <3>1, EscrowState DEF Funds!Close
  <2> QED
    BY <1>0, <2>5, <2>6
<1> QED
  BY <1>0, <1>6, <1>7

LEMMA EscrowStep ==
    ASSUME Start <= MaxHeight, EscrowInv, [Next]_vars
    PROVE  [Funds!Next]_(Funds!escrowVars)
<1>1. ASSUME UNCHANGED <<requests, balance>> PROVE UNCHANGED Funds!escrowVars
  <2>1. Pending("Lock")' = Pending("Lock") /\ Pending("Unlock")' = Pending("Unlock")
    BY <1>1 DEF Pending, Unsettled
  <2>2. Pot' = balance' - SumOf(AmountsOf(Pending("Lock")')) /\ Pot = balance - SumOf(AmountsOf(Pending("Lock")))
    BY DEF Pot
  <2>3. Pot' = Pot
    BY <1>1, <2>1, <2>2
  <2> QED
    BY <2>1, <2>3, EscrowState DEF Funds!escrowVars
<1>2. ASSUME NEW id, NEW rType, NEW value, Creates(id, rType, value) PROVE Funds!Next
  BY <1>2, CreatesOpens DEF Funds!Next
<1>3. ASSUME NEW id, NEW status, SettlesAs(id, status) PROVE Funds!Next
  BY <1>3, SettlesCloses DEF Funds!Next
<1> QED
  BY <1>1, <1>2, <1>3, ContractSteps DEF Around, vars, EscrowInv, BlockInv

LEMMA EscrowInit ==
    ASSUME Start <= MaxHeight, Init
    PROVE  EscrowInv /\ Funds!Init
<1>1. EscrowInv
  <2>1. DOMAIN requests = {}
    BY DEF Init
  <2> QED
    BY <2>1, ChainInit, FS_EmptySet DEF EscrowInv
<1>2. Pending("Lock") = {} /\ Pending("Unlock") = {} /\ balance = 0
  BY DEF Init, Pending
<1>3. /\ Deposits = <<>> /\ [id \in Pending("Unlock") |-> id.amount] = <<>>
  BY <1>2 DEF Deposits
<1>4. balance - FoldFunction(+, 0, Deposits) = 0
  <2>1. DOMAIN AmountsOf(Pending("Lock")) = {}
    BY <1>2 DEF AmountsOf
  <2>2. SumOf(AmountsOf(Pending("Lock"))) = 0
    BY <2>1, SumOfNothing
  <2>3. Pot = 0
    BY <1>2, <2>2 DEF Pot
  <2> QED
    BY <2>3, EscrowState
<1> QED
  BY <1>1, <1>3, <1>4 DEF Funds!Init

(***************************************************************************)
(* For any users, oracles, amounts, quorum and timeout, and whatever the   *)
(* oracles sign: the contract is an escrow.  A deposit is handed back or   *)
(* released once, a claim is paid or closed once, and which of the two is  *)
(* what a quorum has signed in time.                                       *)
(***************************************************************************)
THEOREM ContractImplementsEscrow ==
    ASSUME Start <= MaxHeight
    PROVE  Spec => EscrowSpec
<1>1. Init => EscrowInv /\ Funds!Init
  BY EscrowInit
<1>2. EscrowInv /\ [Next]_vars => EscrowInv'
  BY EscrowStepInv
<1>3. EscrowInv /\ [Next]_vars => [Funds!Next]_(Funds!escrowVars)
  BY EscrowStep
<1> QED
  BY <1>1, <1>2, <1>3, PTL DEF Spec, EscrowSpec, Funds!Spec
=============================================================================
