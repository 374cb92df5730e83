--------------------------- MODULE EthNodeProofs ----------------------------
(***************************************************************************)
(* Proofs of the safety properties of EthNode.                             *)
(***************************************************************************)
EXTENDS EthNode, EthCacherProofs, FiniteSetTheorems

USE DEF None, New, Rejected, Success, Returned, Status

-----------------------------------------------------------------------------
(* Type correctness *)

(***************************************************************************)
(* Inserting rows for some validators keeps the type of the table.         *)
(***************************************************************************)
LEMMA InsertType ==
    ASSUME SignaturesTypeOK, NEW r \in RequestIds, NEW S \in SUBSET Validators,
           signs' = signs \cup {NewSign(r, v) : v \in S}
    PROVE  SignaturesTypeOK'
<1>1. IsFiniteSet(S)
  BY FS_Subset, SignerAssumption
<1>2. IsFiniteSet({NewSign(r, v) : v \in S})
  <2> DEFINE T == {NewSign(r, v) : v \in S}
             f == [v \in S |-> NewSign(r, v)]
  <2>1. f \in Surjection(S, T)
    BY DEF Surjection
  <2> QED
    BY <1>1, <2>1, FS_Surjection
<1>3. ASSUME NEW v \in S PROVE NewSign(r, v) \in Sign
  <2>1. IsFiniteSet(SignsOf(r, v))
    <3>1. SignsOf(r, v) \in SUBSET signs
      BY DEF SignsOf
    <3> QED
      BY <3>1, FS_Subset DEF SignaturesTypeOK
  <2> QED
    BY <2>1, FS_CardinalityType DEF NewSign, Sign
<1> QED
  BY <1>2, <1>3, FS_Union DEF SignaturesTypeOK

(***************************************************************************)
(* Every step of the signer keeps the types, and requests only what the    *)
(* database holds.                                                         *)
(***************************************************************************)
LEMMA SignerType ==
    ASSUME TypeOK, SignerStep, UNCHANGED cacherVars
    PROVE  TypeOK'
<1> USE CacherAssumption, SignerAssumption
<1> USE DEF TypeOK, RequestsTypeOK, SignerTypeOK, ethVars, cacherVars
<1>c. CacherTypeOK'
  BY DEF CacherTypeOK
<1>1. ASSUME BeginSign \/ BeginGather \/ BeginFinalize PROVE TypeOK'
  BY <1>1, <1>c
  DEF BeginSign, BeginGather, BeginFinalize, BeginPhase, NewRows, Stored, NoRow, EthTypeOK,
      SignaturesTypeOK
<1>2. CASE AbandonPhase
  BY <1>2, <1>c DEF AbandonPhase, EthTypeOK, SignaturesTypeOK, Stored
<1>3. ASSUME NEW r \in sTodo, SignRequest(r) PROVE TypeOK'
  <2> DEFINE S == {Self}
  <2>1. S \in SUBSET Validators /\ signs' = signs \cup {NewSign(r, v) : v \in S}
    BY <1>3 DEF SignRequest
  <2> HIDE DEF S
  <2>2. SignaturesTypeOK'
    BY <2>1, InsertType
  <2> QED
    BY <1>3, <1>c, <2>2 DEF SignRequest, Visited, EthTypeOK, Stored
<1>4. ASSUME NEW r \in sTodo, SkipSign(r) PROVE TypeOK'
  BY <1>4, <1>c DEF SkipSign, Visited, EthTypeOK, SignaturesTypeOK, Stored
<1>5. ASSUME NEW r \in sTodo, GatherSigns(r) PROVE TypeOK'
  <2>1. PICK answered \in SUBSET Peers : GatherFrom(r, answered)
    BY <1>5 DEF GatherSigns
  <2>2. PICK S \in SUBSET Validators : signs' = signs \cup {NewSign(r, v) : v \in S}
    BY <2>1 DEF GatherFrom
  <2>3. SignaturesTypeOK'
    BY <2>2, InsertType
  <2> QED
    BY <1>c, <2>1, <2>3 DEF GatherFrom, Visited, EthTypeOK, Stored
<1>6. ASSUME NEW r \in sTodo \cap EthRequests, CheckRequest(r) PROVE TypeOK'
  BY <1>6, <1>c DEF CheckRequest, Visited, EthTypeOK, SignaturesTypeOK, Stored
<1>7. CASE SendChangeStatus
  <2>1. EthTypeOK'
    BY <1>7, ChainType DEF SendChangeStatus
  <2> QED
    BY <1>7, <1>c, <2>1 DEF SendChangeStatus, SignaturesTypeOK, Stored
<1>8. CASE SendFails
  BY <1>8, <1>c DEF SendFails, EthTypeOK, SignaturesTypeOK, Stored
<1>9. CASE MarkRow
  <2>1. requests' \in [RequestIds -> Row] /\ \A r \in RequestIds : Stored(r) => Stored(r)'
    BY <1>9 DEF MarkRow, SaveStatus, WithStatus, Row, Stored, NoRow
  <2> QED
    BY <1>9, <1>c, <2>1 DEF MarkRow, EthTypeOK, SignaturesTypeOK
<1> QED
  BY <1>1, <1>2, <1>3, <1>4, <1>5, <1>6, <1>7, <1>8, <1>9 DEF SignerStep

(***************************************************************************)
(* A row with height zero could be taken for no row at all.  None exists:  *)
(* the cacher stores no entry that was read as missing, because it counts  *)
(* as expired.                                                             *)
(***************************************************************************)
HeightsInv ==
    /\ EthStart <= cHeight /\ EthStart <= ethHeight
    /\ cPc = "store" => cRead.height > 0
    /\ \A r \in RequestIds : Stored(r) => requests[r].createdAt > 0

LEMMA CacherKeepsRows ==
    ASSUME EthTypeOK, RequestsTypeOK, CacherTypeOK, HeightsInv, HandleEthLogs
    PROVE  HeightsInv' /\ \A r \in RequestIds : Stored(r) => Stored(r)'
<1> USE CacherAssumption, EthAssumption DEF EthTypeOK, RequestsTypeOK, CacherTypeOK, HeightsInv
<1>1. CASE ReadHead
  BY <1>1 DEF ReadHead, ethVars, Stored
<1>2. ASSUME FilterLogs \/ EndOfLogs \/ FailPass
      PROVE  HeightsInv' /\ \A r \in RequestIds : Stored(r) => Stored(r)'
  BY <1>2 DEF FilterLogs, EndOfLogs, FailPass, CacherReset, ethVars, Stored
<1>3. ASSUME NEW l \in cLogs, SkipRecent(l) \/ StopAtExpired(l)
      PROVE  HeightsInv' /\ \A r \in RequestIds : Stored(r) => Stored(r)'
  BY <1>3 DEF SkipRecent, StopAtExpired, ethVars, Stored
<1>4. ASSUME NEW l \in cLogs, ReadRequest(l)
      PROVE  HeightsInv' /\ \A r \in RequestIds : Stored(r) => Stored(r)'
  <2>1. l.rq \in EthRequests
    BY DEF Log
  <2>2. ethContract[l.rq].height > 0
    BY <1>4, <2>1 DEF ReadRequest, TooOld, Entry
  <2> QED
    BY <1>4, <2>2 DEF ReadRequest, ethVars, Stored
<1>5. CASE StoreRequest
  <2>1. ASSUME NEW r \in RequestIds
        PROVE  /\ Stored(r) => requests'[r].createdAt > 0
               /\ requests'[r] # NoRow => requests'[r].createdAt > 0
    <3>1. CASE r # cRead.rq
      BY <1>5, <3>1 DEF StoreRequest, Stored
    <3>2. CASE r = cRead.rq
      <4>1. PICK found \in FindRequest(r) :
              requests'[r] = IF found THEN WithStatus(requests[r], cRead.status)
                             ELSE [createdAt |-> cRead.height, status |-> cRead.status]
        BY <1>5, <3>2 DEF StoreRequest, Refreshed
      <4>2. cRead.height > 0
        BY <1>5 DEF StoreRequest
      <4>3. found => Stored(r)
        BY <4>1 DEF FindRequest
      <4> QED
        BY <4>1, <4>2, <4>3 DEF WithStatus
    <3> QED
      BY <3>1, <3>2
  <2>2. \A r \in RequestIds : Stored(r) => Stored(r)'
    BY <2>1 DEF Stored, NoRow
  <2> QED
    BY <1>5, <2>1, <2>2 DEF StoreRequest, ethVars, Stored
<1>6. CASE ExpireRequests
  <2>1. ASSUME NEW r \in RequestIds
        PROVE  /\ Stored(r) => requests'[r].createdAt > 0
               /\ ~Stored(r) => requests'[r] = NoRow
    BY <1>6 DEF ExpireRequests, Expired, WithStatus, Stored
  <2>2. \A r \in RequestIds : Stored(r) => Stored(r)'
    BY <2>1 DEF Stored, NoRow
  <2> QED
    BY <1>6, <2>1, <2>2 DEF ExpireRequests, ethVars, Stored
<1> QED
  BY <1>1, <1>2, <1>3, <1>4, <1>5, <1>6 DEF HandleEthLogs

(***************************************************************************)
(* Types, heights and rows are kept by every step of the validator.        *)
(***************************************************************************)
BaseInv == TypeOK /\ HeightsInv

LEMMA BaseStep == BaseInv /\ [Next]_vars => BaseInv'
<1> SUFFICES ASSUME BaseInv, [Next]_vars PROVE BaseInv'
  OBVIOUS
<1> USE DEF BaseInv
<1>1. ASSUME HandleEthLogs, UNCHANGED <<signs, signerVars, peerSigned>> PROVE BaseInv'
  <2>1. RequestsTypeOK' /\ CacherTypeOK' /\ UNCHANGED ethVars
    BY <1>1, CacherType DEF TypeOK
  <2>2. HeightsInv' /\ \A r \in RequestIds : Stored(r) => Stored(r)'
    BY <1>1, CacherKeepsRows DEF TypeOK
  <2>3. TypeOK'
    BY <1>1, <2>1, <2>2, CacherAssumption
    DEF TypeOK, EthTypeOK, SignaturesTypeOK, SignerTypeOK, signerVars, ethVars
  <2> QED
    BY <2>2, <2>3
<1>2. ASSUME SignerStep, UNCHANGED cacherVars PROVE BaseInv'
  <2>1. TypeOK'
    BY <1>2, SignerType
  <2>2. ethHeight' = ethHeight
    BY <1>2
    DEF SignerStep, BeginSign, BeginGather, BeginFinalize, BeginPhase, AbandonPhase, SignRequest,
        SkipSign, GatherSigns, GatherFrom, CheckRequest, SendChangeStatus, Submit, SendFails,
        MarkRow, ethVars
  <2>3. UNCHANGED requests \/ MarkRow
    BY <1>2
    DEF SignerStep, BeginSign, BeginGather, BeginFinalize, BeginPhase, AbandonPhase, SignRequest,
        SkipSign, GatherSigns, GatherFrom, CheckRequest, SendChangeStatus, SendFails
  <2>4. ASSUME NEW r \in RequestIds, Stored(r)' PROVE requests'[r].createdAt > 0
    BY <2>3, <2>4, CacherAssumption
    DEF MarkRow, SaveStatus, WithStatus, Stored, HeightsInv, TypeOK, RequestsTypeOK, SignerTypeOK
  <2> QED
    BY <1>2, <2>1, <2>2, <2>4 DEF HeightsInv, cacherVars
<1>3. ASSUME EthEnvironment \/ \E r \in EthRequests : Submit(r),
             UNCHANGED <<requests, signs, cacherVars, signerVars, peerSigned>>
      PROVE  BaseInv'
  <2>1. EthTypeOK'
    BY <1>3, ChainType DEF TypeOK
  <2>2. ethHeight <= ethHeight'
    BY <1>3
    DEF TypeOK, EthTypeOK, EthEnvironment, MineBlock, Reorganize, ReplaceBlocks, DropTx, Submit
  <2>3. EthStart <= ethHeight'
    BY <2>1, <2>2, EthAssumption DEF HeightsInv, TypeOK, EthTypeOK
  <2> QED
    BY <1>3, <2>1, <2>3
    DEF TypeOK, RequestsTypeOK, SignaturesTypeOK, CacherTypeOK, SignerTypeOK, HeightsInv, Stored,
        cacherVars, signerVars
<1>4. ASSUME NEW r \in EthRequests, NEW v \in Validators, PeerSigns(r, v) PROVE BaseInv'
  BY <1>4, CacherAssumption
  DEF PeerSigns, TypeOK, EthTypeOK, RequestsTypeOK, SignaturesTypeOK, CacherTypeOK, SignerTypeOK,
      HeightsInv, Stored, ethVars, cacherVars, signerVars
<1>5. CASE Restart
  BY <1>5
  DEF Restart, CacherReset, SignerReset, TypeOK, EthTypeOK, RequestsTypeOK, SignaturesTypeOK,
      CacherTypeOK, SignerTypeOK, HeightsInv, Stored, ethVars
<1>6. CASE UNCHANGED vars
  BY <1>6
  DEF vars, TypeOK, EthTypeOK, RequestsTypeOK, SignaturesTypeOK, CacherTypeOK, SignerTypeOK,
      HeightsInv, Stored, ethVars, cacherVars, signerVars
<1> QED
  BY <1>1, <1>2, <1>3, <1>4, <1>5, <1>6 DEF Next, Step, Environment, PeerSubmits, Panic

LEMMA BaseInit == Init => BaseInv
<1>1. NoEntry \in Entry /\ NoRow \in Row
  BY DEF NoEntry, Entry, NoRow, Row
<1>2. IsFiniteSet({})
  BY FS_EmptySet
<1> QED
  BY <1>1, <1>2, EthAssumption, CacherAssumption
  DEF Init, EthInit, RequestsInit, SignaturesInit, CacherInit, SignerInit, BaseInv, TypeOK,
      EthTypeOK, RequestsTypeOK, SignaturesTypeOK, CacherTypeOK, SignerTypeOK, HeightsInv, Stored

(***************************************************************************)
(* Every variable always has its type, and the signer never holds a        *)
(* request that the database does not.                                     *)
(***************************************************************************)
THEOREM NodeTypeCorrect == Spec => []TypeOK
<1>1. BaseInv => TypeOK
  BY DEF BaseInv
<1> QED
  BY BaseInit, BaseStep, <1>1, PTL DEF Spec

-----------------------------------------------------------------------------
(* Success and the signatures behind it *)

(***************************************************************************)
(* More signatures leave a quorum of admins a quorum.                      *)
(***************************************************************************)
LEMMA QuorumGrows ==
    ASSUME signs \subseteq signs', peerSigned \subseteq peerSigned',
           NEW r, AdminQuorum(r)
    PROVE  AdminQuorum(r)'
<1> DEFINE S == {v \in Admins : Serves(r, v)}
           T == {v \in Admins : Serves(r, v)'}
<1>1. IsFiniteSet(Admins)
  BY SignerAssumption, FS_Subset
<1>2. IsFiniteSet(T)
  <2>1. T \in SUBSET Admins
    OBVIOUS
  <2> QED
    BY <1>1, <2>1, FS_Subset
<1>3. S \in SUBSET T
  BY DEF Serves, Signers, SignsOf
<1>4. Cardinality(S) <= Cardinality(T) /\ Cardinality(S) \in Nat /\ Cardinality(T) \in Nat
  <2>1. IsFiniteSet(S) /\ Cardinality(S) <= Cardinality(T)
    BY <1>2, <1>3, FS_Subset
  <2> QED
    BY <1>2, <2>1, FS_CardinalityType
<1>5. Cardinality(S) >= ContractBft
  BY DEF AdminQuorum
<1>6. Cardinality(T) >= ContractBft
  BY <1>4, <1>5, SignerAssumption
<1> QED
  BY <1>6 DEF AdminQuorum

(***************************************************************************)
(* Nothing is ever taken out of the table of signatures, nor unsigned.     *)
(***************************************************************************)
LEMMA SignsGrow ==
    ASSUME [Next]_vars
    PROVE  signs \subseteq signs' /\ peerSigned \subseteq peerSigned'
<1>1. CASE SignerStep
  BY <1>1
  DEF SignerStep, BeginSign, BeginGather, BeginFinalize, BeginPhase, AbandonPhase, SignRequest,
      SkipSign, GatherSigns, GatherFrom, CheckRequest, SendChangeStatus, SendFails, MarkRow
<1>2. CASE ~SignerStep
  BY <1>2 DEF Next, Step, Environment, PeerSigns, PeerSubmits, Panic, Restart, vars
<1> QED
  BY <1>1, <1>2

(***************************************************************************)
(* The invariant behind SuccessHasQuorum: every row of "signs" is the      *)
(* signature of a validator that has signed, and a Success that a cacher   *)
(* or a signer carries in its hands has its quorum already.                *)
(***************************************************************************)
RowsAreSigned == \A s \in signs : Serves(s.rq, s.validator)

InHandsInv ==
    /\ cPc = "store" /\ cRead.status = Success => AdminQuorum(cRead.rq)
    /\ sPc = "mark" => AdminQuorum(sCur)

SuccessInv == BaseInv /\ RowsAreSigned /\ InHandsInv /\ SuccessHasQuorum

LEMMA RowsAreSignedStep ==
    ASSUME BaseInv, RowsAreSigned, [Next]_vars
    PROVE  RowsAreSigned'
<1>1. SUFFICES ASSUME NEW s \in signs', s \notin signs
               PROVE  Serves(s.rq, s.validator)'
  <2>1. ASSUME NEW s \in signs PROVE Serves(s.rq, s.validator)'
    BY SignsGrow DEF RowsAreSigned, Serves, Signers, SignsOf
  <2> QED
    BY <1>1, <2>1 DEF RowsAreSigned
<1>2. s \in Sign
  BY BaseStep DEF BaseInv, TypeOK, SignaturesTypeOK
<1>3. ASSUME NEW r \in sTodo, SignRequest(r) PROVE Serves(s.rq, s.validator)'
  <2>1. s.validator = Self
    BY <1>3, <1>1 DEF SignRequest, NewSign
  <2> QED
    BY <1>1, <1>2, <2>1 DEF Serves, Signers, SignsOf, Sign
<1>4. ASSUME NEW r \in sTodo, NEW answered \in SUBSET Peers, GatherFrom(r, answered)
      PROVE  Serves(s.rq, s.validator)'
  <2>1. s.rq = r /\ s.validator \in answered
    <3>1. PICK S \in SUBSET answered : signs' = signs \cup {NewSign(r, v) : v \in S}
      BY <1>4 DEF GatherFrom
    <3>2. PICK v \in S : s = NewSign(r, v)
      BY <1>1, <3>1
    <3> QED
      BY <3>2 DEF NewSign
  <2>2. Serves(s.rq, s.validator)
    BY <1>4, <2>1 DEF GatherFrom
  <2> QED
    BY <2>2, SignsGrow DEF Serves, Signers, SignsOf
<1>5. (\E r \in sTodo : SignRequest(r) \/ GatherSigns(r)) \/ UNCHANGED signs
  BY DEF Next, Step, Environment, PeerSigns, PeerSubmits, Panic, Restart, vars,
         SignerStep, BeginSign, BeginGather, BeginFinalize, BeginPhase, AbandonPhase,
         SkipSign, CheckRequest, SendChangeStatus, SendFails, MarkRow
<1> QED
  BY <1>1, <1>3, <1>4, <1>5 DEF GatherSigns

(***************************************************************************)
(* What the chain calls Success, or holds a transaction for, has a quorum  *)
(* after a step of the chain if it had one before.                         *)
(***************************************************************************)
LEMMA ChainSuccess ==
    ASSUME EthTypeOK, EthEnvironment, NEW r \in EthRequests,
           ethContract'[r].status = Success \/ r \in ethPool'
    PROVE  ethContract[r].status = Success \/ r \in ethPool
<1>1. CASE MineBlock
  BY <1>1 DEF EthTypeOK, MineBlock, Created, Changed
<1>2. CASE Reorganize
  <2>1. PICK base \in Nat : ReplaceBlocks(base)
    BY <1>2 DEF Reorganize, EthTypeOK
  <2>2. ethContract'[r] \in Rewritten(r, base)
    BY <2>1 DEF ReplaceBlocks
  <2>3. r \in ethPool' => r \in ethPool \/ ethContract[r].status = Success
    BY <2>1 DEF ReplaceBlocks, Undone
  <2> QED
    BY <2>2, <2>3, RewriteEffect
<1>3. ASSUME NEW q \in EthRequests, DropTx(q)
      PROVE  ethContract[r].status = Success \/ r \in ethPool
  BY <1>3 DEF DropTx
<1> QED
  BY <1>1, <1>2, <1>3 DEF EthEnvironment

(***************************************************************************)
(* Where the cacher's Success comes from: the contract.                    *)
(***************************************************************************)
LEMMA CacherSuccess ==
    ASSUME BaseInv, HandleEthLogs
    PROVE  /\ cPc' = "store" => \/ UNCHANGED <<cPc, cRead>>
                               \/ /\ cRead'.rq \in EthRequests
                                  /\ cRead'.status = ethContract[cRead'.rq].status
           /\ \A r \in EthRequests : requests'[r].status = Success =>
                \/ requests[r].status = Success
                \/ cPc = "store" /\ cRead.rq = r /\ cRead.status = Success
<1> USE CacherAssumption DEF BaseInv, TypeOK, RequestsTypeOK, CacherTypeOK
<1>1. CASE StoreRequest
  BY <1>1 DEF StoreRequest, Refreshed, WithStatus
<1>2. CASE ExpireRequests
  BY <1>2 DEF ExpireRequests, Expired, WithStatus
<1>3. ASSUME NEW l \in cLogs, ReadRequest(l)
      PROVE  cRead'.rq \in EthRequests /\ cRead'.status = ethContract[cRead'.rq].status
  BY <1>3 DEF ReadRequest, Log
<1>4. CASE ~StoreRequest /\ ~ExpireRequests
  BY <1>3, <1>4
  DEF HandleEthLogs, ReadHead, FilterLogs, SkipRecent, StopAtExpired, ReadRequest, EndOfLogs,
      FailPass, CacherReset
<1> QED
  BY <1>1, <1>2, <1>4

(***************************************************************************)
(* Every step of the signer keeps the invariant: it submits, and marks a   *)
(* row, only with a quorum of admins behind it.                            *)
(***************************************************************************)
LEMMA SignerSuccess ==
    ASSUME SuccessInv, SignerStep, UNCHANGED cacherVars,
           \A r : AdminQuorum(r) => AdminQuorum(r)'
    PROVE  InHandsInv' /\ SuccessHasQuorum'
<1> USE CacherAssumption DEF SuccessInv, InHandsInv, SuccessHasQuorum, cacherVars, ethVars
<1>1. CASE MarkRow
  BY <1>1
  DEF MarkRow, SaveStatus, WithStatus, BaseInv, TypeOK, RequestsTypeOK, SignerTypeOK
<1>2. CASE SendChangeStatus
  <2>1. sCur \in EthRequests /\ Votes(sCur) >= ContractBft /\ Submit(sCur)
        /\ sCur' = sCur /\ UNCHANGED requests
    BY <1>2 DEF SendChangeStatus, BaseInv, TypeOK, SignerTypeOK
  <2>2. AdminQuorum(sCur)
    <3> DEFINE S == Signers(sCur) \cap Admins
               T == {v \in Admins : Serves(sCur, v)}
    <3>1. S \in SUBSET T
      <4>1. ASSUME NEW v \in S PROVE Serves(sCur, v)
        <5>1. PICK s \in signs : s.rq = sCur /\ s.validator = v
          BY DEF Signers, SignsOf
        <5> QED
          BY <5>1 DEF RowsAreSigned
      <4> QED
        BY <4>1
    <3>2. IsFiniteSet(T)
      <4>1. T \in SUBSET Validators
        BY SignerAssumption
      <4> QED
        BY <4>1, FS_Subset, SignerAssumption
    <3>3. Cardinality(S) <= Cardinality(T) /\ Cardinality(S) \in Nat /\ Cardinality(T) \in Nat
      <4>1. IsFiniteSet(S) /\ Cardinality(S) <= Cardinality(T)
        BY <3>1, <3>2, FS_Subset
      <4> QED
        BY <3>2, <4>1, FS_CardinalityType
    <3>4. Cardinality(S) >= ContractBft
      BY <2>1 DEF Votes
    <3>5. Cardinality(T) >= ContractBft
      BY <3>3, <3>4, SignerAssumption
    <3> QED
      BY <3>5 DEF AdminQuorum
  <2> QED
    BY <2>1, <2>2 DEF Submit
<1>3. ASSUME NEW r \in sTodo \cap EthRequests, CheckRequest(r)
      PROVE  InHandsInv' /\ SuccessHasQuorum'
  BY <1>3 DEF CheckRequest
<1>4. \/ UNCHANGED <<requests, ethVars>> /\ sPc' # "mark"
      \/ MarkRow \/ SendChangeStatus \/ \E r \in sTodo \cap EthRequests : CheckRequest(r)
  BY DEF SignerStep, BeginSign, BeginGather, BeginFinalize, BeginPhase, AbandonPhase, SignRequest,
         SkipSign, GatherSigns, GatherFrom, SendFails
<1> QED
  BY <1>1, <1>2, <1>3, <1>4

LEMMA SuccessStep == SuccessInv /\ [Next]_vars => SuccessInv'
<1> SUFFICES ASSUME SuccessInv, [Next]_vars PROVE SuccessInv'
  OBVIOUS
<1>b. BaseInv' /\ RowsAreSigned'
  BY BaseStep, RowsAreSignedStep DEF SuccessInv
<1>q. \A r : AdminQuorum(r) => AdminQuorum(r)'
  BY SignsGrow, QuorumGrows
<1> SUFFICES InHandsInv' /\ SuccessHasQuorum'
  BY <1>b DEF SuccessInv
<1> USE DEF SuccessInv, InHandsInv, SuccessHasQuorum
<1>1. ASSUME HandleEthLogs, UNCHANGED <<signs, signerVars, peerSigned>>
      PROVE  InHandsInv' /\ SuccessHasQuorum'
  <2>1. UNCHANGED ethVars
    BY <1>1, CacherType DEF BaseInv, TypeOK
  <2>2. \A r \in EthRequests : requests'[r].status = Success => AdminQuorum(r)
    BY <1>1, CacherSuccess
  <2>3. cPc' = "store" /\ cRead'.status = Success => AdminQuorum(cRead'.rq)
    BY <1>1, CacherSuccess
  <2>4. \A r : AdminQuorum(r)' <=> AdminQuorum(r)
    BY <1>1 DEF AdminQuorum, Serves, Signers, SignsOf
  <2> QED
    BY <1>1, <2>1, <2>2, <2>3, <2>4, <1>q DEF ethVars, signerVars
<1>2. ASSUME SignerStep, UNCHANGED cacherVars PROVE InHandsInv' /\ SuccessHasQuorum'
  BY <1>2, <1>q, SignerSuccess
<1>3. ASSUME EthEnvironment, UNCHANGED <<requests, signs, cacherVars, signerVars, peerSigned>>
      PROVE  InHandsInv' /\ SuccessHasQuorum'
  BY <1>3, <1>q, ChainSuccess DEF BaseInv, TypeOK, cacherVars, signerVars
<1>4. ASSUME NEW r \in EthRequests, PeerSubmits(r) PROVE InHandsInv' /\ SuccessHasQuorum'
  BY <1>4, <1>q DEF PeerSubmits, Submit, cacherVars, signerVars
<1>5. ASSUME NEW r \in EthRequests, NEW v \in Validators, PeerSigns(r, v)
      PROVE  InHandsInv' /\ SuccessHasQuorum'
  BY <1>5, <1>q DEF PeerSigns, ethVars, cacherVars, signerVars
<1>6. CASE Restart
  BY <1>6, <1>q DEF Restart, CacherReset, SignerReset, ethVars
<1>7. CASE UNCHANGED vars
  BY <1>7, <1>q DEF vars, ethVars, cacherVars, signerVars
<1> QED
  BY <1>1, <1>2, <1>3, <1>4, <1>5, <1>6, <1>7 DEF Next, Step, Environment, Panic

(***************************************************************************)
(* No Success is made up, for any set of admins, any thresholds, and       *)
(* whether or not lookups fail: no assumption on BftCoefficient,           *)
(* StoreReadsFail, the timeouts or the depth of reorganisations is needed. *)
(***************************************************************************)
THEOREM SuccessHasQuorumAlways == Spec => []SuccessHasQuorum
<1>1. Init => SuccessInv
  BY BaseInit, CacherAssumption
  DEF Init, EthInit, RequestsInit, SignaturesInit, CacherInit, SignerInit, NoEntry, NoRow,
      None, Success, NoRead, SuccessInv, RowsAreSigned, InHandsInv, SuccessHasQuorum
<1>2. SuccessInv => SuccessHasQuorum
  BY DEF SuccessInv
<1> QED
  BY <1>1, <1>2, SuccessStep, PTL DEF Spec

-----------------------------------------------------------------------------
(* The validator implements EthMirror *)

(***************************************************************************)
(* The cacher and the chain are the same in both specifications.           *)
(***************************************************************************)
LEMMA SameCacher == HandleEthLogs <=> Mirror!HandleEthLogs
<1>1. ReadHead <=> Mirror!ReadHead
  BY DEF ReadHead, ethVars, Mirror!ReadHead, Mirror!ethVars
<1>2. FilterLogs <=> Mirror!FilterLogs
  BY DEF FilterLogs, ethVars, Logged, Mirror!FilterLogs, Mirror!ethVars, Mirror!Logged
<1>3. EndOfLogs <=> Mirror!EndOfLogs
  BY DEF EndOfLogs, ethVars, Mirror!EndOfLogs, Mirror!ethVars
<1>4. StoreRequest <=> Mirror!StoreRequest
  BY DEF StoreRequest, Refreshed, FindRequest, Stored, NoRow, NoRead, WithStatus, ethVars,
         None, Mirror!StoreRequest, Mirror!Refreshed, Mirror!FindRequest, Mirror!Stored,
         Mirror!NoRow, Mirror!NoRead, Mirror!WithStatus, Mirror!ethVars, Mirror!None
<1>5. ExpireRequests <=> Mirror!ExpireRequests
  <2>1. Expired = Mirror!Expired
    BY DEF Expired, PastTime, Stored, NoRow, WithStatus, Mirror!Expired, Mirror!PastTime,
           Mirror!Stored, Mirror!NoRow, Mirror!WithStatus, Mirror!Rejected, Mirror!None
  <2> QED
    BY <2>1 DEF ExpireRequests, ethVars, Mirror!ExpireRequests, Mirror!ethVars
<1>6. FailPass <=> Mirror!FailPass
  BY DEF FailPass, CacherReset, NoRead, ethVars, None, Mirror!FailPass, Mirror!CacherReset,
         Mirror!NoRead, Mirror!ethVars, Mirror!None
<1>7. ASSUME NEW l
      PROVE  /\ SkipRecent(l) <=> Mirror!SkipRecent(l)
             /\ StopAtExpired(l) <=> Mirror!StopAtExpired(l)
             /\ ReadRequest(l) <=> Mirror!ReadRequest(l)
  BY DEF SkipRecent, StopAtExpired, ReadRequest, Oldest, TooRecent, TooOld, ethVars, NoEntry,
         None, Mirror!SkipRecent, Mirror!StopAtExpired, Mirror!ReadRequest, Mirror!Oldest,
         Mirror!TooRecent, Mirror!TooOld, Mirror!ethVars, Mirror!NoEntry, Mirror!None
<1> QED
  BY <1>1, <1>2, <1>3, <1>4, <1>5, <1>6, <1>7 DEF HandleEthLogs, Mirror!HandleEthLogs

LEMMA SameChain ==
    /\ EthEnvironment <=> Mirror!EthEnvironment
    /\ \A r : Submit(r) <=> Mirror!Submit(r)
<1>1. MineBlock <=> Mirror!MineBlock
  BY DEF MineBlock, Accepts, PastDue, Created, Changed, Logged, NoEntry, Mirror!MineBlock, Mirror!Accepts, Mirror!PastDue, Mirror!Created,
         Mirror!Changed, Mirror!Logged, Mirror!NoEntry, Mirror!None, Mirror!New,
         Mirror!Success, Mirror!Returned
<1>2. Reorganize <=> Mirror!Reorganize
  <2>1. ASSUME NEW base
        PROVE  /\ Undone(base) = Mirror!Undone(base)
               /\ \A r : Rewritten(r, base) = Mirror!Rewritten(r, base)
    BY DEF Undone, Rewritten, RolledBack, Accepts, PastDue, Created, Changed, NoEntry,
           Mirror!Undone, Mirror!Rewritten, Mirror!RolledBack, Mirror!Accepts, Mirror!PastDue,
           Mirror!Created, Mirror!Changed, Mirror!NoEntry, Mirror!None, Mirror!New,
           Mirror!Success, Mirror!Returned
  <2>2. ASSUME NEW base PROVE ReplaceBlocks(base) <=> Mirror!ReplaceBlocks(base)
    <3>1. /\ {Rewritten(r, base) : r \in EthRequests} = {Mirror!Rewritten(r, base) : r \in EthRequests}
          /\ \A entries :
               (\A r \in EthRequests : entries[r] \in Rewritten(r, base))
                 <=> (\A r \in EthRequests : entries[r] \in Mirror!Rewritten(r, base))
      BY <2>1
    <3>2. UNION {Rewritten(r, base) : r \in EthRequests}
            = UNION {Mirror!Rewritten(r, base) : r \in EthRequests}
      BY <3>1
    <3> HIDE DEF Success
    <3>3. Success = Mirror!Success
      BY DEF Success, Mirror!Success
    <3> QED
      BY <2>1, <3>1, <3>2, <3>3 DEF ReplaceBlocks, Mirror!ReplaceBlocks
  <2> QED
    BY <2>2 DEF Reorganize, Mirror!Reorganize
<1>3. ASSUME NEW r PROVE (DropTx(r) <=> Mirror!DropTx(r)) /\ (Submit(r) <=> Mirror!Submit(r))
  BY DEF DropTx, Submit, Accepts, Mirror!DropTx, Mirror!Submit, Mirror!Accepts, Mirror!New
<1> QED
  BY <1>1, <1>2, <1>3 DEF EthEnvironment, Mirror!EthEnvironment

(***************************************************************************)
(* A step of the signer is one EthMirror allows the rest of the program:   *)
(* a transaction, a stored row marked Success, or nothing it could see.    *)
(***************************************************************************)
LEMMA SignerIsMirrored ==
    ASSUME TypeOK, SignerStep, UNCHANGED cacherVars
    PROVE  [Mirror!Next]_(Mirror!vars)
<1> USE DEF ethVars, cacherVars, Mirror!ethVars, Mirror!cacherVars
<1>1. CASE SendChangeStatus
  <2>1. sCur \in EthRequests /\ Submit(sCur) /\ UNCHANGED <<requests, cacherVars>>
    BY <1>1 DEF SendChangeStatus, TypeOK, SignerTypeOK
  <2> QED
    BY <2>1, SameChain DEF Mirror!Next, Mirror!Others
<1>2. CASE MarkRow
  <2>1. sCur \in EthRequests /\ Stored(sCur) /\ UNCHANGED <<ethVars, cacherVars>>
    BY <1>2 DEF MarkRow, TypeOK, SignerTypeOK
  <2>2. CASE SaveStatus(sCur, Success)
    <3>1. Mirror!MarkSuccess(sCur)
      BY <2>1, <2>2
      DEF SaveStatus, WithStatus, Stored, NoRow, Mirror!MarkSuccess, Mirror!SaveStatus,
          Mirror!WithStatus, Mirror!Stored, Mirror!NoRow, Mirror!None, Mirror!Success
    <3> QED
      BY <2>1, <3>1 DEF Mirror!Next, Mirror!Others
  <2>3. CASE UNCHANGED requests
    BY <2>1, <2>3 DEF Mirror!vars
  <2> QED
    BY <1>2, <2>2, <2>3 DEF MarkRow
<1>3. CASE ~SendChangeStatus /\ ~MarkRow
  BY <1>3
  DEF SignerStep, BeginSign, BeginGather, BeginFinalize, BeginPhase, AbandonPhase, SignRequest,
      SkipSign, GatherSigns, GatherFrom, CheckRequest, SendFails, Mirror!vars
<1> QED
  BY <1>1, <1>2, <1>3

(***************************************************************************)
(* Every step of the validator is a step EthMirror allows, or one that     *)
(* changes nothing EthMirror speaks of.                                    *)
(***************************************************************************)
LEMMA StepIsMirrored == TypeOK /\ [Next]_vars => [Mirror!Next]_(Mirror!vars)
<1> SUFFICES ASSUME TypeOK, [Next]_vars PROVE [Mirror!Next]_(Mirror!vars)
  OBVIOUS
<1> USE DEF ethVars, cacherVars, Mirror!ethVars, Mirror!cacherVars
<1>1. CASE HandleEthLogs
  BY <1>1, SameCacher DEF Mirror!Next
<1>2. CASE SignerStep /\ UNCHANGED cacherVars
  BY <1>2, SignerIsMirrored
<1>3. CASE EthEnvironment /\ UNCHANGED <<requests, cacherVars>>
  BY <1>3, SameChain DEF Mirror!Next, Mirror!Others
<1>4. ASSUME NEW r \in EthRequests, PeerSubmits(r) PROVE Mirror!Next
  BY <1>4, SameChain DEF PeerSubmits, Mirror!Next, Mirror!Others
<1>5. CASE Restart
  BY <1>5
  DEF Restart, CacherReset, NoRead, Mirror!Next, Mirror!Others, Mirror!RestartCacher,
      Mirror!CacherReset, Mirror!NoRead, Mirror!None
<1>6. ASSUME NEW r \in EthRequests, NEW v \in Validators, PeerSigns(r, v)
      PROVE  UNCHANGED Mirror!vars
  BY <1>6 DEF PeerSigns, Mirror!vars
<1>7. CASE UNCHANGED vars
  BY <1>7 DEF vars, Mirror!vars
<1> QED
  BY <1>1, <1>2, <1>3, <1>4, <1>5, <1>6, <1>7 DEF Next, Step, Environment, Panic

(***************************************************************************)
(* The validator implements EthMirror, the signer being what EthMirror     *)
(* says of the rest of the program: what EthMirrorProofs shows of the      *)
(* table of requests holds with a signer, peers and panics beside it.      *)
(***************************************************************************)
THEOREM NodeImplementsMirror == Spec => MirrorSpec
<1>1. Init => Mirror!Init
  BY DEF Init, EthInit, RequestsInit, CacherInit, NoEntry, NoRow, NoRead, Mirror!Init,
         Mirror!EthInit, Mirror!RequestsInit, Mirror!CacherInit, Mirror!NoEntry, Mirror!NoRow,
         Mirror!NoRead, Mirror!None
<1> QED
  BY <1>1, NodeTypeCorrect, StepIsMirrored, PTL DEF Spec, MirrorSpec, Mirror!Spec

-----------------------------------------------------------------------------
(* The rows of the validator *)

(***************************************************************************)
(* The signer and the other validators are beside the cacher, and nobody   *)
(* but the cacher rejects.                                                 *)
(***************************************************************************)
LEMMA SignerIsBeside ==
    ASSUME TypeOK, SignerStep, UNCHANGED cacherVars
    PROVE  (ChainStep \/ Beside) /\ RejectsOverdue
<1>c. UNCHANGED <<cHeight, cPc, cLogs, cRead>>
  BY DEF cacherVars
<1>1. CASE SendChangeStatus
  <2>1. ChainMoves /\ UNCHANGED requests
    BY <1>1 DEF SendChangeStatus, ChainMoves, TypeOK, SignerTypeOK
  <2> QED
    BY <2>1 DEF ChainStep, RejectsOverdue
<1>2. CASE MarkRow
  <2>1. sCur \in EthRequests /\ Stored(sCur) /\ UNCHANGED ethVars
    BY <1>2 DEF MarkRow, TypeOK, SignerTypeOK
  <2>2. ASSUME NEW r \in EthRequests
        PROVE  \/ requests'[r] = requests[r]
               \/ /\ Stored(r) /\ requests'[r].createdAt = requests[r].createdAt
                  /\ requests'[r].status = Success
    <3>1. r \in DOMAIN requests
      BY CacherAssumption DEF TypeOK, RequestsTypeOK
    <3> QED
      BY <1>2, <2>1, <3>1 DEF MarkRow, SaveStatus, WithStatus
  <2> QED
    BY <1>c, <2>1, <2>2 DEF Beside, RejectsOverdue
<1>3. CASE ~SendChangeStatus /\ ~MarkRow
  <2>1. UNCHANGED <<ethVars, requests>>
    BY <1>3
    DEF SignerStep, BeginSign, BeginGather, BeginFinalize, BeginPhase, AbandonPhase, SignRequest,
        SkipSign, GatherSigns, GatherFrom, CheckRequest, SendFails
  <2> QED
    BY <1>c, <2>1 DEF Beside, RejectsOverdue
<1> QED
  BY <1>1, <1>2, <1>3

LEMMA NodeWalks ==
    ASSUME TypeOK, [Next]_vars
    PROVE  WalkNext /\ (HandleEthLogs \/ RejectsOverdue)
<1> USE DEF WalkNext
<1>1. CASE HandleEthLogs
  BY <1>1
<1>2. CASE SignerStep /\ UNCHANGED cacherVars
  BY <1>2, SignerIsBeside
<1>3. ASSUME ChainMoves, UNCHANGED <<requests, cacherVars>>
      PROVE  ChainStep /\ RejectsOverdue
  BY <1>3 DEF ChainStep, RejectsOverdue
<1>4. ASSUME NEW r \in EthRequests, PeerSubmits(r)
      PROVE  ChainMoves /\ UNCHANGED <<requests, cacherVars>>
  BY <1>4 DEF PeerSubmits, ChainMoves
<1>5. CASE Restart
  BY <1>5 DEF Restart, CacherReset, Beside, RejectsOverdue
<1>6. ASSUME NEW r \in EthRequests, NEW v \in Validators, PeerSigns(r, v)
      PROVE  Beside /\ RejectsOverdue
  BY <1>6 DEF PeerSigns, cacherVars, Beside, RejectsOverdue
<1>7. CASE UNCHANGED vars
  BY <1>7 DEF vars, cacherVars, Beside, RejectsOverdue
<1>8. CASE EthEnvironment /\ UNCHANGED <<requests, cacherVars>>
  BY <1>3, <1>8 DEF ChainMoves
<1> QED
  BY <1>1, <1>2, <1>3, <1>4, <1>5, <1>6, <1>7, <1>8 DEF Next, Step, Environment, Panic

RowsInv == TypeOK /\ WalkInv /\ RejectedInv

LEMMA NodeRows ==
    ASSUME MaxReorg <= BlockInterval
    PROVE  Spec => []RowsInv
<1>1. Init => WalkInv /\ RejectedInv
  BY WalkInit, CacherAssumption DEF Init, RequestsInit, NoRow, RejectedInv
<1>2. ASSUME TypeOK, TypeOK', WalkInv, RejectedInv, [Next]_vars
      PROVE  WalkInv' /\ RejectedInv'
  BY <1>2, NodeWalks, WalkStep, RejectedStep DEF CacherTypes, TypeOK
<1> QED
  BY <1>1, <1>2, NodeTypeCorrect, PTL DEF Spec, RowsInv

(***************************************************************************)
(* In the whole validator a row is backed by a settled entry too: neither  *)
(* the signer's Saves nor a panic between two steps of a pass disturb it.  *)
(***************************************************************************)
THEOREM NodeRowsAreSettled ==
    ASSUME MaxReorg <= BlockInterval
    PROVE  Spec => []Settled
<1>1. RowsInv => Settled
  BY DEF RowsInv, WalkInv
<1> QED
  BY NodeRows, <1>1, PTL

(***************************************************************************)
(* What the validator has given up is finalized, whoever submits it, only  *)
(* in a block at most ContractTimeout - RqTimeout above the head that its  *)
(* cacher saw last.                                                        *)
(***************************************************************************)
THEOREM NodeLateSuccessIsBounded ==
    ASSUME MaxReorg <= BlockInterval
    PROVE  Spec => Mirror!LateSuccessIsBounded
<1>1. RowsInv /\ [Next]_vars =>
        [\A r \in EthRequests :
           /\ requests[r].status = Mirror!Rejected
           /\ ethContract[r].status # Mirror!Success /\ ethContract'[r].status = Mirror!Success
           => ethContract'[r].changed + RqTimeout <= cHeight + ContractTimeout]_(Mirror!vars)
  BY NodeWalks, LateSuccessEffect DEF RowsInv, Mirror!Rejected, Mirror!Success
<1> QED
  BY NodeRows, <1>1, PTL DEF Mirror!LateSuccessIsBounded, Spec

(***************************************************************************)
(* Nothing the signer does reopens a row: that is left to a pass at the    *)
(* exact deadline.                                                         *)
(***************************************************************************)
THEOREM NodeReopensOnlyAtDeadline ==
    ASSUME MaxReorg <= BlockInterval
    PROVE  Spec => Mirror!ReopensOnlyAtDeadline
<1>1. RowsInv /\ [Next]_vars =>
        [\A r \in EthRequests :
           requests[r].status = Mirror!Rejected /\ requests'[r].status = Mirror!New
             => cHeight = requests[r].createdAt + RqTimeout]_(Mirror!vars)
  BY NodeWalks, ReopenEffect DEF RowsInv, Mirror!Rejected, Mirror!New
<1> QED
  BY NodeRows, <1>1, PTL DEF Mirror!ReopensOnlyAtDeadline, Spec

-----------------------------------------------------------------------------
(* One row per validator, and a quorum of different validators *)

(***************************************************************************)
(* What may be inserted when no lookup fails: one row for each of some     *)
(* validators that have none for the request.                              *)
(***************************************************************************)
LEMMA InsertsOnlyMissing ==
    ASSUME StoreReadsFail = FALSE, [Next]_vars
    PROVE  \/ UNCHANGED signs
           \/ \E r \in sTodo, S \in SUBSET Validators :
                /\ \A v \in S : SignsOf(r, v) = {}
                /\ signs' = signs \cup {NewSign(r, v) : v \in S}
                /\ sPc' \in {"sign", "gather"}
<1> USE SignerAssumption
<1>1. ASSUME NEW r \in sTodo, SignRequest(r)
      PROVE  \E S \in SUBSET Validators :
                /\ \A v \in S : SignsOf(r, v) = {}
                /\ signs' = signs \cup {NewSign(r, v) : v \in S}
                /\ sPc' \in {"sign", "gather"}
  <2> DEFINE S == {Self}
  <2>1. SignsOf(r, Self) = {}
    BY <1>1 DEF SignRequest, FindSign, Signers
  <2>2. signs' = signs \cup {NewSign(r, v) : v \in S} /\ sPc' = "sign"
    BY <1>1 DEF SignRequest
  <2>3. S \in SUBSET Validators /\ \A v \in S : SignsOf(r, v) = {}
    BY <2>1
  <2> QED
    BY <2>2, <2>3
<1>2. ASSUME NEW r \in sTodo, NEW answered \in SUBSET Peers, GatherFrom(r, answered)
      PROVE  \E S \in SUBSET Validators :
                /\ \A v \in S : SignsOf(r, v) = {}
                /\ signs' = signs \cup {NewSign(r, v) : v \in S}
                /\ sPc' \in {"sign", "gather"}
  <2>1. \A v \in Signers(r) : FALSE \notin FindSign(r, v)
    BY DEF FindSign
  <2>2. signs' = signs \cup {NewSign(r, v) : v \in answered \ Signers(r)}
    <3>1. PICK repeated \in SUBSET {v \in answered \cap Signers(r) : FALSE \in FindSign(r, v)} :
            signs' = signs \cup {NewSign(r, v) : v \in (answered \ Signers(r)) \cup repeated}
      BY <1>2 DEF GatherFrom
    <3>2. repeated = {}
      BY <2>1
    <3> QED
      BY <3>1, <3>2
  <2>3. \A v \in answered \ Signers(r) : v \in Validators /\ SignsOf(r, v) = {}
    BY DEF Signers
  <2> DEFINE S == answered \ Signers(r)
  <2>4. S \in SUBSET Validators
    BY <2>3
  <2>5. sPc' = "gather"
    BY <1>2 DEF GatherFrom
  <2> QED
    BY <2>2, <2>3, <2>4, <2>5
<1>3. (\E r \in sTodo : SignRequest(r) \/ GatherSigns(r)) \/ UNCHANGED signs
  BY DEF Next, Step, Environment, PeerSigns, PeerSubmits, Panic, Restart, vars,
         SignerStep, BeginSign, BeginGather, BeginFinalize, BeginPhase, AbandonPhase,
         SkipSign, CheckRequest, SendChangeStatus, SendFails, MarkRow
<1> QED
  BY <1>1, <1>2, <1>3 DEF GatherSigns

LEMMA OneSignStep ==
    ASSUME StoreReadsFail = FALSE, TypeOK, OneSignPerValidator, [Next]_vars
    PROVE  OneSignPerValidator'
<1>1. CASE UNCHANGED signs
  BY <1>1 DEF OneSignPerValidator
<1>2. ASSUME NEW r \in sTodo, NEW S \in SUBSET Validators,
             \A v \in S : SignsOf(r, v) = {},
             signs' = signs \cup {NewSign(r, v) : v \in S}
      PROVE  OneSignPerValidator'
  <2>1. ASSUME NEW s \in signs, NEW v \in S
        PROVE  ~(s.rq = r /\ s.validator = v)
    BY <1>2, <2>1 DEF SignsOf
  <2>2. \A v : NewSign(r, v).rq = r /\ NewSign(r, v).validator = v
    BY DEF NewSign
  <2> SUFFICES ASSUME NEW s \in signs', NEW t \in signs',
                      s.rq = t.rq, s.validator = t.validator
               PROVE  s = t
    BY DEF OneSignPerValidator
  <2>3. CASE s \in signs /\ t \in signs
    BY <2>3 DEF OneSignPerValidator
  <2>4. ASSUME s \notin signs PROVE s = t
    <3>1. PICK v \in S : s = NewSign(r, v)
      BY <1>2, <2>4
    <3>2. t \notin signs
      BY <2>1, <2>2, <3>1
    <3>3. PICK w \in S : t = NewSign(r, w)
      BY <1>2, <3>2
    <3> QED
      BY <2>2, <3>1, <3>3
  <2>5. ASSUME t \notin signs PROVE s = t
    <3>1. PICK v \in S : t = NewSign(r, v)
      BY <1>2, <2>5
    <3>2. s \notin signs
      BY <2>1, <2>2, <3>1
    <3> QED
      BY <2>4, <3>2
  <2> QED
    BY <2>3, <2>4, <2>5
<1> QED
  BY <1>1, <1>2, InsertsOnlyMissing

(***************************************************************************)
(* As long as no lookup fails unnoticed, no validator ever has two rows    *)
(* for one request.                                                        *)
(***************************************************************************)
THEOREM OneSignPerValidatorAlways ==
    ASSUME StoreReadsFail = FALSE
    PROVE  Spec => []OneSignPerValidator
<1>1. Init => OneSignPerValidator
  BY DEF Init, SignaturesInit, OneSignPerValidator
<1>2. TypeOK /\ OneSignPerValidator /\ [Next]_vars => OneSignPerValidator'
  BY OneSignStep
<1> QED
  BY <1>1, <1>2, NodeTypeCorrect, PTL DEF Spec

(***************************************************************************)
(* With one row per validator, counting rows is counting validators.       *)
(***************************************************************************)
LEMMA RowsAreSigners ==
    ASSUME TypeOK, OneSignPerValidator, NEW r \in RequestIds
    PROVE  /\ Cardinality(SignRows(r)) <= Cardinality(Signers(r))
           /\ Cardinality(SignRows(r)) \in Nat /\ Cardinality(Signers(r)) \in Nat
<1> DEFINE S == SignRows(r)
           T == Signers(r)
           f == [s \in S |-> s.validator]
<1>1. IsFiniteSet(T)
  <2>1. T \in SUBSET Validators
    BY DEF Signers
  <2> QED
    BY <2>1, SignerAssumption, FS_Subset
<1>2. f \in Injection(S, T)
  <2>1. \A s \in S : s \in signs /\ s.rq = r /\ s.validator \in Validators
    BY DEF SignRows, TypeOK, SignaturesTypeOK, Sign
  <2>2. \A s \in S : s.validator \in T
    BY <2>1 DEF Signers, SignsOf
  <2>3. \A s, t \in S : s.validator = t.validator => s = t
    BY <2>1 DEF OneSignPerValidator
  <2> HIDE DEF S, T
  <2> QED
    BY <2>2, <2>3 DEF Injection, IsInjective
<1>3. IsFiniteSet(S) /\ Cardinality(S) <= Cardinality(T)
  <2> HIDE DEF S, T, f
  <2> QED
    BY <1>1, <1>2, FS_Injection
<1> QED
  BY <1>1, <1>3, FS_CardinalityType

(***************************************************************************)
(* When the signer submits a request, BftCoefficient different validators  *)
(* have signed it, as long as no lookup fails unnoticed.                   *)
(***************************************************************************)
THEOREM QuorumIsRealAlways ==
    ASSUME StoreReadsFail = FALSE
    PROVE  Spec => []QuorumIsReal
<1> DEFINE Inv == BaseInv /\ RowsAreSigned /\ OneSignPerValidator /\ QuorumIsReal
<1>1. Init => Inv
  BY BaseInit
  DEF Init, SignaturesInit, SignerInit, RowsAreSigned, OneSignPerValidator, QuorumIsReal
<1>2. Inv /\ [Next]_vars => Inv'
  <2> SUFFICES ASSUME Inv, [Next]_vars PROVE QuorumIsReal'
    BY BaseStep, RowsAreSignedStep, OneSignStep DEF BaseInv
  <2>1. BaseInv' /\ RowsAreSigned'
    BY BaseStep, RowsAreSignedStep
  <2>2. ASSUME sPc' = "send" PROVE sCur' \in RequestIds /\ UNCHANGED signs
    <3>1. sCur' \in RequestIds
      BY <2>1, <2>2, CacherAssumption DEF BaseInv, TypeOK, SignerTypeOK
    <3> QED
      BY <2>2, <3>1, InsertsOnlyMissing
  <2>3. ASSUME sPc' = "send" PROVE Cardinality(Signers(sCur')) >= BftCoefficient
    <3>1. CASE sPc = "send" /\ sCur' = sCur
      BY <3>1 DEF QuorumIsReal
    <3>2. CASE HasQuorum(sCur')
      BY <2>2, <2>3, <3>2, RowsAreSigners, SignerAssumption DEF HasQuorum, BaseInv
    <3>3. (sPc = "send" /\ sCur' = sCur) \/ HasQuorum(sCur')
      BY <2>3
      DEF Next, Step, Environment, PeerSigns, PeerSubmits, Panic, Restart, SignerReset, vars,
          SignerStep, BeginSign, BeginGather, BeginFinalize, BeginPhase, AbandonPhase,
          SignRequest, SkipSign, GatherSigns, GatherFrom, CheckRequest, SendChangeStatus,
          SendFails, MarkRow, signerVars, BaseInv, TypeOK, SignerTypeOK
    <3> QED
      BY <3>1, <3>2, <3>3
  <2>4. ASSUME sPc' = "send", NEW v \in Signers(sCur)' PROVE Serves(sCur, v)'
    <3>1. PICK s \in signs' : s.rq = sCur' /\ s.validator = v
      BY <2>4 DEF Signers, SignsOf
    <3>2. Serves(s.rq, s.validator)'
      BY <2>1 DEF RowsAreSigned
    <3> QED
      BY <3>1, <3>2 DEF Serves, Signers, SignsOf
  <2>5. sPc' = "send" => Signers(sCur)' = Signers(sCur')
    BY <2>2 DEF Signers, SignsOf
  <2> QED
    BY <2>3, <2>4, <2>5 DEF QuorumIsReal
<1>3. Inv => QuorumIsReal
  OBVIOUS
<1> QED
  BY <1>1, <1>2, <1>3, PTL DEF Spec
=============================================================================
