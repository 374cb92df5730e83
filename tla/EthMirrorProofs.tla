-------------------------- MODULE EthMirrorProofs --------------------------
(***************************************************************************)
(* Proofs of the safety properties of EthMirror.                           *)
(***************************************************************************)
EXTENDS EthMirror, EthCacherProofs

USE DEF None, New, Rejected, Success, Returned, Status

-----------------------------------------------------------------------------
(* Type correctness *)

(***************************************************************************)
(* The types of all variables are preserved by every step.                 *)
(***************************************************************************)
LEMMA TypeStep == TypeOK /\ [Next]_vars => TypeOK'
<1> SUFFICES ASSUME TypeOK, [Next]_vars PROVE TypeOK'
  OBVIOUS
<1>1. CASE HandleEthLogs
  BY <1>1, CacherType DEF TypeOK, EthTypeOK, ethVars
<1>2. CASE Others
  <2>1. CASE (EthEnvironment \/ \E r \in EthRequests : Submit(r)) /\ UNCHANGED <<requests, cacherVars>>
    BY <2>1, ChainType DEF TypeOK, RequestsTypeOK, CacherTypeOK, cacherVars
  <2>2. ASSUME NEW r \in EthRequests, MarkSuccess(r) PROVE TypeOK'
    <3>1. requests' \in [RequestIds -> Row]
      BY <2>2, CacherAssumption
      DEF MarkSuccess, SaveStatus, WithStatus, Row, TypeOK, RequestsTypeOK
    <3> QED
      BY <2>2, <3>1
      DEF MarkSuccess, TypeOK, EthTypeOK, RequestsTypeOK, CacherTypeOK, cacherVars, ethVars
  <2>3. CASE RestartCacher
    BY <2>3 DEF RestartCacher, CacherReset, TypeOK, EthTypeOK, RequestsTypeOK, CacherTypeOK, ethVars
  <2> QED
    BY <1>2, <2>1, <2>2, <2>3 DEF Others
<1>3. CASE UNCHANGED vars
  BY <1>3 DEF vars, TypeOK, EthTypeOK, RequestsTypeOK, CacherTypeOK, cacherVars, ethVars
<1> QED
  BY <1>1, <1>2, <1>3 DEF Next

(***************************************************************************)
(* The initial values have their types.                                    *)
(***************************************************************************)
LEMMA InitType == Init => TypeOK
<1>1. NoEntry \in Entry /\ NoRow \in Row
  BY DEF NoEntry, Entry, NoRow, Row
<1> QED
  BY <1>1, EthAssumption
  DEF Init, EthInit, RequestsInit, CacherInit, TypeOK, EthTypeOK, RequestsTypeOK, CacherTypeOK

(***************************************************************************)
(* Every variable always has its type.                                     *)
(***************************************************************************)
THEOREM TypeCorrect == Spec => []TypeOK
BY InitType, TypeStep, PTL DEF Spec

-----------------------------------------------------------------------------
(* The inductive invariant *)

IInv == WalkInv /\ RejectedInv

(***************************************************************************)
(* The rest of the program is beside the cacher, and rejects nothing.      *)
(***************************************************************************)
LEMMA MirrorWalks ==
    ASSUME TypeOK, [Next]_vars
    PROVE  WalkNext /\ (HandleEthLogs \/ RejectsOverdue)
<1> USE DEF WalkNext
<1>1. CASE HandleEthLogs
  BY <1>1
<1>2. ASSUME ChainMoves, UNCHANGED <<requests, cacherVars>>
      PROVE  ChainStep /\ RejectsOverdue
  BY <1>2 DEF ChainStep, RejectsOverdue
<1>3. ASSUME NEW r \in EthRequests, MarkSuccess(r)
      PROVE  Beside /\ RejectsOverdue
  <2>1. ASSUME NEW q \in EthRequests
        PROVE  \/ requests'[q] = requests[q]
               \/ /\ Stored(q) /\ requests'[q].createdAt = requests[q].createdAt
                  /\ requests'[q].status = Success
    <3>1. q \in DOMAIN requests /\ r \in DOMAIN requests
      BY CacherAssumption DEF TypeOK, RequestsTypeOK
    <3> QED
      BY <1>3, <3>1 DEF MarkSuccess, SaveStatus, WithStatus
  <2> QED
    BY <1>3, <2>1 DEF MarkSuccess, Beside, RejectsOverdue, cacherVars
<1>4. CASE RestartCacher
  BY <1>4 DEF RestartCacher, CacherReset, Beside, RejectsOverdue
<1>5. CASE UNCHANGED vars
  BY <1>5 DEF vars, cacherVars, Beside, RejectsOverdue
<1> QED
  BY <1>1, <1>2, <1>3, <1>4, <1>5 DEF Next, Others, ChainMoves

THEOREM Inductive ==
    ASSUME MaxReorg <= BlockInterval
    PROVE  Spec => []IInv
<1>1. Init => IInv
  BY WalkInit, CacherAssumption DEF Init, RequestsInit, NoRow, RejectedInv, IInv
<1>2. IInv /\ [Next]_vars => IInv'
  <2> SUFFICES ASSUME IInv, [Next]_vars PROVE IInv'
    OBVIOUS
  <2>1. TypeOK /\ TypeOK'
    BY TypeStep DEF IInv, WalkInv, CacherTypes, TypeOK
  <2>2. WalkInv'
    BY <2>1, MirrorWalks, WalkStep DEF IInv, CacherTypes, TypeOK
  <2>3. RejectedInv'
    BY <2>1, MirrorWalks, RejectedStep DEF IInv
  <2> QED
    BY <2>2, <2>3 DEF IInv
<1> QED
  BY <1>1, <1>2, PTL DEF Spec

LEMMA StepWalks ==
    ASSUME IInv, [Next]_vars
    PROVE  WalkInv /\ RejectedInv /\ WalkNext
BY MirrorWalks DEF IInv, WalkInv, CacherTypes, TypeOK

-----------------------------------------------------------------------------
(* The properties *)

(***************************************************************************)
(* What the database says of a request is backed by a settled entry of the *)
(* contract, whatever the reorganisations, as long as none is deeper than  *)
(* BlockInterval (the blockTimeout test of cacher/eth.go).                 *)
(***************************************************************************)
THEOREM SettledAlways ==
    ASSUME MaxReorg <= BlockInterval
    PROVE  Spec => []Settled
<1>1. IInv => Settled
  BY DEF IInv, WalkInv
<1> QED
  BY Inductive, <1>1, PTL

(***************************************************************************)
(* What the database calls Rejected is finalized only in a block that is   *)
(* at most ContractTimeout - RqTimeout above the head of the last pass:    *)
(* the <= of the closing UPDATE (cacher/eth.go) against the contract's own *)
(* limit, over every reorganisation a request is left to settle for.       *)
(***************************************************************************)
THEOREM LateSuccessIsBoundedAlways ==
    ASSUME MaxReorg <= BlockInterval
    PROVE  Spec => LateSuccessIsBounded
<1>1. IInv /\ [Next]_vars =>
        [\A r \in EthRequests :
           /\ requests[r].status = Rejected
           /\ ethContract[r].status # Success /\ ethContract'[r].status = Success
           => ethContract'[r].changed + RqTimeout <= cHeight + ContractTimeout]_vars
  BY StepWalks, LateSuccessEffect
<1> QED
  BY Inductive, <1>1, PTL DEF LateSuccessIsBounded, Spec

(***************************************************************************)
(* The margin that makes a rejection (cacher/eth.go) final: a validator    *)
(* that waits for the contract's timeout and for the deepest               *)
(* reorganisation on top of it never sees a Rejected request succeed.      *)
(***************************************************************************)
THEOREM GivenUpWithMarginIsFinal ==
    ASSUME MaxReorg <= BlockInterval, ContractTimeout + MaxReorg <= RqTimeout
    PROVE  Spec => [][\A r \in EthRequests :
                        requests[r].status = Rejected /\ ethContract[r].status # Success
                          => ethContract'[r].status # Success]_vars
<1>1. IInv /\ [Next]_vars =>
        [\A r \in EthRequests :
           requests[r].status = Rejected /\ ethContract[r].status # Success
             => ethContract'[r].status # Success]_vars
  <2> SUFFICES ASSUME IInv, [Next]_vars, NEW r \in EthRequests,
                      requests[r].status = Rejected, ethContract[r].status # Success,
                      ethContract'[r].status = Success
               PROVE  FALSE
    OBVIOUS
  <2>1. RqTimeout < ContractTimeout + MaxReorg
    BY StepWalks, LateSuccessEffect
  <2> QED
    BY <2>1, EthAssumption, CacherAssumption
<1> QED
  BY Inductive, <1>1, PTL DEF Spec

(***************************************************************************)
(* The two tests for expiry of cacher/eth.go, > in the walk and <= in the  *)
(* closing UPDATE, disagree about one height only.                         *)
(***************************************************************************)
THEOREM ReopensOnlyAtDeadlineAlways ==
    ASSUME MaxReorg <= BlockInterval
    PROVE  Spec => ReopensOnlyAtDeadline
<1>1. IInv /\ [Next]_vars =>
        [\A r \in EthRequests :
           requests[r].status = Rejected /\ requests'[r].status = New
             => cHeight = requests[r].createdAt + RqTimeout]_vars
  BY StepWalks, ReopenEffect
<1> QED
  BY Inductive, <1>1, PTL DEF ReopensOnlyAtDeadline, Spec

(***************************************************************************)
(* The oldest-first walk with its "break" (cacher/eth.go): a request that  *)
(* enters the database has no older request past its time before it.       *)
(***************************************************************************)
THEOREM NoEntryBehindExpiredAlways ==
    ASSUME MaxReorg <= BlockInterval
    PROVE  Spec => NoEntryBehindExpired
<1>1. IInv /\ [Next]_vars => [EntersInOrder]_vars
  BY StepWalks, EntryEffect
<1> QED
  BY Inductive, <1>1, PTL DEF NoEntryBehindExpired, Spec
=============================================================================
