-------------------------- MODULE EthCacherProofs --------------------------
(***************************************************************************)
(* What the steps of the chain and of the cacher do, for the modules that  *)
(* put them together with other parts: types, and the invariant behind     *)
(* Settled, which holds beside any part that leaves the rows' heights be.  *)
(***************************************************************************)
EXTENDS EthCacher, TLAPS

USE DEF None, New, Rejected, Success, Returned, Status

Height(r) == ethContract[r].height

(***************************************************************************)
(* What new blocks above base can make of an entry: its creation is where  *)
(* it was, or in one of them, or gone; Success is the old one, or that of  *)
(* a transaction sent before, in one of them.                              *)
(***************************************************************************)
LEMMA RewriteEffect ==
    ASSUME EthTypeOK, NEW base \in Nat, NEW r \in EthRequests, NEW e \in Rewritten(r, base)
    PROVE  /\ e \in Entry
           /\ \/ e.height = Height(r)
              \/ /\ e.height = 0 \/ (base < e.height /\ e.height <= ethHeight)
                 /\ Height(r) = 0 \/ base < Height(r)
           /\ e.status = Rejected => ethContract[r].status = Rejected
           /\ e.status = Success =>
                \/ e = ethContract[r]
                \/ /\ (r \in ethPool \/ ethContract[r].status = Success)
                   /\ base < e.changed /\ e.changed <= e.height + ContractTimeout
<1> DEFINE blocks == base + 1 .. ethHeight
           old    == RolledBack(ethContract[r], base)
           live   == {old} \cup {Created(h) : h \in {b \in blocks : old.height = 0}}
<1>t. ethContract[r] \in Entry /\ ethHeight \in Nat /\ blocks \subseteq Nat
  BY DEF EthTypeOK
<1>1. /\ old \in Entry
      /\ old.height = Height(r) \/ (old.height = 0 /\ base < Height(r))
      /\ old.status = Rejected => ethContract[r].status = Rejected
      /\ old.status = Success => old = ethContract[r]
  BY <1>t DEF RolledBack, Changed, NoEntry, Entry, Height
<1>2. ASSUME NEW c \in live
      PROVE  /\ c \in Entry
             /\ \/ c.height = Height(r)
                \/ /\ c.height = 0 \/ (base < c.height /\ c.height <= ethHeight)
                   /\ Height(r) = 0 \/ base < Height(r)
             /\ c.status = Rejected => ethContract[r].status = Rejected
             /\ c.status = Success => c = ethContract[r]
  BY <1>t, <1>1 DEF Created, Entry
<1>3. CASE e \in live
  BY <1>2, <1>3
<1>4. ASSUME NEW c \in live, NEW h \in blocks, e = Changed(c, Success, h),
             r \in ethPool \cup Undone(base), Accepts(c, h)
      PROVE  /\ e \in Entry /\ e.height = c.height /\ e.changed = h /\ e.status = Success
             /\ h <= c.height + ContractTimeout /\ base < h
             /\ (r \in ethPool \/ ethContract[r].status = Success)
  BY <1>t, <1>2, <1>4 DEF Changed, Accepts, Entry, Undone
<1>5. ASSUME NEW c \in live, NEW h \in blocks, e = Changed(c, Returned, h)
      PROVE  e \in Entry /\ e.height = c.height /\ e.status = Returned
  BY <1>t, <1>2, <1>5 DEF Changed, Entry
<1>6. \/ e \in live
      \/ /\ r \in ethPool \cup Undone(base)
         /\ \E c \in live, h \in blocks : e = Changed(c, Success, h) /\ Accepts(c, h)
      \/ \E c \in live, h \in blocks : e = Changed(c, Returned, h)
  BY DEF Rewritten
<1> QED
  BY <1>2, <1>3, <1>4, <1>5, <1>6

(***************************************************************************)
(* The steps of the chain keep the types of its variables.                 *)
(***************************************************************************)
LEMMA ChainType ==
    EthTypeOK /\ (EthEnvironment \/ \E r \in EthRequests : Submit(r)) => EthTypeOK'
<1>1. ASSUME EthTypeOK, MineBlock PROVE EthTypeOK'
  <2>1. ethHeight' \in Nat
    BY <1>1 DEF MineBlock, EthTypeOK
  <2>2. ethContract' \in [EthRequests -> Entry]
    BY <1>1 DEF MineBlock, EthTypeOK, Entry, Created, Changed
  <2>3. ethPool' \subseteq EthRequests
    BY <1>1 DEF MineBlock, EthTypeOK
  <2> QED
    BY <2>1, <2>2, <2>3 DEF EthTypeOK
<1>2. ASSUME EthTypeOK, Reorganize PROVE EthTypeOK'
  <2>1. PICK base \in Nat : ReplaceBlocks(base)
    BY <1>2 DEF Reorganize
  <2>2. ethContract' \in [EthRequests -> Entry]
    BY <1>2, <2>1, RewriteEffect DEF ReplaceBlocks
  <2> QED
    BY <1>2, <2>1, <2>2 DEF EthTypeOK, ReplaceBlocks, Undone
<1>3. ASSUME EthTypeOK, NEW r \in EthRequests, DropTx(r) \/ Submit(r) PROVE EthTypeOK'
  BY <1>3 DEF EthTypeOK, DropTx, Submit
<1> QED
  BY <1>1, <1>2, <1>3 DEF EthEnvironment

(***************************************************************************)
(* handleEthLogs keeps the types and drops no row.                         *)
(***************************************************************************)
LEMMA CacherType ==
    EthTypeOK /\ RequestsTypeOK /\ CacherTypeOK /\ HandleEthLogs =>
        /\ RequestsTypeOK' /\ CacherTypeOK' /\ UNCHANGED ethVars
<1> SUFFICES ASSUME EthTypeOK, RequestsTypeOK, CacherTypeOK, HandleEthLogs
             PROVE  RequestsTypeOK' /\ CacherTypeOK' /\ UNCHANGED ethVars
  OBVIOUS
<1> USE DEF EthTypeOK, RequestsTypeOK, CacherTypeOK
<1>1. CASE ReadHead
  BY <1>1 DEF ReadHead
<1>2. CASE FilterLogs
  <2>1. cLogs' \subseteq Log
    BY <1>2 DEF FilterLogs, Log, Entry, Logged
  <2> QED
    BY <1>2, <2>1 DEF FilterLogs
<1>3. ASSUME NEW l \in cLogs, SkipRecent(l) \/ StopAtExpired(l) \/ ReadRequest(l)
      PROVE  RequestsTypeOK' /\ CacherTypeOK' /\ UNCHANGED ethVars
  <2>1. l.rq \in EthRequests
    BY DEF Log
  <2>2. CASE SkipRecent(l)
    BY <2>2 DEF SkipRecent
  <2>3. CASE StopAtExpired(l)
    BY <2>3 DEF StopAtExpired
  <2>4. CASE ReadRequest(l)
    <3>1. cRead' \in Read
      BY <2>1, <2>4 DEF ReadRequest, Read, Entry
    <3> QED
      BY <2>4, <3>1 DEF ReadRequest
  <2> QED
    BY <1>3, <2>2, <2>3, <2>4
<1>4. CASE EndOfLogs
  BY <1>4 DEF EndOfLogs
<1>5. CASE StoreRequest
  <2>1. requests' \in [RequestIds -> Row]
    BY <1>5, CacherAssumption DEF StoreRequest, Read, Row, Refreshed, WithStatus
  <2> QED
    BY <1>5, <2>1 DEF StoreRequest
<1>6. CASE ExpireRequests
  <2>1. Expired \in [RequestIds -> Row]
    BY DEF Expired, Row, WithStatus
  <2> QED
    BY <1>6, <2>1 DEF ExpireRequests
<1>7. CASE FailPass
  BY <1>7 DEF FailPass, CacherReset
<1> QED
  BY <1>1, <1>2, <1>3, <1>4, <1>5, <1>6, <1>7 DEF HandleEthLogs

-----------------------------------------------------------------------------
(* A row is backed by a settled entry *)

HeadInv == EthStart <= cHeight /\ cHeight <= ethHeight

ContractInv == \A r \in EthRequests :
    Height(r) <= ethHeight /\ ethContract[r].status # Rejected

ReadInv == cPc = "store" =>
    /\ Logged(cRead.rq) /\ cRead.height = Height(cRead.rq)
    /\ cRead.height + BlockInterval <= cHeight
    /\ cHeight <= cRead.height + RqTimeout
    /\ cRead.status # Rejected
    /\ \A q \in EthRequests :
         Logged(q) /\ Height(q) < cRead.height => cHeight <= Height(q) + RqTimeout

LogsInv == cPc \in {"next", "store"} =>
    /\ \A l \in cLogs :
         l.height = Height(l.rq) \/ Height(l.rq) + BlockInterval > cHeight \/ ~Logged(l.rq)
    /\ \A q \in EthRequests : Logged(q) /\ Height(q) + BlockInterval <= cHeight =>
         [rq |-> q, height |-> Height(q)] \in cLogs \/ cHeight <= Height(q) + RqTimeout

CacherTypes == EthTypeOK /\ RequestsTypeOK /\ CacherTypeOK

WalkInv == CacherTypes /\ HeadInv /\ ContractInv /\ ReadInv /\ LogsInv /\ Settled

ChainMoves == EthEnvironment \/ \E r \in EthRequests : Submit(r)

(***************************************************************************)
(* What a step of the chain can do to an entry: its height stays, or is    *)
(* lost with one of the newest MaxReorg blocks, or is that of a new one; a *)
(* status never becomes Rejected, and becomes Success only in a new block  *)
(* that is in the request's time, by a transaction sent before.            *)
(***************************************************************************)
LEMMA ChainEffect ==
    ASSUME EthTypeOK, ContractInv, ChainMoves
    PROVE  /\ ethHeight' \in Nat /\ ethHeight <= ethHeight'
           /\ ContractInv'
           /\ \A r \in EthRequests :
                /\ \/ Height(r)' = Height(r)
                   \/ /\ Height(r)' = 0 \/ Height(r)' + MaxReorg > ethHeight
                      /\ ~Logged(r) \/ Height(r) + MaxReorg > ethHeight
                /\ ethContract[r].status # Success /\ ethContract'[r].status = Success
                     => /\ r \in ethPool
                        /\ ethContract'[r].changed <= Height(r)' + ContractTimeout
                        /\ ethContract'[r].changed + MaxReorg > ethHeight
<1> USE DEF EthTypeOK, ContractInv, Height, Logged, Entry
<1>1. CASE MineBlock
  BY <1>1, EthAssumption DEF MineBlock, Created, Changed, Accepts
<1>2. CASE Reorganize
  <2>1. PICK base \in Nat : ethHeight <= base + MaxReorg /\ ReplaceBlocks(base)
    BY <1>2 DEF Reorganize
  <2>2. ethHeight' = ethHeight /\ EthTypeOK'
    BY <1>2, <2>1, ChainType DEF ReplaceBlocks, EthEnvironment
  <2>3. ASSUME NEW r \in EthRequests PROVE ethContract'[r] \in Rewritten(r, base)
    BY <2>1 DEF ReplaceBlocks
  <2>4. ASSUME NEW r \in EthRequests
        PROVE  /\ \/ Height(r)' = Height(r)
                  \/ /\ Height(r)' = 0 \/ (base < Height(r)' /\ Height(r)' <= ethHeight)
                     /\ Height(r) = 0 \/ base < Height(r)
               /\ ethContract'[r].status # Rejected
               /\ ethContract[r].status # Success /\ ethContract'[r].status = Success
                    => /\ r \in ethPool /\ base < ethContract'[r].changed
                       /\ ethContract'[r].changed <= Height(r)' + ContractTimeout
    BY <2>3, RewriteEffect
  <2> QED
    BY <2>1, <2>2, <2>4, EthAssumption
<1>3. ASSUME NEW r \in EthRequests, DropTx(r) \/ Submit(r)
      PROVE  UNCHANGED <<ethHeight, ethContract>>
  BY <1>3 DEF DropTx, Submit
<1> QED
  BY <1>1, <1>2, <1>3 DEF ChainMoves, EthEnvironment

(***************************************************************************)
(* A step of the chain keeps the invariant when no reorganisation is       *)
(* deeper than the blocks a request is left to settle.                     *)
(***************************************************************************)
LEMMA ChainKeepsWalk ==
    ASSUME MaxReorg <= BlockInterval, WalkInv, ChainMoves, UNCHANGED <<requests, cacherVars>>
    PROVE  HeadInv' /\ ContractInv' /\ ReadInv' /\ LogsInv' /\ Settled'
<1> USE EthAssumption, CacherAssumption
<1>t. EthTypeOK /\ RequestsTypeOK /\ CacherTypeOK /\ EthTypeOK'
  BY ChainType DEF WalkInv, CacherTypes, ChainMoves
<1>e. /\ ethHeight' \in Nat /\ ethHeight <= ethHeight'
      /\ ContractInv'
      /\ \A r \in EthRequests :
           \/ Height(r)' = Height(r)
           \/ /\ Height(r)' = 0 \/ Height(r)' + MaxReorg > ethHeight
              /\ ~Logged(r) \/ Height(r) + MaxReorg > ethHeight
  BY <1>t, ChainEffect DEF WalkInv
<1>h. \A r \in EthRequests : Height(r) \in Nat /\ Height(r)' \in Nat
  BY <1>t DEF EthTypeOK, Entry, Height
<1>l. \A r \in EthRequests : (Logged(r) <=> Height(r) > 0) /\ (Logged(r)' <=> Height(r)' > 0)
  BY DEF Logged, Height
<1>u. cPc' = cPc /\ cHeight' = cHeight /\ cLogs' = cLogs /\ cRead' = cRead /\ requests' = requests
  BY DEF cacherVars
<1>n. cHeight \in Nat /\ EthStart <= cHeight /\ cHeight <= ethHeight /\ ethHeight \in Nat
  BY <1>t DEF WalkInv, HeadInv, CacherTypeOK, EthTypeOK
<1>1. HeadInv'
  BY <1>e, <1>u, <1>n DEF HeadInv
<1>2. ReadInv'
  <2> SUFFICES ASSUME cPc = "store" PROVE ReadInv'
    BY <1>u DEF ReadInv
  <2>1. cRead.rq \in EthRequests /\ cRead.height \in Nat
    BY <1>t DEF CacherTypeOK, Read
  <2>2. PICK c \in EthRequests : c = cRead.rq
    BY <2>1
  <2>3. Height(c)' = Height(c) /\ Logged(c)'
    <3>1. Logged(c) /\ Height(c) + BlockInterval <= cHeight
      BY <2>1, <2>2 DEF WalkInv, ReadInv
    <3> QED
      BY <3>1, <1>e, <1>h, <1>l, <1>n
  <2>4. ASSUME NEW q \in EthRequests, Logged(q)', Height(q)' < cRead.height
        PROVE  cHeight <= Height(q)' + RqTimeout
    <3>1. cRead.height + BlockInterval <= ethHeight
      BY <2>1, <1>n DEF WalkInv, ReadInv
    <3>2. Height(q)' = Height(q) /\ Logged(q)
      BY <2>1, <2>4, <3>1, <1>e, <1>h, <1>l, <1>n
    <3> QED
      BY <2>4, <3>2 DEF WalkInv, ReadInv
  <2> QED
    BY <2>2, <2>3, <2>4, <1>u DEF WalkInv, ReadInv, Height, Logged
<1>3. LogsInv'
  <2> SUFFICES ASSUME cPc \in {"next", "store"} PROVE LogsInv'
    BY <1>u DEF LogsInv
  <2>1. ASSUME NEW l \in cLogs
        PROVE  \/ l.height = Height(l.rq)' \/ ~Logged(l.rq)'
               \/ Height(l.rq)' + BlockInterval > cHeight
    <3>1. l.rq \in EthRequests /\ l.height \in Nat
      BY <1>t DEF CacherTypeOK, Log
    <3>2. l.height = Height(l.rq) \/ Height(l.rq) + BlockInterval > cHeight \/ ~Logged(l.rq)
      BY DEF WalkInv, LogsInv
    <3> QED
      BY <3>1, <3>2, <1>e, <1>h, <1>l, <1>n
  <2>2. ASSUME NEW q \in EthRequests, Logged(q)', Height(q)' + BlockInterval <= cHeight
        PROVE  [rq |-> q, height |-> Height(q)'] \in cLogs \/ cHeight <= Height(q)' + RqTimeout
    <3>1. Height(q)' = Height(q) /\ Logged(q)
      BY <2>2, <1>e, <1>h, <1>l, <1>n
    <3> QED
      BY <2>2, <3>1 DEF WalkInv, LogsInv
  <2> QED
    BY <2>1, <2>2, <1>u DEF LogsInv
<1>4. Settled'
  <2> SUFFICES ASSUME NEW r \in EthRequests, Stored(r)'
               PROVE  /\ Logged(r)' /\ requests'[r].createdAt = ethContract'[r].height
                      /\ requests'[r].createdAt + BlockInterval <= ethHeight'
    BY DEF Settled
  <2>1. Logged(r) /\ requests[r].createdAt = Height(r) /\ Height(r) + BlockInterval <= ethHeight
    BY <1>u DEF WalkInv, Settled, Stored, Height
  <2>2. Height(r)' = Height(r)
    BY <2>1, <1>e, <1>h, <1>l, <1>n
  <2> QED
    BY <2>1, <2>2, <1>e, <1>h, <1>l, <1>n, <1>u DEF Height
<1> QED
  BY <1>1, <1>2, <1>3, <1>4, <1>e

(***************************************************************************)
(* A step that leaves the chain, the row heights and the walk alone keeps  *)
(* the invariant.                                                          *)
(***************************************************************************)
LEMMA QuietKeepsWalk ==
    ASSUME WalkInv, CacherTypes', UNCHANGED <<ethVars, cHeight>>,
           \/ UNCHANGED <<cPc, cLogs, cRead>>
           \/ cPc' \in {"head", "expire"},
           \A r \in EthRequests :
              /\ requests'[r].createdAt = requests[r].createdAt
              /\ Stored(r)' => Stored(r)
    PROVE  WalkInv'
<1>1. HeadInv' /\ ContractInv'
  BY DEF WalkInv, HeadInv, ContractInv, Height, ethVars
<1>2. ReadInv' /\ LogsInv'
  BY DEF WalkInv, ReadInv, LogsInv, Height, Logged, ethVars
<1>3. Settled'
  BY DEF WalkInv, Settled, Logged, ethVars
<1> QED
  BY <1>1, <1>2, <1>3 DEF WalkInv

(***************************************************************************)
(* Every step of handleEthLogs keeps the invariant.                        *)
(***************************************************************************)
LEMMA CacherKeepsWalk ==
    ASSUME WalkInv, CacherTypes', HandleEthLogs
    PROVE  WalkInv'
<1> USE EthAssumption, CacherAssumption
<1>t. EthTypeOK /\ RequestsTypeOK /\ CacherTypeOK
  BY DEF WalkInv, CacherTypes
<1>1. CASE ReadHead
  <2>1. HeadInv' /\ ReadInv' /\ LogsInv'
    BY <1>1, <1>t DEF WalkInv, HeadInv, ReadInv, LogsInv, ReadHead, ethVars, EthTypeOK, CacherTypeOK
  <2>2. ContractInv' /\ Settled'
    BY <1>1 DEF WalkInv, ContractInv, Settled, Stored, Logged, Height, ReadHead, ethVars
  <2> QED
    BY <2>1, <2>2 DEF WalkInv
<1>2. CASE FilterLogs
  <2>1. LogsInv'
    BY <1>2, <1>t DEF LogsInv, FilterLogs, Height, Logged, ethVars, Entry, EthTypeOK
  <2> QED
    BY <1>2, <2>1
    DEF WalkInv, HeadInv, ContractInv, ReadInv, Settled, Height, Logged, Stored,
        FilterLogs, ethVars
<1>3. ASSUME NEW l \in cLogs, SkipRecent(l) PROVE WalkInv'
  <2>1. LogsInv'
    <3> SUFFICES ASSUME NEW q \in EthRequests, Logged(q), Height(q) + BlockInterval <= cHeight
                 PROVE  \/ [rq |-> q, height |-> Height(q)] \in cLogs \ {l}
                        \/ cHeight <= Height(q) + RqTimeout
      BY <1>3 DEF LogsInv, WalkInv, SkipRecent, Height, Logged, ethVars
    <3>1. CASE q = l.rq
      BY <1>3, <1>t, <3>1 DEF SkipRecent, TooRecent, Height, EthTypeOK, Entry, CacherTypeOK
    <3>2. CASE q # l.rq
      BY <1>3, <3>2 DEF WalkInv, LogsInv, SkipRecent
    <3> QED
      BY <3>1, <3>2
  <2> QED
    BY <1>3, <2>1
    DEF WalkInv, HeadInv, ContractInv, ReadInv, Settled, Height, Logged, Stored,
        SkipRecent, ethVars
<1>4. ASSUME NEW l \in cLogs, StopAtExpired(l) PROVE WalkInv'
  BY <1>4, QuietKeepsWalk DEF StopAtExpired, ethVars, Stored
<1>5. ASSUME NEW l \in cLogs, ReadRequest(l) PROVE WalkInv'
  <2>1. PICK c \in EthRequests : c = l.rq
    BY <1>t DEF CacherTypeOK, Log
  <2>2. /\ cRead' = [rq |-> c, height |-> Height(c), status |-> ethContract[c].status]
        /\ cHeight' = cHeight /\ cLogs' = cLogs \ {l} /\ requests' = requests
        /\ UNCHANGED ethVars /\ cPc = "next" /\ cPc' = "store"
    BY <1>5, <2>1 DEF ReadRequest, Height
  <2>3. /\ Height(c) \in Nat /\ cHeight \in Nat /\ EthStart <= cHeight
        /\ Height(c) + BlockInterval <= cHeight /\ cHeight <= Height(c) + RqTimeout
    BY <1>5, <1>t, <2>1
    DEF ReadRequest, TooRecent, TooOld, Height, EthTypeOK, Entry, CacherTypeOK, WalkInv, HeadInv
  <2>4. Logged(c)
    BY <2>3 DEF Logged, Height
  <2>5. l.height = Height(c)
    BY <2>1, <2>2, <2>3, <2>4 DEF WalkInv, LogsInv
  <2>6. ASSUME NEW q \in EthRequests, Logged(q), Height(q) < Height(c)
        PROVE  cHeight <= Height(q) + RqTimeout
    <3>1. Height(q) \in Nat
      BY <1>t DEF Height, EthTypeOK, Entry
    <3>2. CASE [rq |-> q, height |-> Height(q)] \in cLogs
      <4>1. l.height <= Height(q)
        BY <1>5, <3>2 DEF ReadRequest, Oldest
      <4> QED
        BY <2>3, <2>5, <2>6, <3>1, <4>1
    <3>3. Height(q) + BlockInterval <= cHeight
      BY <2>3, <2>6, <3>1
    <3> QED
      BY <2>2, <2>6, <3>2, <3>3 DEF WalkInv, LogsInv
  <2>7. ReadInv'
    BY <2>2, <2>3, <2>4, <2>6 DEF ReadInv, WalkInv, ContractInv, Height, Logged, ethVars
  <2>8. LogsInv'
    <3>1. ASSUME NEW q \in EthRequests, Logged(q), Height(q) + BlockInterval <= cHeight
          PROVE  \/ [rq |-> q, height |-> Height(q)] \in cLogs \ {l}
                 \/ cHeight <= Height(q) + RqTimeout
      BY <2>1, <2>2, <2>3, <3>1 DEF WalkInv, LogsInv
    <3> QED
      BY <2>2, <3>1 DEF LogsInv, WalkInv, Height, Logged, ethVars
  <2> QED
    BY <2>2, <2>7, <2>8
    DEF WalkInv, HeadInv, ContractInv, Settled, Height, Logged, Stored, ethVars
<1>6. CASE EndOfLogs
  BY <1>6, QuietKeepsWalk DEF EndOfLogs, ethVars, Stored
<1>7. CASE StoreRequest
  <2>1. PICK c \in EthRequests : c = cRead.rq
    BY <1>7, <1>t DEF StoreRequest, CacherTypeOK, Read
  <2>2. PICK found \in FindRequest(c) :
          requests' = [requests EXCEPT ![c] =
             IF found THEN WithStatus(requests[c], cRead.status)
                      ELSE [createdAt |-> cRead.height, status |-> cRead.status]]
    BY <1>7, <2>1 DEF StoreRequest, Refreshed
  <2>3. found => Stored(c)
    BY <2>2 DEF FindRequest
  <2>4. /\ Logged(c) /\ cRead.height = Height(c)
        /\ cRead.height + BlockInterval <= cHeight /\ cRead.status # Rejected
    BY <1>7, <2>1 DEF WalkInv, ReadInv, StoreRequest
  <2>5. ASSUME NEW r \in EthRequests, r # c
        PROVE  requests'[r] = requests[r]
    BY <1>t, <2>2, <2>5, CacherAssumption DEF RequestsTypeOK
  <2>6. requests'[c].createdAt = Height(c) /\ requests'[c].status # Rejected
    <3>1. c \in DOMAIN requests
      BY <1>t, CacherAssumption DEF RequestsTypeOK
    <3>2. CASE found
      BY <2>2, <2>3, <2>4, <3>1, <3>2 DEF WalkInv, Settled, Height, WithStatus
    <3>3. CASE ~found
      BY <2>2, <2>4, <3>1, <3>3
    <3> QED
      BY <3>2, <3>3
  <2>7. Settled'
    <3>1. ASSUME NEW r \in EthRequests, Stored(r)'
          PROVE  Logged(r) /\ requests'[r].createdAt = Height(r)
                 /\ requests'[r].createdAt + BlockInterval <= ethHeight
      <4>1. CASE r = c
        <5>1. Height(c) \in Nat /\ cHeight \in Nat /\ ethHeight \in Nat /\ cHeight <= ethHeight
          BY <1>t DEF Height, EthTypeOK, Entry, CacherTypeOK, WalkInv, HeadInv
        <5> QED
          BY <2>4, <2>6, <4>1, <5>1
      <4>2. CASE r # c
        BY <2>5, <3>1, <4>2 DEF WalkInv, Settled, Stored, Height
      <4> QED
        BY <4>1, <4>2
    <3> QED
      BY <1>7, <3>1 DEF Settled, StoreRequest, Logged, Height, ethVars
  <2>8. HeadInv' /\ ContractInv' /\ ReadInv' /\ LogsInv'
    BY <1>7 DEF WalkInv, HeadInv, ContractInv, ReadInv, LogsInv, StoreRequest, Height, Logged, ethVars
  <2> QED
    BY <2>7, <2>8 DEF WalkInv
<1>8. CASE ExpireRequests
  <2>1. ASSUME NEW r \in EthRequests
        PROVE  /\ requests'[r].createdAt = requests[r].createdAt
               /\ Stored(r)' => Stored(r)
    <3>1. r \in RequestIds /\ requests[r].createdAt \in Nat /\ cHeight \in Nat
      BY <1>t, CacherAssumption DEF RequestsTypeOK, Row, CacherTypeOK
    <3>2. CASE requests' = requests
      BY <3>2 DEF Stored
    <3>3. CASE requests' = Expired
      BY <3>1, <3>3 DEF Expired, Stored, PastTime, WithStatus
    <3> QED
      BY <1>8, <3>2, <3>3 DEF ExpireRequests
  <2> QED
    BY <1>8, <2>1, QuietKeepsWalk DEF ExpireRequests, ethVars
<1>9. CASE FailPass
  BY <1>9, QuietKeepsWalk DEF FailPass, CacherReset, ethVars, Stored
<1> QED
  BY <1>1, <1>2, <1>3, <1>4, <1>5, <1>6, <1>7, <1>8, <1>9 DEF HandleEthLogs

(***************************************************************************)
(* The steps of a system in which handleEthLogs runs.  Those of its other  *)
(* parts leave the chain and the head of the pass alone, as well as the    *)
(* rest of the pass unless the process starts again; of the rows they may  *)
(* finalize or reject some that are there.                                 *)
(***************************************************************************)
Beside ==
    /\ UNCHANGED <<ethVars, cHeight>>
    /\ UNCHANGED <<cPc, cLogs, cRead>> \/ cPc' = "head"
    /\ \A r \in EthRequests :
         \/ requests'[r] = requests[r]
         \/ /\ Stored(r) /\ requests'[r].createdAt = requests[r].createdAt
            /\ requests'[r].status \in {Success, Rejected}

ChainStep == ChainMoves /\ UNCHANGED <<requests, cacherVars>>

WalkNext == HandleEthLogs \/ ChainStep \/ Beside

LEMMA WalkInit ==
    ASSUME EthInit, RequestsInit, CacherInit
    PROVE  WalkInv
<1>1. NoEntry \in Entry /\ NoRow \in Row
  BY DEF NoEntry, Entry, NoRow, Row
<1>2. CacherTypes
  BY <1>1, EthAssumption
  DEF EthInit, RequestsInit, CacherInit, CacherTypes, EthTypeOK, RequestsTypeOK, CacherTypeOK
<1>3. HeadInv /\ ContractInv /\ ReadInv /\ LogsInv
  BY EthAssumption
  DEF EthInit, CacherInit, NoEntry, Height, HeadInv, ContractInv, ReadInv, LogsInv
<1>4. Settled
  BY CacherAssumption DEF RequestsInit, NoRow, Stored, Settled
<1> QED
  BY <1>2, <1>3, <1>4 DEF WalkInv

LEMMA WalkStep ==
    ASSUME MaxReorg <= BlockInterval, WalkInv, CacherTypes', WalkNext
    PROVE  WalkInv'
<1>1. CASE HandleEthLogs
  BY <1>1, CacherKeepsWalk
<1>2. CASE ChainStep
  BY <1>2, ChainKeepsWalk DEF ChainStep, WalkInv
<1>3. CASE Beside
  <2>1. UNCHANGED <<cPc, cLogs, cRead>> \/ cPc' \in {"head", "expire"}
    BY <1>3 DEF Beside
  <2>2. ASSUME NEW r \in EthRequests
        PROVE  requests'[r].createdAt = requests[r].createdAt /\ (Stored(r)' => Stored(r))
    BY <1>3 DEF Beside, Stored
  <2> QED
    BY <1>3, <2>1, <2>2, QuietKeepsWalk DEF Beside
<1> QED
  BY <1>1, <1>2, <1>3 DEF WalkNext

(***************************************************************************)
(* No row is ever deleted.                                                 *)
(***************************************************************************)
LEMMA RowsStay ==
    ASSUME WalkInv, WalkNext, NEW r \in EthRequests, Stored(r)
    PROVE  Stored(r)'
<1> USE DEF Stored, NoRow
<1>r. r \in RequestIds /\ requests \in [RequestIds -> Row]
  BY CacherAssumption DEF WalkInv, CacherTypes, RequestsTypeOK
<1>1. CASE StoreRequest
  <2>1. CASE r # cRead.rq
    BY <1>1, <1>r, <2>1 DEF StoreRequest
  <2>2. CASE r = cRead.rq
    <3>1. requests'[r].createdAt = requests[r].createdAt \/ requests'[r].createdAt = cRead.height
      BY <1>1, <1>r, <2>2 DEF StoreRequest, Refreshed, WithStatus
    <3>2. requests[r].createdAt > 0 /\ cRead.height > 0
      BY <1>1, <2>2 DEF WalkInv, CacherTypes, EthTypeOK, Entry, ReadInv, StoreRequest, Settled,
                        Logged, Height
    <3> QED
      BY <3>1, <3>2
  <2> QED
    BY <2>1, <2>2
<1>2. CASE ExpireRequests
  BY <1>r, <1>2 DEF ExpireRequests, Expired, WithStatus
<1>3. CASE Beside
  BY <1>3 DEF Beside
<1>4. CASE UNCHANGED requests
  BY <1>4
<1> QED
  BY <1>1, <1>2, <1>3, <1>4
  DEF WalkNext, ChainStep, HandleEthLogs, ReadHead, FilterLogs, SkipRecent, StopAtExpired,
      ReadRequest, EndOfLogs, FailPass

-----------------------------------------------------------------------------
(* What only StoreRequest does to a row *)

(***************************************************************************)
(* What StoreRequest writes comes from the read that precedes it.          *)
(***************************************************************************)
LEMMA StoreEffect ==
    ASSUME WalkInv, StoreRequest
    PROVE  \E c \in EthRequests :
             /\ Logged(c) /\ cRead.height = Height(c)
             /\ cHeight <= Height(c) + RqTimeout
             /\ \A q \in EthRequests :
                  Logged(q) /\ Height(q) < Height(c) => cHeight <= Height(q) + RqTimeout
             /\ \A r \in EthRequests : r # c => requests'[r] = requests[r]
<1>1. PICK c \in EthRequests : c = cRead.rq
  BY DEF StoreRequest, WalkInv, CacherTypes, CacherTypeOK, Read
<1>2. \A r \in EthRequests : r # c => requests'[r] = requests[r]
  BY <1>1, CacherAssumption DEF StoreRequest, WalkInv, CacherTypes, RequestsTypeOK
<1> QED
  BY <1>1, <1>2 DEF WalkInv, ReadInv, StoreRequest

(***************************************************************************)
(* The steps that can turn a Rejected row into a New one, or put a row     *)
(* where there was none, are those of StoreRequest.                        *)
(***************************************************************************)
LEMMA OnlyStoreRequest ==
    ASSUME CacherTypes, WalkNext, ~StoreRequest, NEW r \in EthRequests
    PROVE  /\ ~Stored(r) => requests'[r] = NoRow
           /\ requests[r].status = Rejected => requests'[r].status # New
<1>1. r \in RequestIds /\ requests \in [RequestIds -> Row]
  BY CacherAssumption DEF CacherTypes, RequestsTypeOK
<1>2. CASE UNCHANGED requests
  BY <1>2 DEF Stored
<1>3. CASE ExpireRequests
  BY <1>1, <1>2, <1>3 DEF ExpireRequests, Expired, Stored, WithStatus
<1>4. CASE Beside
  BY <1>4 DEF Beside, Stored
<1> QED
  BY <1>2, <1>3, <1>4
  DEF WalkNext, ChainStep, HandleEthLogs, ReadHead, FilterLogs, SkipRecent, StopAtExpired,
      ReadRequest, EndOfLogs, FailPass

(***************************************************************************)
(* A request that enters the table has no older one past its time.         *)
(***************************************************************************)
LEMMA EntryEffect ==
    ASSUME WalkInv, WalkNext
    PROVE  EntersInOrder
<1> SUFFICES ASSUME NEW r \in EthRequests, NEW q \in EthRequests, ~Stored(r),
                    requests'[r] # NoRow, Logged(q), Height(q) < Height(r)
             PROVE  cHeight <= Height(q) + RqTimeout
  BY DEF EntersInOrder, Height
<1>1. StoreRequest
  BY OnlyStoreRequest DEF WalkInv
<1>2. requests'[r] # requests[r]
  BY DEF Stored
<1> QED
  BY <1>1, <1>2, StoreEffect

-----------------------------------------------------------------------------
(* What is Rejected was past its time at the head of some pass *)

RejectedInv == \A r \in EthRequests :
    requests[r].status = Rejected => requests[r].createdAt + RqTimeout <= cHeight

\* A step beside the cacher that rejects a row would have to know its head.
RejectsOverdue == \A r \in EthRequests :
    requests'[r].status = Rejected =>
        requests[r].status = Rejected \/ requests[r].createdAt + RqTimeout <= cHeight

(***************************************************************************)
(* What the cacher leaves Rejected was so before, or is past its time at   *)
(* the head of the pass.                                                   *)
(***************************************************************************)
LEMMA CacherRejects ==
    ASSUME WalkInv, HandleEthLogs, NEW r \in EthRequests, requests'[r].status = Rejected
    PROVE  \/ requests'[r] = requests[r]
           \/ requests'[r].createdAt + RqTimeout <= cHeight
<1> USE CacherAssumption DEF WalkInv
<1>t. EthTypeOK /\ RequestsTypeOK /\ CacherTypeOK
  BY DEF CacherTypes
<1>r. r \in RequestIds /\ requests[r] \in Row
  BY <1>t DEF RequestsTypeOK
<1>1. CASE StoreRequest
  <2>1. cRead.rq # r => requests'[r] = requests[r]
    BY <1>1, <1>r, <1>t DEF StoreRequest, RequestsTypeOK
  <2>2. cRead.rq = r => requests'[r].status # Rejected
    <3>1. r \in DOMAIN requests /\ cRead.status # Rejected
      BY <1>1, <1>r, <1>t DEF StoreRequest, ReadInv, RequestsTypeOK
    <3> QED
      BY <1>1, <3>1 DEF StoreRequest, Refreshed, WithStatus
  <2> QED
    BY <2>1, <2>2
<1>2. CASE ExpireRequests
  <2>1. requests[r].createdAt \in Nat /\ cHeight \in Nat
    BY <1>r, <1>t DEF Row, CacherTypeOK
  <2>2. CASE requests' = Expired
    BY <1>r, <2>1, <2>2 DEF Expired, PastTime, WithStatus
  <2> QED
    BY <1>2, <2>2 DEF ExpireRequests
<1> QED
  BY <1>1, <1>2
  DEF HandleEthLogs, ReadHead, FilterLogs, SkipRecent, StopAtExpired, ReadRequest, EndOfLogs,
      FailPass

LEMMA RejectedStep ==
    ASSUME WalkInv, RejectedInv, WalkNext, HandleEthLogs \/ RejectsOverdue
    PROVE  RejectedInv'
<1> SUFFICES ASSUME NEW r \in EthRequests, requests'[r].status = Rejected
             PROVE  requests'[r].createdAt + RqTimeout <= cHeight'
  BY DEF RejectedInv
<1> USE CacherAssumption DEF WalkInv
<1>t. EthTypeOK /\ CacherTypeOK /\ requests[r] \in Row
  BY DEF CacherTypes, RequestsTypeOK
<1>1. CASE ReadHead
  <2>1. cHeight <= cHeight' /\ cHeight \in Nat /\ cHeight' \in Nat /\ requests' = requests
    BY <1>1, <1>t DEF HeadInv, ReadHead, EthTypeOK, CacherTypeOK
  <2> QED
    BY <1>t, <2>1 DEF RejectedInv, Row
<1>2. CASE HandleEthLogs /\ ~ReadHead
  <2>1. cHeight' = cHeight
    BY <1>2 DEF HandleEthLogs, FilterLogs, SkipRecent, StopAtExpired, ReadRequest, EndOfLogs,
                StoreRequest, ExpireRequests, FailPass, CacherReset
  <2> QED
    BY <1>2, <2>1, CacherRejects DEF RejectedInv
<1>3. CASE Beside /\ RejectsOverdue
  BY <1>3 DEF Beside, RejectsOverdue, RejectedInv
<1>4. CASE ChainStep
  BY <1>4 DEF ChainStep, cacherVars, RejectedInv
<1> QED
  BY <1>1, <1>2, <1>3, <1>4 DEF WalkNext

(***************************************************************************)
(* What becomes Success beside a row does so in a block of the request's   *)
(* time that is not older than a reorganisation reaches.                   *)
(***************************************************************************)
LEMMA SuccessEffect ==
    ASSUME MaxReorg <= BlockInterval, WalkInv, WalkNext, NEW r \in EthRequests, Stored(r),
           ethContract[r].status # Success, ethContract'[r].status = Success
    PROVE  /\ ethContract'[r].changed \in Nat
           /\ ethContract'[r].changed <= requests[r].createdAt + ContractTimeout
           /\ ethContract'[r].changed + MaxReorg > ethHeight
<1> USE EthAssumption, CacherAssumption
<1>1. ChainMoves
  BY DEF WalkNext, Beside, ChainStep, HandleEthLogs, ReadHead, FilterLogs, SkipRecent,
         StopAtExpired, ReadRequest, EndOfLogs, StoreRequest, ExpireRequests, FailPass, ethVars
<1>2. /\ \/ Height(r)' = Height(r)
         \/ ~Logged(r) \/ Height(r) + MaxReorg > ethHeight
      /\ ethContract'[r].changed <= Height(r)' + ContractTimeout
      /\ ethContract'[r].changed + MaxReorg > ethHeight
  BY <1>1, ChainEffect DEF WalkInv, CacherTypes
<1>3. Logged(r) /\ requests[r].createdAt = Height(r) /\ Height(r) + BlockInterval <= ethHeight
  BY DEF WalkInv, Settled, Height
<1>4. Height(r) \in Nat /\ ethHeight \in Nat /\ ethContract'[r] \in Entry
  BY <1>1, ChainType DEF WalkInv, CacherTypes, EthTypeOK, Entry, Height, ChainMoves
<1> QED
  BY <1>2, <1>3, <1>4 DEF Entry

\* So what the table calls Rejected can succeed in an old enough block only.
LEMMA LateSuccessEffect ==
    ASSUME MaxReorg <= BlockInterval, WalkInv, RejectedInv, WalkNext, NEW r \in EthRequests,
           requests[r].status = Rejected,
           ethContract[r].status # Success, ethContract'[r].status = Success
    PROVE  /\ ethContract'[r].changed + RqTimeout <= cHeight + ContractTimeout
           /\ RqTimeout < ContractTimeout + MaxReorg
<1>1. Stored(r)
  BY DEF Stored, NoRow
<1>2. requests[r].createdAt + RqTimeout <= cHeight /\ cHeight <= ethHeight
  BY DEF WalkInv, RejectedInv, HeadInv
<1>3. requests[r].createdAt \in Nat /\ cHeight \in Nat /\ ethHeight \in Nat
  BY CacherAssumption DEF WalkInv, CacherTypes, EthTypeOK, CacherTypeOK, RequestsTypeOK, Row
<1> QED
  BY <1>1, <1>2, <1>3, SuccessEffect, EthAssumption, CacherAssumption

(***************************************************************************)
(* The two tests for expiry, > in the walk and <= in the closing UPDATE,   *)
(* disagree about one height only.                                         *)
(***************************************************************************)
LEMMA ReopenEffect ==
    ASSUME WalkInv, RejectedInv, WalkNext, NEW r \in EthRequests,
           requests[r].status = Rejected, requests'[r].status = New
    PROVE  cHeight = requests[r].createdAt + RqTimeout
<1>1. StoreRequest
  BY OnlyStoreRequest DEF WalkInv
<1>2. cHeight <= Height(r) + RqTimeout
  BY <1>1, StoreEffect
<1>3. Stored(r)
  BY DEF Stored, NoRow
<1>4. requests[r].createdAt = Height(r) /\ requests[r].createdAt + RqTimeout <= cHeight
  BY <1>3 DEF WalkInv, Settled, RejectedInv, Height
<1>5. Height(r) \in Nat /\ cHeight \in Nat
  BY DEF WalkInv, CacherTypes, EthTypeOK, CacherTypeOK, Entry, Height
<1> QED
  BY <1>2, <1>4, <1>5, CacherAssumption
=============================================================================
