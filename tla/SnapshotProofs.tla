--------------------------- MODULE SnapshotProofs ---------------------------
(***************************************************************************)
(* Snapshots do not change: the data behind a settled version, and so what *)
(* a child reads, is never written again.                                  *)
(*                                                                         *)
(* The argument needs writes that finish: a copy that fails writes in      *)
(* place, and a page loop that stops early or a writev leaves a record     *)
(* whose blocks lie past i_size, where the next write goes.                *)
(***************************************************************************)
EXTENDS VersionStoreProofs

CleanWrites == PrivateFiles /\ VecThreads = {} /\ ~ CopyMayFail /\ ~ DataMayFail

\* Where the blocks of the records are: in the file, or still to be written by
\* the one write in progress; and that write stays clear of older records.
ExtentInv ==
    /\ OrigPages <= size
    /\ \A i \in DOMAIN log :
         \/ RecordEnd(log[i]) <= size
         \/ \E t \in Threads : /\ pc[t] \in {"unset", "data"}
                               /\ RecordEnd(log[i]) <= app[t] + NrBlocks(TheReq(t))
    /\ \A t \in Threads :
         /\ InFlight(t) => OrigPages <= app[t] /\ app[t] + page[t] <= size
         /\ pc[t] = "record" => \A i \in DOMAIN log : RecordEnd(log[i]) <= app[t]
         /\ pc[t] \in {"unset", "data"} =>
              /\ ver[t] > 0
              /\ \A i \in DOMAIN log : log[i].version_num < ver[t] => RecordEnd(log[i]) <= app[t]

\* What the children and the saved version rely on is settled, unless a close
\* in the middle of a write saves the version being written.
ChildInv ==
    /\ curr_version <= version
    /\ \A c \in Children : childVersion[c] <= curr_version
    /\ ~ ClosesOverlap => \A t \in Threads : InFlight(t) => curr_version < FlightVersion(t)

SnapInv == OrderInv /\ LockInv /\ ExtentInv /\ ChildInv

-----------------------------------------------------------------------------
\* The lock invariant survives in the store.
LEMMA LockInvSide == PrivateFiles => (LockInv /\ [Next]_vars => LockInv')
<1> SUFFICES ASSUME PrivateFiles, LockInv, [Next]_vars PROVE LockInv'
  BY ZenonT(30)
<1>1. CASE [LockNext]_lockVars
  BY <1>1, LockInvStep, ZenonT(30)
<1>2. CASE Reopen
  <2>1. LockTypeOK'
    BY <1>2, ZenonT(30) DEF Reopen, LockInv, LockTypeOK
  <2>2. OwnerHolds' /\ StatusKnown' /\ WriteOwnsLock'
    BY <1>2, ZenonT(30) DEF Reopen, LockInv, OwnerHolds, StatusKnown, WriteOwnsLock
  <2> QED BY <2>1, <2>2, ZenonT(30) DEF LockInv
<1> QED BY <1>1, <1>2, LockSide, ZenonT(30)

\* Writing one block leaves the others alone.
LEMMA PutKeeps ==
    ASSUME NEW s \in Nat, NEW d \in [0..(s - 1) -> Blocks], NEW b \in Nat, NEW block,
           NEW p \in Nat, p < s, p # b
    PROVE  BlockAt(PutBlock(d, b, block), p) = BlockAt(d, p)
<1>1. p \in DOMAIN d /\ p \in DOMAIN d \cup 0..b
  OBVIOUS
<1> QED BY <1>1, ZenonT(30) DEF BlockAt, PutBlock

\* The copies of a write go past the end of the file.
LEMMA CopiesKeep ==
    ASSUME StoreTypeOK, NEW r \in Request, NEW q, NEW p \in Nat, p < size
    PROVE  BlockAt(LastCopied(r, q, FirstCopied(r, q)), p) = BlockAt(data, p)
<1> DEFINE s1 == IF HasOld(r, q) /\ CopiesFirst(r) THEN size + 1 ELSE size
           d1 == FirstCopied(r, q)
           n == NrBlocks(r)
<1>0. size \in Nat /\ data \in [0..(size - 1) -> Blocks]
  BY ZenonT(30) DEF StoreTypeOK
<1>1. n \in Nat /\ n > 0
  BY RequestBlocks, ZenonT(30)
<1>2. s1 \in Nat /\ size <= s1 /\ d1 \in [0..(s1 - 1) -> Blocks]
  BY <1>0, CopiesType
<1>3. BlockAt(d1, p) = BlockAt(data, p)
  BY <1>0, PutKeeps DEF FirstCopied
<1>4. CASE HasOld(r, q) /\ CopiesLast(r)
  <2>1. LastCopied(r, q, d1) = PutBlock(d1, size + n - 1, BlockAt(d1, LastBlock(r)))
    BY <1>4, ZenonT(30) DEF LastCopied
  <2>2. size + n - 1 \in Nat /\ p # size + n - 1 /\ p < s1
    BY <1>0, <1>1, <1>2
  <2> HIDE DEF d1, n, s1
  <2>3. BlockAt(PutBlock(d1, size + n - 1, BlockAt(d1, LastBlock(r))), p) = BlockAt(d1, p)
    BY <1>2, <2>2, PutKeeps
  <2> QED BY <1>3, <2>1, <2>3, ZenonT(30) DEF d1
<1>5. CASE ~ (HasOld(r, q) /\ CopiesLast(r))
  BY <1>3, <1>5, ZenonT(30) DEF LastCopied
<1> QED BY <1>4, <1>5, ZenonT(30)

\* They never make the file shorter.
LEMMA CopiesGrow ==
    ASSUME StoreTypeOK, NEW r \in Request, NEW q
    PROVE  size <= SizeAfterCopies(r, q)
<1>1. size \in Nat /\ NrBlocks(r) \in Nat
  BY RequestBlocks, ZenonT(30) DEF StoreTypeOK
<1> QED BY <1>1 DEF SizeAfterCopies

-----------------------------------------------------------------------------
\* Where a reader looks: a partial last block is where it was.
FoundAt(lg, v, L) ==
    IF Lookup(lg, v, L) = BLK_NOT_FOUND /\ L < OrigPages THEN L ELSE Lookup(lg, v, L)

\* That is where the content comes from.
LEMMA ContentFound ==
    ASSUME NEW v, NEW L \in Nat
    PROVE  ContentAt(v, L) = IF FoundAt(log, v, L) = BLK_NOT_FOUND THEN ZeroBlock
                             ELSE BlockAt(data, FoundAt(log, v, L))
<1>1. L # BLK_NOT_FOUND
  BY DEF BLK_NOT_FOUND
<1> QED BY <1>1, ZenonT(30) DEF ContentAt, FoundAt

\* It is a block of the original file, or one of a record of the version.
LEMMA FoundFinds ==
    ASSUME NEW lg \in Seq(Record), NEW v \in Nat, NEW L \in Nat,
           FoundAt(lg, v, L) # BLK_NOT_FOUND
    PROVE  /\ FoundAt(lg, v, L) \in Nat
           /\ \/ FoundAt(lg, v, L) < OrigPages
              \/ \E i \in DOMAIN lg : /\ lg[i].version_num <= v
                                      /\ FoundAt(lg, v, L) < RecordEnd(lg[i])
<1>1. CASE Lookup(lg, v, L) = BLK_NOT_FOUND
  BY <1>1, ZenonT(30) DEF FoundAt
<1>2. CASE Lookup(lg, v, L) # BLK_NOT_FOUND
  <2> DEFINE p == Lookup(lg, v, L)
  <2>1. /\ p \in Nat
        /\ \/ p < OrigBlocks
           \/ \E i \in DOMAIN lg : lg[i].version_num <= v /\ p < RecordEnd(lg[i])
    BY <1>2, LookupFinds, ZenonT(30)
  <2>2. FoundAt(lg, v, L) = p
    BY <1>2, ZenonT(30) DEF FoundAt
  <2> HIDE DEF p
  <2>3. p < OrigBlocks => p < OrigPages
    BY <2>1, OrigSizes
  <2> QED BY <2>1, <2>2, <2>3, ZenonT(30)
<1> QED BY <1>1, <1>2, ZenonT(30)

\* Where a reader of a settled version looks, no write in progress will write.
LEMMA FoundBelow ==
    ASSUME SnapInv, NEW v \in Settled, NEW L \in LogicalBlocks,
           FoundAt(log, v, L) # BLK_NOT_FOUND
    PROVE  /\ FoundAt(log, v, L) \in Nat
           /\ (\A t \in Threads : ~ InFlight(t)) => FoundAt(log, v, L) < size
           /\ \A t \in Threads : InFlight(t) => FoundAt(log, v, L) < app[t]
<1> DEFINE p == FoundAt(log, v, L)
<1>0. StoreTypeOK /\ LockTypeOK /\ ExtentInv
  BY ZenonT(30) DEF SnapInv, OrderInv, TypeOK
<1>1. /\ size \in Nat /\ log \in Seq(Record) /\ version \in Nat /\ v \in 1..version
      /\ \A t \in Threads : InFlight(t) => v < FlightVersion(t)
      /\ app \in [Threads -> Nat] /\ ver \in [Threads -> Nat]
  BY <1>0, ZenonT(30) DEF StoreTypeOK, Settled
<1>2. L \in Nat /\ OrigPages \in Nat
  BY StoreAssumption, OrigSizes, ZenonT(30)
<1>3. p \in Nat /\ (\/ p < OrigPages
                    \/ \E i \in DOMAIN log : log[i].version_num <= v /\ p < RecordEnd(log[i]))
  <2>1. v \in 1..version /\ version \in Nat /\ log \in Seq(Record) /\ L \in Nat
    BY <1>1, <1>2, ZenonT(30)
  <2>2. v \in Nat
    BY <2>1
  <2> QED BY <2>1, <2>2, FoundFinds, ZenonT(30)
<1> HIDE DEF p
<1>4. CASE p < OrigPages
  BY <1>0, <1>1, <1>2, <1>3, <1>4 DEF ExtentInv, p
<1>5. ASSUME NEW i \in DOMAIN log, log[i].version_num <= v, p < RecordEnd(log[i])
      PROVE  /\ (\A t \in Threads : ~ InFlight(t)) => p < size
             /\ \A t \in Threads : InFlight(t) => p < app[t]
  <2>1. log[i].version_num \in Nat /\ RecordEnd(log[i]) \in Nat
    BY <1>1, <1>5, RecordFields
  <2>2. ASSUME \A t \in Threads : ~ InFlight(t) PROVE p < size
    <3>1. RecordEnd(log[i]) <= size
      BY <1>0, <1>5, <2>2, ZenonT(30) DEF ExtentInv, InFlight
    <3> QED BY <1>1, <1>3, <1>5, <2>1, <3>1
  <2>3. ASSUME NEW t \in Threads, InFlight(t) PROVE p < app[t]
    <3>1. RecordEnd(log[i]) <= app[t]
      <4>1. CASE pc[t] = "record"
        BY <1>0, <1>5, <4>1, ZenonT(30) DEF ExtentInv
      <4>2. CASE pc[t] \in {"unset", "data"}
        <5>1. FlightVersion(t) = ver[t]
          BY <1>0, <4>2, ZenonT(30) DEF ExtentInv, FlightVersion
        <5>2. log[i].version_num < ver[t]
          BY <1>1, <1>5, <2>1, <2>3, <5>1
        <5> QED BY <1>0, <1>5, <4>2, <5>2, ZenonT(30) DEF ExtentInv
      <4> QED BY <2>3, <4>1, <4>2, ZenonT(30) DEF InFlight
    <3> QED BY <1>1, <1>3, <1>5, <2>1, <2>3, <3>1
  <2> QED BY <2>2, <2>3, ZenonT(30)
<1> QED BY <1>3, <1>4, <1>5, ZenonT(30) DEF p

-----------------------------------------------------------------------------
\* Clean writes touch the data in two places only.
LEMMA DataTouched ==
    ASSUME CleanWrites, KindInv, [Next]_vars,
           \A t \in Threads : ~ DoWriteReserve(t) /\ ~ DoWritePage(t)
    PROVE  data' = data /\ size' = size
<1>1. ASSUME NEW t \in Threads,
             \/ DoBeginCall(t) \/ DoBeginAcquire(t) \/ DoEndCall(t) \/ DoEndRelease(t)
             \/ DoInterrupted(t) \/ DoWriteCall(t) \/ DoWriteLockInode(t) \/ DoWriteDecide(t)
      PROVE  data' = data /\ size' = size
  BY <1>1, ZenonT(30) DEF DoBeginCall, DoBeginAcquire, DoEndCall, DoEndRelease, DoInterrupted,
              DoWriteCall, DoWriteLockInode, DoWriteDecide, StartCall, storeVars
<1>2. ASSUME NEW t \in Threads,
             \/ DoWriteLockTxn(t) \/ DoWriteRecord(t) \/ DoWriteUnset(t)
             \/ DoWriteDataDone(t) \/ DoUnlockInode(t)
      PROVE  data' = data /\ size' = size
  BY <1>2, SMTT(60), ZenonT(60) DEF DoWriteLockTxn, DoWriteRecord, DoWriteUnset, DoWriteDataDone,
              DoUnlockInode, storeVars
<1>3. ASSUME NEW t \in Threads,
             \/ DoWriteCopyFails(t) \/ DoWritevCall(t) \/ DoWritevLockInode(t)
             \/ DoWritevVector(t) \/ DoWritevData(t) \/ DoWritevFails(t) \/ DoWritevCommit(t)
      PROVE  FALSE
  BY <1>3, ZenonT(30) DEF CleanWrites, KindInv, DoWriteCopyFails, WriteCopyFails, DoWritevCall, WritevCall,
              DoWritevLockInode, WritevLockInode, DoWritevVector, DoWritevData, WritevData,
              DoWritevFails, WritevFails, DoWritevCommit, WritevCommit
<1>4. CASE \/ \E f \in Files : DoClose(f)
           \/ CloseOther
           \/ \E c \in Children : UpdateVersion(c)
           \/ Reopen
           \/ UNCHANGED vars
  BY <1>4, ZenonT(30) DEF DoClose, CloseOther, SaveVersion, UpdateVersion, Reopen, vars, storeVars
<1> QED BY <1>1, <1>2, <1>3, <1>4, SMTT(60), ZenonT(60) DEF Next

\* What a reader of a settled version finds is not written.
LEMMA BlockKept ==
    ASSUME CleanWrites, SnapInv, [Next]_vars, NEW v \in Settled, NEW L \in LogicalBlocks,
           FoundAt(log, v, L) # BLK_NOT_FOUND
    PROVE  BlockAt(data', FoundAt(log, v, L)) = BlockAt(data, FoundAt(log, v, L))
<1> DEFINE p == FoundAt(log, v, L)
<1>0. TypeOK /\ CallInv /\ StoreTypeOK /\ InodeInv /\ KindInv /\ ExtentInv
  BY ZenonT(30) DEF SnapInv, OrderInv, TypeOK
<1>1. size \in Nat /\ data \in [0..(size - 1) -> Blocks]
  BY <1>0, ZenonT(30) DEF StoreTypeOK
<1>2. /\ p \in Nat
      /\ (\A t \in Threads : ~ InFlight(t)) => p < size
      /\ \A t \in Threads : InFlight(t) => p < app[t]
  BY SMTT(60), ZenonT(60), FoundBelow
<1> HIDE DEF p
<1>3. ASSUME NEW t \in Threads, DoWriteReserve(t) PROVE BlockAt(data', p) = BlockAt(data, p)
  <2>1. pc[t] = "reserve"
    BY <1>3, ZenonT(30) DEF DoWriteReserve, WriteReserve
  <2>2. \A u \in Threads : ~ InFlight(u)
    BY <1>0, <2>1, ZenonT(30) DEF InodeInv, InodePCs, InFlight
  <2>3. TheReq(t) \in Request
    BY <1>0, <2>1, TheReqType, ZenonT(30) DEF WritePCs
  <2> QED BY <1>0, <1>2, <1>3, <2>2, <2>3, CopiesKeep, SMTT(60), ZenonT(60) DEF DoWriteReserve
<1>4. ASSUME NEW t \in Threads, DoWritePage(t) PROVE BlockAt(data', p) = BlockAt(data, p)
  <2> DEFINE b == app[t] + page[t]
             block == Fill(TheReq(t), page[t], BlockAt(data, b))
  <2>1. InFlight(t)
    BY <1>4, ZenonT(30) DEF DoWritePage, InFlight
  <2>2. app[t] \in Nat /\ page[t] \in Nat
    BY <1>0, ZenonT(30) DEF StoreTypeOK
  <2>3. p < app[t] /\ app[t] + page[t] <= size
    BY <1>0, <1>2, <2>1, ZenonT(30) DEF ExtentInv
  <2>4. b \in Nat /\ p < size /\ p # b
    BY SMTT(60), ZenonT(60), <1>1, <1>2, <2>2, <2>3
  <2>5. data' = PutBlock(data, b, block)
    BY <1>4, ZenonT(30) DEF DoWritePage
  <2> HIDE DEF b, block
  <2> QED BY SMTT(60), ZenonT(60), <1>1, <1>2, <2>4, <2>5, PutKeeps
<1> QED BY <1>0, <1>3, <1>4, DataTouched, ZenonT(30) DEF p

\* So its contents stay.
LEMMA ContentKept ==
    ASSUME CleanWrites, SnapInv, [Next]_vars, NEW v \in Settled, NEW L \in LogicalBlocks
    PROVE  ContentAt(v, L)' = ContentAt(v, L)
<1>1. OneKind
  BY ZenonT(30) DEF CleanWrites, OneKind
<1>2. Lookup(log', v, L) = Lookup(log, v, L)
  BY <1>1, MappingKept, ZenonT(30) DEF SnapInv
<1>3. L \in Nat
  BY StoreAssumption, ZenonT(30)
<1>4. FoundAt(log', v, L) = FoundAt(log, v, L)
  BY <1>2, ZenonT(30) DEF FoundAt
<1>5. ContentAt(v, L)' = IF FoundAt(log', v, L) = BLK_NOT_FOUND THEN ZeroBlock
                         ELSE BlockAt(data', FoundAt(log', v, L))
  <2>1. L # BLK_NOT_FOUND
    BY <1>3 DEF BLK_NOT_FOUND
  <2> QED BY <2>1, ZenonT(30) DEF ContentAt, FoundAt
<1> QED BY <1>3, <1>4, <1>5, BlockKept, ContentFound, ZenonT(30)


-----------------------------------------------------------------------------
(* The invariant is kept.                                                  *)

\* No write in progress begins, ends or moves its data.
SameFlights ==
    \A t \in Threads : pc[t] \in {"record", "unset", "data"} \/ pc'[t] \in {"record", "unset", "data"} =>
        /\ pc'[t] = pc[t] \/ (pc[t] = "unset" /\ pc'[t] = "data")
        /\ app'[t] = app[t] /\ page'[t] = page[t] /\ ver'[t] = ver[t]
        /\ req'[t] = req[t] /\ status'[t] = status[t]

\* Steps that leave the writes in progress alone.
LEMMA SnapQuiet ==
    ASSUME StoreTypeOK, StoreTypeOK', LockTypeOK, ExtentInv, ChildInv, SameFlights,
           UNCHANGED <<log, size, curr_version, childVersion>>, version' >= version
    PROVE  ExtentInv' /\ ChildInv'
<1>1. ExtentInv'
  <2>1. \A t \in Threads : pc'[t] = "record" => pc[t] = "record" /\ app'[t] = app[t]
    BY ZenonT(30) DEF SameFlights
  <2>2. \A t \in Threads : pc'[t] \in {"unset", "data"} =>
           pc[t] \in {"unset", "data"} /\ app'[t] = app[t] /\ ver'[t] = ver[t]
    BY ZenonT(30) DEF SameFlights
  <2>3. \A t \in Threads : pc[t] \in {"unset", "data"} =>
           /\ pc'[t] \in {"unset", "data"} /\ app'[t] = app[t]
           /\ TheReq(t)' = TheReq(t)
    BY ZenonT(30) DEF SameFlights, TheReq
  <2>4. \A t \in Threads : InFlight(t)' =>
           InFlight(t) /\ app'[t] = app[t] /\ page'[t] = page[t]
    BY ZenonT(30) DEF SameFlights, InFlight
  <2>5. (\A i \in DOMAIN log : \/ RecordEnd(log[i]) <= size
                               \/ \E t \in Threads : /\ pc[t] \in {"unset", "data"}
                                                     /\ RecordEnd(log[i]) <= app[t] + NrBlocks(TheReq(t)))'
    BY <2>3, ZenonT(30) DEF ExtentInv
  <2> QED BY <2>1, <2>2, <2>4, <2>5, SMTT(60), ZenonT(60) DEF ExtentInv
<1>2. ChildInv'
  <2>1. ASSUME ~ ClosesOverlap, NEW t \in Threads, InFlight(t)'
        PROVE  curr_version < FlightVersion(t)'
    <3>1. InFlight(t) /\ status'[t] = status[t] /\ ver'[t] = ver[t]
      BY <2>1, ZenonT(30) DEF SameFlights, InFlight
    <3>2. curr_version < FlightVersion(t)
      BY <2>1, <3>1, ZenonT(30) DEF ChildInv
    <3>3. /\ version \in Nat /\ version' \in Nat /\ curr_version \in Nat /\ ver[t] \in Nat
      BY ZenonT(30) DEF StoreTypeOK
    <3>4. CASE pc'[t] = "record"
      <4>1. pc[t] = "record"
        BY <3>4, ZenonT(30) DEF SameFlights
      <4> QED BY <3>1, <3>2, <3>3, <3>4, <4>1, SMTT(60), ZenonT(60) DEF FlightVersion
    <3>5. CASE pc'[t] \in {"unset", "data"}
      <4>1. pc[t] \in {"unset", "data"}
        BY <3>5, ZenonT(30) DEF SameFlights
      <4> QED BY <3>1, <3>2, <3>3, <3>5, <4>1, SMTT(60), ZenonT(60) DEF FlightVersion
    <3> QED BY <2>1, <3>4, <3>5, ZenonT(30) DEF InFlight
  <2> QED BY <2>1 DEF ChildInv, StoreTypeOK
<1> QED BY SMTT(60), ZenonT(60), <1>1, <1>2

\* Which steps these are.
LEMMA FlightSteps ==
    ASSUME SnapInv,
           \/ \E t \in Threads :
                \/ DoBeginCall(t) \/ DoBeginAcquire(t) \/ DoEndCall(t) \/ DoEndRelease(t)
                \/ DoInterrupted(t) \/ DoWriteCall(t) \/ DoWriteLockInode(t) \/ DoWriteDecide(t)
                \/ DoWriteLockTxn(t) \/ DoWriteUnset(t) \/ DoUnlockInode(t)
           \/ UNCHANGED vars
    PROVE  SameFlights
<1>t. LockTypeOK /\ StoreTypeOK /\ WriteOwnsLock
  BY ZenonT(30) DEF SnapInv, LockInv, OrderInv, TypeOK
<1>0. ASSUME NEW t \in Threads, SelfStatus(fileOf[t]) = SET_NORMAL_WRITE
      PROVE  MayUnset(fileOf[t])
  BY <1>0 DEF SelfStatus, MayUnset, SET_NORMAL_WRITE, NO_STATUS
<1>f. /\ pc \in [Threads -> PCs] /\ app \in [Threads -> Nat] /\ page \in [Threads -> Nat]
      /\ ver \in [Threads -> Nat] /\ req \in [Threads -> Seq(Request)]
      /\ status \in [Threads -> {NO_STATUS, SET_TRANSACTION, SET_NORMAL_WRITE}]
  BY <1>t, Zenon DEF LockTypeOK, StoreTypeOK
<1> USE <1>f DEF SameFlights, Goto, storeVars, StartCall
<1>1. ASSUME NEW t \in Threads,
             DoBeginCall(t) \/ DoBeginAcquire(t) \/ DoEndCall(t) \/ DoEndRelease(t)
      PROVE  SameFlights
  BY <1>1, ZenonT(60), SMTT(60) DEF DoBeginCall, DoBeginAcquire, DoEndCall, DoEndRelease,
              BeginCall, BeginAcquire, EndCall, EndRelease
<1>2. ASSUME NEW t \in Threads,
             DoInterrupted(t) \/ DoWriteCall(t) \/ DoWriteLockInode(t) \/ DoWriteDecide(t)
      PROVE  SameFlights
  BY <1>2, ZenonT(60), SMTT(60) DEF DoInterrupted, DoWriteCall, DoWriteLockInode, DoWriteDecide,
              Interrupted, WriteCall, WriteLockInode, WriteDecide
<1>3. ASSUME NEW t \in Threads, DoWriteLockTxn(t) \/ DoUnlockInode(t)
      PROVE  SameFlights
  BY <1>3, ZenonT(60), SMTT(60) DEF DoWriteLockTxn, DoUnlockInode, WriteLockTxn, UnlockInode
<1>4. ASSUME NEW t \in Threads, DoWriteUnset(t) PROVE SameFlights
  <2>0. SelfStatus(fileOf[t]) = SET_NORMAL_WRITE
    BY <1>t, <1>4, ZenonT(30) DEF DoWriteUnset, WriteUnset, WriteOwnsLock
  <2>1. MayUnset(fileOf[t])
    BY SMTT(60), ZenonT(60), <1>0, <2>0
  <2> QED BY <1>4, <2>1, SMTT(60), ZenonT(60) DEF DoWriteUnset, WriteUnset
<1>5. CASE UNCHANGED vars
  BY <1>5, ZenonT(30) DEF vars, lockVars
<1> QED BY <1>1, <1>2, <1>3, <1>4, <1>5, ZenonT(60), SMTT(60)

\* They keep the invariant.
LEMMA SnapQuietSteps ==
    ASSUME CleanWrites, SnapInv, OrderInv',
           \/ \E t \in Threads :
                \/ DoBeginCall(t) \/ DoBeginAcquire(t) \/ DoEndCall(t) \/ DoEndRelease(t)
                \/ DoInterrupted(t) \/ DoWriteCall(t) \/ DoWriteLockInode(t) \/ DoWriteDecide(t)
                \/ DoWriteLockTxn(t) \/ DoWriteUnset(t) \/ DoUnlockInode(t)
           \/ UNCHANGED vars
    PROVE  ExtentInv' /\ ChildInv'
<1>0. /\ LockTypeOK /\ StoreTypeOK /\ StoreTypeOK' /\ WriteOwnsLock
      /\ ExtentInv /\ ChildInv
  BY ZenonT(30) DEF SnapInv, LockInv, OrderInv, TypeOK
<1>1. /\ UNCHANGED <<log, size, curr_version, childVersion>>
      /\ version' = version \/ version' = version + 1
  <2> USE DEF StartCall, storeVars
  <2>1. ASSUME NEW t \in Threads,
               \/ DoBeginCall(t) \/ DoBeginAcquire(t) \/ DoEndRelease(t) \/ DoInterrupted(t)
               \/ DoWriteCall(t) \/ DoWriteLockInode(t)
        PROVE  UNCHANGED <<log, size, curr_version, childVersion, version>>
    BY <2>1, Zenon DEF DoBeginCall, DoBeginAcquire, DoEndRelease, DoInterrupted,
                       DoWriteCall, DoWriteLockInode
  <2>2. ASSUME NEW t \in Threads, DoWriteDecide(t) \/ DoWriteLockTxn(t) \/ DoUnlockInode(t)
        PROVE  UNCHANGED <<log, size, curr_version, childVersion, version>>
    BY <2>2, Zenon DEF DoWriteDecide, DoWriteLockTxn, DoUnlockInode
  <2>3. ASSUME NEW t \in Threads, DoEndCall(t) \/ DoWriteUnset(t)
        PROVE  /\ UNCHANGED <<log, size, curr_version, childVersion>>
               /\ version' = version \/ version' = version + 1
    BY <2>3, ZenonT(30) DEF DoEndCall, DoWriteUnset, BumpIfTransaction
  <2>4. CASE UNCHANGED vars
    BY <2>4, ZenonT(30) DEF vars
  <2> QED BY <2>1, <2>2, <2>3, <2>4, ZenonT(30)
<1>2. version' >= version
  <2>1. version \in Nat
    BY <1>0, ZenonT(30) DEF StoreTypeOK
  <2> QED BY SMTT(60), ZenonT(60), <1>1, <2>1
<1>3. SameFlights
  BY FlightSteps, ZenonT(30)
<1> QED BY SMTT(60), ZenonT(60), <1>0, <1>1, <1>2, <1>3, SnapQuiet


\* A write that reserves its blocks: nobody else is in flight.
LEMMA SnapReserve ==
    ASSUME CleanWrites, SnapInv, OrderInv', NEW t \in Threads, DoWriteReserve(t)
    PROVE  ExtentInv' /\ ChildInv'
<1>0. /\ LockTypeOK /\ StoreTypeOK /\ StoreTypeOK' /\ TypeOK /\ CallInv /\ InodeInv
      /\ StatusKnown /\ ExtentInv /\ ChildInv
  BY ZenonT(30) DEF SnapInv, LockInv, OrderInv, TypeOK
<1>1. pc[t] = "reserve" /\ pc' = [pc EXCEPT ![t] = "record"] /\ status' = status
  BY ZenonT(60), SMTT(60) DEF DoWriteReserve, WriteReserve, Goto
<1>2. /\ UNCHANGED <<log, curr_version, childVersion>>
      /\ app' = [app EXCEPT ![t] = size] /\ page' = [page EXCEPT ![t] = 0]
      /\ version' = IF status[t] = SET_NORMAL_WRITE THEN version + 1 ELSE version
  BY ZenonT(30) DEF DoWriteReserve
<1>3. TheReq(t) \in Request
  BY <1>0, <1>1, TheReqType, SMTT(60), ZenonT(60) DEF WritePCs
<1>4. size <= size'
  <2>1. size' = SizeAfterCopies(TheReq(t), Lookup(log, version, TheReq(t).blk))
    BY ZenonT(30) DEF DoWriteReserve
  <2> QED BY SMTT(60), ZenonT(60), <1>0, <1>3, <2>1, CopiesGrow
<1>5. \A u \in Threads : pc[u] \notin {"record", "unset", "data"}
  BY <1>0, <1>1, ZenonT(30) DEF InodeInv, InodePCs
<1>6. \A u \in Threads : pc'[u] \in {"record", "unset", "data"} => u = t
  BY <1>0, <1>1, <1>5, SMTT(60), ZenonT(60) DEF LockTypeOK
<1>7. pc'[t] = "record" /\ app'[t] = size /\ page'[t] = 0
  BY <1>0, <1>1, <1>2, SMTT(60), ZenonT(60) DEF LockTypeOK, StoreTypeOK
<1>8. size \in Nat /\ size' \in Nat /\ OrigPages \in Nat /\ log \in Seq(Record)
  BY <1>0, OrigSizes, SMTT(60), ZenonT(60) DEF StoreTypeOK
<1>9. OrigPages <= size /\ \A i \in DOMAIN log : RecordEnd(log[i]) <= size
  BY <1>0, <1>5, ZenonT(30) DEF ExtentInv
<1>10. \A i \in DOMAIN log : RecordEnd(log[i]) \in Nat
  BY <1>8, RecordFields
<1>11. \A i \in DOMAIN log : RecordEnd(log[i]) <= size'
  BY SMTT(60), ZenonT(60), <1>4, <1>8, <1>9, <1>10
<1>12. ExtentInv'
  <2>1. OrigPages <= size'
    BY SMTT(60), ZenonT(60), <1>4, <1>8, <1>9
  <2>2. \A u \in Threads : InFlight(u)' => OrigPages <= app'[u] /\ app'[u] + page'[u] <= size'
    BY <1>4, <1>6, <1>7, <1>8, <1>9, SMTT(60), ZenonT(60) DEF InFlight
  <2>3. \A u \in Threads : pc'[u] = "record" => \A i \in DOMAIN log : RecordEnd(log[i]) <= app'[u]
    BY SMTT(60), ZenonT(60), <1>6, <1>7, <1>9
  <2>4. \A u \in Threads : pc'[u] \notin {"unset", "data"}
    BY SMTT(60), ZenonT(60), <1>6, <1>7
  <2> QED BY <1>2, <1>11, <2>1, <2>2, <2>3, <2>4, SMTT(60), ZenonT(60) DEF ExtentInv
<1>13. ChildInv'
  <2>1. version \in Nat /\ curr_version \in Nat /\ curr_version <= version
    BY <1>0, ZenonT(30) DEF StoreTypeOK, ChildInv
  <2>2. FlightVersion(t)' = version + 1
    BY <1>1, <1>2, <1>7, <2>1, ZenonT(30) DEF FlightVersion, SET_NORMAL_WRITE
  <2>3. \A u \in Threads : InFlight(u)' => u = t
    BY <1>6, ZenonT(30) DEF InFlight
  <2>4. curr_version <= version'
    BY SMTT(60), ZenonT(60), <1>2, <2>1
  <2> QED BY <1>0, <1>2, <2>1, <2>2, <2>3, <2>4, SMTT(60), ZenonT(60) DEF ChildInv
<1> QED BY <1>12, <1>13, ZenonT(30)

\* A write that logs its record.
LEMMA SnapRecord ==
    ASSUME CleanWrites, SnapInv, OrderInv', NEW t \in Threads, DoWriteRecord(t)
    PROVE  ExtentInv' /\ ChildInv'
<1> DEFINE r == TheReq(t)
           curr == RecordVersion(t)
           new == [version_num        |-> curr,
                   logical_start_blk  |-> r.blk,
                   physical_start_blk |-> app[t],
                   len_blks           |-> NrBlocks(r)]
<1>0. /\ LockTypeOK /\ StoreTypeOK /\ StoreTypeOK' /\ TypeOK /\ CallInv /\ InodeInv
      /\ StatusKnown /\ ExtentInv /\ ChildInv
  BY ZenonT(30) DEF SnapInv, LockInv, OrderInv, TypeOK
<1>1. pc[t] = "record" /\ pc'[t] \in {"unset", "data"} /\ status' = status
      /\ \A u \in Threads : u # t => pc'[u] = pc[u]
  BY <1>0, SMTT(60), ZenonT(60) DEF DoWriteRecord, WriteRecord, Goto, LockTypeOK
<1>2. /\ UNCHANGED <<version, size, curr_version, childVersion, req, app, page>>
      /\ ver'[t] = curr
      /\ log' = IF curr <= MAX_VERSIONS THEN Append(log, new) ELSE log
  BY <1>0, SMTT(60), ZenonT(60) DEF DoWriteRecord, StoreTypeOK
<1>3. r \in Request
  BY <1>0, <1>1, TheReqType, ZenonT(30) DEF WritePCs
<1>4. NrBlocks(r) \in Nat /\ r.blk \in Nat
  BY <1>3, RequestBlocks, ZenonT(30)
<1>5. \A u \in Threads : u # t => pc[u] \notin {"record", "unset", "data"}
  BY <1>0, <1>1, ZenonT(30) DEF InodeInv, InodePCs
<1>6. \A u \in Threads : pc'[u] \in {"record", "unset", "data"} => u = t
  BY SMTT(60), ZenonT(60), <1>1, <1>5
<1>7. /\ size \in Nat /\ OrigPages \in Nat /\ log \in Seq(Record) /\ app[t] \in Nat
      /\ version \in Nat /\ curr \in Nat /\ curr > 0
  BY <1>0, OrigSizes, SMTT(60), ZenonT(60) DEF StoreTypeOK, RecordVersion
<1>8. /\ OrigPages <= size
      /\ OrigPages <= app[t] /\ app[t] + page[t] <= size
      /\ \A i \in DOMAIN log : RecordEnd(log[i]) <= app[t]
  BY <1>0, <1>1, SMTT(60), ZenonT(60) DEF ExtentInv, InFlight
<1>9. \A i \in DOMAIN log : RecordEnd(log[i]) \in Nat
  BY SMTT(60), ZenonT(60), <1>7, RecordFields
<1>10. RecordEnd(new) = app[t] + NrBlocks(r) /\ new.version_num = curr
  BY SMTT(60), ZenonT(60) DEF RecordEnd
<1> HIDE DEF new, curr
<1>11. \A i \in DOMAIN log' : \/ i \in DOMAIN log /\ log'[i] = log[i]
                              \/ log'[i] = new
  BY SMTT(60), ZenonT(60), <1>2, <1>7
<1>12. \A i \in DOMAIN log' : RecordEnd(log'[i]) <= app[t] + NrBlocks(r)
  BY SMTT(60), ZenonT(60), <1>4, <1>7, <1>8, <1>9, <1>10, <1>11
<1>13. \A i \in DOMAIN log' : log'[i].version_num < curr => RecordEnd(log'[i]) <= app[t]
  BY SMTT(60), ZenonT(60), <1>7, <1>8, <1>10, <1>11
<1>14. TheReq(t)' = r
  BY <1>2, SMTT(60), ZenonT(60) DEF TheReq
<1> HIDE DEF r
<1>15. ExtentInv'
  <2>1. (\A i \in DOMAIN log : \E u \in Threads : /\ pc[u] \in {"unset", "data"}
                                                  /\ RecordEnd(log[i]) <= app[u] + NrBlocks(TheReq(u)))'
    <3>1. TheReq(t)' = TheReq(t) /\ app' = app
      BY <1>2, <1>14, ZenonT(30) DEF r
    <3>2. \A i \in DOMAIN log' : RecordEnd(log'[i]) <= app'[t] + NrBlocks(TheReq(t)')
      BY SMTT(60), ZenonT(60), <1>12, <1>14, <3>1
    <3> QED BY <1>1, <3>2, ZenonT(60), SMTT(60)
  <2>2. \A u \in Threads : InFlight(u)' => OrigPages <= app'[u] /\ app'[u] + page'[u] <= size'
    BY <1>2, <1>6, <1>8, SMTT(60), ZenonT(60) DEF InFlight
  <2>3. \A u \in Threads : pc'[u] # "record"
    BY SMTT(60), ZenonT(60), <1>1, <1>6
  <2>4. \A u \in Threads : pc'[u] \in {"unset", "data"} =>
           /\ ver'[u] > 0
           /\ \A i \in DOMAIN log' : log'[i].version_num < ver'[u] => RecordEnd(log'[i]) <= app'[u]
    BY SMTT(60), ZenonT(60), <1>2, <1>6, <1>7, <1>13
  <2> QED BY <1>2, <1>8, <2>1, <2>2, <2>3, <2>4, SMTT(60), ZenonT(60) DEF ExtentInv
<1>16. ChildInv'
  <2>1. status[t] \in {SET_TRANSACTION, SET_NORMAL_WRITE}
    BY <1>0, <1>1, ZenonT(30) DEF StatusKnown
  <2>2. FlightVersion(t)' = curr
    BY <1>1, <1>2, <1>7, ZenonT(30) DEF FlightVersion
  <2>3. FlightVersion(t) = curr
    BY <1>1, <2>1, SMTT(60), ZenonT(60) DEF FlightVersion, curr, RecordVersion, SET_NORMAL_WRITE, SET_TRANSACTION
  <2>4. ~ ClosesOverlap => curr_version < FlightVersion(t)
    BY <1>0, <1>1, SMTT(60), ZenonT(60) DEF ChildInv, InFlight
  <2>5. \A u \in Threads : InFlight(u)' => u = t
    BY <1>6, ZenonT(30) DEF InFlight
  <2> QED BY <1>0, <1>2, <2>2, <2>3, <2>4, <2>5, SMTT(60), ZenonT(60) DEF ChildInv
<1> QED BY <1>15, <1>16, ZenonT(30)


\* A turn of the page loop.
LEMMA SnapPage ==
    ASSUME CleanWrites, SnapInv, OrderInv', NEW t \in Threads, DoWritePage(t)
    PROVE  ExtentInv' /\ ChildInv'
<1>0. /\ LockTypeOK /\ StoreTypeOK /\ StoreTypeOK' /\ InodeInv /\ ExtentInv /\ ChildInv
  BY SMTT(60), ZenonT(60) DEF SnapInv, LockInv, OrderInv, TypeOK
<1>1. /\ pc[t] = "data" /\ UNCHANGED <<pc, status, version, log, curr_version, childVersion,
                                       req, app, ver>>
      /\ size' = PutSize(size, app[t] + page[t])
      /\ page'[t] = page[t] + 1
  BY <1>0, SMTT(60), ZenonT(60) DEF DoWritePage, lockVars, StoreTypeOK
<1>2. /\ size \in Nat /\ app[t] \in Nat /\ page[t] \in Nat /\ OrigPages \in Nat
      /\ log \in Seq(Record)
  BY <1>0, OrigSizes, SMTT(60), ZenonT(60) DEF StoreTypeOK
<1>3. size <= size' /\ app[t] + page'[t] <= size' /\ size' \in Nat
  BY <1>1, <1>2, SMTT(60), ZenonT(60) DEF PutSize
<1>4. \A u \in Threads : pc[u] \in {"record", "unset", "data"} => u = t
  BY <1>0, <1>1, SMTT(60), ZenonT(60) DEF InodeInv, InodePCs
<1>5. \A i \in DOMAIN log : RecordEnd(log[i]) \in Nat
  BY SMTT(60), ZenonT(60), <1>2, RecordFields
<1>6. ExtentInv'
  <2>1. OrigPages <= size'
    <3>1. OrigPages <= size
      BY <1>0, ZenonT(60), SMTT(60) DEF ExtentInv
    <3> QED  BY <1>2, <1>3, <3>1
  <2>2. \A u \in Threads : InFlight(u)' => OrigPages <= app'[u] /\ app'[u] + page'[u] <= size'
    BY <1>0, <1>1, <1>3, <1>4, SMTT(60), ZenonT(60) DEF ExtentInv, InFlight
  <2>3. \A i \in DOMAIN log : RecordEnd(log[i]) <= size => RecordEnd(log[i]) <= size'
    BY SMTT(60), ZenonT(60), <1>2, <1>3, <1>5
  <2>4. (\A i \in DOMAIN log : \/ RecordEnd(log[i]) <= size
                               \/ \E u \in Threads : /\ pc[u] \in {"unset", "data"}
                                                     /\ RecordEnd(log[i]) <= app[u] + NrBlocks(TheReq(u)))'
    BY <1>0, <1>1, <2>3, SMTT(60), ZenonT(60) DEF ExtentInv, TheReq
  <2>5. \A u \in Threads :
          /\ pc[u] = "record" => \A i \in DOMAIN log : RecordEnd(log[i]) <= app[u]
          /\ pc[u] \in {"unset", "data"} =>
               /\ ver[u] > 0
               /\ \A i \in DOMAIN log : log[i].version_num < ver[u] => RecordEnd(log[i]) <= app[u]
    BY <1>0, ZenonT(30) DEF ExtentInv
  <2> QED BY <1>1, <2>1, <2>2, <2>4, <2>5, SMTT(60), ZenonT(60) DEF ExtentInv
<1>7. ChildInv'
  BY <1>0, <1>1, SMTT(60), ZenonT(60) DEF ChildInv, InFlight, FlightVersion
<1> QED BY <1>6, <1>7, ZenonT(30)

\* The page loop ends with every block of the write in the file.
LEMMA SnapDone ==
    ASSUME CleanWrites, SnapInv, OrderInv', NEW t \in Threads, DoWriteDataDone(t)
    PROVE  ExtentInv' /\ ChildInv'
<1>0. /\ LockTypeOK /\ StoreTypeOK /\ TypeOK /\ CallInv /\ InodeInv /\ ExtentInv /\ ChildInv
  BY ZenonT(30) DEF SnapInv, LockInv, OrderInv, TypeOK
<1>1. /\ pc[t] = "data" /\ pc' = [pc EXCEPT ![t] = "unlock_inode"]
      /\ page[t] = NrBlocks(TheReq(t))
      /\ UNCHANGED storeVars
  BY ZenonT(30) DEF DoWriteDataDone, WriteDataDone, Goto, CleanWrites
<1>2. /\ size \in Nat /\ app[t] \in Nat /\ page[t] \in Nat /\ log \in Seq(Record)
  BY <1>0, SMTT(60), ZenonT(60) DEF StoreTypeOK
<1>3. \A i \in DOMAIN log : RecordEnd(log[i]) \in Nat
  BY SMTT(60), ZenonT(60), <1>2, RecordFields
<1>4. \A u \in Threads : pc[u] \in {"record", "unset", "data"} => u = t
  BY <1>0, <1>1, SMTT(60), ZenonT(60) DEF InodeInv, InodePCs
<1>5. \A u \in Threads : pc'[u] \notin {"record", "unset", "data"}
  BY <1>0, <1>1, <1>4, SMTT(60), ZenonT(60) DEF LockTypeOK
<1>6. app[t] + page[t] <= size
  BY <1>0, <1>1, SMTT(60), ZenonT(60) DEF ExtentInv, InFlight
<1>7. \A i \in DOMAIN log : RecordEnd(log[i]) <= size
  <2>1. \A i \in DOMAIN log : \/ RecordEnd(log[i]) <= size
                              \/ RecordEnd(log[i]) <= app[t] + page[t]
    BY <1>0, <1>1, <1>4, SMTT(60), ZenonT(60) DEF ExtentInv
  <2> QED BY SMTT(60), ZenonT(60), <1>2, <1>3, <1>6, <2>1
<1>8. ExtentInv'
  BY <1>0, <1>1, <1>5, <1>7, ZenonT(60), SMTT(60) DEF ExtentInv, InFlight, storeVars
<1>9. ChildInv'
  BY <1>0, <1>1, <1>5, SMTT(60), ZenonT(60) DEF ChildInv, InFlight, storeVars
<1> QED BY <1>8, <1>9, ZenonT(30)

\* An update ioctl gives a child the saved version; a close saves the current
\* one.
LEMMA SnapSave ==
    ASSUME SnapInv,
           \/ \E c \in Children : UpdateVersion(c)
           \/ \E f \in Files : DoClose(f)
           \/ CloseOther
           \/ Reopen
    PROVE  ExtentInv' /\ ChildInv'
<1>0. /\ LockTypeOK /\ StoreTypeOK /\ ExtentInv /\ ChildInv
  BY SMTT(60), ZenonT(60) DEF SnapInv, LockInv, OrderInv, TypeOK
<1>1. UNCHANGED <<pc, status, version, log, size, req, app, page, ver>>
  BY SMTT(60), ZenonT(60) DEF UpdateVersion, DoClose, Close, CloseOther, SaveVersion, Reopen, lockVars
<1>2. ExtentInv'
  BY <1>0, <1>1, ZenonT(30) DEF ExtentInv, InFlight, TheReq
<1>3. ASSUME NEW c \in Children, UpdateVersion(c) PROVE ChildInv'
  <2>1. curr_version' = curr_version
    BY <1>3, SMTT(60), ZenonT(60) DEF UpdateVersion
  <2>2. \A d \in Children : childVersion'[d] <= curr_version
    BY <1>0, <1>3, SMTT(60), ZenonT(60) DEF UpdateVersion, StoreTypeOK, ChildInv
  <2> QED BY <1>0, <1>1, <2>1, <2>2, SMTT(60), ZenonT(60) DEF ChildInv, InFlight, FlightVersion
<1>4. CASE (\E f \in Files : DoClose(f)) \/ CloseOther \/ Reopen
  <2>1. /\ curr_version' = version /\ childVersion' = childVersion
        /\ ClosesOverlap \/ \A t \in Threads : ~ InFlight(t)'
    BY <1>1, <1>4, ZenonT(30) DEF DoClose, CloseOther, SaveVersion, Reopen, InFlight
  <2>2. \A c \in Children : childVersion[c] <= version
    BY <1>0 DEF StoreTypeOK, ChildInv
  <2> QED BY <1>0, <1>1, <1>2, <2>1, <2>2, SMTT(60), ZenonT(60) DEF ChildInv, StoreTypeOK
<1> QED BY <1>2, <1>3, <1>4, ZenonT(30)

-----------------------------------------------------------------------------
\* The invariant holds at the start.
LEMMA SnapInitially == Init => SnapInv
<1> SUFFICES ASSUME Init PROVE SnapInv
  BY ZenonT(30)
<1>1. OrderInv /\ LockInv
  BY OrderInitially, LockInvInitially, SMTT(60), ZenonT(60) DEF Init
<1>2. ExtentInv /\ ChildInv
  BY OrigSizes DEF Init, LockInit, ExtentInv, ChildInv, InFlight
<1> QED BY <1>1, <1>2, ZenonT(30) DEF SnapInv

\* Every step keeps it.
LEMMA SnapKept == CleanWrites => (SnapInv /\ [Next]_vars => SnapInv')
<1> SUFFICES ASSUME CleanWrites, SnapInv, [Next]_vars PROVE SnapInv'
  BY ZenonT(30)
<1>1. OneKind
  BY ZenonT(30) DEF CleanWrites, OneKind
<1>2. OrderInv' /\ LockInv'
  BY <1>1, OrderKept, LockInvSide, SMTT(60), ZenonT(60) DEF SnapInv, CleanWrites
<1>3. ExtentInv' /\ ChildInv'
  <2>1. ASSUME NEW t \in Threads,
               \/ DoWriteCopyFails(t) \/ DoWritevCall(t) \/ DoWritevLockInode(t)
               \/ DoWritevVector(t) \/ DoWritevData(t) \/ DoWritevFails(t) \/ DoWritevCommit(t)
        PROVE  FALSE
    BY <2>1, ZenonT(60), SMTT(60) DEF CleanWrites, SnapInv, OrderInv, KindInv, DoWriteCopyFails, WriteCopyFails,
                DoWritevCall, WritevCall, DoWritevLockInode, WritevLockInode, DoWritevVector,
                DoWritevData, WritevData, DoWritevFails, WritevFails, DoWritevCommit, WritevCommit
  <2>2. ASSUME NEW t \in Threads,
               \/ DoWriteReserve(t) \/ DoWriteRecord(t) \/ DoWritePage(t) \/ DoWriteDataDone(t)
        PROVE  ExtentInv' /\ ChildInv'
    BY SMTT(60), ZenonT(60), <1>2, <2>2, SnapReserve, SnapRecord, SnapPage, SnapDone
  <2>3. CASE \/ \E c \in Children : UpdateVersion(c)
             \/ \E f \in Files : DoClose(f)
             \/ CloseOther
             \/ Reopen
    BY <2>3, SnapSave, ZenonT(30)
  <2>4. CASE \/ \E t \in Threads :
                  \/ DoBeginCall(t) \/ DoBeginAcquire(t) \/ DoEndCall(t) \/ DoEndRelease(t)
                  \/ DoInterrupted(t) \/ DoWriteCall(t) \/ DoWriteLockInode(t) \/ DoWriteDecide(t)
                  \/ DoWriteLockTxn(t) \/ DoWriteUnset(t) \/ DoUnlockInode(t)
             \/ UNCHANGED vars
    BY <1>2, <2>4, SnapQuietSteps, ZenonT(30)
  <2> QED BY <2>1, <2>2, <2>3, <2>4, SMTT(60), ZenonT(60) DEF Next
<1> QED BY <1>2, <1>3, ZenonT(30) DEF SnapInv


\* Records point into the file when no write is in progress: with writes that
\* finish, what corw_sparse.h:86 says of physical_start_blk is always true.
THEOREM RecordsPointAtDataAlways == CleanWrites => (Spec => []RecordsPointAtData)
<1> SUFFICES ASSUME CleanWrites PROVE Spec => []RecordsPointAtData
  BY SMTT(60), ZenonT(60)
<1>1. SnapInv => RecordsPointAtData
  BY ZenonT(30) DEF SnapInv, ExtentInv, RecordsPointAtData, InFlight
<1> QED BY <1>1, SnapInitially, SnapKept, PTL DEF Spec

\* The contents of a settled version never change, for any number of threads,
\* transactions, blocks and versions (scorw_write_see_thru_ro,
\* scorw_record_write, scorw_generic_perform_write).
THEOREM SnapshotImmutableAlways == CleanWrites => (Spec => SnapshotImmutable)
<1> SUFFICES ASSUME CleanWrites PROVE Spec => SnapshotImmutable
  BY ZenonT(30)
<1>1. SnapInv /\ [Next]_vars =>
        [\A v \in Settled, L \in LogicalBlocks : ContentAt(v, L)' = ContentAt(v, L)]_vars
  BY ContentKept, ZenonT(30)
<1> QED BY <1>1, SnapInitially, SnapKept, PTL DEF Spec, SnapshotImmutable

\* A child reads the same contents until its own version is updated, provided
\* that no file is closed in the middle of a write (update_version,
\* scorw_put_inode, scorw_read_from_parent).
THEOREM ChildViewStableAlways == CleanWrites /\ ~ ClosesOverlap => (Spec => ChildViewStable)
<1> DEFINE Stable == \A c \in Children :
                        childVersion'[c] = childVersion[c] =>
                           \A L \in LogicalBlocks :
                              ContentAt(childVersion[c], L)' = ContentAt(childVersion[c], L)
<1> SUFFICES ASSUME CleanWrites, ~ ClosesOverlap PROVE Spec => ChildViewStable
  BY SMTT(60), ZenonT(60)
<1>1. SnapInv /\ [Next]_vars => [Stable]_vars
  <2> SUFFICES ASSUME SnapInv, [Next]_vars, NEW c \in Children, NEW L \in LogicalBlocks,
                      childVersion'[c] = childVersion[c]
               PROVE  ContentAt(childVersion[c], L)' = ContentAt(childVersion[c], L)
    BY SMTT(60), ZenonT(60)
  <2>1. /\ StoreTypeOK /\ ChildInv
    BY ZenonT(30) DEF SnapInv, OrderInv, TypeOK
  <2>2. childVersion[c] \in Nat /\ childVersion[c] > 0 /\ curr_version \in Nat /\ version \in Nat
    BY <2>1 DEF StoreTypeOK
  <2>3. childVersion[c] <= curr_version /\ curr_version <= version
    BY <2>1, ZenonT(30) DEF ChildInv
  <2>4. ASSUME NEW t \in Threads, InFlight(t) PROVE childVersion[c] < FlightVersion(t)
    <3>1. curr_version < FlightVersion(t)
      BY <2>1, <2>4, ZenonT(30) DEF ChildInv
    <3>2. FlightVersion(t) \in Nat
      BY <2>1, <2>2, SMTT(60), ZenonT(60) DEF FlightVersion, StoreTypeOK
    <3> QED BY SMTT(60), ZenonT(60), <2>2, <2>3, <3>1, <3>2
  <2>5. childVersion[c] \in Settled
    BY <2>2, <2>3, <2>4, SMTT(60), ZenonT(60) DEF Settled
  <2>6. \A v \in Settled : ContentAt(v, L)' = ContentAt(v, L)
    BY SMTT(60), ZenonT(60), ContentKept
  <2> DEFINE w == childVersion[c]
  <2>7. w' = w
    BY ZenonT(30)
  <2> QED BY <2>5, <2>6, <2>7, SMTT(60), ZenonT(60) DEF ContentAt
<1> QED BY <1>1, SnapInitially, SnapKept, PTL DEF Spec, ChildViewStable
=============================================================================
