------------------------- MODULE VersionStoreProofs -------------------------
(***************************************************************************)
(* Proofs about TxnLock, for any number of threads and files, and about    *)
(* VersionStore, for any threads, requests, page size, number of versions  *)
(* and length of behaviour.                                                *)
(*                                                                         *)
(* LockInv is the inductive invariant of the locks: the mutex is locked    *)
(* exactly when t_locks has an owner, a write between its decision and its *)
(* release knows its own status, and (when no file is shared) that status  *)
(* is what scorw_self_transaction_status still answers.  InodeInv adds the *)
(* inode lock and does not need private files.                             *)
(***************************************************************************)
EXTENDS VersionStore, VersionLogProofs

OwnerHolds == owner # NONE <=> holder # NONE

StatusKnown ==
    \A t \in Threads :
        pc[t] \in {"reserve", "record"} => status[t] \in {SET_TRANSACTION, SET_NORMAL_WRITE}

LockInv == LockTypeOK /\ OwnerHolds /\ StatusKnown /\ WriteOwnsLock

\* The places at which a thread holds the inode lock.
InodePCs == {"decide", "lock_write", "reserve", "record", "unset", "data",
             "data_v", "commit_v", "unlock_inode"}

InodeInv == LockTypeOK /\ \A t \in Threads : pc[t] \in InodePCs => inode_lock = t

-----------------------------------------------------------------------------
\* No step takes a variable out of its type.
LEMMA TypeStep == LockTypeOK /\ [LockNext]_lockVars => LockTypeOK'
<1> SUFFICES ASSUME LockTypeOK, [LockNext]_lockVars PROVE LockTypeOK'
  BY ZenonT(30)
<1> USE LockAssumption DEF LockTypeOK, Goto, PCs, NO_STATUS, UNSET_TRANSACTION,
          SET_TRANSACTION, SET_NORMAL_WRITE
<1>1. ASSUME NEW t \in Threads, TxnStep(t) \/ Interrupted(t) PROVE LockTypeOK'
  BY <1>1 DEF TxnStep, BeginCall, BeginAcquire, EndCall, EndRelease, Interrupted,
              AcquireTxn, ReleaseTxn
<1>2. ASSUME NEW t \in Threads, WriteCall(t) \/ WriteStep(t) PROVE LockTypeOK'
  <2>1. CASE WriteCall(t) \/ WriteLockInode(t) \/ WriteDecide(t) \/ WriteLockTxn(t)
    BY <2>1 DEF WriteCall, WriteLockInode, WriteDecide, WriteLockTxn, AcquireTxn
  <2>2. CASE WriteReserve(t) \/ WriteCopyFails(t) \/ WriteRecord(t)
    BY <2>2, ZenonT(30) DEF WriteReserve, WriteCopyFails, WriteRecord
  <2>3. CASE WriteUnset(t) \/ WriteDataDone(t) \/ UnlockInode(t)
    BY <2>3, ZenonT(30) DEF WriteUnset, WriteDataDone, UnlockInode, ReleaseTxn
  <2> QED BY <1>2, <2>1, <2>2, <2>3, ZenonT(30) DEF WriteStep
<1>3. ASSUME NEW t \in Threads, WritevCall(t) \/ WritevStep(t) PROVE LockTypeOK'
  BY <1>3, ZenonT(30) DEF WritevCall, WritevStep, WritevLockInode, WritevData, WritevFails, WritevCommit
<1>4. ASSUME NEW f \in Files, Close(f) PROVE LockTypeOK'
  BY <1>4, ZenonT(30) DEF Close, ReleaseTxn
<1>5. CASE UNCHANGED lockVars
  BY <1>5, ZenonT(30) DEF lockVars
<1> QED BY <1>1, <1>2, <1>3, <1>4, <1>5, ZenonT(30) DEF LockNext

\* The variables of the two locks keep their types: any number of threads,
\* files shared or not, aborts and failed copies included.
THEOREM LockTypeCorrect == LockSpec => []LockTypeOK
<1>1. LockInit => LockTypeOK
  BY LockAssumption, ZenonT(30) DEF LockInit, LockTypeOK, PCs, NO_STATUS, UNSET_TRANSACTION,
       SET_TRANSACTION, SET_NORMAL_WRITE
<1> QED BY <1>1, TypeStep, PTL DEF LockSpec

-----------------------------------------------------------------------------
\* Only the thread that holds the inode lock is inside a write or a writev.
LEMMA InodeStep == InodeInv /\ [LockNext]_lockVars => InodeInv'
<1> SUFFICES ASSUME InodeInv, [LockNext]_lockVars PROVE InodeInv'
  BY ZenonT(30)
<1>0. LockTypeOK'
  BY TypeStep, ZenonT(30) DEF InodeInv
<1> SUFFICES ASSUME NEW u \in Threads, pc'[u] \in InodePCs PROVE inode_lock' = u
  BY <1>0, ZenonT(30) DEF InodeInv
<1> USE LockAssumption DEF InodeInv, LockTypeOK, Goto, InodePCs
<1>1. ASSUME NEW t \in Threads, TxnStep(t) \/ Interrupted(t) PROVE inode_lock' = u
  BY <1>1, ZenonT(30) DEF TxnStep, BeginCall, BeginAcquire, EndCall, EndRelease, Interrupted
<1>2. ASSUME NEW t \in Threads, WriteCall(t) \/ WriteStep(t) PROVE inode_lock' = u
  <2>1. CASE WriteCall(t) \/ WriteLockInode(t) \/ WriteDecide(t) \/ WriteLockTxn(t)
    BY <2>1 DEF WriteCall, WriteLockInode, WriteDecide, WriteLockTxn
  <2>2. CASE WriteReserve(t) \/ WriteCopyFails(t) \/ WriteRecord(t)
    BY <2>2, ZenonT(30) DEF WriteReserve, WriteCopyFails, WriteRecord
  <2>3. CASE WriteUnset(t) \/ WriteDataDone(t) \/ UnlockInode(t)
    BY <2>3, ZenonT(30) DEF WriteUnset, WriteDataDone, UnlockInode
  <2> QED BY <1>2, <2>1, <2>2, <2>3, ZenonT(30) DEF WriteStep
<1>3. ASSUME NEW t \in Threads, WritevCall(t) \/ WritevStep(t) PROVE inode_lock' = u
  BY <1>3 DEF WritevCall, WritevStep, WritevLockInode, WritevData, WritevFails, WritevCommit
<1>4. ASSUME NEW f \in Files, Close(f) PROVE inode_lock' = u
  BY <1>4, ZenonT(30) DEF Close
<1>5. CASE UNCHANGED lockVars
  BY <1>5, ZenonT(30) DEF lockVars
<1> QED BY <1>1, <1>2, <1>3, <1>4, <1>5, ZenonT(30) DEF LockNext

\* Initially nobody holds the inode lock.
LEMMA InodeInitially == LockInit => InodeInv
BY LockAssumption, ZenonT(30) DEF LockInit, InodeInv, InodePCs, LockTypeOK, PCs, NO_STATUS,
     UNSET_TRANSACTION, SET_TRANSACTION, SET_NORMAL_WRITE

-----------------------------------------------------------------------------
\* transaction_lock and t_locks.owner are set and cleared together.
LEMMA OwnerStep == LockInv /\ [LockNext]_lockVars => OwnerHolds'
<1> SUFFICES ASSUME LockInv, [LockNext]_lockVars PROVE OwnerHolds'
  BY ZenonT(30)
<1> USE LockAssumption DEF LockInv, LockTypeOK, OwnerHolds
<1>1. ASSUME NEW t \in Threads, TxnStep(t) \/ Interrupted(t) PROVE OwnerHolds'
  BY <1>1, ZenonT(30) DEF TxnStep, BeginCall, BeginAcquire, EndCall, EndRelease, Interrupted,
              AcquireTxn, ReleaseTxn
<1>2. ASSUME NEW t \in Threads, WriteCall(t) \/ WriteStep(t) PROVE OwnerHolds'
  BY <1>2 DEF WriteStep, WriteCall, WriteLockInode, WriteDecide, WriteLockTxn,
              AcquireTxn, WriteReserve, WriteCopyFails, WriteRecord, WriteUnset,
              WriteDataDone, UnlockInode, ReleaseTxn
<1>3. ASSUME NEW t \in Threads, WritevCall(t) \/ WritevStep(t) PROVE OwnerHolds'
  BY <1>3, ZenonT(30) DEF WritevCall, WritevStep, WritevLockInode, WritevData, WritevFails, WritevCommit
<1>4. ASSUME NEW f \in Files, Close(f) PROVE OwnerHolds'
  BY <1>4, ZenonT(30) DEF Close, ReleaseTxn
<1>5. CASE UNCHANGED lockVars
  BY <1>5, ZenonT(30) DEF lockVars
<1> QED BY <1>1, <1>2, <1>3, <1>4, <1>5, ZenonT(30) DEF LockNext

\* A write that gets past its decision has decided for one of the two kinds;
\* this does not need private files.
LEMMA StatusStep == LockTypeOK /\ StatusKnown /\ [LockNext]_lockVars => StatusKnown'
<1> SUFFICES ASSUME LockTypeOK, StatusKnown, [LockNext]_lockVars,
                    NEW u \in Threads, pc'[u] \in {"reserve", "record"}
             PROVE  status'[u] \in {SET_TRANSACTION, SET_NORMAL_WRITE}
  BY ZenonT(30) DEF StatusKnown
<1> USE LockAssumption DEF LockTypeOK, StatusKnown, Goto
<1>1. ASSUME NEW t \in Threads, TxnStep(t) \/ Interrupted(t)
      PROVE  status'[u] \in {SET_TRANSACTION, SET_NORMAL_WRITE}
  BY <1>1, ZenonT(30) DEF TxnStep, BeginCall, BeginAcquire, EndCall, EndRelease, Interrupted
<1>2. ASSUME NEW t \in Threads, WriteCall(t) \/ WriteStep(t)
      PROVE  status'[u] \in {SET_TRANSACTION, SET_NORMAL_WRITE}
  BY <1>2, ZenonT(30) DEF WriteStep, WriteCall, WriteLockInode, WriteDecide, WriteLockTxn,
              WriteReserve, WriteCopyFails, WriteRecord, WriteUnset,
              WriteDataDone, UnlockInode
<1>3. ASSUME NEW t \in Threads, WritevCall(t) \/ WritevStep(t)
      PROVE  status'[u] \in {SET_TRANSACTION, SET_NORMAL_WRITE}
  BY <1>3, ZenonT(30) DEF WritevCall, WritevStep, WritevLockInode, WritevData, WritevFails, WritevCommit
<1>4. ASSUME NEW f \in Files, Close(f)
      PROVE  status'[u] \in {SET_TRANSACTION, SET_NORMAL_WRITE}
  BY <1>4, ZenonT(30) DEF Close
<1>5. CASE UNCHANGED lockVars
  BY <1>5, ZenonT(30) DEF lockVars
<1> QED BY <1>1, <1>2, <1>3, <1>4, <1>5, ZenonT(30) DEF LockNext

-----------------------------------------------------------------------------
(* With private files a thread other than the one at work cannot take the  *)
(* transaction lock away: whoever releases it is its owner's only thread.  *)
LEMMA OwnsStep ==
    ASSUME PrivateFiles, LockInv, [LockNext]_lockVars
    PROVE  WriteOwnsLock'
<1> DEFINE Good(u) == /\ pc[u] \in {"reserve", "record"} => SelfStatus(fileOf[u]) = status[u]
                      /\ pc[u] = "unset" => SelfStatus(fileOf[u]) = SET_NORMAL_WRITE
                      /\ pc[u] = "end" => owner = fileOf[u]
<1> SUFFICES ASSUME NEW u \in Threads PROVE Good(u)'
  BY ZenonT(30) DEF WriteOwnsLock
<1> USE LockAssumption DEF PrivateFiles, LockInv, LockTypeOK, OwnerHolds, StatusKnown,
          WriteOwnsLock, SelfStatus, mutex_is_locked, Goto, NO_STATUS,
          UNSET_TRANSACTION, SET_TRANSACTION, SET_NORMAL_WRITE
<1>1. ASSUME NEW t \in Threads, TxnStep(t) \/ Interrupted(t) PROVE Good(u)'
  <2>1. CASE BeginCall(t) \/ EndCall(t) \/ Interrupted(t)
    BY <2>1, ZenonT(30) DEF BeginCall, EndCall, Interrupted, MayUnset
  <2>2. CASE BeginAcquire(t)
    BY <2>2 DEF BeginAcquire, AcquireTxn
  <2>3. CASE EndRelease(t)
    BY <2>3 DEF EndRelease, ReleaseTxn
  <2> QED BY <1>1, <2>1, <2>2, <2>3, ZenonT(30) DEF TxnStep
<1>2. ASSUME NEW t \in Threads, WriteCall(t) \/ WriteStep(t) PROVE Good(u)'
  <2>1. CASE WriteCall(t) \/ WriteLockInode(t) \/ WriteDecide(t)
    BY <2>1 DEF WriteCall, WriteLockInode, WriteDecide
  <2>2. CASE WriteLockTxn(t)
    BY <2>2 DEF WriteLockTxn, AcquireTxn
  <2>3. CASE WriteReserve(t) \/ WriteCopyFails(t) \/ WriteRecord(t)
    BY <2>3, ZenonT(30) DEF WriteReserve, WriteCopyFails, WriteRecord
  <2>4. CASE WriteUnset(t)
    BY <2>4 DEF WriteUnset, MayUnset, ReleaseTxn
  <2>5. CASE WriteDataDone(t) \/ UnlockInode(t)
    BY <2>5, ZenonT(30) DEF WriteDataDone, UnlockInode
  <2> QED BY <1>2, <2>1, <2>2, <2>3, <2>4, <2>5, ZenonT(30) DEF WriteStep
<1>3. ASSUME NEW t \in Threads, WritevCall(t) \/ WritevStep(t) PROVE Good(u)'
  BY <1>3, ZenonT(30) DEF WritevCall, WritevStep, WritevLockInode, WritevData, WritevFails, WritevCommit
<1>4. ASSUME NEW f \in Files, Close(f) PROVE Good(u)'
  BY <1>4 DEF Close, ReleaseTxn
<1>5. CASE UNCHANGED lockVars
  BY <1>5, ZenonT(30) DEF lockVars
<1> QED BY <1>1, <1>2, <1>3, <1>4, <1>5, ZenonT(30) DEF LockNext

\* The inductive invariant holds initially.
LEMMA LockInvInitially == LockInit => LockInv
BY LockAssumption, ZenonT(30) DEF LockInit, LockInv, OwnerHolds, StatusKnown, WriteOwnsLock,
     LockTypeOK, PCs, NO_STATUS, UNSET_TRANSACTION, SET_TRANSACTION, SET_NORMAL_WRITE

\* Every step keeps the inductive invariant when no file is shared.
LEMMA LockInvStep ==
    PrivateFiles => (LockInv /\ [LockNext]_lockVars => LockInv')
BY TypeStep, OwnerStep, StatusStep, OwnsStep, ZenonT(30) DEF LockInv

\* Between taking its status and logging its record a write is covered by the
\* transaction lock of its own file, and an END that passed its check still
\* owns the lock it is about to release (scorw_write_see_thru_ro,
\* scorw_set_transaction): for any number of threads, each with a file of its
\* own, with aborts, signals and failed copies.
THEOREM WriteOwnsLockAlways == PrivateFiles => (LockSpec => []WriteOwnsLock)
<1> SUFFICES ASSUME PrivateFiles PROVE LockSpec => []WriteOwnsLock
  BY ZenonT(30)
<1>1. LockInv => WriteOwnsLock
  BY ZenonT(30) DEF LockInv
<1> QED BY <1>1, LockInvInitially, LockInvStep, PTL DEF LockSpec

\* An open transaction is only ever ended by a thread that uses its file
\* ("2 process open the same file ...", corw_sparse.h:218).
THEOREM OnlyOwnerEndsAlways == PrivateFiles => (LockSpec => OnlyOwnerEnds)
<1> SUFFICES ASSUME PrivateFiles PROVE LockSpec => OnlyOwnerEnds
  BY ZenonT(30)
<1> DEFINE Kept == \A f \in Files :
                     (SelfStatus(f) = SET_TRANSACTION /\ owner' # f) =>
                        \A t \in Threads : fileOf[t] # f => pc'[t] = pc[t]
<1>1. LockInv /\ [LockNext]_lockVars => [Kept]_lockVars
  <2> SUFFICES ASSUME LockInv, LockNext,
                      NEW f \in Files, SelfStatus(f) = SET_TRANSACTION, owner' # f,
                      NEW u \in Threads, fileOf[u] # f
               PROVE  pc'[u] = pc[u]
    BY ZenonT(30)
  <2> USE LockAssumption DEF LockInv, LockTypeOK, OwnerHolds, WriteOwnsLock,
            SelfStatus, mutex_is_locked, Goto, NO_STATUS, UNSET_TRANSACTION,
            SET_TRANSACTION, SET_NORMAL_WRITE
  <2>1. ASSUME NEW t \in Threads, TxnStep(t) \/ Interrupted(t) PROVE pc'[u] = pc[u]
    BY <2>1 DEF TxnStep, BeginCall, BeginAcquire, EndCall, EndRelease, Interrupted,
                AcquireTxn
  <2>2. ASSUME NEW t \in Threads, WriteCall(t) \/ WriteStep(t) PROVE pc'[u] = pc[u]
    BY <2>2 DEF WriteStep, WriteCall, WriteLockInode, WriteDecide, WriteLockTxn,
                AcquireTxn, WriteReserve, WriteCopyFails, WriteRecord, WriteUnset,
                MayUnset, WriteDataDone, UnlockInode
  <2>3. ASSUME NEW t \in Threads, WritevCall(t) \/ WritevStep(t) PROVE pc'[u] = pc[u]
    BY <2>3 DEF WritevCall, WritevStep, WritevLockInode, WritevData, WritevFails, WritevCommit
  <2>4. ASSUME NEW g \in Files, Close(g) PROVE pc'[u] = pc[u]
    BY <2>4, ZenonT(30) DEF Close
  <2> QED BY <2>1, <2>2, <2>3, <2>4, ZenonT(30) DEF LockNext
<1> QED BY <1>1, LockInvInitially, LockInvStep, PTL DEF LockSpec, OnlyOwnerEnds

-----------------------------------------------------------------------------
(* The store.                                                              *)

\* The places at which a thread is inside a write.
WritePCs == {"lock_inode", "decide", "lock_write", "reserve", "record", "unset", "data"}

\* A write in progress has its one request, a writev its new version.
CallInv ==
    \A t \in Threads :
        /\ pc[t] \in WritePCs => Len(req[t]) = 1
        /\ pc[t] \in {"data_v", "commit_v"} => ver[t] > 0

-----------------------------------------------------------------------------
(* The steps of the store are steps of the locks.                          *)

\* Every step but Reopen is a step of TxnLock or leaves the locks alone.
LEMMA LockSide == [Next]_vars => [LockNext]_lockVars \/ Reopen
<1> SUFFICES ASSUME [Next]_vars PROVE [LockNext]_lockVars \/ Reopen
  BY ZenonT(30)
<1>1. ASSUME NEW t \in Threads,
             \/ DoBeginCall(t) \/ DoBeginAcquire(t) \/ DoEndCall(t) \/ DoEndRelease(t)
             \/ DoInterrupted(t)
      PROVE  LockNext
  BY <1>1, ZenonT(30) DEF DoBeginCall, DoBeginAcquire, DoEndCall, DoEndRelease, DoInterrupted,
              LockNext, TxnStep
<1>2. ASSUME NEW t \in Threads,
             \/ DoWriteCall(t) \/ DoWriteLockInode(t) \/ DoWriteDecide(t)
             \/ DoWriteLockTxn(t) \/ DoWriteReserve(t) \/ DoWriteCopyFails(t)
             \/ DoWriteRecord(t) \/ DoWriteUnset(t) \/ DoWriteDataDone(t)
             \/ DoUnlockInode(t)
      PROVE  LockNext
  BY <1>2, ZenonT(30) DEF DoWriteCall, DoWriteLockInode, DoWriteDecide, DoWriteLockTxn,
              DoWriteReserve, DoWriteCopyFails, DoWriteRecord, DoWriteUnset,
              DoWriteDataDone, DoUnlockInode, LockNext, WriteStep
<1>3. ASSUME NEW t \in Threads,
             \/ DoWritevCall(t) \/ DoWritevLockInode(t) \/ DoWritevData(t)
             \/ DoWritevFails(t) \/ DoWritevCommit(t)
      PROVE  LockNext
  BY <1>3, ZenonT(30) DEF DoWritevCall, DoWritevLockInode, DoWritevData, DoWritevFails,
              DoWritevCommit, LockNext, WritevStep
<1>4. ASSUME NEW t \in Threads, DoWritePage(t) \/ DoWritevVector(t)
      PROVE  UNCHANGED lockVars
  BY <1>4, ZenonT(30) DEF DoWritePage, DoWritevVector
<1>5. ASSUME NEW f \in Files, DoClose(f) PROVE LockNext
  BY <1>5, ZenonT(30) DEF DoClose, LockNext
<1>6. ASSUME CloseOther \/ \E c \in Children : UpdateVersion(c) PROVE UNCHANGED lockVars
  BY <1>6, ZenonT(30) DEF CloseOther, UpdateVersion
<1>7. CASE UNCHANGED vars
  BY <1>7, ZenonT(30) DEF vars
<1> QED BY <1>1, <1>2, <1>3, <1>4, <1>5, <1>6, <1>7, ZenonT(30) DEF Next

\* The inode lock does its work in the store too.
LEMMA InodeSide == InodeInv /\ [Next]_vars => InodeInv'
<1> SUFFICES ASSUME InodeInv, [Next]_vars PROVE InodeInv'
  BY ZenonT(30)
<1>1. CASE [LockNext]_lockVars
  BY <1>1, InodeStep, ZenonT(30)
<1>2. CASE Reopen
  BY <1>2, ZenonT(30) DEF Reopen, InodeInv, LockTypeOK, InodePCs
<1> QED BY <1>1, <1>2, LockSide, ZenonT(30)

\* Inside the store a write still knows its kind.
LEMMA StatusSide == LockTypeOK /\ StatusKnown /\ [Next]_vars => StatusKnown'
<1> SUFFICES ASSUME LockTypeOK, StatusKnown, [Next]_vars PROVE StatusKnown'
  BY ZenonT(30)
<1>1. CASE [LockNext]_lockVars
  BY <1>1, StatusStep, ZenonT(30)
<1>2. CASE Reopen
  BY <1>2, ZenonT(30) DEF Reopen, StatusKnown
<1> QED BY <1>1, <1>2, LockSide, ZenonT(30)

-----------------------------------------------------------------------------
(* Types.                                                                  *)

\* A request covers a positive number of blocks.
LEMMA RequestBlocks ==
    ASSUME NEW r \in Request
    PROVE  /\ r.blk \in Nat /\ r.off \in Nat /\ r.count \in Nat /\ r.val \in Values
           /\ NrBlocks(r) \in Nat /\ NrBlocks(r) > 0
           /\ LastBlock(r) \in Nat
<1>1. /\ r.blk \in Nat /\ r.off \in 0..(PAGE_SIZE - 1)
      /\ r.count \in Nat /\ r.count > 0 /\ r.val \in Values
  BY DEF Request
<1>2. PAGE_SIZE \in Nat \ {0}
  BY StoreAssumption, ZenonT(30)
<1>3. r.off \in Nat
  BY <1>1, <1>2
<1>4. EndUnit(r) - 1 \in Nat
  BY <1>1, <1>3 DEF EndUnit
<1>5. (EndUnit(r) - 1) \div PAGE_SIZE \in Nat
  BY <1>2, <1>4
<1> QED BY <1>1, <1>3, <1>5 DEF NrBlocks, LastBlock

\* The blocks of the original file, the partial one included.
LEMMA OrigSizes ==
    /\ OrigPages \in Nat /\ OrigBlocks \in Nat /\ OrigBlocks <= OrigPages
    /\ OrigTail \in Nat /\ OrigTail < PAGE_SIZE
BY StoreAssumption, LogAssumption DEF OrigPages

\* Any block of a file is a block, past its end too.
LEMMA BlockAtType ==
    ASSUME NEW s \in Nat, NEW d \in [0..(s - 1) -> Blocks], NEW b
    PROVE  BlockAt(d, b) \in Blocks
BY StoreAssumption, ZenonT(30) DEF BlockAt, ZeroBlock, Blocks

\* Overwriting part of a block gives a block.
LEMMA FillType ==
    ASSUME NEW r \in Request, NEW k \in Nat, NEW block \in Blocks
    PROVE  Fill(r, k, block) \in Blocks
<1>1. r.val \in Values
  BY RequestBlocks, ZenonT(30)
<1> QED BY <1>1, ZenonT(30) DEF Fill, Blocks

\* PutBlock and PutSize agree on how far the file reaches.
LEMMA PutType ==
    ASSUME NEW s \in Nat, NEW d \in [0..(s - 1) -> Blocks], NEW b \in Nat,
           NEW block \in Blocks
    PROVE  /\ PutSize(s, b) \in Nat
           /\ PutBlock(d, b, block) \in [0..(PutSize(s, b) - 1) -> Blocks]
<1>1. PutSize(s, b) \in Nat
  BY DEF PutSize
<1>2. DOMAIN d \cup 0..b = 0..(PutSize(s, b) - 1)
  BY DEF PutSize
<1>3. \A x \in 0..(PutSize(s, b) - 1) : BlockAt(d, x) \in Blocks
  BY BlockAtType, ZenonT(30)
<1> QED BY <1>1, <1>2, <1>3, ZenonT(30) DEF PutBlock

\* What the copies of a write leave behind is a file of the size they report.
LEMMA CopiesType ==
    ASSUME StoreTypeOK, NEW r \in Request, NEW p
    PROVE  /\ SizeAfterCopies(r, p) \in Nat
           /\ LastCopied(r, p, FirstCopied(r, p)) \in [0..(SizeAfterCopies(r, p) - 1) -> Blocks]
           /\ FirstCopied(r, p) \in
                [0..((IF HasOld(r, p) /\ CopiesFirst(r) THEN size + 1 ELSE size) - 1) -> Blocks]
<1> DEFINE s1 == IF HasOld(r, p) /\ CopiesFirst(r) THEN size + 1 ELSE size
           d1 == FirstCopied(r, p)
           n == NrBlocks(r)
<1>0. size \in Nat /\ data \in [0..(size - 1) -> Blocks]
  BY ZenonT(30) DEF StoreTypeOK
<1>1. n \in Nat /\ n > 0
  BY RequestBlocks, ZenonT(30)
<1>2. s1 \in Nat /\ d1 \in [0..(s1 - 1) -> Blocks]
  <2>1. CASE HasOld(r, p) /\ CopiesFirst(r)
    <3>1. BlockAt(data, p) \in Blocks
      BY <1>0, BlockAtType, ZenonT(30)
    <3>2. PutSize(size, size) = size + 1
      BY <1>0 DEF PutSize
    <3>3. PutBlock(data, size, BlockAt(data, p)) \in [0..((size + 1) - 1) -> Blocks]
      BY <1>0, <3>1, <3>2, PutType, ZenonT(60), SMTT(60)
    <3> QED BY <1>0, <2>1, <3>3 DEF FirstCopied
  <2>2. CASE ~ (HasOld(r, p) /\ CopiesFirst(r))
    BY <1>0, <2>2, ZenonT(30) DEF FirstCopied
  <2> QED BY <2>1, <2>2, ZenonT(30)
<1>3. /\ SizeAfterCopies(r, p) \in Nat
      /\ LastCopied(r, p, d1) \in [0..(SizeAfterCopies(r, p) - 1) -> Blocks]
  <2>1. CASE HasOld(r, p) /\ CopiesLast(r)
    <3>1. n > 1
      BY <2>1, ZenonT(30) DEF CopiesLast
    <3>2. PutSize(s1, size + n - 1) = size + n /\ size + n - 1 \in Nat
      BY <1>0, <1>1, <1>2, <3>1 DEF PutSize
    <3>3. BlockAt(d1, LastBlock(r)) \in Blocks
      BY <1>2, BlockAtType, ZenonT(30)
    <3> HIDE DEF s1, d1, n
    <3>4. PutBlock(d1, size + n - 1, BlockAt(d1, LastBlock(r)))
             \in [0..((size + n) - 1) -> Blocks]
      BY <1>2, <3>2, <3>3, PutType, ZenonT(30)
    <3>5. SizeAfterCopies(r, p) = size + n
      BY <2>1, ZenonT(30) DEF SizeAfterCopies, n
    <3>6. LastCopied(r, p, d1) = PutBlock(d1, size + n - 1, BlockAt(d1, LastBlock(r)))
      BY <2>1, ZenonT(30) DEF LastCopied, n
    <3> QED BY <1>0, <1>1, <3>4, <3>5, <3>6
  <2>2. CASE ~ (HasOld(r, p) /\ CopiesLast(r))
    <3>1. SizeAfterCopies(r, p) = s1 /\ LastCopied(r, p, d1) = d1
      BY <2>2, ZenonT(30) DEF SizeAfterCopies, LastCopied
    <3> QED BY <1>2, <3>1, ZenonT(30)
  <2> QED BY <2>1, <2>2, ZenonT(30)
<1> QED BY <1>2, <1>3, ZenonT(30)

\* The request of a thread inside a write.
LEMMA TheReqType ==
    ASSUME TypeOK, CallInv, NEW t \in Threads, pc[t] \in WritePCs
    PROVE  TheReq(t) \in Request
<1>1. req[t] \in Seq(Request) /\ Len(req[t]) = 1
  BY ZenonT(30) DEF TypeOK, StoreTypeOK, CallInv
<1> QED BY <1>1 DEF TheReq

-----------------------------------------------------------------------------
\* Steps of transactions, signals, children and reopening.
LEMMA TypeOthers ==
    ASSUME TypeOK, CallInv,
           \/ \E t \in Threads : \/ DoBeginCall(t) \/ DoBeginAcquire(t) \/ DoEndCall(t)
                                 \/ DoEndRelease(t) \/ DoInterrupted(t)
           \/ \E f \in Files : DoClose(f)
           \/ CloseOther
           \/ \E c \in Children : UpdateVersion(c)
           \/ Reopen
           \/ UNCHANGED vars
    PROVE  StoreTypeOK' /\ CallInv'
<1> USE LockAssumption, StoreAssumption DEF TypeOK, StoreTypeOK, LockTypeOK, CallInv,
          WritePCs, storeVars
<1>1. ASSUME NEW t \in Threads, DoBeginCall(t) PROVE StoreTypeOK' /\ CallInv'
  BY <1>1 DEF DoBeginCall, BeginCall, StartCall, Goto
<1>2. ASSUME NEW t \in Threads, DoBeginAcquire(t) \/ DoEndRelease(t) \/ DoInterrupted(t)
      PROVE  StoreTypeOK' /\ CallInv'
  BY <1>2, ZenonT(60), SMTT(60) DEF DoBeginAcquire, BeginAcquire, DoEndRelease, EndRelease, DoInterrupted,
              Interrupted, Goto
<1>3. ASSUME NEW t \in Threads, DoEndCall(t) PROVE StoreTypeOK' /\ CallInv'
  BY <1>3, SMTT(60), ZenonT(60) DEF DoEndCall, EndCall, BumpIfTransaction, Goto
<1>4. ASSUME NEW f \in Files, DoClose(f) PROVE StoreTypeOK' /\ CallInv'
  BY <1>4, SMTT(60), ZenonT(60) DEF DoClose, Close, SaveVersion
<1>5. CASE CloseOther
  BY <1>5, SMTT(60), ZenonT(60) DEF CloseOther, SaveVersion, lockVars
<1>8. ASSUME NEW c \in Children, UpdateVersion(c) PROVE StoreTypeOK' /\ CallInv'
  BY <1>8, ZenonT(60), SMTT(60) DEF UpdateVersion, lockVars
<1>6. CASE Reopen
  BY <1>6, ZenonT(30) DEF Reopen
<1>7. CASE UNCHANGED vars
  BY <1>7, SMTT(60), ZenonT(60) DEF vars, lockVars
<1> QED BY <1>1, <1>2, <1>3, <1>4, <1>5, <1>6, <1>7, <1>8, ZenonT(60), SMTT(60)

\* Steps of a write.
LEMMA TypeWrite ==
    ASSUME TypeOK, CallInv, NEW t \in Threads,
           \/ DoWriteCall(t) \/ DoWriteLockInode(t) \/ DoWriteDecide(t)
           \/ DoWriteLockTxn(t) \/ DoWriteReserve(t) \/ DoWriteCopyFails(t)
           \/ DoWriteRecord(t) \/ DoWriteUnset(t) \/ DoWritePage(t)
           \/ DoWriteDataDone(t) \/ DoUnlockInode(t)
    PROVE  StoreTypeOK' /\ CallInv'
<1> DEFINE r == TheReq(t)
           p == Lookup(log, version, r.blk)
<1>0. LockTypeOK /\ StoreTypeOK
  BY ZenonT(30) DEF TypeOK
<1>1. CASE DoWriteCall(t)
  <2>1. PICK q \in Requests[t] : StartCall(t, <<q>>)
    BY <1>1, ZenonT(30) DEF DoWriteCall
  <2>2. q \in Request
    BY <2>1, StoreAssumption, ZenonT(30)
  <2> QED BY SMTT(60), ZenonT(60), <1>0, <1>1, <2>1, <2>2, StoreAssumption
          DEF DoWriteCall, WriteCall, StartCall, Goto, StoreTypeOK, LockTypeOK, CallInv, WritePCs
<1>2. CASE DoWriteLockInode(t) \/ DoWriteDecide(t) \/ DoWriteLockTxn(t) \/ DoWriteDataDone(t)
  BY <1>0, <1>2, ZenonT(60), SMTT(60) DEF DoWriteLockInode, WriteLockInode, DoWriteDecide, WriteDecide,
       DoWriteLockTxn, WriteLockTxn, DoWriteDataDone, WriteDataDone, Goto, storeVars,
       StoreTypeOK, LockTypeOK, CallInv, WritePCs
<1>3. CASE DoWriteReserve(t)
  <2>1. pc[t] = "reserve"
    BY <1>3, ZenonT(30) DEF DoWriteReserve, WriteReserve
  <2>2. r \in Request
    BY <2>1, TheReqType, ZenonT(30) DEF WritePCs
  <2>3. size' \in Nat /\ data' \in [0..(size' - 1) -> Blocks]
    BY <1>0, <1>3, <2>2, CopiesType, ZenonT(30) DEF DoWriteReserve
  <2>4. StoreTypeOK'
    <3>1. version' \in Nat \ {0}
      BY <1>0, <1>3 DEF DoWriteReserve, StoreTypeOK
    <3>2. app' \in [Threads -> Nat] /\ page' \in [Threads -> Nat]
      BY <1>0, <1>3, ZenonT(30) DEF DoWriteReserve, StoreTypeOK
    <3>3. UNCHANGED <<log, curr_version, childVersion, req, ver, calls>>
      BY <1>3, ZenonT(30) DEF DoWriteReserve
    <3> QED BY <1>0, <2>3, <3>1, <3>2, <3>3, ZenonT(60), SMTT(60) DEF StoreTypeOK
  <2>5. CallInv'
    BY <1>0, <1>3, <2>1, ZenonT(30) DEF DoWriteReserve, WriteReserve, Goto, CallInv, LockTypeOK, WritePCs
  <2> QED BY <2>4, <2>5, ZenonT(30)
<1>4. CASE DoWriteCopyFails(t)
  <2>1. pc[t] = "reserve"
    BY <1>4, ZenonT(30) DEF DoWriteCopyFails, WriteCopyFails
  <2>2. r \in Request /\ r.blk \in Nat
    BY <2>1, TheReqType, RequestBlocks, ZenonT(30) DEF WritePCs
  <2>3. size' \in Nat /\ data' \in [0..(size' - 1) -> Blocks]
    <3>1. CASE UNCHANGED <<data, size>>
      BY <1>0, <3>1, ZenonT(30) DEF StoreTypeOK
    <3>2. CASE /\ HasOld(r, p)
               /\ data' = FirstCopied(r, p)
               /\ size' = IF CopiesFirst(r) THEN size + 1 ELSE size
      <4>1. FirstCopied(r, p) \in
              [0..((IF HasOld(r, p) /\ CopiesFirst(r) THEN size + 1 ELSE size) - 1) -> Blocks]
        BY <1>0, <2>2, CopiesType, ZenonT(30)
      <4>2. size \in Nat
        BY <1>0, ZenonT(30) DEF StoreTypeOK
      <4> HIDE DEF r, p
      <4> QED BY <3>2, <4>1, <4>2
    <3> QED BY <1>4, <3>1, <3>2, ZenonT(30) DEF DoWriteCopyFails
  <2>4. app' = [app EXCEPT ![t] = r.blk]
    BY <1>4, ZenonT(30) DEF DoWriteCopyFails
  <2> HIDE DEF r, p
  <2>5. StoreTypeOK'
    BY <1>0, <1>4, <2>2, <2>3, <2>4, ZenonT(60), SMTT(60) DEF DoWriteCopyFails, StoreTypeOK, LockTypeOK
  <2>6. CallInv'
    BY <1>0, <1>4, <2>1, ZenonT(30) DEF DoWriteCopyFails, WriteCopyFails, Goto, CallInv, LockTypeOK, WritePCs
  <2> QED BY <2>5, <2>6, ZenonT(30)
<1>5. CASE DoWriteRecord(t)
  <2>1. pc[t] = "record"
    BY <1>5, ZenonT(60), SMTT(60) DEF DoWriteRecord, WriteRecord
  <2>2. r \in Request
    BY <2>1, TheReqType, ZenonT(30) DEF WritePCs
  <2>3. r.blk \in Nat /\ NrBlocks(r) \in Nat \ {0}
    BY <2>2, RequestBlocks
  <2>4. RecordVersion(t) \in Nat \ {0} /\ app[t] \in Nat
    BY <1>0, SMTT(60), ZenonT(60) DEF RecordVersion, StoreTypeOK
  <2>5. [version_num |-> RecordVersion(t), logical_start_blk |-> r.blk,
         physical_start_blk |-> app[t], len_blks |-> NrBlocks(r)] \in Record
    BY <2>3, <2>4, ZenonT(60), SMTT(60) DEF Record
  <2>6. log' \in Seq(Record)
    <3>1. log \in Seq(Record)
      BY <1>0, ZenonT(30) DEF StoreTypeOK
    <3>2. \/ log' = log
          \/ log' = Append(log, [version_num |-> RecordVersion(t), logical_start_blk |-> r.blk,
                                 physical_start_blk |-> app[t], len_blks |-> NrBlocks(r)])
      BY <1>5, ZenonT(30) DEF DoWriteRecord
    <3> HIDE DEF r
    <3> QED BY <2>5, <3>1, <3>2
  <2>7. StoreTypeOK'
    BY <1>0, <1>5, <2>4, <2>6, SMTT(60), ZenonT(60) DEF DoWriteRecord, StoreTypeOK
  <2>8. CallInv'
    BY <1>0, <1>5, <2>1, SMTT(60), ZenonT(60) DEF DoWriteRecord, WriteRecord, Goto, CallInv, LockTypeOK, WritePCs
  <2> QED BY <2>7, <2>8, ZenonT(30)
<1>6. CASE DoWriteUnset(t)
  <2>1. StoreTypeOK'
    BY <1>0, <1>6, SMTT(60), ZenonT(60) DEF DoWriteUnset, BumpIfTransaction, StoreTypeOK
  <2>2. CallInv'
    BY <1>0, <1>6, ZenonT(60), SMTT(60) DEF DoWriteUnset, WriteUnset, Goto, CallInv, LockTypeOK, WritePCs
  <2> QED BY <2>1, <2>2, ZenonT(30)
<1>7. CASE DoWritePage(t)
  <2> DEFINE b == app[t] + page[t]
  <2>1. pc[t] = "data"
    BY <1>7, ZenonT(60), SMTT(60) DEF DoWritePage
  <2>2. r \in Request
    BY <2>1, TheReqType, ZenonT(30) DEF WritePCs
  <2>3. b \in Nat /\ page[t] \in Nat /\ size \in Nat /\ data \in [0..(size - 1) -> Blocks]
    BY <1>0, SMTT(60), ZenonT(60) DEF StoreTypeOK
  <2>4. Fill(r, page[t], BlockAt(data, b)) \in Blocks
    <3> HIDE DEF r, b
    <3>1. BlockAt(data, b) \in Blocks
      BY <2>3, BlockAtType, ZenonT(30)
    <3> QED BY <2>2, <2>3, <3>1, FillType, ZenonT(30)
  <2>5. size' \in Nat /\ data' \in [0..(size' - 1) -> Blocks]
    BY <1>7, <2>3, <2>4, PutType, ZenonT(60), SMTT(60) DEF DoWritePage
  <2> HIDE DEF r, b
  <2>6. StoreTypeOK'
    BY <1>0, <1>7, <2>5, SMTT(60), ZenonT(60) DEF DoWritePage, StoreTypeOK
  <2>7. CallInv'
    BY <1>7, ZenonT(60), SMTT(60) DEF DoWritePage, CallInv, lockVars
  <2> QED BY <2>6, <2>7, ZenonT(30)
<1>8. CASE DoUnlockInode(t)
  <2>1. StoreTypeOK'
    BY <1>0, <1>8 DEF DoUnlockInode, StoreTypeOK
  <2>2. CallInv'
    BY <1>0, <1>8, SMTT(60), ZenonT(60) DEF DoUnlockInode, UnlockInode, Goto, StoreTypeOK, LockTypeOK, CallInv, WritePCs
  <2> QED BY <2>1, <2>2, ZenonT(30)
<1> QED BY <1>1, <1>2, <1>3, <1>4, <1>5, <1>6, <1>7, <1>8, ZenonT(30)

\* The records of a writev are well formed and carry its version.
LEMMA VectorRecordsType ==
    ASSUME TypeOK, CallInv, NEW t \in Threads, pc[t] = "commit_v"
    PROVE  /\ ver[t] \in Nat \ {0}
           /\ Len(req[t]) \in Nat
           /\ VectorRecords(t) \in Seq(Record)
           /\ Len(VectorRecords(t)) = Len(req[t])
           /\ \A k \in 1..Len(req[t]) : VectorRecords(t)[k].version_num = ver[t]
<1>0. StoreTypeOK
  BY ZenonT(30) DEF TypeOK
<1>1. ver[t] \in Nat \ {0}
  BY <1>0 DEF CallInv, StoreTypeOK
<1>2. size \in Nat /\ Len(req[t]) \in Nat /\ \A k \in 1..Len(req[t]) : req[t][k] \in Request
  BY <1>0 DEF StoreTypeOK
<1>3. ASSUME NEW k \in 1..Len(req[t])
      PROVE  [version_num |-> ver[t], logical_start_blk |-> req[t][k].blk,
              physical_start_blk |-> size + k - 1, len_blks |-> 1] \in Record
  <2>1. req[t][k].blk \in Nat
    BY <1>2, <1>3, RequestBlocks, ZenonT(30)
  <2>2. size + k - 1 \in Nat
    BY SMTT(60), ZenonT(60), <1>2, <1>3
  <2> QED BY <1>1, <2>1, <2>2 DEF Record
<1>4. VectorRecords(t) \in [1..Len(req[t]) -> Record]
  BY <1>3, ZenonT(30) DEF VectorRecords
<1>5. VectorRecords(t) \in Seq(Record) /\ Len(VectorRecords(t)) = Len(req[t])
  BY <1>2, <1>4
<1>6. \A k \in 1..Len(req[t]) : VectorRecords(t)[k].version_num = ver[t]
  BY ZenonT(30) DEF VectorRecords
<1> QED BY <1>1, <1>2, <1>5, <1>6, ZenonT(30)

\* Steps of a writev.
LEMMA TypeWritev ==
    ASSUME TypeOK, CallInv, NEW t \in Threads,
           \/ DoWritevCall(t) \/ DoWritevLockInode(t) \/ DoWritevVector(t)
           \/ DoWritevData(t) \/ DoWritevFails(t) \/ DoWritevCommit(t)
    PROVE  StoreTypeOK' /\ CallInv'
<1> DEFINE b == app[t] + page[t]
           r == req[t][page[t] + 1]
<1>0. LockTypeOK /\ StoreTypeOK
  BY ZenonT(30) DEF TypeOK
<1>1. b \in Nat /\ page[t] \in Nat /\ size \in Nat /\ data \in [0..(size - 1) -> Blocks]
      /\ req[t] \in Seq(Request)
  BY <1>0, SMTT(60), ZenonT(60) DEF StoreTypeOK
<1>2. ASSUME page[t] < Len(req[t]) PROVE r \in Request
  BY SMTT(60), ZenonT(60), <1>1, <1>2
<1>3. CASE DoWritevCall(t)
  <2>1. PICK vecs \in Vectors : StartCall(t, vecs)
    BY <1>3, ZenonT(30) DEF DoWritevCall
  <2>2. vecs \in Seq(Request)
    BY <2>1, StoreAssumption, ZenonT(30)
  <2> QED BY SMTT(60), ZenonT(60), <1>0, <1>3, <2>1, <2>2, StoreAssumption
          DEF DoWritevCall, WritevCall, StartCall, Goto, StoreTypeOK, LockTypeOK, CallInv, WritePCs
<1>4. CASE DoWritevLockInode(t)
  BY <1>0, <1>4, SMTT(60), ZenonT(60) DEF DoWritevLockInode, WritevLockInode, Goto, StoreTypeOK, LockTypeOK,
       CallInv, WritePCs
<1>5. CASE DoWritevVector(t)
  <2>1. r \in Request
    BY <1>2, <1>5, ZenonT(60), SMTT(60) DEF DoWritevVector
  <2>2. Fill(r, 0, BlockAt(data, r.blk)) \in Blocks
    BY <1>1, <2>1, BlockAtType, FillType, ZenonT(60), SMTT(60)
  <2>3. size' \in Nat /\ data' \in [0..(size' - 1) -> Blocks]
    BY <1>1, <1>5, <2>2, PutType, ZenonT(60), SMTT(60) DEF DoWritevVector
  <2> HIDE DEF r, b
  <2>4. StoreTypeOK'
    BY <1>0, <1>5, <2>3, SMTT(60), ZenonT(60) DEF DoWritevVector, StoreTypeOK
  <2>5. CallInv'
    BY <1>5, ZenonT(60), SMTT(60) DEF DoWritevVector, CallInv, lockVars
  <2> QED BY <2>4, <2>5, ZenonT(30)
<1>6. CASE DoWritevData(t)
  BY <1>0, <1>6, SMTT(60), ZenonT(60) DEF DoWritevData, WritevData, Goto, storeVars, StoreTypeOK, LockTypeOK,
       CallInv, WritePCs
<1>7. CASE DoWritevFails(t)
  <2>1. BlockAt(data, r.blk) \in Blocks
    BY <1>1, BlockAtType, ZenonT(60), SMTT(60)
  <2>2. size' \in Nat /\ data' \in [0..(size' - 1) -> Blocks]
    <3>1. CASE UNCHANGED <<data, size>>
      BY SMTT(60), ZenonT(60), <1>1, <3>1
    <3>2. CASE data' = PutBlock(data, b, BlockAt(data, r.blk)) /\ size' = PutSize(size, b)
      BY <1>1, <2>1, <3>2, PutType, SMTT(60), ZenonT(60)
    <3> QED BY <1>7, <3>1, <3>2, SMTT(60), ZenonT(60) DEF DoWritevFails
  <2> HIDE DEF r, b
  <2>3. StoreTypeOK'
    BY <1>0, <1>7, <2>2, ZenonT(60), SMTT(60) DEF DoWritevFails, StoreTypeOK
  <2>4. CallInv'
    BY <1>0, <1>7, ZenonT(30) DEF DoWritevFails, WritevFails, Goto, CallInv, LockTypeOK, WritePCs
  <2> QED BY <2>3, <2>4, ZenonT(30)
<1>8. CASE DoWritevCommit(t)
  <2>1. pc[t] = "commit_v"
    BY <1>8, ZenonT(60), SMTT(60) DEF DoWritevCommit, WritevCommit
  <2>2. log' \in Seq(Record) /\ version' \in Nat \ {0}
    <3>1. CASE UNCHANGED <<log, version>>
      BY <1>0, <3>1, ZenonT(30) DEF StoreTypeOK
    <3>2. CASE log' = log \o VectorRecords(t) /\ version' = ver[t]
      <4>1. VectorRecords(t) \in Seq(Record) /\ ver[t] \in Nat \ {0}
        BY <2>1, VectorRecordsType, ZenonT(30)
      <4>2. log \in Seq(Record)
        BY <1>0, SMTT(60), ZenonT(60) DEF StoreTypeOK
      <4> QED BY SMTT(60), ZenonT(60), <3>2, <4>1, <4>2
    <3> QED BY <1>8, <3>1, <3>2, ZenonT(30) DEF DoWritevCommit
  <2>3. StoreTypeOK'
    BY <1>0, <1>8, <2>2, SMTT(60), ZenonT(60) DEF DoWritevCommit, StoreTypeOK
  <2>4. CallInv'
    BY <1>0, <1>8, <2>1, ZenonT(30) DEF DoWritevCommit, WritevCommit, Goto, CallInv, LockTypeOK, WritePCs
  <2> QED BY <2>3, <2>4, ZenonT(30)
<1> QED BY <1>3, <1>4, <1>5, <1>6, <1>7, <1>8, ZenonT(30)

-----------------------------------------------------------------------------
\* Initially everything has its type and nobody is inside a call.
LEMMA TypeInitially == Init => TypeOK /\ CallInv
<1> SUFFICES ASSUME Init PROVE TypeOK /\ CallInv
  BY ZenonT(30)
<1>1. LockTypeOK
  BY LockAssumption, ZenonT(30) DEF Init, LockInit, LockTypeOK, PCs, NO_STATUS, UNSET_TRANSACTION,
       SET_TRANSACTION, SET_NORMAL_WRITE
<1>2. data \in [0..(size - 1) -> Blocks] /\ size \in Nat
  <2>1. \A b \in 0..(OrigPages - 1) : OriginalBlock(b) \in Blocks
    BY StoreAssumption, ZenonT(30) DEF OriginalBlock, Blocks
  <2> QED BY <2>1, OrigSizes, ZenonT(30) DEF Init
<1>3. StoreTypeOK
  <2>1. log \in Seq(Record) /\ req \in [Threads -> Seq(Request)]
    BY DEF Init
  <2>2. version \in Nat \ {0} /\ curr_version \in Nat \ {0} /\ calls \in 0..MaxCalls
    BY StoreAssumption DEF Init
  <2>3. /\ childVersion \in [Children -> Nat \ {0}] /\ app \in [Threads -> Nat]
        /\ page \in [Threads -> Nat] /\ ver \in [Threads -> Nat]
    BY DEF Init
  <2> QED BY <1>2, <2>1, <2>2, <2>3, ZenonT(30) DEF StoreTypeOK
<1>4. CallInv
  BY ZenonT(30) DEF Init, LockInit, CallInv, WritePCs
<1> QED BY <1>1, <1>3, <1>4, ZenonT(30) DEF TypeOK

\* Every step keeps the types.
LEMMA TypeKept == TypeOK /\ CallInv /\ [Next]_vars => TypeOK' /\ CallInv'
<1> SUFFICES ASSUME TypeOK, CallInv, [Next]_vars PROVE TypeOK' /\ CallInv'
  BY ZenonT(30)
<1>1. LockTypeOK'
  <2>1. CASE [LockNext]_lockVars
    BY <2>1, TypeStep, SMTT(60), ZenonT(60) DEF TypeOK
  <2>2. CASE Reopen
    BY <2>2, SMTT(60), ZenonT(60) DEF Reopen, TypeOK, LockTypeOK
  <2> QED BY <2>1, <2>2, LockSide, ZenonT(30)
<1>2. StoreTypeOK' /\ CallInv'
  BY TypeOthers, TypeWrite, TypeWritev, ZenonT(30) DEF Next
<1> QED BY <1>1, <1>2, ZenonT(30) DEF TypeOK

\* Type correctness of the whole store: in particular the parent's blocks are
\* always exactly those below i_size, whatever mixture of copies, appends and
\* failures moved it, and every record that is logged is well formed.
THEOREM StoreTypeCorrect == Spec => []TypeOK
BY TypeInitially, TypeKept, PTL DEF Spec

-----------------------------------------------------------------------------
(* The order of the log.                                                   *)
KindInv ==
    /\ VecThreads = {} =>
         \A t \in Threads : pc[t] \notin {"lock_inode_v", "data_v", "commit_v"}
    /\ TxnThreads = {} =>
         /\ transaction # SET_TRANSACTION
         /\ \A t \in Threads : status[t] # SET_TRANSACTION /\ pc[t] \notin {"lock_begin", "end"}

\* A normal write has bumped the version past every record.  No record is newer
\* than the version of a writev in its critical section; an END in between makes
\* that version stale, but without transactions it is one ahead.
AheadInv ==
    /\ \A t \in Threads :
         (pc[t] = "record" /\ status[t] # SET_TRANSACTION) =>
            \A i \in DOMAIN log : log[i].version_num <= version
    /\ \A t \in Threads :
         pc[t] \in {"data_v", "commit_v"} =>
            /\ \A i \in DOMAIN log : log[i].version_num <= ver[t]
            /\ TxnThreads = {} => ver[t] = version + 1

OrderInv == /\ TypeOK /\ CallInv /\ InodeInv /\ StatusKnown /\ KindInv
            /\ LogOrdered /\ AheadInv

\* Threads keep to the calls their programs use.
LEMMA KindKept == LockTypeOK /\ KindInv /\ [Next]_vars => KindInv'
<1> SUFFICES ASSUME LockTypeOK, KindInv, [Next]_vars PROVE KindInv'
  BY ZenonT(30)
<1> USE LockAssumption DEF KindInv, LockTypeOK, Goto, NO_STATUS, UNSET_TRANSACTION,
          SET_TRANSACTION, SET_NORMAL_WRITE
<1>1. ASSUME NEW t \in Threads, TxnStep(t) \/ Interrupted(t) PROVE KindInv'
  BY <1>1, SMTT(60), ZenonT(60) DEF TxnStep, BeginCall, BeginAcquire, EndCall, EndRelease, Interrupted,
              AcquireTxn, ReleaseTxn
<1>2. ASSUME NEW t \in Threads, WriteCall(t) \/ WriteStep(t) PROVE KindInv'
  <2>1. CASE WriteCall(t) \/ WriteLockInode(t) \/ WriteDecide(t) \/ WriteLockTxn(t)
    BY <2>1, SMTT(60), ZenonT(60) DEF WriteCall, WriteLockInode, WriteDecide, SelfStatus, WriteLockTxn, AcquireTxn
  <2>2. CASE WriteReserve(t) \/ WriteCopyFails(t) \/ WriteRecord(t)
    BY <2>2, SMTT(60), ZenonT(60) DEF WriteReserve, WriteCopyFails, WriteRecord
  <2>3. CASE WriteUnset(t) \/ WriteDataDone(t) \/ UnlockInode(t)
    BY <2>3, SMTT(60), ZenonT(60) DEF WriteUnset, WriteDataDone, UnlockInode, ReleaseTxn
  <2> QED BY <1>2, <2>1, <2>2, <2>3, SMTT(60), ZenonT(60) DEF WriteStep
<1>3. ASSUME NEW t \in Threads, WritevCall(t) \/ WritevStep(t) PROVE KindInv'
  BY <1>3, ZenonT(30) DEF WritevCall, WritevStep, WritevLockInode, WritevData, WritevFails, WritevCommit
<1>4. ASSUME NEW f \in Files, Close(f) PROVE KindInv'
  BY <1>4 DEF Close, ReleaseTxn
<1>5. CASE UNCHANGED lockVars
  BY <1>5, ZenonT(30) DEF lockVars
<1>6. CASE Reopen
  BY <1>6, SMTT(60), ZenonT(60) DEF Reopen
<1> QED BY <1>1, <1>2, <1>3, <1>4, <1>5, <1>6, LockSide, SMTT(60), ZenonT(60) DEF LockNext

\* A step that leaves the log and the version alone and puts no thread where
\* AheadInv expects anything of it.
LEMMA QuietStep ==
    ASSUME OrderInv, UNCHANGED <<log, version>>,
           \A t \in Threads : pc'[t] = "record" => pc[t] = "record" /\ status'[t] = status[t],
           \A t \in Threads : pc'[t] \in {"data_v", "commit_v"} =>
                                 pc[t] \in {"data_v", "commit_v"} /\ ver'[t] = ver[t]
    PROVE  LogOrdered' /\ AheadInv'
BY SMTT(60), ZenonT(60) DEF OrderInv, LogOrdered, LogSorted, LogBelow, AheadInv

\* The steps of that kind.
LEMMA OrderQuiet ==
    ASSUME OrderInv,
           \/ \E t \in Threads :
                \/ DoBeginCall(t) \/ DoBeginAcquire(t) \/ DoEndRelease(t) \/ DoInterrupted(t)
                \/ DoWriteCall(t) \/ DoWriteLockInode(t) \/ DoWriteDecide(t)
                \/ DoWriteLockTxn(t) \/ DoWriteCopyFails(t) \/ DoWritePage(t)
                \/ DoWriteDataDone(t) \/ DoUnlockInode(t)
                \/ DoWritevCall(t) \/ DoWritevVector(t) \/ DoWritevData(t) \/ DoWritevFails(t)
           \/ \E f \in Files : DoClose(f)
           \/ CloseOther
           \/ \E c \in Children : UpdateVersion(c)
           \/ Reopen
           \/ UNCHANGED vars
    PROVE  LogOrdered' /\ AheadInv'
<1> DEFINE Quiet == /\ UNCHANGED <<log, version>>
                    /\ \A t \in Threads :
                         /\ pc'[t] = "record" => pc[t] = "record" /\ status'[t] = status[t]
                         /\ pc'[t] \in {"data_v", "commit_v"} =>
                               pc[t] \in {"data_v", "commit_v"} /\ ver'[t] = ver[t]
<1> SUFFICES Quiet
  BY QuietStep, ZenonT(60), SMTT(60)
<1>0. /\ pc \in [Threads -> PCs] /\ ver \in [Threads -> Nat]
      /\ status \in [Threads -> {NO_STATUS, SET_TRANSACTION, SET_NORMAL_WRITE}]
  BY ZenonT(60), SMTT(60) DEF OrderInv, TypeOK, LockTypeOK, StoreTypeOK
<1> USE <1>0 DEF Goto, storeVars
<1>1. ASSUME NEW t \in Threads,
             DoBeginCall(t) \/ DoBeginAcquire(t) \/ DoEndRelease(t) \/ DoInterrupted(t)
      PROVE  Quiet
  BY <1>1, ZenonT(60), SMTT(60) DEF DoBeginCall, BeginCall, StartCall, DoBeginAcquire, BeginAcquire,
              DoEndRelease, EndRelease, DoInterrupted, Interrupted
<1>2. ASSUME NEW t \in Threads,
             DoWriteCall(t) \/ DoWriteLockInode(t) \/ DoWriteDecide(t) \/ DoWriteLockTxn(t)
      PROVE  Quiet
  BY <1>2, ZenonT(60), SMTT(60) DEF DoWriteCall, WriteCall, StartCall, DoWriteLockInode, WriteLockInode,
              DoWriteDecide, WriteDecide, DoWriteLockTxn, WriteLockTxn
<1>3. ASSUME NEW t \in Threads,
             DoWriteCopyFails(t) \/ DoWritePage(t) \/ DoWriteDataDone(t) \/ DoUnlockInode(t)
      PROVE  Quiet
  <2>1. CASE DoWriteCopyFails(t)
    BY <2>1, ZenonT(60), SMTT(60) DEF DoWriteCopyFails, WriteCopyFails
  <2>2. CASE DoWritePage(t)
    BY <2>2, ZenonT(60), SMTT(60) DEF DoWritePage, lockVars
  <2>3. CASE DoWriteDataDone(t)
    BY <2>3, ZenonT(60), SMTT(60) DEF DoWriteDataDone, WriteDataDone
  <2>4. CASE DoUnlockInode(t)
    BY <2>4, ZenonT(60), SMTT(60) DEF DoUnlockInode, UnlockInode
  <2> QED BY ZenonT(60), SMTT(60), <1>3, <2>1, <2>2, <2>3, <2>4
<1>4. ASSUME NEW t \in Threads,
             DoWritevCall(t) \/ DoWritevVector(t) \/ DoWritevData(t) \/ DoWritevFails(t)
      PROVE  Quiet
  BY <1>4, ZenonT(60), SMTT(60) DEF DoWritevCall, WritevCall, StartCall, DoWritevVector, lockVars, DoWritevData,
              WritevData, DoWritevFails, WritevFails
<1>5. ASSUME NEW f \in Files, DoClose(f) PROVE Quiet
  BY <1>5, ZenonT(60), SMTT(60) DEF DoClose, Close, SaveVersion
<1>6. ASSUME CloseOther \/ \E c \in Children : UpdateVersion(c) PROVE Quiet
  BY <1>6, SMTT(60), ZenonT(60) DEF CloseOther, SaveVersion, UpdateVersion, lockVars
<1>7. CASE Reopen \/ UNCHANGED vars
  BY <1>7, SMTT(60), ZenonT(60) DEF Reopen, vars, lockVars
<1> QED BY <1>1, <1>2, <1>3, <1>4, <1>5, <1>6, <1>7, ZenonT(60), SMTT(60)

\* A bump by END, or by a write that finds a transaction when it unsets.
LEMMA OrderBump ==
    ASSUME OrderInv, NEW t \in Threads, DoEndCall(t) \/ DoWriteUnset(t)
    PROVE  LogOrdered' /\ AheadInv'
<1>0. LockTypeOK /\ StoreTypeOK /\ KindInv /\ LogOrdered /\ AheadInv
  BY ZenonT(30) DEF OrderInv, TypeOK
<1>1. log' = log /\ ver' = ver /\ status' = status
  BY ZenonT(60), SMTT(60) DEF DoEndCall, EndCall, DoWriteUnset, WriteUnset
<1>2. \A u \in Threads : /\ pc'[u] = "record" => pc[u] = "record"
                         /\ pc'[u] \in {"data_v", "commit_v"} => pc'[u] = pc[u]
  BY <1>0, SMTT(60), ZenonT(60) DEF DoEndCall, EndCall, DoWriteUnset, WriteUnset, Goto, LockTypeOK
<1>3. /\ version \in Nat /\ version' \in {version, version + 1}
      /\ TxnThreads = {} => version' = version
  BY <1>0, ZenonT(60), SMTT(60) DEF DoEndCall, DoWriteUnset, BumpIfTransaction, KindInv, StoreTypeOK
<1>4. \A i \in DOMAIN log : log[i].version_num \in Nat
  <2>1. log \in Seq(Record)
    BY <1>0, SMTT(60), ZenonT(60) DEF StoreTypeOK
  <2> QED BY <2>1, LogFields, ZenonT(60), SMTT(60)
<1>5. LogOrdered'
  BY <1>0, <1>1, <1>3, <1>4, SMTT(60), ZenonT(60) DEF LogOrdered, LogSorted, LogBelow
<1>6. AheadInv'
  BY <1>0, <1>1, <1>2, <1>3, <1>4 DEF AheadInv
<1> QED BY <1>5, <1>6, ZenonT(30)

\* The bump of a normal write takes the version past every record.
LEMMA OrderReserve ==
    ASSUME OrderInv, NEW t \in Threads, DoWriteReserve(t)
    PROVE  LogOrdered' /\ AheadInv'
<1>0. /\ LockTypeOK /\ StoreTypeOK /\ InodeInv /\ StatusKnown /\ LogOrdered /\ AheadInv
      /\ KindInv
  BY SMTT(60), ZenonT(60) DEF OrderInv, TypeOK
<1>1. /\ log' = log /\ ver' = ver /\ status' = status /\ pc[t] = "reserve"
      /\ pc' = [pc EXCEPT ![t] = "record"]
      /\ version' = IF status[t] = SET_NORMAL_WRITE THEN version + 1 ELSE version
  BY ZenonT(30) DEF DoWriteReserve, WriteReserve, Goto
<1>2. \A u \in Threads : u # t => pc[u] \notin InodePCs
  BY <1>0, <1>1, SMTT(60), ZenonT(60) DEF InodeInv, InodePCs
<1>3. \A u \in Threads : u # t => /\ pc'[u] # "record"
                                  /\ pc'[u] \notin {"data_v", "commit_v"}
  BY <1>0, <1>1, <1>2, SMTT(60), ZenonT(60) DEF InodePCs, LockTypeOK
<1>4. pc'[t] = "record"
  BY <1>0, <1>1, ZenonT(30) DEF LockTypeOK
<1>5. status[t] \in {SET_TRANSACTION, SET_NORMAL_WRITE}
  BY <1>0, <1>1, ZenonT(30) DEF StatusKnown
<1>6. version \in Nat /\ \A i \in DOMAIN log : log[i].version_num \in Nat
  <2>1. version \in Nat /\ log \in Seq(Record)
    BY <1>0, SMTT(60), ZenonT(60) DEF StoreTypeOK
  <2> QED BY SMTT(60), ZenonT(60), <2>1, LogFields
<1>7. LogOrdered'
  BY <1>0, <1>1, <1>6, SMTT(60), ZenonT(60) DEF LogOrdered, LogSorted, LogBelow
<1>8. AheadInv'
  BY <1>0, <1>1, <1>3, <1>4, <1>5, <1>6, SMTT(60), ZenonT(60) DEF AheadInv, LogOrdered, LogBelow
<1> QED BY <1>7, <1>8, ZenonT(30)

\* What a record step appends goes behind everything that is there.
LEMMA OrderRecord ==
    ASSUME OrderInv, NEW t \in Threads, DoWriteRecord(t)
    PROVE  LogOrdered' /\ AheadInv'
<1> DEFINE curr == RecordVersion(t)
           new == [version_num        |-> curr,
                   logical_start_blk  |-> TheReq(t).blk,
                   physical_start_blk |-> app[t],
                   len_blks           |-> NrBlocks(TheReq(t))]
<1>0. LockTypeOK /\ StoreTypeOK /\ InodeInv /\ StatusKnown /\ LogOrdered /\ AheadInv
  BY SMTT(60), ZenonT(60) DEF OrderInv, TypeOK
<1>1. /\ version' = version /\ status' = status /\ pc[t] = "record"
      /\ pc' = [pc EXCEPT ![t] = IF status[t] = SET_NORMAL_WRITE THEN "unset" ELSE "data"]
      /\ log' = log \/ log' = Append(log, new)
  BY SMTT(60), ZenonT(60) DEF DoWriteRecord, WriteRecord, Goto
<1>2. \A u \in Threads : u # t => pc[u] \notin InodePCs
  BY <1>0, <1>1, SMTT(60), ZenonT(60) DEF InodeInv, InodePCs
<1>3. \A u \in Threads : /\ pc'[u] # "record"
                         /\ pc'[u] \notin {"data_v", "commit_v"}
  BY <1>0, <1>1, <1>2, SMTT(60), ZenonT(60) DEF InodePCs, LockTypeOK
<1>4. AheadInv'
  BY <1>3, SMTT(60), ZenonT(60) DEF AheadInv
<1>5. /\ version \in Nat /\ log \in Seq(Record) /\ curr \in Nat
      /\ \A i \in DOMAIN log : log[i].version_num \in Nat
  <2>1. version \in Nat /\ log \in Seq(Record)
    BY <1>0, ZenonT(30) DEF StoreTypeOK
  <2>2. curr \in Nat
    BY <2>1, SMTT(60), ZenonT(60) DEF RecordVersion
  <2> QED BY SMTT(60), ZenonT(60), <2>1, <2>2, LogFields
<1>6. curr <= version + 1 /\ \A i \in DOMAIN log : log[i].version_num <= curr
  BY <1>0, <1>1, <1>5, SMTT(60), ZenonT(60) DEF AheadInv, LogOrdered, LogBelow, RecordVersion
<1>7. new.version_num = curr
  BY ZenonT(30)
<1> HIDE DEF new, curr
<1>8. LogOrdered'
  <2>1. CASE log' = log
    BY <1>0, <1>1, <2>1, SMTT(60), ZenonT(60) DEF LogOrdered, LogSorted, LogBelow
  <2>2. CASE log' = Append(log, new)
    <3>1. /\ Len(log) \in Nat /\ DOMAIN log = 1..Len(log) /\ DOMAIN log' = 1..(Len(log) + 1)
          /\ \A i \in 1..Len(log) : log'[i] = log[i]
          /\ log'[Len(log) + 1] = new
      BY SMTT(60), ZenonT(60), <1>5, <2>2
    <3>2. LogBelow(log', version')
      BY <1>0, <1>1, <1>6, <1>7, <3>1, SMTT(60), ZenonT(60) DEF LogOrdered, LogBelow
    <3>3. ASSUME NEW i \in DOMAIN log', NEW j \in DOMAIN log', i <= j
          PROVE  log'[i].version_num <= log'[j].version_num
      <4>1. CASE j = Len(log) + 1
        BY SMTT(60), ZenonT(60), <1>5, <1>6, <1>7, <3>1, <4>1
      <4>2. CASE j # Len(log) + 1
        <5>1. i \in DOMAIN log /\ j \in DOMAIN log
          BY SMTT(60), ZenonT(60), <3>1, <3>3, <4>2
        <5> QED BY <1>0, <3>1, <3>3, <5>1, SMTT(60), ZenonT(60) DEF LogOrdered, LogSorted
      <4> QED BY SMTT(60), ZenonT(60), <4>1, <4>2
    <3> QED BY <3>2, <3>3, SMTT(60), ZenonT(60) DEF LogOrdered, LogSorted
  <2> QED BY SMTT(60), ZenonT(60), <1>1, <2>1, <2>2
<1> QED BY <1>4, <1>8, ZenonT(30)

\* A writev appends behind everything, even if its version is stale.
LEMMA OrderWritev ==
    ASSUME OrderInv, NEW t \in Threads, DoWritevLockInode(t) \/ DoWritevCommit(t)
    PROVE  LogOrdered' /\ AheadInv'
<1>0. /\ LockTypeOK /\ StoreTypeOK /\ InodeInv /\ KindInv /\ LogOrdered /\ AheadInv
  BY SMTT(60), ZenonT(60) DEF OrderInv, TypeOK
<1>3. /\ version \in Nat /\ log \in Seq(Record) /\ req[t] \in Seq(Request) /\ ver[t] \in Nat
      /\ \A i \in DOMAIN log : log[i].version_num \in Nat
  <2>1. /\ version \in Nat /\ log \in Seq(Record) /\ req[t] \in Seq(Request)
        /\ ver[t] \in Nat
    BY <1>0, SMTT(60), ZenonT(60) DEF StoreTypeOK
  <2> QED BY SMTT(60), ZenonT(60), <2>1, LogFields
<1>4. CASE DoWritevLockInode(t)
  <2>1. /\ UNCHANGED <<log, version, status>> /\ inode_lock = NONE
        /\ pc' = [pc EXCEPT ![t] = "data_v"]
        /\ ver' = [ver EXCEPT ![t] = version + 1]
    BY <1>4, SMTT(60), ZenonT(60) DEF DoWritevLockInode, WritevLockInode, Goto
  <2>2. \A u \in Threads : pc[u] \notin InodePCs
    BY <1>0, <2>1, LockAssumption, SMTT(60), ZenonT(60) DEF InodeInv
  <2>3. \A u \in Threads : u # t => pc'[u] \notin InodePCs
    BY <1>0, <2>1, <2>2, SMTT(60), ZenonT(60) DEF LockTypeOK
  <2>4. pc'[t] = "data_v" /\ ver'[t] = version' + 1
    BY <1>0, <2>1, SMTT(60), ZenonT(60) DEF LockTypeOK, StoreTypeOK
  <2>5. AheadInv'
    <3>1. \A i \in DOMAIN log' : log'[i].version_num <= ver'[t]
      BY <1>0, <2>1, <2>4, SMTT(60), ZenonT(60) DEF LogOrdered, LogBelow
    <3> QED BY <2>3, <2>4, <3>1, SMTT(60), ZenonT(60) DEF AheadInv, InodePCs
  <2> QED BY <1>0, <2>1, <2>5, SMTT(60), ZenonT(60) DEF LogOrdered, LogSorted, LogBelow
<1>5. CASE DoWritevCommit(t)
  <2> DEFINE n == Len(req[t])
             new == VectorRecords(t)
  <2>1. /\ pc[t] = "commit_v" /\ pc' = [pc EXCEPT ![t] = "unlock_inode"]
        /\ \/ log' = log \o new /\ version' = ver[t]
           \/ UNCHANGED <<log, version>>
    BY <1>5, ZenonT(30) DEF DoWritevCommit, WritevCommit, Goto
  <2>2. \A u \in Threads : u # t => pc[u] \notin InodePCs
    BY <1>0, <2>1, SMTT(60), ZenonT(60) DEF InodeInv, InodePCs
  <2>3. \A u \in Threads : pc'[u] # "record" /\ pc'[u] \notin {"data_v", "commit_v"}
    BY <1>0, <2>1, <2>2, SMTT(60), ZenonT(60) DEF InodePCs, LockTypeOK
  <2>4. AheadInv'
    BY <2>3, SMTT(60), ZenonT(60) DEF AheadInv
  <2>5. \A i \in DOMAIN log : log[i].version_num <= ver[t]
    BY <1>0, <2>1, SMTT(60), ZenonT(60) DEF AheadInv
  <2>6. n \in Nat /\ new \in Seq(Record) /\ Len(new) = n
    BY <2>1, VectorRecordsType, SMTT(60), ZenonT(60) DEF OrderInv
  <2>7. \A k \in 1..n : new[k].version_num = ver[t]
    BY <2>1, VectorRecordsType, SMTT(60), ZenonT(60) DEF OrderInv
  <2>8. LogOrdered'
    <3>1. CASE UNCHANGED <<log, version>>
      BY <1>0, <3>1, SMTT(60), ZenonT(60) DEF LogOrdered, LogSorted, LogBelow
    <3>2. CASE log' = log \o new /\ version' = ver[t]
      <4> HIDE DEF new, n
      <4>1. /\ Len(log) \in Nat /\ DOMAIN log = 1..Len(log)
            /\ DOMAIN log' = 1..(Len(log) + n)
            /\ \A i \in 1..Len(log) : log'[i] = log[i]
            /\ \A i \in (Len(log) + 1)..(Len(log) + n) : log'[i] = new[i - Len(log)]
        <5>1. ExtendsLog(log, log') /\ Len(log') = Len(log) + n
          BY <1>3, <2>6, <3>2, ConcatExtends, ZenonT(60), SMTT(60)
        <5>2. \A i \in NewRecords(log, log') : log'[i] = new[i - Len(log)]
          BY <1>3, <2>6, <3>2, ConcatExtends, ZenonT(60), SMTT(60)
        <5> QED BY <5>1, <5>2 DEF ExtendsLog, NewRecords
      <4>2. \A i \in (Len(log) + 1)..(Len(log) + n) : log'[i].version_num = ver[t]
        BY SMTT(60), ZenonT(60), <2>6, <2>7, <4>1
      <4>3. \A i \in 1..Len(log) : log'[i].version_num <= ver[t] /\ log'[i].version_num \in Nat
        BY SMTT(60), ZenonT(60), <1>3, <2>5, <4>1
      <4>4. LogBelow(log', version')
        BY <1>3, <2>6, <3>2, <4>1, <4>2, <4>3, SMTT(60), ZenonT(60) DEF LogBelow
      <4>5. ASSUME NEW i \in DOMAIN log', NEW j \in DOMAIN log', i <= j
            PROVE  log'[i].version_num <= log'[j].version_num
        <5>1. CASE j > Len(log)
          <6>1. log'[j].version_num = ver[t]
            BY SMTT(60), ZenonT(60), <2>6, <4>1, <4>2, <4>5, <5>1
          <6>2. log'[i].version_num <= ver[t]
            BY SMTT(60), ZenonT(60), <1>3, <2>6, <4>1, <4>2, <4>3, <4>5
          <6> QED BY SMTT(60), ZenonT(60), <6>1, <6>2
        <5>2. CASE ~ (j > Len(log))
          <6>1. i \in DOMAIN log /\ j \in DOMAIN log
            BY SMTT(60), ZenonT(60), <2>6, <4>1, <4>5, <5>2
          <6> QED BY <1>0, <4>1, <4>5, <6>1, SMTT(60), ZenonT(60) DEF LogOrdered, LogSorted
        <5> QED BY <5>1, <5>2, ZenonT(30)
      <4> QED BY <4>4, <4>5, SMTT(60), ZenonT(60) DEF LogOrdered, LogSorted
    <3> QED BY SMTT(60), ZenonT(60), <2>1, <3>1, <3>2
  <2> QED BY SMTT(60), ZenonT(60), <2>4, <2>8
<1> QED BY <1>4, <1>5, ZenonT(30)

\* The inductive invariant of the log's order is kept.
LEMMA OrderKept == OrderInv /\ [Next]_vars => OrderInv'
<1> SUFFICES ASSUME OrderInv, [Next]_vars PROVE OrderInv'
  BY ZenonT(30)
<1>1. TypeOK' /\ CallInv'
  BY TypeKept, ZenonT(30) DEF OrderInv
<1>2. InodeInv' /\ StatusKnown' /\ KindInv'
  BY InodeSide, StatusSide, KindKept, SMTT(60), ZenonT(60) DEF OrderInv, TypeOK
<1>3. LogOrdered' /\ AheadInv'
  BY OrderQuiet, OrderBump, OrderReserve, OrderRecord, OrderWritev, ZenonT(30) DEF Next
<1> QED BY <1>1, <1>2, <1>3, ZenonT(30) DEF OrderInv

\* It holds initially.
LEMMA OrderInitially == Init => OrderInv
<1> SUFFICES ASSUME Init PROVE OrderInv
  BY SMTT(60), ZenonT(60)
<1>1. TypeOK /\ CallInv /\ InodeInv
  BY TypeInitially, InodeInitially, SMTT(60), ZenonT(60) DEF Init
<1>2. StatusKnown /\ KindInv /\ AheadInv
  BY SMTT(60), ZenonT(60) DEF Init, LockInit, StatusKnown, KindInv, AheadInv, NO_STATUS, SET_TRANSACTION
<1>3. LogOrdered
  BY DEF Init, LogOrdered, LogSorted, LogBelow
<1> QED BY <1>1, <1>2, <1>3, ZenonT(30) DEF OrderInv

\* The log of a parent is in version order and at most one version ahead, for
\* any number of threads, files shared or not, with transactions, writevs, failed
\* copies, short writes, aborts and overflowing versions: what
\* scorw_truncate_log_to_version, scorw_do_recovery and scorw_gc_blocks take for
\* granted.
THEOREM LogOrderedAlways == Spec => []LogOrdered
<1>1. OrderInv => LogOrdered
  BY SMTT(60), ZenonT(60) DEF OrderInv
<1> QED BY <1>1, OrderInitially, OrderKept, PTL DEF Spec

-----------------------------------------------------------------------------
(* Mappings.  A writev computes its version when it gets the inode lock;   *)
(* an END in between settles that version, and the writev still adds to    *)
(* it.  So mappings are immutable where the two are not mixed.             *)
OneKind == VecThreads = {} \/ TxnThreads = {}

\* Only the record step of a write and the commit of a writev touch the log.
LEMMA LogTouched ==
    ASSUME [Next]_vars,
           \A t \in Threads : ~ DoWriteRecord(t) /\ ~ DoWritevCommit(t)
    PROVE  log' = log
<1>1. ASSUME NEW t \in Threads,
             \/ DoBeginCall(t) \/ DoBeginAcquire(t) \/ DoEndCall(t) \/ DoEndRelease(t)
             \/ DoInterrupted(t) \/ DoWriteCall(t) \/ DoWriteLockInode(t) \/ DoWriteDecide(t)
      PROVE  log' = log
  BY <1>1, ZenonT(60), SMTT(60) DEF DoBeginCall, DoBeginAcquire, DoEndCall, DoEndRelease, DoInterrupted,
              DoWriteCall, DoWriteLockInode, DoWriteDecide, StartCall, storeVars
<1>2. ASSUME NEW t \in Threads,
             \/ DoWriteLockTxn(t) \/ DoWriteReserve(t) \/ DoWriteCopyFails(t)
             \/ DoWriteUnset(t) \/ DoWritePage(t) \/ DoWriteDataDone(t) \/ DoUnlockInode(t)
      PROVE  log' = log
  BY <1>2, ZenonT(60), SMTT(60) DEF DoWriteLockTxn, DoWriteReserve, DoWriteCopyFails, DoWriteUnset, DoWritePage,
              DoWriteDataDone, DoUnlockInode, storeVars
<1>3. ASSUME NEW t \in Threads,
             \/ DoWritevCall(t) \/ DoWritevLockInode(t) \/ DoWritevVector(t)
             \/ DoWritevData(t) \/ DoWritevFails(t)
      PROVE  log' = log
  BY <1>3, ZenonT(60), SMTT(60) DEF DoWritevCall, DoWritevLockInode, DoWritevVector, DoWritevData, DoWritevFails,
              StartCall, storeVars
<1>4. CASE \/ \E f \in Files : DoClose(f)
           \/ CloseOther
           \/ \E c \in Children : UpdateVersion(c)
           \/ Reopen
           \/ UNCHANGED vars
  BY <1>4, SMTT(60), ZenonT(60) DEF DoClose, CloseOther, SaveVersion, UpdateVersion, Reopen, vars, storeVars
<1> QED BY <1>1, <1>2, <1>3, <1>4, SMTT(60), ZenonT(60) DEF Next

\* What is appended is newer than every settled version.
LEMMA LogGrows ==
    ASSUME OneKind, OrderInv, [Next]_vars, NEW v \in Settled
    PROVE  \/ log' = log
           \/ /\ ExtendsLog(log, log')
              /\ \A i \in NewRecords(log, log') : log'[i].version_num > v
<1>0. LockTypeOK /\ StoreTypeOK /\ StatusKnown /\ KindInv /\ AheadInv
  BY SMTT(60), ZenonT(60) DEF OrderInv, TypeOK
<1>1. /\ version \in Nat /\ log \in Seq(Record) /\ v \in 1..version
      /\ \A t \in Threads : InFlight(t) => v < FlightVersion(t)
  BY <1>0, SMTT(60), ZenonT(60) DEF StoreTypeOK, Settled
<1>2. ASSUME NEW t \in Threads, DoWriteRecord(t)
      PROVE  \/ log' = log
             \/ /\ ExtendsLog(log, log')
                /\ \A i \in NewRecords(log, log') : log'[i].version_num > v
  <2> DEFINE new == [version_num        |-> RecordVersion(t),
                     logical_start_blk  |-> TheReq(t).blk,
                     physical_start_blk |-> app[t],
                     len_blks           |-> NrBlocks(TheReq(t))]
  <2>1. pc[t] = "record" /\ (log' = log \/ log' = Append(log, new))
    BY <1>2, SMTT(60), ZenonT(60) DEF DoWriteRecord, WriteRecord
  <2>2. status[t] \in {SET_TRANSACTION, SET_NORMAL_WRITE}
    BY <1>0, <2>1, ZenonT(30) DEF StatusKnown
  <2>3. RecordVersion(t) = FlightVersion(t)
    BY <2>1, <2>2, SMTT(60), ZenonT(60) DEF RecordVersion, FlightVersion, SET_TRANSACTION, SET_NORMAL_WRITE
  <2>4. RecordVersion(t) > v /\ RecordVersion(t) \in Nat \ {0}
    BY <1>0, <1>1, <2>1, <2>3, SMTT(60), ZenonT(60) DEF InFlight, RecordVersion, StoreTypeOK
  <2>5. new \in Record
    <3>1. TheReq(t).blk \in Nat /\ NrBlocks(TheReq(t)) \in Nat \ {0}
      BY <2>1, TheReqType, RequestBlocks, SMTT(60), ZenonT(60) DEF OrderInv, WritePCs
    <3>2. app[t] \in Nat
      BY <1>0, SMTT(60), ZenonT(60) DEF StoreTypeOK
    <3> QED BY <2>4, <3>1, <3>2, ZenonT(60), SMTT(60) DEF Record
  <2>6. new.version_num = RecordVersion(t)
    BY SMTT(60), ZenonT(60)
  <2> HIDE DEF new
  <2>7. CASE log' = Append(log, new)
    <3>1. ExtendsLog(log, log')
      BY SMTT(60), ZenonT(60), <1>1, <2>5, <2>7, AppendExtends
    <3>2. ASSUME NEW i \in NewRecords(log, log') PROVE log'[i].version_num > v
      <4>1. i = Len(log) + 1 /\ log'[Len(log) + 1] = new
        BY SMTT(60), ZenonT(60), <1>1, <2>5, <2>7, <3>2, AppendExtends
      <4> QED BY SMTT(60), ZenonT(60), <2>4, <2>6, <4>1
    <3> QED BY SMTT(60), ZenonT(60), <3>1, <3>2
  <2> QED BY <2>1, <2>7, ZenonT(60), SMTT(60)
<1>3. ASSUME NEW t \in Threads, DoWritevCommit(t)
      PROVE  \/ log' = log
             \/ /\ ExtendsLog(log, log')
                /\ \A i \in NewRecords(log, log') : log'[i].version_num > v
  <2>1. pc[t] = "commit_v" /\ (log' = log \/ log' = log \o VectorRecords(t))
    BY <1>3, SMTT(60), ZenonT(60) DEF DoWritevCommit, WritevCommit
  <2>2. TxnThreads = {}
    BY <1>0, <2>1, SMTT(60), ZenonT(60) DEF OneKind, KindInv
  <2>3. ver[t] = version + 1
    BY <1>0, <2>1, <2>2, SMTT(60), ZenonT(60) DEF AheadInv
  <2>4. /\ VectorRecords(t) \in Seq(Record)
        /\ Len(VectorRecords(t)) = Len(req[t])
        /\ \A k \in 1..Len(req[t]) : VectorRecords(t)[k].version_num = version + 1
    BY <2>1, <2>3, VectorRecordsType, SMTT(60), ZenonT(60) DEF OrderInv
  <2>5. CASE log' = log \o VectorRecords(t)
    <3>1. ExtendsLog(log, log')
      BY <1>1, <2>4, <2>5, ConcatExtends, ZenonT(60), SMTT(60)
    <3>2. ASSUME NEW i \in NewRecords(log, log') PROVE log'[i].version_num > v
      <4>1. i - Len(log) \in 1..Len(VectorRecords(t)) /\ log'[i] = VectorRecords(t)[i - Len(log)]
        BY <1>1, <2>4, <2>5, <3>2, ConcatExtends, ZenonT(60), SMTT(60)
      <4>2. log'[i].version_num = version + 1
        BY SMTT(60), ZenonT(60), <2>4, <4>1
      <4> QED BY <1>1, <4>2, SMTT(60), ZenonT(60)
    <3> QED BY <3>1, <3>2, ZenonT(60)
  <2> QED BY SMTT(60), ZenonT(60), <2>1, <2>5
<1> QED BY <1>2, <1>3, LogTouched, ZenonT(60), SMTT(60)

\* No step moves a block of a settled version.
LEMMA MappingKept ==
    ASSUME OneKind, OrderInv, [Next]_vars, NEW v \in Settled, NEW L
    PROVE  Lookup(log', v, L) = Lookup(log, v, L)
<1>1. v \in Nat
  BY DEF OrderInv, TypeOK, StoreTypeOK, Settled
<1> QED BY SMTT(60), ZenonT(60), <1>1, LogGrows, LookupKept

\* The mapping of a settled version is immutable, for any number of threads
\* and versions, files shared or not, with failed copies, short writes, aborts
\* and reopenings, if transactions and writev are not mixed: records are only ever appended, and only for a version that
\* a write in progress is still making (scorw_record_write,
\* scorw_lookup_physical_block).
THEOREM MappingImmutableAlways == OneKind => (Spec => MappingImmutable)
<1> SUFFICES ASSUME OneKind PROVE Spec => MappingImmutable
  BY ZenonT(30)
<1>1. OrderInv /\ [Next]_vars =>
        [\A v \in Settled, L \in LogicalBlocks : Lookup(log', v, L) = Lookup(log, v, L)]_vars
  BY MappingKept, ZenonT(30)
<1> QED BY <1>1, OrderInitially, OrderKept, PTL DEF Spec, MappingImmutable
=============================================================================
