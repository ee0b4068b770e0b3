-------------------------- MODULE RefinementProofs --------------------------
(***************************************************************************)
(* VersionStore implements Snapshots, for any number of threads, files,    *)
(* blocks and requests: the proof that StoreRefinement's mapping takes     *)
(* every step of the store to a step of the history or to none.            *)
(*                                                                         *)
(* The hypotheses are the ones under which the code keeps the promise:     *)
(* writes finish (CleanWrites), no file is closed inside its transaction   *)
(* (its records would stay in the log), partial blocks are only written    *)
(* outside transactions, never at the end of a longer request and never in *)
(* the partial last block of the original file (SafeRequests), and the     *)
(* versions stay below MAX_VERSIONS.                                       *)
(***************************************************************************)
EXTENDS StoreRefinement, SnapshotProofs

\* Requests whose copies are the right ones: the last block of a request of
\* several blocks is whole, programs that use transactions write whole blocks,
\* and no write starts inside the partial last block of the original file or
\* fills only part of it.
SafeRequests ==
    \A t \in Threads : \A r \in Requests[t] :
        /\ NrBlocks(r) > 1 => EndUnit(r) % PAGE_SIZE = 0
        /\ t \in TxnThreads => ~ CopiesFirst(r)
        /\ CopiesFirst(r) => r.blk < OrigBlocks \/ OrigPages <= r.blk

NoAborts == AbortFiles = {}

\* A transaction belongs to the thread that began it, and only programs that
\* use transactions have one.
TxnOwned ==
    \A t \in Threads :
        /\ pc[t] = "lock_begin" => t \in TxnThreads
        /\ SelfStatus(fileOf[t]) = SET_TRANSACTION => t \in TxnThreads
        /\ status[t] = SET_TRANSACTION => t \in TxnThreads

\* A write executes a request of its program.
ReqOwned == \A t \in Threads : pc[t] \in WritePCs => TheReq(t) \in Requests[t]

\* Records ahead of the version are those of an open transaction, and the
\* version a normal write has bumped to has no record yet.
TxnInv ==
    /\ (\A f \in Files : ~ Open(f)) => \A i \in DOMAIN log : log[i].version_num <= version
    /\ \A t \in Threads : pc[t] = "record" /\ status[t] = SET_NORMAL_WRITE =>
         version > 1 /\ \A i \in DOMAIN log : log[i].version_num < version

\* A normal write of part of its first block starts from that block's content
\* in the version before its own.
CopyInv ==
    \A t \in Threads :
        (pc[t] = "record" /\ status[t] = SET_NORMAL_WRITE /\ CopiesFirst(TheReq(t))) =>
            BlockAt(data, app[t]) = ContentAt(version - 1, TheReq(t).blk)

\* A write that has not logged its record has not filled a page.
PageInv == \A t \in Threads : pc[t] = "record" => page[t] = 0

RefInv == SnapInv /\ TxnOwned /\ ReqOwned /\ TxnInv /\ CopyInv /\ PageInv

-----------------------------------------------------------------------------
(* Lookups in a log that grows by a record of its newest version.          *)

\* Zenon is tried on every leaf; leaves with arithmetic name SMT.
USE ZenonT(30)

\* No block lies behind the last one of a range that ends where it starts.
LEMMA EmptyRange ==
    ASSUME NEW a \in Nat, NEW g \in Nat, NEW n \in Nat, NEW b \in Nat, g = n
    PROVE  ~ (a + g <= b /\ b < a + n)
BY SMT

\* The new record decides for the blocks it covers, and only for those.
LEMMA LookupAppend ==
    ASSUME NEW lg \in Seq(Record), NEW rec \in Record, NEW v \in Nat,
           rec.version_num = v, 0 < v, v <= MAX_VERSIONS, NEW L
    PROVE  Lookup(Append(lg, rec), v, L) =
              IF Covers(rec, L) THEN PhysicalOf(rec, L) ELSE Lookup(lg, v, L)
<1> DEFINE later == Append(lg, rec)
           n == Len(lg) + 1
<1>1. /\ ExtendsLog(lg, later) /\ NewRecords(lg, later) = {n} /\ later[n] = rec
  BY AppendExtends
<1>2. /\ Len(lg) \in Nat /\ Len(later) = n /\ DOMAIN later = 1..n /\ DOMAIN lg = 1..(n - 1)
      /\ later \in Seq(Record)
  BY SMT
<1>3. \A i \in DOMAIN lg : later[i] = lg[i]
  BY <1>1, <1>2, SMT DEF ExtendsLog
<1> HIDE DEF later, n
<1>n. n \in Nat \ {0}
  BY <1>2, SMT DEF n
<1>4. CASE Covers(rec, L)
  <2>1. n \in DeltaHits(later, v, L)
    BY <1>1, <1>2, <1>4, <1>n, SMT DEF DeltaHits
  <2>2. DeltaHits(later, v, L) \subseteq 1..n
    BY <1>2 DEF DeltaHits
  <2> DEFINE D == DeltaHits(later, v, L)
  <2>3. Latest(D) \in D /\ Latest(D) >= n
    BY <1>n, <2>1, <2>2, LatestPosition
  <2>4. Latest(D) = n
    BY <1>n, <2>2, <2>3, SMT
  <2>5. DeltaAt(later, v, L) = PhysicalOf(rec, L)
    BY <1>1, <2>4 DEF DeltaAt
  <2>6. v \in HitVersions(later, v, L)
    BY <2>1, SMT DEF HitVersions, InDelta
  <2> DEFINE H == HitVersions(later, v, L)
  <2>7. H \subseteq 1..v
    BY DEF HitVersions
  <2>8. Latest(H) \in H /\ Latest(H) >= v
    BY <2>6, <2>7, LatestPosition
  <2>9. Latest(H) = v
    BY <2>7, <2>8, SMT
  <2> QED BY <1>4, <2>5, <2>6, <2>9 DEF Lookup, later
<1>5. CASE ~ Covers(rec, L)
  <2>1. ASSUME NEW w PROVE DeltaHits(later, w, L) = DeltaHits(lg, w, L)
    <3>1. n \notin DeltaHits(later, w, L)
      BY <1>1, <1>5 DEF DeltaHits
    <3>2. ASSUME NEW i \in DOMAIN later, i # n PROVE i \in DOMAIN lg
      BY <1>2, <1>n, <3>2, SMT
    <3>3. ASSUME NEW i \in DOMAIN lg PROVE i \in DOMAIN later
      BY <1>2, <1>n, <3>3, SMT
    <3> QED BY <1>3, <3>1, <3>2, <3>3 DEF DeltaHits
  <2>2. HitVersions(later, v, L) = HitVersions(lg, v, L)
    BY <2>1 DEF HitVersions, InDelta
  <2>3. CASE HitVersions(lg, v, L) = {}
    BY <1>5, <2>2, <2>3 DEF Lookup, later
  <2>4. CASE HitVersions(lg, v, L) # {}
    <3> DEFINE w == Latest(HitVersions(lg, v, L))
               D == DeltaHits(lg, w, L)
    <3>1. HitVersions(lg, v, L) \subseteq 1..v
      BY DEF HitVersions
    <3>2. w \in HitVersions(lg, v, L)
      BY <2>4, <3>1, LatestPosition
    <3>3. D # {}
      BY <3>2 DEF HitVersions, InDelta
    <3>4. D \subseteq 1..(n - 1) /\ n - 1 \in Nat
      BY <1>2, <1>n, SMT DEF DeltaHits
    <3>5. Latest(D) \in D
      BY <3>3, <3>4, LatestPosition
    <3>6. later[Latest(D)] = lg[Latest(D)]
      BY <1>3, <3>5 DEF DeltaHits
    <3>7. DeltaAt(later, w, L) = DeltaAt(lg, w, L)
      BY <2>1, <3>6 DEF DeltaAt
    <3> QED BY <1>5, <2>2, <2>4, <3>7 DEF Lookup, later
  <2> QED BY <2>3, <2>4
<1> QED BY <1>4, <1>5

\* A version without records shows what the version before it shows.
LEMMA LookupBefore ==
    ASSUME NEW lg \in Seq(Record), NEW v \in Nat, 0 < v, NEW L,
           \A i \in DOMAIN lg : lg[i].version_num # v
    PROVE  Lookup(lg, v, L) = Lookup(lg, v - 1, L)
<1>1. ~ InDelta(lg, v, L)
  BY DEF InDelta, DeltaHits
<1>2. HitVersions(lg, v, L) = HitVersions(lg, v - 1, L)
  BY <1>1, SMT DEF HitVersions
<1> QED BY <1>2 DEF Lookup

-----------------------------------------------------------------------------
(* Who can be where.                                                       *)

\* An open transaction owns the lock.
LEMMA OpenOwns ==
    ASSUME NEW f \in Files, Open(f)
    PROVE  owner = f /\ holder # NONE /\ transaction = SET_TRANSACTION
BY SMT DEF Open, SelfStatus, mutex_is_locked, NO_STATUS, SET_TRANSACTION

\* While the lock is free, or taken for a normal write, no transaction is open.
LEMMA NoneOpen ==
    ASSUME holder = NONE \/ transaction # SET_TRANSACTION
    PROVE  \A f \in Files : ~ Open(f)
BY OpenOwns

\* A write that is about to log its record owns the lock for what it is doing.
LEMMA RecordOwns ==
    ASSUME SnapInv, NEW t \in Threads, pc[t] \in {"reserve", "record", "unset"}
    PROVE  /\ owner = fileOf[t] /\ holder # NONE
           /\ pc[t] # "unset" => transaction = status[t]
           /\ pc[t] # "unset" => status[t] \in {SET_TRANSACTION, SET_NORMAL_WRITE}
           /\ pc[t] = "unset" => transaction = SET_NORMAL_WRITE
<1>1. WriteOwnsLock /\ StatusKnown
  BY DEF SnapInv, LockInv
<1>2. pc[t] # "unset" => SelfStatus(fileOf[t]) = status[t]
                         /\ status[t] \in {SET_TRANSACTION, SET_NORMAL_WRITE}
  BY <1>1 DEF WriteOwnsLock, StatusKnown
<1>3. pc[t] = "unset" => SelfStatus(fileOf[t]) = SET_NORMAL_WRITE
  BY <1>1 DEF WriteOwnsLock
<1> QED BY <1>2, <1>3, SMT DEF SelfStatus, mutex_is_locked, NO_STATUS, SET_TRANSACTION, SET_NORMAL_WRITE

\* One write at a time is between its decision and its end.
LEMMA Alone ==
    ASSUME SnapInv, NEW t \in Threads, NEW u \in Threads,
           pc[t] \in {"reserve", "record", "unset", "data"},
           pc[u] \in {"reserve", "record", "unset", "data"}
    PROVE  t = u
BY DEF SnapInv, OrderInv, InodeInv, InodePCs

\* A thread inside its transaction has it open, and nobody else has one.
LEMMA InsideOpen ==
    ASSUME PrivateFiles, LockTypeOK, NEW t \in Threads,
           SelfStatus(fileOf[t]) = SET_TRANSACTION, pc[t] # "end"
    PROVE  /\ fileOf[t] \in Files /\ Open(fileOf[t])
           /\ \A f \in Files : Open(f) => f = fileOf[t]
<1>1. fileOf[t] \in Files /\ \A u \in Threads : fileOf[u] = fileOf[t] => u = t
  BY LockAssumption DEF PrivateFiles
<1>2. Open(fileOf[t])
  BY <1>1 DEF Open
<1> QED BY <1>1, <1>2, OpenOwns

\* A step of one thread that is no END leaves the transactions as they are.
LEMMA OpenKept ==
    ASSUME NEW t \in Threads, pc[t] # "end", pc'[t] # "end",
           \A u \in Threads : u # t => pc'[u] = pc[u],
           holder' = holder, owner' = owner, transaction' = transaction
    PROVE  \A f \in Files : Open(f)' <=> Open(f)
<1>1. \A u \in Threads : pc'[u] = "end" <=> pc[u] = "end"
  OBVIOUS
<1> QED BY <1>1 DEF Open, SelfStatus, mutex_is_locked

-----------------------------------------------------------------------------
(* Steps that touch neither the log nor the data.                          *)

\* They leave the writes in progress alone; one begins and one ends a
\* transaction, and the others leave the transactions and the version alone.
LEMMA QuietSteps ==
    ASSUME CleanWrites, NoAborts, SnapInv, [Next]_vars,
           \A t \in Threads : /\ ~ DoWriteReserve(t) /\ ~ DoWriteRecord(t)
                              /\ ~ DoWritePage(t) /\ ~ DoWriteDataDone(t)
    PROVE  /\ SameFlights
           /\ UNCHANGED <<log, data, size>>
           /\ \/ \E t \in Threads : DoBeginAcquire(t)
              \/ \E t \in Threads : DoEndCall(t) /\ transaction = SET_TRANSACTION
              \/ version' = version /\ \A f \in Files : Open(f)' <=> Open(f)
<1> DEFINE Same == version' = version /\ \A f \in Files : Open(f)' <=> Open(f)
<1>0. /\ LockTypeOK /\ StoreTypeOK /\ KindInv /\ WriteOwnsLock /\ LockInv /\ OrderInv'
      /\ PrivateFiles
  BY OrderKept DEF SnapInv, LockInv, OrderInv, TypeOK, CleanWrites
<1>1. ASSUME NEW t \in Threads,
             \/ DoWriteCopyFails(t) \/ DoWritevCall(t) \/ DoWritevLockInode(t)
             \/ DoWritevVector(t) \/ DoWritevData(t) \/ DoWritevFails(t) \/ DoWritevCommit(t)
      PROVE  FALSE
  BY <1>0, <1>1, ZenonT(60), SMTT(60) DEF CleanWrites, KindInv, DoWriteCopyFails, WriteCopyFails,
              DoWritevCall, WritevCall, DoWritevLockInode, WritevLockInode, DoWritevVector,
              DoWritevData, WritevData, DoWritevFails, WritevFails, DoWritevCommit, WritevCommit
<1>2. ASSUME NEW f \in Files, DoClose(f) PROVE FALSE
  BY <1>2 DEF DoClose, Close, NoAborts
<1>3. UNCHANGED <<log, data, size>>
  BY <1>0, <1>1, DataTouched, LogTouched
<1>4. pc \in [Threads -> PCs]
  BY <1>0 DEF LockTypeOK
<1>6. ASSUME UNCHANGED <<holder, owner, transaction, pc>>
      PROVE  \A f \in Files : Open(f)' <=> Open(f)
  BY <1>6 DEF Open, SelfStatus, mutex_is_locked
<1>7. ASSUME (\A f \in Files : ~ Open(f)), holder' = NONE \/ transaction' # SET_TRANSACTION
      PROVE  \A f \in Files : Open(f)' <=> Open(f)
  <2>1. \A f \in Files : ~ Open(f)'
    BY <1>7, SMT DEF Open, SelfStatus, mutex_is_locked, NO_STATUS, SET_TRANSACTION
  <2> QED BY <1>7, <2>1
<1>8. ASSUME NEW t \in Threads, DoBeginCall(t) \/ DoWriteCall(t) PROVE Same
  <2>1. pc[t] = "idle" /\ version' = version
        /\ holder' = holder /\ owner' = owner /\ transaction' = transaction
        /\ pc'[t] # "end" /\ \A u \in Threads : u # t => pc'[u] = pc[u]
    BY <1>4, <1>8 DEF DoBeginCall, DoWriteCall, BeginCall, WriteCall, Goto, StartCall
  <2> QED BY <2>1, OpenKept
<1>9. ASSUME NEW t \in Threads, DoInterrupted(t) \/ DoWriteLockInode(t) PROVE Same
  <2>1. pc[t] # "end" /\ version' = version
        /\ holder' = holder /\ owner' = owner /\ transaction' = transaction
        /\ pc'[t] # "end" /\ \A u \in Threads : u # t => pc'[u] = pc[u]
    BY <1>4, <1>9 DEF DoInterrupted, DoWriteLockInode, Interrupted, WriteLockInode, Goto, storeVars
  <2> QED BY <2>1, OpenKept
<1>10. ASSUME NEW t \in Threads, DoWriteDecide(t) \/ DoUnlockInode(t) PROVE Same
  <2>1. pc[t] # "end" /\ version' = version
        /\ holder' = holder /\ owner' = owner /\ transaction' = transaction
        /\ pc'[t] # "end" /\ \A u \in Threads : u # t => pc'[u] = pc[u]
    BY <1>4, <1>10 DEF DoWriteDecide, DoUnlockInode, WriteDecide, UnlockInode, Goto, storeVars
  <2> QED BY <2>1, OpenKept
<1>11. ASSUME NEW t \in Threads, DoWriteLockTxn(t) PROVE Same
  <2>1. holder = NONE /\ transaction' = SET_NORMAL_WRITE /\ version' = version
    BY <1>11 DEF DoWriteLockTxn, WriteLockTxn, AcquireTxn, mutex_is_locked, storeVars
  <2> QED BY <1>7, <2>1, NoneOpen, SMT DEF SET_NORMAL_WRITE, SET_TRANSACTION
<1>12. ASSUME NEW t \in Threads, DoWriteUnset(t) PROVE Same
  <2>1. pc[t] = "unset"
    BY <1>12 DEF DoWriteUnset, WriteUnset
  <2>2. owner = fileOf[t] /\ holder # NONE /\ transaction = SET_NORMAL_WRITE
    BY <2>1, RecordOwns
  <2>3. MayUnset(fileOf[t])
    BY <2>2 DEF MayUnset, mutex_is_locked
  <2>4. version' = version /\ holder' = NONE
    BY <1>12, <2>2, <2>3, SMT DEF DoWriteUnset, WriteUnset, ReleaseTxn, BumpIfTransaction,
                             SET_NORMAL_WRITE, SET_TRANSACTION
  <2> QED BY <1>7, <2>2, <2>4, NoneOpen, SMT DEF SET_NORMAL_WRITE, SET_TRANSACTION
<1>13. ASSUME NEW t \in Threads, DoEndRelease(t) PROVE Same
  <2>1. pc[t] = "end" /\ holder' = NONE /\ version' = version
    BY <1>13 DEF DoEndRelease, EndRelease, ReleaseTxn, storeVars
  <2>2. owner = fileOf[t]
    BY <1>0, <2>1 DEF WriteOwnsLock
  <2>3. \A f \in Files : ~ Open(f)
    BY <2>1, <2>2, OpenOwns DEF Open
  <2> QED BY <1>7, <2>1, <2>3
<1>14. ASSUME NEW t \in Threads, DoEndCall(t), transaction # SET_TRANSACTION PROVE Same
  <2>1. version' = version /\ transaction' = transaction
    BY <1>14 DEF DoEndCall, EndCall, BumpIfTransaction
  <2> QED BY <1>7, <1>14, <2>1, NoneOpen
<1>15. ASSUME CloseOther \/ (\E c \in Children : UpdateVersion(c)) \/ UNCHANGED vars PROVE Same
  <2>1. version' = version /\ UNCHANGED <<holder, owner, transaction, pc>>
    BY <1>15 DEF CloseOther, SaveVersion, UpdateVersion, vars, lockVars, storeVars
  <2> QED BY <1>6, <2>1
<1>16. ASSUME Reopen PROVE Same
  <2>1. version' = version /\ holder' = NONE
    BY <1>16 DEF Reopen
  <2>2. \A f \in Files : ~ Open(f)
    BY <1>16 DEF Reopen, Open
  <2> QED BY <1>7, <2>1, <2>2
<1>17. \/ \E t \in Threads : DoBeginAcquire(t)
       \/ \E t \in Threads : DoEndCall(t) /\ transaction = SET_TRANSACTION
       \/ Same
  <2> HIDE DEF Same
  <2> QED BY <1>1, <1>2, <1>8, <1>9, <1>10, <1>11, <1>12, <1>13, <1>14, <1>15, <1>16,
             SMTT(60), ZenonT(60) DEF Next
<1>18. SameFlights
  <2>1. CASE CloseOther \/ (\E c \in Children : UpdateVersion(c)) \/ Reopen
    BY <2>1, SMTT(60), ZenonT(60) DEF SameFlights, CloseOther, SaveVersion, UpdateVersion, Reopen, lockVars
  <2> QED BY <1>0, <1>1, <1>2, <2>1, FlightSteps, SMTT(60), ZenonT(60) DEF Next
<1> QED BY <1>3, <1>17, <1>18

-----------------------------------------------------------------------------
(* The invariant is kept.                                                  *)

\* Only programs that use transactions have one.
LEMMA OwnerKept ==
    ASSUME PrivateFiles, LockInv, TxnOwned, [Next]_vars PROVE TxnOwned'
<1>0. /\ pc \in [Threads -> PCs]
      /\ status \in [Threads -> {NO_STATUS, SET_TRANSACTION, SET_NORMAL_WRITE}]
  BY DEF LockInv, LockTypeOK
<1>1. \A t, u \in Threads : fileOf[t] = fileOf[u] => t = u
  BY DEF PrivateFiles
<1> USE <1>0 DEF TxnOwned, Goto, SelfStatus, mutex_is_locked, NO_STATUS, UNSET_TRANSACTION,
          SET_TRANSACTION, SET_NORMAL_WRITE
<1>2. ASSUME NEW t \in Threads, BeginCall(t) \/ EndCall(t) \/ EndRelease(t) \/ Interrupted(t)
      PROVE  TxnOwned'
  BY <1>2, SMT DEF BeginCall, EndCall, EndRelease, Interrupted, ReleaseTxn
<1>3. ASSUME NEW t \in Threads, BeginAcquire(t) PROVE TxnOwned'
  BY <1>1, <1>3 DEF BeginAcquire, AcquireTxn
<1>4. ASSUME NEW t \in Threads, WriteCall(t) \/ WriteLockInode(t) \/ WriteDecide(t)
      PROVE  TxnOwned'
  BY <1>4 DEF WriteCall, WriteLockInode, WriteDecide
<1>5. ASSUME NEW t \in Threads, WriteLockTxn(t) PROVE TxnOwned'
  BY <1>5, SMT DEF WriteLockTxn, AcquireTxn
<1>6. ASSUME NEW t \in Threads, WriteReserve(t) \/ WriteCopyFails(t) \/ WriteRecord(t)
      PROVE  TxnOwned'
  BY <1>6 DEF WriteReserve, WriteCopyFails, WriteRecord
<1>7. ASSUME NEW t \in Threads, WriteUnset(t) \/ WriteDataDone(t) \/ UnlockInode(t)
      PROVE  TxnOwned'
  BY <1>7, SMT DEF WriteUnset, WriteDataDone, UnlockInode, ReleaseTxn
<1>8. ASSUME NEW t \in Threads, WritevCall(t) \/ WritevStep(t) PROVE TxnOwned'
  BY <1>8 DEF WritevCall, WritevStep, WritevLockInode, WritevData, WritevFails, WritevCommit
<1>9. ASSUME NEW f \in Files, Close(f) PROVE TxnOwned'
  BY <1>9, SMT DEF Close, ReleaseTxn
<1>10. CASE UNCHANGED lockVars
  BY <1>10 DEF lockVars
<1>11. CASE Reopen
  BY <1>11, SMT DEF Reopen
<1> HIDE DEF TxnOwned, Goto, SelfStatus, mutex_is_locked
<1> QED BY <1>2, <1>3, <1>4, <1>5, <1>6, <1>7, <1>8, <1>9, <1>10, <1>11, LockSide,
           SMTT(60), ZenonT(60) DEF LockNext, TxnStep, WriteStep

\* A write keeps the request of its program.
LEMMA RequestKept ==
    ASSUME CleanWrites, NoAborts, SnapInv, ReqOwned, [Next]_vars PROVE ReqOwned'
<1> SUFFICES ASSUME NEW u \in Threads, pc'[u] \in WritePCs
             PROVE  TheReq(u)' \in Requests[u]
  BY DEF ReqOwned
<1>0. /\ pc \in [Threads -> PCs] /\ req \in [Threads -> Seq(Request)] /\ KindInv
  BY DEF SnapInv, OrderInv, TypeOK, LockTypeOK, StoreTypeOK
<1>1. CASE pc[u] \in WritePCs /\ req'[u] = req[u]
  BY <1>1 DEF ReqOwned, TheReq
<1> USE <1>0 DEF Goto, WritePCs, StartCall, storeVars
<1>2. ASSUME NEW t \in Threads, DoWriteCall(t) PROVE TheReq(u)' \in Requests[u]
  <2>1. PICK r \in Requests[t] : req' = [req EXCEPT ![t] = <<r>>]
    BY <1>2 DEF DoWriteCall
  <2>2. pc' = [pc EXCEPT ![t] = "lock_inode"]
    BY <1>2 DEF DoWriteCall, WriteCall
  <2>3. CASE u = t
    BY <2>1, <2>3 DEF TheReq
  <2>4. CASE u # t
    BY <1>1, <2>1, <2>2, <2>4
  <2> QED BY <2>3, <2>4
<1>3. ASSUME NEW t \in Threads,
             \/ DoBeginCall(t) \/ DoBeginAcquire(t) \/ DoEndCall(t) \/ DoEndRelease(t)
             \/ DoInterrupted(t)
      PROVE  pc[u] \in WritePCs /\ req'[u] = req[u]
  BY <1>3 DEF DoBeginCall, DoBeginAcquire, DoEndCall, DoEndRelease, DoInterrupted,
              BeginCall, BeginAcquire, EndCall, EndRelease, Interrupted
<1>4. ASSUME NEW t \in Threads,
             \/ DoWriteLockInode(t) \/ DoWriteDecide(t) \/ DoWriteLockTxn(t)
             \/ DoWriteReserve(t) \/ DoWriteRecord(t)
      PROVE  pc[u] \in WritePCs /\ req'[u] = req[u]
  BY <1>4 DEF DoWriteLockInode, DoWriteDecide, DoWriteLockTxn, DoWriteReserve, DoWriteRecord,
              WriteLockInode, WriteDecide, WriteLockTxn, WriteReserve, WriteRecord
<1>5. ASSUME NEW t \in Threads,
             \/ DoWriteUnset(t) \/ DoWritePage(t) \/ DoWriteDataDone(t) \/ DoUnlockInode(t)
      PROVE  pc[u] \in WritePCs /\ req'[u] = req[u]
  BY <1>5 DEF DoWriteUnset, DoWritePage, DoWriteDataDone, DoUnlockInode,
              WriteUnset, WriteDataDone, UnlockInode, lockVars
<1>6. CASE CloseOther \/ (\E c \in Children : UpdateVersion(c)) \/ Reopen \/ UNCHANGED vars
  <2>1. pc' = pc /\ req' = req
    BY <1>6 DEF CloseOther, SaveVersion, UpdateVersion, Reopen, vars, lockVars
  <2> QED BY <1>1, <2>1
<1>7. ASSUME NEW t \in Threads,
             \/ DoWriteCopyFails(t) \/ DoWritevCall(t) \/ DoWritevLockInode(t)
             \/ DoWritevVector(t) \/ DoWritevData(t) \/ DoWritevFails(t) \/ DoWritevCommit(t)
      PROVE  FALSE
  BY <1>7, ZenonT(60), SMTT(60) DEF CleanWrites, KindInv, DoWriteCopyFails, WriteCopyFails,
              DoWritevCall, WritevCall, DoWritevLockInode, WritevLockInode, DoWritevVector,
              DoWritevData, WritevData, DoWritevFails, WritevFails, DoWritevCommit, WritevCommit
<1>8. ASSUME NEW f \in Files, DoClose(f) PROVE FALSE
  BY <1>8 DEF DoClose, Close, NoAborts
<1> HIDE DEF WritePCs
<1> QED BY <1>1, <1>2, <1>3, <1>4, <1>5, <1>6, <1>7, <1>8, SMTT(60), ZenonT(60) DEF Next

\* Records ahead of the version belong to an open transaction.
LEMMA TxnKept ==
    ASSUME CleanWrites, NoAborts, SnapInv, TxnInv, [Next]_vars PROVE TxnInv'
<1>0. /\ pc \in [Threads -> PCs] /\ PrivateFiles /\ LockTypeOK
      /\ version \in Nat /\ version > 0 /\ log \in Seq(Record)
      /\ \A i \in DOMAIN log : log[i].version_num \in Nat /\ log[i].version_num <= version + 1
  <2>1. LockTypeOK /\ StoreTypeOK /\ LogOrdered
    BY DEF SnapInv, OrderInv, TypeOK
  <2>2. /\ pc \in [Threads -> PCs] /\ PrivateFiles
        /\ version \in Nat /\ version > 0 /\ log \in Seq(Record)
    BY <2>1, SMT DEF LockTypeOK, StoreTypeOK, CleanWrites
  <2>3. \A i \in DOMAIN log : log[i].version_num \in Nat
    BY <2>2, LogFields
  <2>4. \A i \in DOMAIN log : log[i].version_num <= version + 1
    BY <2>1 DEF LogOrdered, LogBelow
  <2> QED BY <2>1, <2>2, <2>3, <2>4
<1>1. ASSUME \A t \in Threads : /\ ~ DoWriteReserve(t) /\ ~ DoWriteRecord(t)
                                /\ ~ DoWritePage(t) /\ ~ DoWriteDataDone(t)
      PROVE  TxnInv'
  <2>1. /\ SameFlights /\ log' = log
        /\ \/ \E t \in Threads : DoBeginAcquire(t)
           \/ \E t \in Threads : DoEndCall(t) /\ transaction = SET_TRANSACTION
           \/ version' = version /\ \A f \in Files : Open(f)' <=> Open(f)
    BY <1>1, QuietSteps
  <2>2. \A u \in Threads : pc'[u] = "record" => pc[u] = "record" /\ status'[u] = status[u]
    BY <2>1 DEF SameFlights
  <2>3. CASE version' = version /\ \A f \in Files : Open(f)' <=> Open(f)
    BY <2>1, <2>2, <2>3 DEF TxnInv
  <2>4. ASSUME NEW t \in Threads, DoBeginAcquire(t) PROVE TxnInv'
    <3>1. holder = NONE /\ version' = version
      BY <2>4 DEF DoBeginAcquire, BeginAcquire, AcquireTxn, mutex_is_locked, storeVars
    <3>2. \A f \in Files : ~ Open(f)
      BY <3>1, NoneOpen
    <3> QED BY <2>1, <2>2, <3>1, <3>2 DEF TxnInv
  <2>5. ASSUME NEW t \in Threads, DoEndCall(t), transaction = SET_TRANSACTION PROVE TxnInv'
    <3>1. version' = version + 1
      BY <2>5 DEF DoEndCall, BumpIfTransaction
    <3>2. ASSUME NEW u \in Threads, pc[u] = "record" PROVE status[u] = SET_TRANSACTION
      BY <2>5, <3>2, RecordOwns
    <3> QED BY <1>0, <2>1, <2>2, <3>1, <3>2, SMT DEF TxnInv, SET_TRANSACTION, SET_NORMAL_WRITE
  <2> QED BY <2>1, <2>3, <2>4, <2>5
<1>2. ASSUME NEW t \in Threads, DoWriteReserve(t) PROVE TxnInv'
  <2>1. /\ pc[t] = "reserve" /\ pc' = [pc EXCEPT ![t] = "record"] /\ status' = status
        /\ holder' = holder /\ owner' = owner /\ transaction' = transaction /\ log' = log
        /\ version' = IF status[t] = SET_NORMAL_WRITE THEN version + 1 ELSE version
    BY <1>2 DEF DoWriteReserve, WriteReserve, Goto
  <2>2. \A u \in Threads : pc'[u] = "record" => u = t
    BY <1>0, <2>1, Alone
  <2>3. transaction = status[t] /\ status[t] \in {SET_TRANSACTION, SET_NORMAL_WRITE}
    BY <2>1, RecordOwns
  <2>4. \A f \in Files : Open(f)' <=> Open(f)
    BY <1>0, <2>1, OpenKept
  <2>5. CASE status[t] = SET_NORMAL_WRITE
    <3>1. \A f \in Files : ~ Open(f)
      BY <2>3, <2>5, NoneOpen, SMT DEF SET_TRANSACTION, SET_NORMAL_WRITE
    <3>2. \A i \in DOMAIN log : log[i].version_num <= version
      BY <3>1 DEF TxnInv
    <3> QED BY <1>0, <2>1, <2>5, <3>2, SMT DEF TxnInv
  <2>6. CASE status[t] = SET_TRANSACTION
    BY <2>1, <2>2, <2>4, <2>6, SMT DEF TxnInv, SET_TRANSACTION, SET_NORMAL_WRITE
  <2> QED BY <2>3, <2>5, <2>6
<1>3. ASSUME NEW t \in Threads, DoWriteRecord(t) PROVE TxnInv'
  <2> DEFINE new == [version_num        |-> RecordVersion(t),
                     logical_start_blk  |-> TheReq(t).blk,
                     physical_start_blk |-> app[t],
                     len_blks           |-> NrBlocks(TheReq(t))]
  <2>1. /\ pc[t] = "record" /\ pc'[t] \in {"unset", "data"}
        /\ \A u \in Threads : u # t => pc'[u] = pc[u]
        /\ holder' = holder /\ owner' = owner /\ transaction' = transaction
        /\ version' = version
    BY <1>0, <1>3 DEF DoWriteRecord, WriteRecord, Goto
  <2>2. log' = log \/ log' = Append(log, new)
    BY <1>3 DEF DoWriteRecord
  <2>3. \A u \in Threads : pc'[u] # "record"
    BY <2>1, Alone
  <2>4. /\ owner = fileOf[t] /\ holder # NONE
        /\ transaction = status[t] /\ status[t] \in {SET_TRANSACTION, SET_NORMAL_WRITE}
    BY <2>1, RecordOwns
  <2>5. \A f \in Files : Open(f)' <=> Open(f)
    BY <2>1, OpenKept
  <2>6. CASE status[t] = SET_TRANSACTION
    <3>1. SelfStatus(fileOf[t]) = SET_TRANSACTION
      BY <2>4, <2>6 DEF SelfStatus, mutex_is_locked
    <3>2. fileOf[t] \in Files /\ Open(fileOf[t])
      BY <1>0, <2>1, <3>1, InsideOpen
    <3> QED BY <2>3, <2>5, <3>2 DEF TxnInv
  <2>7. CASE status[t] = SET_NORMAL_WRITE
    <3>1. \A i \in DOMAIN log : log[i].version_num <= version
      BY <1>0, <2>1, <2>7, SMT DEF TxnInv
    <3>2. new.version_num = version
      BY <2>7, SMT DEF RecordVersion, SET_TRANSACTION, SET_NORMAL_WRITE
    <3> HIDE DEF new
    <3>3. \A i \in DOMAIN log' : log'[i] = new \/ (i \in DOMAIN log /\ log'[i] = log[i])
      BY <1>0, <2>2, SMT
    <3>4. \A i \in DOMAIN log' : log'[i].version_num <= version
      BY <1>0, <3>1, <3>2, <3>3, SMT
    <3> QED BY <2>1, <2>3, <3>4 DEF TxnInv
  <2> QED BY <2>4, <2>6, <2>7
<1>4. ASSUME NEW t \in Threads, DoWritePage(t) \/ DoWriteDataDone(t) PROVE TxnInv'
  <2>1. /\ pc[t] = "data" /\ pc'[t] \in {"data", "unlock_inode"}
        /\ \A u \in Threads : u # t => pc'[u] = pc[u]
        /\ holder' = holder /\ owner' = owner /\ transaction' = transaction
        /\ version' = version /\ log' = log /\ status' = status
    BY <1>0, <1>4 DEF DoWritePage, DoWriteDataDone, WriteDataDone, Goto, lockVars, storeVars
  <2>2. \A f \in Files : Open(f)' <=> Open(f)
    BY <2>1, OpenKept
  <2>3. \A u \in Threads : pc'[u] = "record" => pc[u] = "record"
    BY <2>1
  <2> QED BY <2>1, <2>2, <2>3 DEF TxnInv
<1> QED BY <1>1, <1>2, <1>3, <1>4

\* Until a write fills its blocks, everything a lookup finds is in the file and
\* before the blocks of the write.
LEMMA FoundEarlier ==
    ASSUME SnapInv, NEW t \in Threads, pc[t] \in {"reserve", "record"},
           NEW v \in Nat, NEW L \in Nat, FoundAt(log, v, L) # BLK_NOT_FOUND
    PROVE  /\ FoundAt(log, v, L) \in Nat
           /\ pc[t] = "reserve" => FoundAt(log, v, L) < size
           /\ pc[t] = "record" => FoundAt(log, v, L) < app[t]
<1> DEFINE p == FoundAt(log, v, L)
<1>0. /\ ExtentInv /\ log \in Seq(Record) /\ size \in Nat /\ app[t] \in Nat /\ OrigPages \in Nat
  BY OrigSizes DEF SnapInv, OrderInv, TypeOK, StoreTypeOK
<1>1. p \in Nat /\ (p < OrigPages \/ \E i \in DOMAIN log : p < RecordEnd(log[i]))
  BY <1>0, FoundFinds
<1>2. \A i \in DOMAIN log : RecordEnd(log[i]) \in Nat
  BY <1>0, RecordFields, SMT
<1> HIDE DEF p
<1>3. ASSUME pc[t] = "reserve" PROVE p < size
  <2>1. \A u \in Threads : pc[u] \notin {"unset", "data"}
    BY <1>3, Alone
  <2>2. OrigPages <= size /\ \A i \in DOMAIN log : RecordEnd(log[i]) <= size
    BY <1>0, <2>1 DEF ExtentInv
  <2> QED BY <1>0, <1>1, <1>2, <2>2, SMT
<1>4. ASSUME pc[t] = "record" PROVE p < app[t]
  <2>1. OrigPages <= app[t] /\ \A i \in DOMAIN log : RecordEnd(log[i]) <= app[t]
    BY <1>0, <1>4 DEF ExtentInv, InFlight
  <2> QED BY <1>0, <1>1, <1>2, <2>1, SMT
<1> QED BY <1>1, <1>3, <1>4 DEF p

\* The block that a PutBlock gives a content has it.
LEMMA PutGives ==
    ASSUME NEW d, NEW b \in Nat, NEW block
    PROVE  BlockAt(PutBlock(d, b, block), b) = block
<1>1. b \in DOMAIN d \cup 0..b
  BY SMT
<1> QED BY <1>1 DEF BlockAt, PutBlock

\* A safe request copies its first block or nothing.
LEMMA ReserveData ==
    ASSUME SafeRequests, SnapInv, ReqOwned, NEW t \in Threads, DoWriteReserve(t)
    PROVE  /\ TheReq(t) \in Request
           /\ data' = FirstCopied(TheReq(t), Lookup(log, version, TheReq(t).blk))
<1> DEFINE r == TheReq(t)
           p == Lookup(log, version, r.blk)
<1>1. pc[t] = "reserve" /\ data' = LastCopied(r, p, FirstCopied(r, p))
  BY DEF DoWriteReserve, WriteReserve
<1>2. r \in Requests[t] /\ r \in Request
  BY <1>1, TheReqType DEF ReqOwned, WritePCs, SnapInv, OrderInv
<1>3. ~ CopiesLast(r)
  BY <1>2 DEF SafeRequests, CopiesLast
<1> QED BY <1>1, <1>2, <1>3 DEF LastCopied

\* Multiplication keeps the order.
LEMMA TimesMonotone ==
    ASSUME NEW m \in Nat, NEW n \in Nat, NEW k \in Nat, m <= n
    PROVE  m * k <= n * k
<1>1. n = m + (n - m) /\ n - m \in Nat
  BY SMT
<1>2. PICK d \in Nat : n = m + d
  BY <1>1
<1>3. (m + d) * k = m * k + d * k
  BY SMT
<1>4. d * k \in Nat /\ m * k \in Nat
  BY SMT
<1> QED BY <1>2, <1>3, <1>4, SMT

\* A block past the original file is past the original size.
LEMMA PastOriginal ==
    ASSUME NEW b \in Nat, NEW off \in Nat, OrigBlocks <= b,
           b < OrigBlocks \/ OrigPages <= b
    PROVE  ~ (b < OrigPages) /\ ~ (b * PAGE_SIZE + off < OrigEnd)
<1>1. /\ OrigPages \in Nat /\ OrigBlocks \in Nat /\ OrigBlocks <= OrigPages
      /\ OrigTail \in Nat /\ OrigTail < PAGE_SIZE /\ PAGE_SIZE \in Nat
  BY OrigSizes, StoreAssumption
<1>2. OrigPages <= b
  BY <1>1, SMT
<1>3. CASE OrigTail = 0
  <2>1. OrigBlocks <= b /\ OrigEnd = OrigBlocks * PAGE_SIZE + OrigTail
    BY DEF OrigEnd
  <2>2. OrigBlocks * PAGE_SIZE <= b * PAGE_SIZE
    BY <1>1, <2>1, TimesMonotone
  <2> QED BY <1>1, <1>2, <1>3, <2>1, <2>2, SMT
<1>4. CASE OrigTail # 0
  <2>1. OrigPages = OrigBlocks + 1
    BY <1>4 DEF OrigPages
  <2>2. OrigBlocks + 1 <= b /\ OrigEnd = OrigBlocks * PAGE_SIZE + OrigTail
    BY <1>2, <2>1 DEF OrigEnd
  <2>3. (OrigBlocks + 1) * PAGE_SIZE <= b * PAGE_SIZE
    BY <1>1, <2>2, TimesMonotone, SMT
  <2>4. (OrigBlocks + 1) * PAGE_SIZE = OrigBlocks * PAGE_SIZE + PAGE_SIZE
    BY <1>1, SMT
  <2> QED BY <1>1, <1>2, <2>2, <2>3, <2>4, SMT
<1> QED BY <1>3, <1>4

\* A normal write has the content of its first block before it logs the record.
LEMMA CopyKept ==
    ASSUME CleanWrites, NoAborts, SafeRequests, SnapInv, ReqOwned, CopyInv, [Next]_vars
    PROVE  CopyInv'
<1> SUFFICES ASSUME NEW u \in Threads, pc'[u] = "record", status'[u] = SET_NORMAL_WRITE,
                    CopiesFirst(TheReq(u))'
             PROVE  BlockAt(data, app[u])' = ContentAt(version - 1, TheReq(u).blk)'
  BY DEF CopyInv
<1>0. /\ pc \in [Threads -> PCs] /\ size \in Nat /\ data \in [0..(size - 1) -> Blocks]
      /\ app \in [Threads -> Nat] /\ version \in Nat
  BY DEF SnapInv, OrderInv, TypeOK, LockTypeOK, StoreTypeOK
<1>1. ASSUME \A t \in Threads : /\ ~ DoWriteReserve(t) /\ ~ DoWriteRecord(t)
                                /\ ~ DoWritePage(t) /\ ~ DoWriteDataDone(t)
      PROVE  BlockAt(data, app[u])' = ContentAt(version - 1, TheReq(u).blk)'
  <2>1. /\ SameFlights /\ log' = log /\ data' = data
        /\ \/ \E t \in Threads : DoBeginAcquire(t)
           \/ \E t \in Threads : DoEndCall(t) /\ transaction = SET_TRANSACTION
           \/ version' = version
    BY <1>1, QuietSteps
  <2>2. pc[u] = "record" /\ status[u] = SET_NORMAL_WRITE /\ app'[u] = app[u] /\ req'[u] = req[u]
    BY <2>1 DEF SameFlights
  <2>3. transaction = SET_NORMAL_WRITE
    BY <2>2, RecordOwns
  <2>4. version' = version
    BY <2>1, <2>3, SMT DEF DoBeginAcquire, storeVars, SET_NORMAL_WRITE, SET_TRANSACTION
  <2>5. TheReq(u)' = TheReq(u)
    BY <2>2 DEF TheReq
  <2>6. BlockAt(data, app[u]) = ContentAt(version - 1, TheReq(u).blk)
    BY <2>2, <2>5 DEF CopyInv
  <2>7. ContentAt(version - 1, TheReq(u).blk)' = ContentAt(version - 1, TheReq(u).blk)
    BY <2>1, <2>4, <2>5 DEF ContentAt
  <2> QED BY <2>1, <2>2, <2>6, <2>7
<1>2. ASSUME NEW t \in Threads, DoWriteReserve(t)
      PROVE  BlockAt(data, app[u])' = ContentAt(version - 1, TheReq(u).blk)'
  <2> DEFINE r == TheReq(t)
             p == Lookup(log, version, r.blk)
  <2>1. /\ pc[t] = "reserve" /\ pc' = [pc EXCEPT ![t] = "record"] /\ status' = status
        /\ log' = log /\ req' = req /\ app' = [app EXCEPT ![t] = size]
        /\ version' = IF status[t] = SET_NORMAL_WRITE THEN version + 1 ELSE version
    BY <1>2 DEF DoWriteReserve, WriteReserve, Goto
  <2>2. u = t
    BY <1>0, <2>1, Alone
  <2>3. app'[u] = size /\ version' - 1 = version /\ TheReq(u)' = r /\ log' = log
    BY <1>0, <2>1, <2>2, SMT DEF TheReq
  <2>4. r \in Request /\ data' = FirstCopied(r, p)
    BY <1>2, ReserveData
  <2>5. CopiesFirst(r)
    BY <2>3
  <2>6. r.blk \in Nat
    BY <2>4, RequestBlocks
  <2> HIDE DEF r
  <2>7. ContentAt(version - 1, TheReq(u).blk)' =
           IF p # BLK_NOT_FOUND THEN BlockAt(data', p)
           ELSE IF r.blk < OrigPages THEN BlockAt(data', r.blk) ELSE ZeroBlock
    BY <2>3 DEF ContentAt
  <2>8. CASE p = BLK_NOT_FOUND
    <3>0. r.blk \in Nat /\ ~ (r.blk < OrigPages) /\ ~ HasOld(r, p)
      <4>1. r \in Requests[t]
        BY <2>1 DEF ReqOwned, WritePCs, r
      <4>2. r.blk < OrigBlocks \/ OrigPages <= r.blk
        BY <2>5, <4>1 DEF SafeRequests
      <4>3. OrigBlocks <= r.blk
        <5>1. log \in Seq(Record)
          BY DEF SnapInv, OrderInv, TypeOK, StoreTypeOK
        <5> QED BY <1>0, <2>6, <2>8, <5>1, LookupMisses
      <4>4. r.off \in Nat
        BY <2>4, RequestBlocks
      <4> QED BY <2>6, <2>8, <4>2, <4>3, <4>4, PastOriginal DEF HasOld
    <3>1. data' = data
      BY <2>4, <3>0 DEF FirstCopied
    <3>2. size \notin DOMAIN data
      BY <1>0, SMT
    <3> QED BY <2>3, <2>7, <2>8, <3>0, <3>1, <3>2 DEF BlockAt
  <2>9. CASE p # BLK_NOT_FOUND
    <3>1. data' = PutBlock(data, size, BlockAt(data, p))
      BY <2>4, <2>5, <2>9 DEF FirstCopied, HasOld
    <3>2. p \in Nat /\ p < size /\ p # size
      <4>1. FoundAt(log, version, r.blk) = p
        BY <2>9 DEF FoundAt
      <4>2. p \in Nat /\ p < size
        BY <1>0, <2>1, <2>6, <2>9, <4>1, FoundEarlier
      <4> QED BY <1>0, <4>2, SMT
    <3> HIDE DEF p
    <3>3. BlockAt(data', size) = BlockAt(data, p)
      BY <1>0, <3>1, PutGives
    <3>4. BlockAt(data', p) = BlockAt(data, p)
      <4>1. p \in DOMAIN data
        BY <1>0, <3>2, SMT
      <4> QED BY <3>1, <3>2, <4>1 DEF BlockAt, PutBlock
    <3> QED BY <2>3, <2>7, <2>9, <3>3, <3>4
  <2> QED BY <2>8, <2>9
<1>3. ASSUME NEW t \in Threads, DoWriteRecord(t) \/ DoWritePage(t) \/ DoWriteDataDone(t)
      PROVE  FALSE
  <2>1. /\ pc[t] \in {"record", "data"} /\ pc'[t] # "record"
        /\ \A w \in Threads : w # t => pc'[w] = pc[w]
    BY <1>0, <1>3 DEF DoWriteRecord, DoWritePage, DoWriteDataDone, WriteRecord, WriteDataDone,
                      Goto, lockVars
  <2> QED BY <2>1, Alone
<1> QED BY <1>1, <1>2, <1>3

\* Reserving its blocks, a write starts at the first page.
LEMMA PageKept ==
    ASSUME CleanWrites, NoAborts, SnapInv, PageInv, [Next]_vars PROVE PageInv'
<1> SUFFICES ASSUME NEW u \in Threads, pc'[u] = "record" PROVE page'[u] = 0
  BY DEF PageInv
<1>0. pc \in [Threads -> PCs] /\ page \in [Threads -> Nat]
  BY DEF SnapInv, OrderInv, TypeOK, LockTypeOK, StoreTypeOK
<1>1. ASSUME \A t \in Threads : /\ ~ DoWriteReserve(t) /\ ~ DoWriteRecord(t)
                                /\ ~ DoWritePage(t) /\ ~ DoWriteDataDone(t)
      PROVE  page'[u] = 0
  <2>1. SameFlights
    BY <1>1, QuietSteps
  <2> QED BY <2>1 DEF SameFlights, PageInv
<1>2. ASSUME NEW t \in Threads, DoWriteReserve(t) PROVE page'[u] = 0
  <2>1. /\ pc[t] = "reserve" /\ pc' = [pc EXCEPT ![t] = "record"]
        /\ page' = [page EXCEPT ![t] = 0]
    BY <1>2 DEF DoWriteReserve, WriteReserve, Goto
  <2>2. u = t
    BY <1>0, <2>1, Alone
  <2> QED BY <1>0, <2>1, <2>2
<1>3. ASSUME NEW t \in Threads, DoWriteRecord(t) \/ DoWritePage(t) \/ DoWriteDataDone(t)
      PROVE  FALSE
  <2>1. /\ pc[t] \in {"record", "data"} /\ pc'[t] # "record"
        /\ \A w \in Threads : w # t => pc'[w] = pc[w]
    BY <1>0, <1>3 DEF DoWriteRecord, DoWritePage, DoWriteDataDone, WriteRecord, WriteDataDone,
                      Goto, lockVars
  <2> QED BY <2>1, Alone
<1> QED BY <1>1, <1>2, <1>3

\* The invariant holds at the start.
LEMMA RefInitially == Init => RefInv
<1> SUFFICES ASSUME Init PROVE RefInv
  OBVIOUS
<1>1. SnapInv
  BY SnapInitially
<1>2. /\ pc = [t \in Threads |-> "idle"] /\ status = [t \in Threads |-> NO_STATUS]
      /\ holder = NONE /\ log = << >>
  BY DEF Init, LockInit
<1>3. TxnOwned
  BY <1>2, SMT DEF TxnOwned, SelfStatus, mutex_is_locked, NO_STATUS, SET_TRANSACTION
<1>4. ReqOwned /\ TxnInv /\ CopyInv /\ PageInv
  BY <1>2, SMT DEF ReqOwned, WritePCs, TxnInv, CopyInv, PageInv
<1> QED BY <1>1, <1>3, <1>4 DEF RefInv

\* Every step keeps it.
LEMMA RefKept ==
    CleanWrites /\ NoAborts /\ SafeRequests => (RefInv /\ [Next]_vars => RefInv')
<1> SUFFICES ASSUME CleanWrites, NoAborts, SafeRequests, RefInv, [Next]_vars PROVE RefInv'
  OBVIOUS
<1>1. /\ PrivateFiles /\ LockInv
      /\ SnapInv /\ TxnOwned /\ ReqOwned /\ TxnInv /\ CopyInv /\ PageInv
  BY DEF CleanWrites, RefInv, SnapInv
<1>2. SnapInv' /\ TxnOwned'
  BY <1>1, SnapKept, OwnerKept
<1>3. ReqOwned' /\ TxnInv' /\ CopyInv' /\ PageInv'
  BY <1>1, RequestKept, TxnKept, CopyKept, PageKept
<1> QED BY <1>2, <1>3 DEF RefInv

\* "We increase the version while END_TXN" (corw_sparse.c:4973): only the END
\* of a transaction reveals records that are ahead of the version, for any
\* number of threads and transactions, if no file is closed inside its
\* transaction and writes finish.
THEOREM TxnVisibleAtEndAlways == CleanWrites /\ NoAborts => (Spec => TxnVisibleAtEnd)
<1> DEFINE Visible == \A i \in DOMAIN log :
                        (version < log[i].version_num /\ log[i].version_num <= version') =>
                           \E t \in Threads : pc[t] = "idle" /\ pc'[t] = "end"
           Inv == SnapInv /\ TxnInv
<1> SUFFICES ASSUME CleanWrites, NoAborts PROVE Spec => TxnVisibleAtEnd
  OBVIOUS
<1>1. Init => Inv
  BY RefInitially DEF RefInv
<1>2. Inv /\ [Next]_vars => Inv'
  BY SnapKept, TxnKept
<1>3. Inv /\ [Next]_vars => [Visible]_vars
  <2> SUFFICES ASSUME SnapInv, TxnInv, [Next]_vars, NEW i \in DOMAIN log,
                      version < log[i].version_num, log[i].version_num <= version'
               PROVE  \E t \in Threads : pc[t] = "idle" /\ pc'[t] = "end"
    OBVIOUS
  <2>0. /\ version \in Nat /\ log[i].version_num \in Nat /\ version' # version
        /\ pc \in [Threads -> PCs]
    <3>1. StoreTypeOK /\ LockTypeOK
      BY DEF SnapInv, OrderInv, TypeOK
    <3>2. version \in Nat /\ pc \in [Threads -> PCs] /\ log \in Seq(Record)
      BY <3>1 DEF StoreTypeOK, LockTypeOK
    <3>3. log[i].version_num \in Nat
      BY <3>2, LogFields
    <3>4. version' # version
      BY <3>2, <3>3, SMT
    <3> QED BY <3>2, <3>3, <3>4
  <2>1. ASSUME \A t \in Threads : /\ ~ DoWriteReserve(t) /\ ~ DoWriteRecord(t)
                                  /\ ~ DoWritePage(t) /\ ~ DoWriteDataDone(t)
        PROVE  \E t \in Threads : pc[t] = "idle" /\ pc'[t] = "end"
    <3>1. \/ \E t \in Threads : DoBeginAcquire(t)
          \/ \E t \in Threads : DoEndCall(t) /\ transaction = SET_TRANSACTION
          \/ version' = version
      BY <2>1, QuietSteps
    <3>2. PICK t \in Threads : DoEndCall(t)
      BY <2>0, <3>1 DEF DoBeginAcquire, storeVars
    <3> QED BY <2>0, <3>2 DEF DoEndCall, EndCall, Goto
  <2>2. ASSUME NEW t \in Threads, DoWriteReserve(t) PROVE FALSE
    <3>1. /\ pc[t] = "reserve"
          /\ version' = IF status[t] = SET_NORMAL_WRITE THEN version + 1 ELSE version
      BY <2>2 DEF DoWriteReserve, WriteReserve
    <3>2. transaction = SET_NORMAL_WRITE
      BY <2>0, <3>1, RecordOwns, SMT
    <3>3. \A f \in Files : ~ Open(f)
      BY <3>2, NoneOpen, SMT DEF SET_TRANSACTION, SET_NORMAL_WRITE
    <3> QED BY <2>0, <3>3, SMT DEF TxnInv
  <2>3. ASSUME NEW t \in Threads, DoWriteRecord(t) \/ DoWritePage(t) \/ DoWriteDataDone(t)
        PROVE  FALSE
    BY <2>0, <2>3 DEF DoWriteRecord, DoWritePage, DoWriteDataDone, storeVars
  <2> QED BY <2>1, <2>2, <2>3
<1> QED BY <1>1, <1>2, <1>3, PTL DEF Spec, TxnVisibleAtEnd

-----------------------------------------------------------------------------
(* Filling blocks.                                                         *)

\* Every unit of a block that a safe request does not copy is written.
LEMMA WholeBlock ==
    ASSUME NEW r \in Request, NrBlocks(r) > 1 => EndUnit(r) % PAGE_SIZE = 0,
           NEW k \in Nat, k < NrBlocks(r), k > 0 \/ ~ CopiesFirst(r), NEW u \in Units
    PROVE  Written(r, k, u)
<1> DEFINE P == PAGE_SIZE
           e == EndUnit(r)
           q == (e - 1) \div P
<1>1. P \in Nat /\ P > 0 /\ u \in Nat /\ u < P /\ r.off \in Nat /\ r.off < P /\ e \in Nat /\ e > 0
      /\ r.blk \in Nat /\ e = r.off + r.count
  BY StoreAssumption, SMT DEF Request, Units, EndUnit
<1>2. NrBlocks(r) = q + 1 /\ q \in Nat
  <2>1. q \in Nat
    BY <1>1, SMT
  <2> QED BY <1>1, <2>1, SMT DEF NrBlocks, LastBlock
<1> HIDE DEF e
<1>3. q * P <= e - 1 /\ e - 1 < q * P + P
  BY <1>1, SMT
<1> HIDE DEF q, P
<1>4. ASSUME e % P = 0 PROVE e = q * P + P
  <2>1. e = P * (e \div P) /\ e \div P \in Nat
    BY <1>1, <1>4, SMT
  <2> DEFINE m == e \div P
  <2> HIDE DEF m
  <2>2. e = m * P /\ m \in Nat
    BY <1>1, <2>1, SMT DEF m
  <2>3. ~ (m <= q)
    <3> SUFFICES ASSUME m <= q PROVE FALSE
      OBVIOUS
    <3>1. m * P <= q * P
      BY <1>1, <1>2, <2>2, SMT
    <3> QED BY <1>1, <1>2, <1>3, <2>2, <3>1, SMT
  <2>4. ~ (m >= q + 2)
    <3> SUFFICES ASSUME m >= q + 2 PROVE FALSE
      OBVIOUS
    <3>1. m * P >= (q + 2) * P
      BY <1>1, <1>2, <2>2, SMT
    <3>2. (q + 2) * P = q * P + P + P
      BY <1>1, <1>2, SMT
    <3> QED BY <1>1, <1>2, <1>3, <2>2, <3>1, <3>2, SMT
  <2>5. m = q + 1
    BY <1>2, <2>2, <2>3, <2>4, SMT
  <2> QED BY <1>1, <1>2, <2>2, <2>5, SMT
<1>5. CASE k > 0
  <2>1. e % P = 0
    BY <1>2, <1>5, SMT DEF e, P
  <2>2. e = q * P + P
    BY <1>4, <2>1
  <2>3. k * P >= P /\ k * P <= q * P /\ k * P \in Nat /\ q * P \in Nat
    BY <1>1, <1>2, <1>5, SMT
  <2>4. r.off <= k * P + u /\ k * P + u < e
    BY <1>1, <2>2, <2>3, SMT
  <2> QED BY <2>4 DEF Written, P, e
<1>6. CASE k = 0
  <2>1. r.off = 0 /\ (NrBlocks(r) # 1 \/ e % P = 0)
    BY <1>6, SMT DEF CopiesFirst, e, P
  <2>2. q = 0 => e = P
    BY <1>1, <1>2, <1>4, <2>1, SMT
  <2>3. q > 0 => q * P >= P
    BY <1>1, <1>2, SMT
  <2>4. u < e
    BY <1>1, <1>2, <1>3, <2>2, <2>3, SMT
  <2>5. k * P = 0
    BY <1>1, <1>6, SMT
  <2>6. r.off <= k * P + u /\ k * P + u < e
    BY <1>1, <2>1, <2>4, <2>5, SMT
  <2> QED BY <2>6 DEF Written, P, e
<1> QED BY <1>5, <1>6, SMT

\* Filling such a block leaves nothing of what was there.
LEMMA WholeFill ==
    ASSUME NEW r \in Request, NrBlocks(r) > 1 => EndUnit(r) % PAGE_SIZE = 0,
           NEW k \in Nat, k < NrBlocks(r), k > 0 \/ ~ CopiesFirst(r), NEW x, NEW y
    PROVE  Fill(r, k, x) = Fill(r, k, y)
<1>1. \A u \in Units : Written(r, k, u)
  BY WholeBlock
<1> QED BY <1>1 DEF Fill

\* The place in a request of a block that it covers.
LEMMA BlockOfRequest ==
    ASSUME NEW r \in Request, NEW L \in LogicalBlocks, r.blk <= L, L <= LastBlock(r)
    PROVE  L \in Nat /\ r.blk \in Nat /\ L - r.blk \in Nat /\ L - r.blk < NrBlocks(r)
<1>1. L \in Nat /\ r.blk \in Nat /\ LastBlock(r) \in Nat
  BY StoreAssumption, RequestBlocks
<1> QED BY <1>1, SMT DEF NrBlocks

\* Writing one block leaves every other block alone, in the file or past it.
LEMMA PutOthers ==
    ASSUME NEW d, NEW b \in Nat, NEW block, NEW x, x # b
    PROVE  BlockAt(PutBlock(d, b, block), x) = BlockAt(d, x)
BY DEF BlockAt, PutBlock

\* With no write to finish, the blocks are what they are.
NoneFills ==
    (\A t \in Threads : ~ Filling(t)) => \A b \in Nat : FinalBlock(b) = BlockAt(data, b)

\* One write decides alone what its own blocks will be.
OneFills ==
    \A t \in Threads :
        (Filling(t) /\ \A u \in Threads : Filling(u) => u = t) =>
            \A b \in Nat :
                FinalBlock(b) = IF app[t] + page[t] <= b /\ b < app[t] + NrBlocks(TheReq(t))
                                THEN Fill(TheReq(t), b - app[t], BlockAt(data, b))
                                ELSE BlockAt(data, b)

\* That holds in every state.
LEMMA NoneFillsHolds == NoneFills
<1> SUFFICES ASSUME \A t \in Threads : ~ Filling(t), NEW b \in Nat
             PROVE  FinalBlock(b) = BlockAt(data, b)
  BY DEF NoneFills
<1>1. {t \in Threads : /\ Filling(t)
                       /\ app[t] + page[t] <= b
                       /\ b < app[t] + NrBlocks(TheReq(t))} = {}
  OBVIOUS
<1> QED BY <1>1 DEF FinalBlock

\* So does this.
LEMMA OneFillsHolds == OneFills
<1> SUFFICES ASSUME NEW t \in Threads, Filling(t), \A u \in Threads : Filling(u) => u = t,
                    NEW b \in Nat
             PROVE  FinalBlock(b) = IF app[t] + page[t] <= b /\ b < app[t] + NrBlocks(TheReq(t))
                                    THEN Fill(TheReq(t), b - app[t], BlockAt(data, b))
                                    ELSE BlockAt(data, b)
  BY DEF OneFills
<1> DEFINE F == {u \in Threads : /\ Filling(u)
                                 /\ app[u] + page[u] <= b
                                 /\ b < app[u] + NrBlocks(TheReq(u))}
<1>1. CASE app[t] + page[t] <= b /\ b < app[t] + NrBlocks(TheReq(t))
  <2>1. F = {t}
    BY <1>1
  <2>2. F # {} /\ (CHOOSE u \in F : TRUE) = t
    BY <2>1
  <2> QED BY <1>1, <2>2 DEF FinalBlock
<1>2. CASE ~ (app[t] + page[t] <= b /\ b < app[t] + NrBlocks(TheReq(t)))
  <2>1. F = {}
    BY <1>2
  <2> QED BY <1>2, <2>1 DEF FinalBlock
<1> QED BY <1>1, <1>2

\* All blocks once the writes in progress are done.
FinalBlocks == [b \in Nat |-> FinalBlock(b)]

\* The content of a version, from those blocks.
ContentOf ==
    log \in Seq(Record) =>
        \A v \in Nat, L \in LogicalBlocks :
            FinalContent(v)[L] = IF FoundAt(log, v, L) = BLK_NOT_FOUND THEN ZeroBlock
                                 ELSE FinalBlocks[FoundAt(log, v, L)]

\* That holds in every state.
LEMMA ContentOfHolds == ContentOf
<1> SUFFICES ASSUME log \in Seq(Record), NEW v \in Nat, NEW L \in LogicalBlocks
             PROVE  FinalContent(v)[L] = IF FoundAt(log, v, L) = BLK_NOT_FOUND THEN ZeroBlock
                                         ELSE FinalBlocks[FoundAt(log, v, L)]
  BY DEF ContentOf
<1>1. L \in Nat
  BY StoreAssumption
<1>2. Lookup(log, v, L) # BLK_NOT_FOUND => Lookup(log, v, L) \in Nat
  BY <1>1, LookupFinds
<1>3. L # BLK_NOT_FOUND
  BY <1>1, SMT DEF BLK_NOT_FOUND
<1>4. FinalContent(v)[L] = IF Lookup(log, v, L) # BLK_NOT_FOUND THEN FinalBlock(Lookup(log, v, L))
                           ELSE IF L < OrigPages THEN FinalBlock(L) ELSE ZeroBlock
  BY DEF FinalContent
<1>5. \A b \in Nat : FinalBlocks[b] = FinalBlock(b)
  BY DEF FinalBlocks
<1>6. CASE Lookup(log, v, L) # BLK_NOT_FOUND
  BY <1>2, <1>4, <1>5, <1>6 DEF FoundAt
<1>7. CASE Lookup(log, v, L) = BLK_NOT_FOUND /\ L < OrigPages
  BY <1>1, <1>3, <1>4, <1>5, <1>7 DEF FoundAt
<1>8. CASE Lookup(log, v, L) = BLK_NOT_FOUND /\ ~ (L < OrigPages)
  BY <1>4, <1>8 DEF FoundAt
<1> QED BY <1>6, <1>7, <1>8

-----------------------------------------------------------------------------
(* Only logging a record changes what the versions will contain.           *)

\* No step but the logging of a record changes what a lookup finds.
LEMMA FinalBlockKept ==
    ASSUME CleanWrites, NoAborts, SafeRequests, SnapInv, ReqOwned, [Next]_vars,
           \A t \in Threads : ~ DoWriteRecord(t),
           NEW v \in Nat, NEW L \in LogicalBlocks, FoundAt(log, v, L) # BLK_NOT_FOUND
    PROVE  log' = log /\ FinalBlocks'[FoundAt(log, v, L)] = FinalBlocks[FoundAt(log, v, L)]
<1> DEFINE p == FoundAt(log, v, L)
<1>0. /\ pc \in [Threads -> PCs] /\ size \in Nat /\ data \in [0..(size - 1) -> Blocks]
      /\ app \in [Threads -> Nat] /\ page \in [Threads -> Nat] /\ log \in Seq(Record)
      /\ KindInv /\ L \in Nat
  BY StoreAssumption DEF SnapInv, OrderInv, TypeOK, LockTypeOK, StoreTypeOK
<1>1. log' = log
  <2>1. \A t \in Threads : ~ DoWritevCommit(t)
    BY <1>0 DEF CleanWrites, KindInv, DoWritevCommit, WritevCommit
  <2> QED BY <2>1, LogTouched
<1>2. p \in Nat
  BY <1>0, FoundFinds
<1>3. NoneFills /\ OneFills /\ NoneFills' /\ OneFills'
  <2>1. NoneFills' /\ OneFills'
    BY NoneFillsHolds, OneFillsHolds, PTL
  <2> QED BY <2>1, NoneFillsHolds, OneFillsHolds
<1>4. \A t, u \in Threads : Filling(t) /\ Filling(u) => u = t
  BY Alone DEF Filling
<1>5. ASSUME NEW b \in Nat, b = p PROVE FinalBlock(b)' = FinalBlock(b)
  <2>1. ASSUME \A t \in Threads : /\ ~ DoWriteReserve(t) /\ ~ DoWriteRecord(t)
                                  /\ ~ DoWritePage(t) /\ ~ DoWriteDataDone(t)
        PROVE  FinalBlock(b)' = FinalBlock(b)
    <3>1. SameFlights /\ data' = data
      BY <2>1, QuietSteps
    <3>2. \A t \in Threads : Filling(t)' <=> Filling(t)
      BY <3>1 DEF SameFlights, Filling
    <3>3. \A t \in Threads : Filling(t) =>
             app'[t] = app[t] /\ page'[t] = page[t] /\ TheReq(t)' = TheReq(t)
      BY <3>1 DEF SameFlights, Filling, TheReq
    <3>4. CASE \A t \in Threads : ~ Filling(t)
      BY <1>3, <3>1, <3>2, <3>4 DEF NoneFills
    <3>5. ASSUME NEW t \in Threads, Filling(t) PROVE FinalBlock(b)' = FinalBlock(b)
      <4>1. \A u \in Threads : Filling(u) => u = t
        BY <1>4, <3>5
      <4>2. FinalBlock(b) = IF app[t] + page[t] <= b /\ b < app[t] + NrBlocks(TheReq(t))
                            THEN Fill(TheReq(t), b - app[t], BlockAt(data, b))
                            ELSE BlockAt(data, b)
        BY <1>3, <3>5, <4>1 DEF OneFills
      <4>3. Filling(t)' /\ \A u \in Threads : Filling(u)' => u = t
        BY <3>2, <3>5, <4>1
      <4>4. FinalBlock(b)' = IF app'[t] + page'[t] <= b /\ b < app'[t] + NrBlocks(TheReq(t)')
                             THEN Fill(TheReq(t)', b - app'[t], BlockAt(data', b))
                             ELSE BlockAt(data', b)
        BY <1>3, <4>3 DEF OneFills
      <4> QED BY <3>1, <3>3, <3>5, <4>2, <4>4
    <3> QED BY <3>4, <3>5
  <2>2. ASSUME NEW t \in Threads, DoWriteReserve(t) PROVE FinalBlock(b)' = FinalBlock(b)
    <3>1. pc[t] = "reserve" /\ pc' = [pc EXCEPT ![t] = "record"]
      BY <2>2 DEF DoWriteReserve, WriteReserve, Goto
    <3>2. \A u \in Threads : ~ Filling(u) /\ ~ Filling(u)'
      BY <1>0, <3>1, Alone DEF Filling
    <3>3. FinalBlock(b) = BlockAt(data, b) /\ FinalBlock(b)' = BlockAt(data', b)
      BY <1>3, <3>2 DEF NoneFills
    <3>4. b < size
      BY <1>0, <1>5, <3>1, FoundEarlier
    <3>5. TheReq(t) \in Request /\ StoreTypeOK
      BY <2>2, ReserveData DEF SnapInv, OrderInv, TypeOK
    <3>6. BlockAt(data', b) = BlockAt(data, b)
      BY <2>2, <3>4, <3>5, CopiesKeep DEF DoWriteReserve
    <3> QED BY <3>3, <3>6
  <2>3. ASSUME NEW t \in Threads, DoWritePage(t) \/ DoWriteDataDone(t)
        PROVE  FinalBlock(b)' = FinalBlock(b)
    <3> DEFINE a == app[t]
               g == page[t]
               r == TheReq(t)
               n == NrBlocks(r)
    <3>1. pc[t] = "data" /\ Filling(t)
      BY <2>3 DEF DoWritePage, DoWriteDataDone, WriteDataDone, Filling
    <3>2. \A u \in Threads : Filling(u) => u = t
      BY <1>4, <3>1
    <3>3. FinalBlock(b) = IF a + g <= b /\ b < a + n THEN Fill(r, b - a, BlockAt(data, b))
                          ELSE BlockAt(data, b)
      BY <1>3, <3>1, <3>2 DEF OneFills
    <3>4. a \in Nat /\ g \in Nat /\ r \in Request /\ n \in Nat
      <4>1. r \in Request
        BY <3>1, TheReqType DEF WritePCs, SnapInv, OrderInv
      <4> QED BY <1>0, <4>1, RequestBlocks
    <3>5. CASE DoWriteDataDone(t)
      <4>1. g = n /\ data' = data /\ pc' = [pc EXCEPT ![t] = "unlock_inode"]
        BY <3>5 DEF DoWriteDataDone, WriteDataDone, Goto, CleanWrites, storeVars
      <4>2. \A u \in Threads : ~ Filling(u)'
        BY <1>0, <3>2, <4>1 DEF Filling
      <4>3. FinalBlock(b)' = BlockAt(data, b)
        BY <1>3, <4>1, <4>2 DEF NoneFills
      <4>4. FinalBlock(b) = BlockAt(data, b)
        <5>1. ~ (a + g <= b /\ b < a + n)
          BY <3>4, <4>1, EmptyRange
        <5> QED BY <3>3, <5>1
      <4> QED BY <4>3, <4>4
    <3>6. CASE DoWritePage(t)
      <4>1. /\ g < n /\ pc' = pc /\ app' = app /\ req' = req /\ page' = [page EXCEPT ![t] = g + 1]
            /\ data' = PutBlock(data, a + g, Fill(r, g, BlockAt(data, a + g)))
        BY <1>0, <3>6 DEF DoWritePage, lockVars
      <4>2. Filling(t)' /\ (\A u \in Threads : Filling(u)' => u = t)
            /\ TheReq(t)' = r /\ app'[t] = a /\ page'[t] = g + 1
        BY <1>0, <3>1, <3>2, <4>1 DEF Filling, TheReq
      <4>3. FinalBlock(b)' = IF app'[t] + page'[t] <= b /\ b < app'[t] + NrBlocks(TheReq(t)')
                             THEN Fill(TheReq(t)', b - app'[t], BlockAt(data', b))
                             ELSE BlockAt(data', b)
        BY <1>3, <4>2 DEF OneFills
      <4>4. FinalBlock(b)' = IF a + (g + 1) <= b /\ b < a + n THEN Fill(r, b - a, BlockAt(data', b))
                             ELSE BlockAt(data', b)
        BY <4>2, <4>3
      <4> HIDE DEF a, g, r, n
      <4>5. CASE b = a + g
        <5>0. a + g \in Nat /\ data' = PutBlock(data, b, Fill(r, g, BlockAt(data, b)))
          BY <3>4, <4>1, <4>5
        <5>1. BlockAt(data', b) = Fill(r, g, BlockAt(data, b))
          BY <5>0, PutGives
        <5>2. b - a = g /\ a + g <= b /\ b < a + n /\ ~ (a + (g + 1) <= b)
          BY <3>4, <4>1, <4>5, SMT
        <5> QED BY <3>3, <4>4, <5>1, <5>2
      <4>6. CASE b # a + g
        <5>1. a + g \in Nat
          BY <3>4, SMT
        <5>2. BlockAt(data', b) = BlockAt(data, b)
          BY <4>1, <4>6, <5>1, PutOthers, SMT
        <5>3. (a + (g + 1) <= b) <=> (a + g <= b)
          BY <3>4, <4>6, SMT
        <5> QED BY <3>3, <4>4, <5>2, <5>3, SMT
      <4> QED BY <4>5, <4>6
    <3> QED BY <2>3, <3>5, <3>6
  <2> QED BY <2>1, <2>2, <2>3
<1>6. ASSUME NEW b \in Nat, b = p PROVE FinalBlocks'[b] = FinalBlocks[b]
  BY <1>5, <1>6 DEF FinalBlocks
<1> QED BY <1>1, <1>2, <1>6

\* No step but the logging of a record changes the content of a version.
LEMMA ContentStays ==
    ASSUME CleanWrites, NoAborts, SafeRequests, SnapInv, ReqOwned, [Next]_vars,
           \A t \in Threads : ~ DoWriteRecord(t), NEW v \in Nat
    PROVE  FinalContent(v)' = FinalContent(v)
<1>1. ContentOf /\ ContentOf'
  <2>1. ContentOf'
    BY ContentOfHolds, PTL
  <2> QED BY <2>1, ContentOfHolds
<1>2. log \in Seq(Record) /\ KindInv
  BY DEF SnapInv, OrderInv, TypeOK, StoreTypeOK
<1>3. log' = log
  <2>1. \A t \in Threads : ~ DoWritevCommit(t)
    BY <1>2 DEF CleanWrites, KindInv, DoWritevCommit, WritevCommit
  <2> QED BY <2>1, LogTouched
<1>4. ASSUME NEW L \in LogicalBlocks PROVE FinalContent(v)'[L] = FinalContent(v)[L]
  <2>1. FinalContent(v)[L] = IF FoundAt(log, v, L) = BLK_NOT_FOUND THEN ZeroBlock
                             ELSE FinalBlocks[FoundAt(log, v, L)]
    BY <1>1, <1>2 DEF ContentOf
  <2>2. FinalContent(v)'[L] = IF FoundAt(log', v, L) = BLK_NOT_FOUND THEN ZeroBlock
                              ELSE FinalBlocks'[FoundAt(log', v, L)]
    BY <1>1, <1>2, <1>3 DEF ContentOf
  <2> QED BY <1>3, <2>1, <2>2, FinalBlockKept
<1>5. /\ FinalContent(v) = [L \in LogicalBlocks |-> FinalContent(v)[L]]
      /\ FinalContent(v)' = [L \in LogicalBlocks |-> FinalContent(v)'[L]]
  BY DEF FinalContent
<1> QED BY <1>4, <1>5

\* Logging a record gives its version the blocks of the request, filled, and
\* leaves the contents of the versions before it alone.
LEMMA RecordContents ==
    ASSUME SnapInv, PageInv, NEW t \in Threads, DoWriteRecord(t),
           NEW w \in Nat, w = RecordVersion(t), w <= MAX_VERSIONS
    PROVE  /\ \A v \in Nat : v < w => FinalContent(v)' = FinalContent(v)
           /\ \A L \in LogicalBlocks :
                FinalContent(w)'[L] =
                   IF TheReq(t).blk <= L /\ L <= LastBlock(TheReq(t))
                   THEN Fill(TheReq(t), L - TheReq(t).blk,
                             BlockAt(data, app[t] + (L - TheReq(t).blk)))
                   ELSE FinalContent(w)[L]
<1> DEFINE r == TheReq(t)
           a == app[t]
           n == NrBlocks(r)
           new == [version_num        |-> w,
                   logical_start_blk  |-> r.blk,
                   physical_start_blk |-> a,
                   len_blks           |-> n]
<1>0. /\ pc \in [Threads -> PCs] /\ log \in Seq(Record) /\ version \in Nat /\ version > 0
      /\ a \in Nat /\ TypeOK /\ CallInv
  <2>1. TypeOK /\ CallInv
    BY DEF SnapInv, OrderInv
  <2>2. LockTypeOK /\ StoreTypeOK
    BY <2>1 DEF TypeOK
  <2>3. pc \in [Threads -> PCs] /\ log \in Seq(Record) /\ version \in Nat /\ version > 0
    BY <2>2, SMT DEF LockTypeOK, StoreTypeOK
  <2>4. a \in Nat
    BY <2>2 DEF StoreTypeOK
  <2> QED BY <2>1, <2>3, <2>4
<1>1. /\ pc[t] = "record" /\ pc'[t] \in {"unset", "data"}
      /\ \A u \in Threads : u # t => pc'[u] = pc[u]
      /\ data' = data /\ app' = app /\ page' = page /\ req' = req /\ log' = Append(log, new)
  BY <1>0 DEF DoWriteRecord, WriteRecord, Goto
<1>2. r \in Request
  BY <1>0, <1>1, TheReqType DEF WritePCs
<1>3. r.blk \in Nat /\ n \in Nat /\ n > 0 /\ LastBlock(r) = r.blk + n - 1 /\ w > 0
  <2>1. w = version \/ w = version + 1
    BY DEF RecordVersion
  <2>2. w > 0
    BY <1>0, <2>1, SMT
  <2>3. r.blk \in Nat /\ n \in Nat /\ n > 0 /\ LastBlock(r) \in Nat
    BY <1>2, RequestBlocks
  <2>4. n = LastBlock(r) - r.blk + 1
    BY DEF NrBlocks
  <2> HIDE DEF r, n
  <2> QED BY <2>2, <2>3, <2>4, SMT
<1>4. new \in Record /\ new.version_num = w
  BY <1>0, <1>3, SMT DEF Record
<1>5. ASSUME NEW L \in LogicalBlocks
      PROVE  /\ Covers(new, L) <=> r.blk <= L /\ L <= LastBlock(r)
             /\ PhysicalOf(new, L) = a + (L - r.blk)
  BY <1>3, StoreAssumption, SMT DEF Covers, PhysicalOf
<1> HIDE DEF new
<1>6. log' \in Seq(Record)
  <2>1. log \in Seq(Record) /\ new \in Record
    BY <1>0, <1>4
  <2>2. log' = Append(log, new)
    BY <1>1
  <2>3. \A e \in Record : Append(log, e) \in Seq(Record)
    BY <2>1, SMT
  <2> QED BY <2>1, <2>2, <2>3
<1>7. ContentOf /\ ContentOf' /\ NoneFills /\ OneFills'
  <2>1. ContentOf' /\ OneFills'
    BY ContentOfHolds, OneFillsHolds, PTL
  <2> QED BY <2>1, ContentOfHolds, NoneFillsHolds
<1>8. ASSUME NEW b \in Nat
      PROVE  /\ FinalBlocks[b] = BlockAt(data, b)
             /\ FinalBlocks'[b] = IF a <= b /\ b < a + n THEN Fill(r, b - a, BlockAt(data, b))
                                  ELSE BlockAt(data, b)
  <2>1. \A u \in Threads : ~ Filling(u)
    BY <1>1, Alone DEF Filling
  <2>2. FinalBlocks[b] = BlockAt(data, b)
    BY <1>7, <2>1 DEF NoneFills, FinalBlocks
  <2>3. Filling(t)' /\ \A u \in Threads : Filling(u)' => u = t
    BY <1>1, <2>1 DEF Filling
  <2>4. app'[t] + page'[t] = a /\ TheReq(t)' = r /\ app'[t] = a
    BY <1>0, <1>1, SMT DEF TheReq, PageInv
  <2>5. FinalBlock(b)' = IF app'[t] + page'[t] <= b /\ b < app'[t] + NrBlocks(TheReq(t)')
                         THEN Fill(TheReq(t)', b - app'[t], BlockAt(data', b))
                         ELSE BlockAt(data', b)
    BY <1>7, <2>3 DEF OneFills
  <2>6. FinalBlocks'[b] = FinalBlock(b)'
    BY DEF FinalBlocks
  <2> QED BY <1>1, <2>2, <2>4, <2>5, <2>6
<1>9. ASSUME NEW v \in Nat, NEW L \in LogicalBlocks, FoundAt(log, v, L) # BLK_NOT_FOUND
      PROVE  FinalBlocks'[FoundAt(log, v, L)] = FinalBlocks[FoundAt(log, v, L)]
  <2>1. L \in Nat
    BY StoreAssumption
  <2>2. FoundAt(log, v, L) \in Nat /\ FoundAt(log, v, L) < a
    BY <1>1, <1>9, <2>1, FoundEarlier
  <2> DEFINE p == FoundAt(log, v, L)
  <2> HIDE DEF p, a
  <2>3. p \in Nat /\ ~ (a <= p)
    BY <1>0, <2>2, SMT DEF p
  <2> QED BY <1>8, <2>3 DEF p
<1>10. ASSUME NEW v \in Nat, v < w PROVE FinalContent(v)' = FinalContent(v)
  <2>1. ASSUME NEW L \in LogicalBlocks PROVE FinalContent(v)'[L] = FinalContent(v)[L]
    <3>1. FoundAt(log', v, L) = FoundAt(log, v, L)
      <4>1. /\ ExtendsLog(log, log') /\ NewRecords(log, log') = {Len(log) + 1}
            /\ log'[Len(log) + 1] = new
        BY <1>0, <1>1, <1>4, AppendExtends
      <4>2. \A i \in NewRecords(log, log') : log'[i].version_num > v
        BY <1>4, <1>10, <4>1
      <4>3. Lookup(log', v, L) = Lookup(log, v, L)
        BY <4>1, <4>2, LookupKept, SMT
      <4> QED BY <4>3 DEF FoundAt
    <3>2. FinalContent(v)[L] = IF FoundAt(log, v, L) = BLK_NOT_FOUND THEN ZeroBlock
                               ELSE FinalBlocks[FoundAt(log, v, L)]
      BY <1>0, <1>7 DEF ContentOf
    <3>3. FinalContent(v)'[L] = IF FoundAt(log', v, L) = BLK_NOT_FOUND THEN ZeroBlock
                                ELSE FinalBlocks'[FoundAt(log', v, L)]
      BY <1>6, <1>7 DEF ContentOf
    <3> QED BY <1>9, <3>1, <3>2, <3>3
  <2>2. /\ FinalContent(v) = [L \in LogicalBlocks |-> FinalContent(v)[L]]
        /\ FinalContent(v)' = [L \in LogicalBlocks |-> FinalContent(v)'[L]]
    BY DEF FinalContent
  <2> QED BY <2>1, <2>2
<1>11. ASSUME NEW L \in LogicalBlocks
       PROVE  FinalContent(w)'[L] =
                 IF r.blk <= L /\ L <= LastBlock(r)
                 THEN Fill(r, L - r.blk, BlockAt(data, a + (L - r.blk)))
                 ELSE FinalContent(w)[L]
  <2>1. Lookup(log', w, L) = IF Covers(new, L) THEN PhysicalOf(new, L) ELSE Lookup(log, w, L)
    BY <1>0, <1>1, <1>3, <1>4, LookupAppend
  <2>2. FinalContent(w)'[L] = IF FoundAt(log', w, L) = BLK_NOT_FOUND THEN ZeroBlock
                              ELSE FinalBlocks'[FoundAt(log', w, L)]
    BY <1>6, <1>7 DEF ContentOf
  <2>3. FinalContent(w)[L] = IF FoundAt(log, w, L) = BLK_NOT_FOUND THEN ZeroBlock
                             ELSE FinalBlocks[FoundAt(log, w, L)]
    BY <1>0, <1>7 DEF ContentOf
  <2>4. CASE Covers(new, L)
    <3> DEFINE b == a + (L - r.blk)
    <3>1. r.blk <= L /\ L <= LastBlock(r) /\ Lookup(log', w, L) = b
      BY <1>5, <2>1, <2>4
    <3>2. b \in Nat /\ b # BLK_NOT_FOUND /\ a <= b /\ b < a + n /\ b - a = L - r.blk
      <4>1. L \in Nat /\ r.blk \in Nat /\ a \in Nat /\ n \in Nat /\ LastBlock(r) = r.blk + n - 1
        BY <1>0, <1>3, StoreAssumption, SMT
      <4> HIDE DEF a, n
      <4> QED BY <3>1, <4>1, SMT DEF BLK_NOT_FOUND
    <3> HIDE DEF b
    <3>0. FoundAt(log', w, L) = b
      BY <3>1, <3>2 DEF FoundAt
    <3>3. FinalBlocks'[b] = Fill(r, b - a, BlockAt(data, b))
      BY <1>8, <3>2
    <3>4. FinalContent(w)'[L] = Fill(r, L - r.blk, BlockAt(data, b))
      BY <2>2, <3>0, <3>2, <3>3
    <3> QED BY <3>1, <3>4 DEF b
  <2>5. CASE ~ Covers(new, L)
    <3>1. ~ (r.blk <= L /\ L <= LastBlock(r)) /\ FoundAt(log', w, L) = FoundAt(log, w, L)
      BY <1>5, <2>1, <2>5 DEF FoundAt
    <3>2. FinalContent(w)'[L] = FinalContent(w)[L]
      BY <1>9, <2>2, <2>3, <3>1
    <3> QED BY <3>1, <3>2
  <2> QED BY <2>4, <2>5
<1> QED BY <1>10, <1>11

\* A version without records has the content of the version before it.
LEMMA ContentBefore ==
    ASSUME SnapInv, NEW v \in Nat, v > 0, \A i \in DOMAIN log : log[i].version_num # v
    PROVE  FinalContent(v) = FinalContent(v - 1)
<1>1. log \in Seq(Record)
  BY DEF SnapInv, OrderInv, TypeOK, StoreTypeOK
<1>2. \A L \in LogicalBlocks : Lookup(log, v, L) = Lookup(log, v - 1, L)
  BY <1>1, LookupBefore
<1> QED BY <1>2 DEF FinalContent

-----------------------------------------------------------------------------
(* Every step of the store is a step of the history, or none.              *)

\* How long the history is.
HistLen == IF Announced THEN version - 1 ELSE version

\* The contents of all versions.
Contents == [v \in Nat |-> FinalContent(v)]

\* The mapping, from those contents.
MappingOf ==
    version \in Nat =>
        /\ History = [v \in 1..HistLen |-> Contents[v]]
        /\ Pending = [f \in Files |-> IF Open(f) THEN Contents[version + 1] ELSE << >>]

\* That holds in every state.
LEMMA MappingOfHolds == MappingOf
<1> SUFFICES ASSUME version \in Nat
             PROVE  /\ History = [v \in 1..HistLen |-> Contents[v]]
                    /\ Pending = [f \in Files |-> IF Open(f) THEN Contents[version + 1] ELSE << >>]
  BY DEF MappingOf
<1>1. \A v \in 1..HistLen : v \in Nat
  BY SMT
<1>2. version + 1 \in Nat
  BY SMT
<1> QED BY <1>1, <1>2 DEF History, Pending, Contents, HistLen

\* Both sides of a step.
LEMMA MappingHolds == ASSUME SnapInv, SnapInv' PROVE
    /\ version \in Nat /\ version > 0 /\ version' \in Nat
    /\ History = [v \in 1..HistLen |-> Contents[v]]
    /\ History' = [v \in 1..HistLen' |-> Contents'[v]]
    /\ Pending = [f \in Files |-> IF Open(f) THEN Contents[version + 1] ELSE << >>]
    /\ Pending' = [f \in Files |-> IF Open(f)' THEN Contents'[version' + 1] ELSE << >>]
<1>1. MappingOf /\ MappingOf'
  <2>1. MappingOf'
    BY MappingOfHolds, PTL
  <2> QED BY <2>1, MappingOfHolds
<1>2. version \in Nat /\ version > 0 /\ version' \in Nat
  BY SMT DEF SnapInv, OrderInv, TypeOK, StoreTypeOK
<1> QED BY <1>1, <1>2 DEF MappingOf

\* A sequence that is one longer than another one and agrees with it.
LEMMA OneLonger ==
    ASSUME NEW n \in Nat, NEW h, NEW g, h = [v \in 1..n |-> h[v]],
           g = [v \in 1..(n + 1) |-> g[v]], \A v \in 1..n : g[v] = h[v]
    PROVE  Len(h) = n /\ g = Append(h, g[n + 1])
<1> DEFINE S == {h[v] : v \in 1..n}
<1>1. h \in [1..n -> S]
  OBVIOUS
<1> HIDE DEF S
<1>2. h \in Seq(S) /\ Len(h) = n
  BY <1>1, SMT
<1> DEFINE T == S \cup {g[n + 1]}
           a == Append(h, g[n + 1])
<1>3. h \in Seq(T) /\ g[n + 1] \in T
  <2>1. h \in [1..n -> T]
    BY <1>1
  <2> QED BY <2>1, SMT
<1> HIDE DEF T
<1>4. /\ a \in Seq(T) /\ Len(a) = n + 1 /\ a[n + 1] = g[n + 1]
      /\ \A v \in 1..n : a[v] = h[v]
  BY <1>2, <1>3, SMT
<1> HIDE DEF a
<1>5. a = [v \in 1..(n + 1) |-> a[v]]
  BY <1>4, SMT
<1>6. \A v \in 1..(n + 1) : v = n + 1 \/ v \in 1..n
  BY SMT
<1>7. ASSUME NEW v \in 1..(n + 1) PROVE a[v] = g[v]
  <2>1. CASE v = n + 1
    BY <1>4, <2>1
  <2>2. CASE v \in 1..n
    BY <1>4, <2>2
  <2> QED BY <1>6, <2>1, <2>2
<1> QED BY <1>2, <1>5, <1>7 DEF a

\* A step that keeps the contents and the transactions maps to none.
LEMMA Stutters ==
    ASSUME SnapInv, SnapInv', HistLen' = HistLen, \A v \in Nat : Contents'[v] = Contents[v],
           \A f \in Files : Open(f)' <=> Open(f), \A f \in Files : Open(f) => version' = version
    PROVE  History' = History /\ Pending' = Pending
<1> USE MappingHolds
<1>1. HistLen \in Int
  BY SMT DEF HistLen
<1>2. History' = History
  BY <1>1, SMT
<1>3. Pending' = Pending
  BY DEF Contents
<1> QED BY <1>2, <1>3

\* The contents as one function: nothing but a record changes them.
LEMMA ContentsStay ==
    ASSUME CleanWrites, NoAborts, SafeRequests, RefInv, [Next]_vars,
           \A t \in Threads : ~ DoWriteRecord(t)
    PROVE  \A v \in Nat : Contents'[v] = Contents[v]
<1> SUFFICES ASSUME NEW v \in Nat PROVE Contents'[v] = Contents[v]
  OBVIOUS
<1>1. FinalContent(v)' = FinalContent(v)
  BY ContentStays DEF RefInv
<1> QED BY <1>1 DEF Contents

\* Steps that map to none: all but BEGIN, END and the logging of a record.
LEMMA StutteringSteps ==
    ASSUME CleanWrites, NoAborts, SafeRequests, RefInv, SnapInv', [Next]_vars,
           \A t \in Threads : ~ DoWriteRecord(t) /\ ~ DoBeginAcquire(t),
           \A t \in Threads : ~ (DoEndCall(t) /\ transaction = SET_TRANSACTION)
    PROVE  History' = History /\ Pending' = Pending
<1>0. SnapInv /\ pc \in [Threads -> PCs] /\ version \in Nat
  BY DEF RefInv, SnapInv, OrderInv, TypeOK, LockTypeOK, StoreTypeOK
<1>1. \A v \in Nat : Contents'[v] = Contents[v]
  BY ContentsStay
<1>2. ASSUME \A t \in Threads : /\ ~ DoWriteReserve(t) /\ ~ DoWriteRecord(t)
                                /\ ~ DoWritePage(t) /\ ~ DoWriteDataDone(t)
      PROVE  History' = History /\ Pending' = Pending
  <2>1. SameFlights /\ version' = version /\ \A f \in Files : Open(f)' <=> Open(f)
    BY <1>0, <1>2, QuietSteps
  <2>2. Announced' <=> Announced
    BY <2>1 DEF Announced, SameFlights
  <2>3. HistLen' = HistLen
    BY <2>1, <2>2 DEF HistLen
  <2> QED BY <1>0, <1>1, <2>1, <2>3, Stutters
<1>3. ASSUME NEW t \in Threads, DoWriteReserve(t)
      PROVE  History' = History /\ Pending' = Pending
  <2>1. /\ pc[t] = "reserve" /\ pc' = [pc EXCEPT ![t] = "record"] /\ status' = status
        /\ holder' = holder /\ owner' = owner /\ transaction' = transaction
        /\ version' = IF status[t] = SET_NORMAL_WRITE THEN version + 1 ELSE version
    BY <1>3 DEF DoWriteReserve, WriteReserve, Goto
  <2>2. transaction = status[t]
    BY <1>0, <2>1, RecordOwns
  <2>3. \A f \in Files : Open(f)' <=> Open(f)
    BY <1>0, <2>1, OpenKept
  <2>4. \A f \in Files : Open(f) => version' = version
    BY <2>1, <2>2, OpenOwns, SMT DEF SET_TRANSACTION, SET_NORMAL_WRITE
  <2>5. \A u \in Threads : pc[u] # "record"
    BY <1>0, <2>1, Alone
  <2>6. ~ Announced /\ (Announced' <=> status[t] = SET_NORMAL_WRITE)
    BY <1>0, <2>1, <2>5 DEF Announced
  <2>7. HistLen' = HistLen
    BY <1>0, <2>1, <2>6, SMT DEF HistLen
  <2> QED BY <1>0, <1>1, <2>3, <2>4, <2>7, Stutters
<1>4. ASSUME NEW t \in Threads, DoWritePage(t) \/ DoWriteDataDone(t)
      PROVE  History' = History /\ Pending' = Pending
  <2>1. /\ pc[t] = "data" /\ pc'[t] \in {"data", "unlock_inode"}
        /\ \A u \in Threads : u # t => pc'[u] = pc[u]
        /\ holder' = holder /\ owner' = owner /\ transaction' = transaction
        /\ version' = version /\ status' = status
    BY <1>0, <1>4 DEF DoWritePage, DoWriteDataDone, WriteDataDone, Goto, lockVars, storeVars
  <2>2. \A f \in Files : Open(f)' <=> Open(f)
    BY <2>1, OpenKept
  <2>3. \A u \in Threads : pc'[u] = "record" <=> pc[u] = "record"
    BY <2>1
  <2>4. HistLen' = HistLen
    BY <2>1, <2>3 DEF HistLen, Announced
  <2> QED BY <1>0, <1>1, <2>1, <2>2, <2>4, Stutters
<1> QED BY <1>2, <1>3, <1>4

\* BEGIN starts from the newest content.
LEMMA BeginStep ==
    ASSUME CleanWrites, NoAborts, SafeRequests, RefInv, SnapInv', [Next]_vars,
           NEW t \in Threads, DoBeginAcquire(t)
    PROVE  /\ fileOf[t] \in Files /\ \A f \in Files : Pending[f] = << >>
           /\ History' = History
           /\ Pending' = [Pending EXCEPT ![fileOf[t]] = History[Len(History)]]
<1>0. /\ SnapInv /\ TxnInv /\ PrivateFiles /\ pc \in [Threads -> PCs] /\ fileOf[t] \in Files
      /\ log \in Seq(Record) /\ version \in Nat /\ version > 0
  <2>1. SnapInv /\ TxnInv /\ PrivateFiles /\ LockTypeOK /\ StoreTypeOK
    BY DEF RefInv, CleanWrites, SnapInv, OrderInv, TypeOK
  <2> QED BY <2>1, LockAssumption, SMT DEF LockTypeOK, StoreTypeOK
<1>1. /\ holder = NONE /\ holder' = t /\ owner' = fileOf[t] /\ transaction' = SET_TRANSACTION
      /\ pc' = [pc EXCEPT ![t] = "idle"] /\ pc[t] = "lock_begin"
      /\ status' = status /\ version' = version /\ log' = log
  BY DEF DoBeginAcquire, BeginAcquire, AcquireTxn, mutex_is_locked, Goto, storeVars
<1>2. \A f \in Files : ~ Open(f)
  BY <1>1, NoneOpen
<1>3. \A f \in Files : Open(f)' <=> f = fileOf[t]
  BY <1>0, <1>1, LockAssumption, SMT DEF Open, SelfStatus, mutex_is_locked, PrivateFiles, NO_STATUS, SET_TRANSACTION
<1>4. \A u \in Threads : pc[u] # "record" /\ pc'[u] # "record"
  BY <1>0, <1>1, RecordOwns
<1>5. HistLen = version /\ HistLen' = version
  BY <1>1, <1>4 DEF HistLen, Announced
<1>6. \A v \in Nat : Contents'[v] = Contents[v]
  <2>1. \A u \in Threads : ~ DoWriteRecord(u)
    BY <1>4 DEF DoWriteRecord, WriteRecord
  <2> QED BY <2>1, ContentsStay
<1>7. Contents[version + 1] = Contents[version]
  <2> DEFINE v == version + 1
  <2>1. \A i \in DOMAIN log : log[i].version_num \in Nat /\ log[i].version_num <= version
    BY <1>0, <1>2, LogFields DEF TxnInv
  <2>2. v \in Nat /\ v > 0 /\ v - 1 = version /\ \A i \in DOMAIN log : log[i].version_num # v
    BY <1>0, <2>1, SMT
  <2> HIDE DEF v
  <2>3. FinalContent(v) = FinalContent(v - 1)
    BY <1>0, <2>2, ContentBefore
  <2>4. Contents[v] = Contents[version]
    BY <1>0, <2>2, <2>3 DEF Contents
  <2> QED BY <2>4 DEF v
<1>8. History = [v \in 1..version |-> Contents[v]] /\ Len(History) = version
  <2>1. History = [v \in 1..version |-> Contents[v]]
    BY <1>0, <1>5, MappingHolds
  <2> QED BY <1>0, <2>1, SMT
<1>9. History' = History
  <2>1. History' = [v \in 1..version |-> Contents'[v]]
    BY <1>0, <1>5, MappingHolds
  <2> QED BY <1>0, <1>6, <1>8, <2>1, SMT
<1>10. Pending = [f \in Files |-> << >>]
  BY <1>0, <1>2, MappingHolds
<1>11. Pending' = [f \in Files |-> IF f = fileOf[t] THEN Contents'[version + 1] ELSE << >>]
  BY <1>0, <1>1, <1>3, MappingHolds
<1>12. Contents'[version + 1] = History[Len(History)]
  BY <1>0, <1>6, <1>7, <1>8, SMT
<1> QED BY <1>0, <1>9, <1>10, <1>11, <1>12

\* END adds the content of the transaction to the history.
LEMMA EndStep ==
    ASSUME CleanWrites, NoAborts, SafeRequests, RefInv, SnapInv', [Next]_vars,
           NEW t \in Threads, DoEndCall(t), transaction = SET_TRANSACTION, LogicalBlocks # {}
    PROVE  /\ fileOf[t] \in Files /\ Pending[fileOf[t]] # << >>
           /\ History' = Append(History, Pending[fileOf[t]])
           /\ Pending' = [Pending EXCEPT ![fileOf[t]] = << >>]
<1>0. /\ SnapInv /\ PrivateFiles /\ LockTypeOK /\ pc \in [Threads -> PCs] /\ fileOf[t] \in Files
      /\ version \in Nat /\ version > 0
  <2>1. SnapInv /\ TxnInv /\ PrivateFiles /\ LockTypeOK /\ StoreTypeOK
    BY DEF RefInv, CleanWrites, SnapInv, OrderInv, TypeOK
  <2> QED BY <2>1, LockAssumption, SMT DEF LockTypeOK, StoreTypeOK
<1>1. /\ pc[t] = "idle" /\ pc' = [pc EXCEPT ![t] = "end"] /\ MayUnset(fileOf[t])
      /\ holder' = holder /\ owner' = owner /\ transaction' = transaction
      /\ version' = version + 1
  BY DEF DoEndCall, EndCall, Goto, BumpIfTransaction
<1>2. SelfStatus(fileOf[t]) = SET_TRANSACTION
  BY <1>1 DEF MayUnset, SelfStatus, mutex_is_locked
<1>3. \A f \in Files : Open(f) <=> f = fileOf[t]
  BY <1>0, <1>1, <1>2, InsideOpen
<1>4. \A f \in Files : ~ Open(f)'
  BY <1>0, <1>1, <1>3 DEF Open, SelfStatus, mutex_is_locked, NO_STATUS, SET_TRANSACTION
<1>5. HistLen = version /\ HistLen' = version + 1
  <2>1. ASSUME NEW u \in Threads, pc[u] = "record" PROVE status[u] = SET_TRANSACTION
    BY <1>0, <2>1, RecordOwns
  <2>2. status' = status
    BY DEF DoEndCall, EndCall
  <2>3. ~ Announced /\ ~ Announced'
    BY <1>0, <1>1, <2>1, <2>2, SMT DEF Announced, SET_TRANSACTION, SET_NORMAL_WRITE
  <2> QED BY <1>1, <2>3 DEF HistLen
<1>6. \A v \in Nat : Contents'[v] = Contents[v]
  <2>1. ASSUME NEW u \in Threads, DoWriteRecord(u) PROVE FALSE
    BY <1>0, <1>1, <2>1, SMT DEF DoWriteRecord
  <2> QED BY <2>1, ContentsStay
<1>7. /\ History = [v \in 1..version |-> Contents[v]]
      /\ History' = [v \in 1..(version + 1) |-> Contents'[v]]
  BY <1>0, <1>5, MappingHolds
<1>8. /\ Pending = [f \in Files |-> IF f = fileOf[t] THEN Contents[version + 1] ELSE << >>]
      /\ Pending' = [f \in Files |-> << >>]
  BY <1>0, <1>3, <1>4, MappingHolds
<1>9. History' = Append(History, History'[version + 1])
  <2>0. version \in Nat
    BY <1>0
  <2>1. ASSUME NEW v \in 1..version PROVE History'[v] = History[v]
    <3>1. v \in Nat /\ v \in 1..(version + 1)
      BY <2>0, SMT
    <3> QED BY <1>6, <1>7, <3>1
  <2>2. /\ History = [v \in 1..version |-> History[v]]
        /\ History' = [v \in 1..(version + 1) |-> History'[v]]
    BY <1>7
  <2> QED BY <2>0, <2>1, <2>2, OneLonger, SMT
<1>10. History'[version + 1] = Contents[version + 1] /\ Pending[fileOf[t]] = Contents[version + 1]
  BY <1>0, <1>6, <1>7, <1>8, SMT
<1>11. Contents[version + 1] # << >>
  <2>1. DOMAIN Contents[version + 1] = LogicalBlocks
    BY <1>0, SMT DEF Contents, FinalContent
  <2>2. DOMAIN << >> = {}
    BY SMT
  <2> QED BY <2>1, <2>2
<1> QED BY <1>0, <1>8, <1>9, <1>10, <1>11

\* With no write to finish, the contents are what readers find.
LEMMA ContentsRead ==
    ASSUME SnapInv, \A u \in Threads : ~ Filling(u), NEW v \in Nat, NEW L \in LogicalBlocks
    PROVE  Contents[v][L] = ContentAt(v, L)
<1>1. log \in Seq(Record) /\ L \in Nat
  BY StoreAssumption DEF SnapInv, OrderInv, TypeOK, StoreTypeOK
<1>2. FoundAt(log, v, L) # BLK_NOT_FOUND => FoundAt(log, v, L) \in Nat
  BY <1>1, FoundFinds
<1>3. \A b \in Nat : FinalBlocks[b] = BlockAt(data, b)
  BY NoneFillsHolds DEF NoneFills, FinalBlocks
<1>4. FinalContent(v)[L] = IF FoundAt(log, v, L) = BLK_NOT_FOUND THEN ZeroBlock
                           ELSE FinalBlocks[FoundAt(log, v, L)]
  BY <1>1, ContentOfHolds DEF ContentOf
<1>5. Contents[v] = FinalContent(v)
  BY DEF Contents
<1>6. ContentAt(v, L) = IF FoundAt(log, v, L) = BLK_NOT_FOUND THEN ZeroBlock
                        ELSE BlockAt(data, FoundAt(log, v, L))
  BY <1>1, ContentFound
<1> QED BY <1>2, <1>3, <1>4, <1>5, <1>6

\* What both kinds of writes do when they log their record.
LEMMA RecordStep ==
    ASSUME SafeRequests, RefInv, NEW t \in Threads, DoWriteRecord(t),
           NEW w \in Nat, w = RecordVersion(t), w <= MAX_VERSIONS
    PROVE  /\ TheReq(t) \in Requests[t] /\ TheReq(t) \in Request
           /\ pc[t] = "record" /\ version' = version
           /\ \A u \in Threads : ~ Filling(u) /\ (pc[u] = "record" => u = t) /\ pc'[u] # "record"
           /\ \A f \in Files : Open(f)' <=> Open(f)
           /\ \A v \in Nat : v < w => Contents'[v] = Contents[v]
           /\ Contents'[w] = [L \in LogicalBlocks |-> Contents'[w][L]]
           /\ \A L \in LogicalBlocks :
                Contents'[w][L] =
                   IF TheReq(t).blk <= L /\ L <= LastBlock(TheReq(t))
                   THEN Fill(TheReq(t), L - TheReq(t).blk,
                             BlockAt(data, app[t] + (L - TheReq(t).blk)))
                   ELSE Contents[w][L]
<1>0. SnapInv /\ ReqOwned /\ PageInv /\ TypeOK /\ CallInv /\ pc \in [Threads -> PCs]
  BY DEF RefInv, SnapInv, OrderInv, TypeOK, LockTypeOK
<1>1. /\ pc[t] = "record" /\ pc'[t] \in {"unset", "data"}
      /\ \A u \in Threads : u # t => pc'[u] = pc[u]
      /\ holder' = holder /\ owner' = owner /\ transaction' = transaction /\ version' = version
  BY <1>0 DEF DoWriteRecord, WriteRecord, Goto
<1>2. TheReq(t) \in Requests[t] /\ TheReq(t) \in Request
  BY <1>0, <1>1, TheReqType DEF ReqOwned, WritePCs
<1>3. \A u \in Threads : ~ Filling(u) /\ (pc[u] = "record" => u = t) /\ pc'[u] # "record"
  BY <1>0, <1>1, Alone DEF Filling
<1>4. \A f \in Files : Open(f)' <=> Open(f)
  BY <1>1, OpenKept
<1>5. /\ \A v \in Nat : v < w => FinalContent(v)' = FinalContent(v)
      /\ \A L \in LogicalBlocks :
           FinalContent(w)'[L] =
              IF TheReq(t).blk <= L /\ L <= LastBlock(TheReq(t))
              THEN Fill(TheReq(t), L - TheReq(t).blk,
                        BlockAt(data, app[t] + (L - TheReq(t).blk)))
              ELSE FinalContent(w)[L]
  BY <1>0, RecordContents
<1>6. ASSUME NEW v \in Nat PROVE Contents[v] = FinalContent(v) /\ Contents'[v] = FinalContent(v)'
  BY DEF Contents
<1>7. FinalContent(w)' = [L \in LogicalBlocks |-> FinalContent(w)'[L]]
  BY DEF FinalContent
<1> QED BY <1>1, <1>2, <1>3, <1>4, <1>5, <1>6, <1>7, SMT

\* A normal write adds to the history what its request makes of the newest
\* content.
LEMMA NormalRecord ==
    ASSUME SafeRequests, RefInv, SnapInv', NEW t \in Threads, DoWriteRecord(t),
           status[t] = SET_NORMAL_WRITE, version < MAX_VERSIONS
    PROVE  /\ TheReq(t) \in Requests[t] /\ \A f \in Files : Pending[f] = << >>
           /\ History' = Append(History, ApplyTo(History[Len(History)], TheReq(t)))
           /\ Pending' = Pending
<1> DEFINE r == TheReq(t)
           w == version
           n == version - 1
<1>0. /\ SnapInv /\ TxnInv /\ CopyInv /\ w \in Nat /\ w <= MAX_VERSIONS /\ app[t] \in Nat
      /\ log \in Seq(Record)
  <2>1. SnapInv /\ TxnInv /\ CopyInv /\ StoreTypeOK
    BY DEF RefInv, SnapInv, OrderInv, TypeOK
  <2> QED BY <2>1, LogAssumption, SMT DEF StoreTypeOK
<1>1. w = RecordVersion(t)
  BY SMT DEF RecordVersion, SET_TRANSACTION, SET_NORMAL_WRITE
<1>2. /\ r \in Requests[t] /\ r \in Request /\ pc[t] = "record" /\ version' = version
      /\ \A u \in Threads : ~ Filling(u) /\ (pc[u] = "record" => u = t) /\ pc'[u] # "record"
      /\ \A f \in Files : Open(f)' <=> Open(f)
      /\ \A v \in Nat : v < w => Contents'[v] = Contents[v]
      /\ Contents'[w] = [L \in LogicalBlocks |-> Contents'[w][L]]
      /\ \A L \in LogicalBlocks :
           Contents'[w][L] = IF r.blk <= L /\ L <= LastBlock(r)
                             THEN Fill(r, L - r.blk, BlockAt(data, app[t] + (L - r.blk)))
                             ELSE Contents[w][L]
  BY <1>0, <1>1, RecordStep
<1>3. \A f \in Files : ~ Open(f)
  <2>1. transaction = SET_NORMAL_WRITE
    BY <1>0, <1>2, RecordOwns
  <2> QED BY <2>1, NoneOpen, SMT DEF SET_TRANSACTION, SET_NORMAL_WRITE
<1>4. w > 1 /\ \A i \in DOMAIN log : log[i].version_num \in Nat /\ log[i].version_num < w
  BY <1>0, <1>2, LogFields DEF TxnInv
<1>5. n \in Nat /\ n > 0 /\ HistLen = n /\ HistLen' = n + 1 /\ n + 1 = w
  <2>1. Announced /\ ~ Announced'
    BY <1>2 DEF Announced
  <2>2. version' = version
    BY <1>2
  <2>3. HistLen = version - 1 /\ HistLen' = version
    BY <2>1, <2>2 DEF HistLen
  <2>4. version \in Nat /\ version > 1
    BY <1>0, <1>4
  <2> QED BY <2>3, <2>4, SMT
<1>6. Contents[w] = Contents[n]
  <2>1. ASSUME NEW v \in Nat, v = w PROVE Contents[v] = Contents[v - 1]
    <3>1. v > 0 /\ v - 1 \in Nat /\ \A i \in DOMAIN log : log[i].version_num # v
      BY <1>4, <2>1, SMT
    <3>2. FinalContent(v) = FinalContent(v - 1)
      BY <1>0, <3>1, ContentBefore
    <3> QED BY <3>1, <3>2 DEF Contents
  <2> QED BY <1>0, <2>1
<1>7. /\ History = [v \in 1..n |-> Contents[v]] /\ History' = [v \in 1..(n + 1) |-> Contents'[v]]
  BY <1>0, <1>5, MappingHolds
<1>8. Pending = [f \in Files |-> << >>] /\ Pending' = Pending
  BY <1>0, <1>2, <1>3, MappingHolds
<1> HIDE DEF n
<1>9. Len(History) = n /\ History' = Append(History, History'[n + 1])
  <2>1. ASSUME NEW v \in 1..n PROVE History'[v] = History[v]
    <3>1. v \in Nat /\ v < w /\ v \in 1..(n + 1)
      BY <1>5, SMT
    <3>2. History[v] = Contents[v] /\ History'[v] = Contents'[v]
      BY <1>7, <3>1
    <3>3. Contents'[v] = Contents[v]
      BY <1>2, <3>1
    <3> QED BY <3>2, <3>3
  <2>2. /\ History = [v \in 1..n |-> History[v]]
        /\ History' = [v \in 1..(n + 1) |-> History'[v]]
    BY <1>7
  <2> QED BY <1>5, <2>1, <2>2, OneLonger, SMT
<1>10. History[Len(History)] = Contents[n] /\ History'[n + 1] = Contents'[w]
  BY <1>5, <1>7, <1>9, SMT
<1>11. ASSUME NEW L \in LogicalBlocks
       PROVE  Contents'[w][L] = IF r.blk <= L /\ L <= LastBlock(r)
                                THEN Fill(r, L - r.blk, Contents[n][L]) ELSE Contents[n][L]
  <2>1. CASE r.blk <= L /\ L <= LastBlock(r)
    <3> DEFINE k == L - r.blk
    <3>1. /\ L \in Nat /\ r.blk \in Nat /\ k \in Nat /\ k < NrBlocks(r)
          /\ NrBlocks(r) > 1 => EndUnit(r) % PAGE_SIZE = 0
      <4>1. r \in Request /\ (NrBlocks(r) > 1 => EndUnit(r) % PAGE_SIZE = 0)
        BY <1>2 DEF SafeRequests
      <4> QED BY <2>1, <4>1, BlockOfRequest
    <3>2. Contents'[w][L] = Fill(r, k, BlockAt(data, app[t] + k))
      BY <1>2, <2>1
    <3>3. CASE k = 0 /\ CopiesFirst(r)
      <4>1. L = r.blk /\ app[t] + k = app[t]
        <5>1. app[t] \in Nat
          BY <1>0
        <5>2. L \in Nat /\ r.blk \in Nat /\ L - r.blk = 0
          BY <3>1, <3>3
        <5> HIDE DEF r
        <5> QED BY <5>1, <5>2, SMT
      <4>2. BlockAt(data, app[t]) = ContentAt(n, r.blk)
        BY <1>0, <1>2, <3>3 DEF CopyInv, n
      <4>3. Contents[n][L] = ContentAt(n, L)
        BY <1>0, <1>2, <1>5, ContentsRead
      <4> QED BY <2>1, <3>2, <4>1, <4>2, <4>3
    <3>4. CASE k > 0 \/ ~ CopiesFirst(r)
      <4> HIDE DEF k, r
      <4>1. Fill(r, k, BlockAt(data, app[t] + k)) = Fill(r, k, Contents[n][L])
        <5>1. r \in Request
          BY <1>2
        <5> QED BY <3>1, <3>4, <5>1, WholeFill
      <4> QED BY <2>1, <3>2, <4>1 DEF k
    <3>5. k = 0 \/ k > 0
      <4>1. k \in Nat
        BY <3>1
      <4> HIDE DEF k
      <4> QED BY <4>1, SMT
    <3> QED BY <3>3, <3>4, <3>5
  <2>2. CASE ~ (r.blk <= L /\ L <= LastBlock(r))
    BY <1>2, <1>6, <2>2
  <2> QED BY <2>1, <2>2
<1>12. Contents'[w] = ApplyTo(Contents[n], r)
  BY <1>2, <1>11 DEF ApplyTo
<1> QED BY <1>2, <1>8, <1>9, <1>10, <1>12

\* A write in a transaction changes the content of that transaction only.
LEMMA TransactionRecord ==
    ASSUME CleanWrites, SafeRequests, RefInv, SnapInv', NEW t \in Threads, DoWriteRecord(t),
           status[t] = SET_TRANSACTION, version < MAX_VERSIONS, LogicalBlocks # {}
    PROVE  /\ TheReq(t) \in Requests[t]
           /\ fileOf[t] \in Files /\ Pending[fileOf[t]] # << >>
           /\ History' = History
           /\ Pending' = [Pending EXCEPT ![fileOf[t]] = ApplyTo(Pending[fileOf[t]], TheReq(t))]
<1> DEFINE r == TheReq(t)
           w == version + 1
<1>0. /\ SnapInv /\ TxnOwned /\ PrivateFiles /\ LockTypeOK
      /\ version \in Nat /\ w \in Nat /\ w <= MAX_VERSIONS /\ app[t] \in Nat
  <2>1. SnapInv /\ TxnOwned /\ StoreTypeOK /\ LockTypeOK
    BY DEF RefInv, SnapInv, OrderInv, TypeOK
  <2>2. PrivateFiles
    BY DEF CleanWrites
  <2> QED BY <2>1, <2>2, LogAssumption, SMT DEF StoreTypeOK
<1>1. w = RecordVersion(t)
  BY DEF RecordVersion
<1>2. /\ r \in Requests[t] /\ r \in Request /\ pc[t] = "record" /\ version' = version
      /\ \A u \in Threads : ~ Filling(u) /\ (pc[u] = "record" => u = t) /\ pc'[u] # "record"
      /\ \A f \in Files : Open(f)' <=> Open(f)
      /\ \A v \in Nat : v < w => Contents'[v] = Contents[v]
      /\ Contents'[w] = [L \in LogicalBlocks |-> Contents'[w][L]]
      /\ \A L \in LogicalBlocks :
           Contents'[w][L] = IF r.blk <= L /\ L <= LastBlock(r)
                             THEN Fill(r, L - r.blk, BlockAt(data, app[t] + (L - r.blk)))
                             ELSE Contents[w][L]
  BY <1>0, <1>1, RecordStep
<1>3. fileOf[t] \in Files /\ \A f \in Files : Open(f) <=> f = fileOf[t]
  <2>1. owner = fileOf[t] /\ holder # NONE /\ transaction = SET_TRANSACTION
    BY <1>0, <1>2, RecordOwns
  <2>2. SelfStatus(fileOf[t]) = SET_TRANSACTION
    BY <2>1 DEF SelfStatus, mutex_is_locked
  <2> QED BY <1>0, <1>2, <2>2, InsideOpen
<1>4. HistLen = version /\ HistLen' = version
  <2>1. ~ Announced /\ ~ Announced'
    <3>1. status[t] # SET_NORMAL_WRITE
      BY SMT DEF SET_TRANSACTION, SET_NORMAL_WRITE
    <3> QED BY <1>2, <3>1 DEF Announced
  <2>2. version' = version
    BY <1>2
  <2> QED BY <2>1, <2>2 DEF HistLen
<1>5. History' = History
  <2>1. /\ History = [v \in 1..version |-> Contents[v]]
        /\ History' = [v \in 1..version |-> Contents'[v]]
    BY <1>0, <1>4, MappingHolds
  <2>2. \A v \in 1..version : Contents'[v] = Contents[v]
    <3>1. \A v \in Nat : v < w => Contents'[v] = Contents[v]
      BY <1>2
    <3> QED BY <1>0, <3>1, SMT
  <2> QED BY <2>1, <2>2
<1>6. /\ Pending = [f \in Files |-> IF f = fileOf[t] THEN Contents[w] ELSE << >>]
      /\ Pending' = [f \in Files |-> IF f = fileOf[t] THEN Contents'[w] ELSE << >>]
  BY <1>0, <1>2, <1>3, MappingHolds
<1>7. ~ CopiesFirst(r) /\ (NrBlocks(r) > 1 => EndUnit(r) % PAGE_SIZE = 0)
  BY <1>0, <1>2 DEF TxnOwned, SafeRequests
<1>8. ASSUME NEW L \in LogicalBlocks
      PROVE  Contents'[w][L] = IF r.blk <= L /\ L <= LastBlock(r)
                               THEN Fill(r, L - r.blk, Contents[w][L]) ELSE Contents[w][L]
  <2>1. CASE r.blk <= L /\ L <= LastBlock(r)
    <3> DEFINE k == L - r.blk
    <3>1. L \in Nat /\ r.blk \in Nat /\ k \in Nat /\ k < NrBlocks(r)
      BY <1>2, <2>1, BlockOfRequest
    <3>2. Contents'[w][L] = Fill(r, k, BlockAt(data, app[t] + k))
      BY <1>2, <2>1
    <3> HIDE DEF k, r
    <3>3. Fill(r, k, BlockAt(data, app[t] + k)) = Fill(r, k, Contents[w][L])
      <4>1. r \in Request
        BY <1>2
      <4> QED BY <1>7, <3>1, <4>1, WholeFill
    <3> QED BY <2>1, <3>2, <3>3 DEF k
  <2>2. CASE ~ (r.blk <= L /\ L <= LastBlock(r))
    BY <1>2, <2>2
  <2> QED BY <2>1, <2>2
<1>9. Contents'[w] = ApplyTo(Contents[w], r)
  BY <1>2, <1>8 DEF ApplyTo
<1>10. Contents[w] # << >>
  <2>1. DOMAIN Contents[w] = LogicalBlocks
    BY <1>0 DEF Contents, FinalContent
  <2>2. DOMAIN << >> = {}
    BY SMT
  <2> QED BY <2>1, <2>2
<1> HIDE DEF w
<1> QED BY <1>2, <1>3, <1>5, <1>6, <1>9, <1>10

-----------------------------------------------------------------------------
(* The refinement.                                                         *)

\* The requests of all the programs.
AllRequests == UNION {Requests[t] : t \in Threads}

\* The store starts with the original content as its only version.
LEMMA InitSimulated == Init => Abstract!Init
<1> SUFFICES ASSUME Init PROVE Abstract!Init
  OBVIOUS
<1>0. SnapInv
  BY SnapInitially
<1>1. /\ pc = [t \in Threads |-> "idle"] /\ holder = NONE /\ log = << >> /\ version = 1
      /\ data = [b \in 0..(OrigPages - 1) |-> OriginalBlock(b)]
  BY DEF Init, LockInit
<1>2. \A f \in Files : ~ Open(f)
  BY <1>1, NoneOpen
<1>3. Pending = [f \in Files |-> << >>]
  BY <1>2 DEF Pending
<1>4. ~ Announced /\ \A u \in Threads : ~ Filling(u)
  BY <1>1 DEF Announced, Filling
<1>5. Contents[1] = OriginalContent
  <2>1. ASSUME NEW L \in LogicalBlocks PROVE Contents[1][L] = OriginalContent[L]
    <3>1. L \in Nat /\ OrigPages \in Nat /\ OrigBlocks \in Nat /\ OrigBlocks <= OrigPages
      BY StoreAssumption, OrigSizes
    <3>2. HitVersions(log, 1, L) = {}
      BY <1>1, SMT DEF HitVersions, InDelta, DeltaHits
    <3>3. Lookup(log, 1, L) = IF L < OrigBlocks THEN L ELSE BLK_NOT_FOUND
      BY <3>2 DEF Lookup
    <3>4. Contents[1][L] = ContentAt(1, L)
      BY <1>0, <1>4, ContentsRead
    <3>5. L # BLK_NOT_FOUND /\ (L < OrigBlocks => L < OrigPages)
      BY <3>1, SMT DEF BLK_NOT_FOUND
    <3>6. CASE L < OrigPages
      <4>1. ContentAt(1, L) = BlockAt(data, L)
        BY <3>3, <3>5, <3>6 DEF ContentAt
      <4>2. L \in 0..(OrigPages - 1)
        BY <3>1, <3>6, SMT
      <4>3. BlockAt(data, L) = OriginalBlock(L)
        BY <1>1, <4>2 DEF BlockAt
      <4> QED BY <3>4, <3>6, <4>1, <4>3 DEF OriginalContent
    <3>7. CASE ~ (L < OrigPages)
      BY <3>3, <3>4, <3>5, <3>7 DEF ContentAt, OriginalContent
    <3> QED BY <3>6, <3>7
  <2>2. Contents[1] = [L \in LogicalBlocks |-> Contents[1][L]]
    BY DEF Contents, FinalContent
  <2> QED BY <2>1, <2>2 DEF OriginalContent
<1>6. History = [v \in 1..1 |-> Contents[v]]
  BY <1>1, <1>4, MappingOfHolds DEF MappingOf, HistLen
<1>7. History = <<OriginalContent>>
  BY <1>5, <1>6, SMT
<1> QED BY <1>3, <1>7 DEF Abstract!Init

\* Every step of the store is a step of the history of contents, or changes
\* neither the history nor a transaction's content.
LEMMA StepSimulated ==
    ASSUME CleanWrites, NoAborts, SafeRequests, LogicalBlocks # {},
           RefInv, RefInv', [Next]_vars, version < MAX_VERSIONS
    PROVE  [Abstract!Next]_(Abstract!snapVars)
<1>0. SnapInv /\ SnapInv'
  BY DEF RefInv
<1>1. ASSUME NEW t \in Threads, DoWriteRecord(t), status[t] = SET_NORMAL_WRITE
      PROVE  Abstract!Next
  <2>1. /\ TheReq(t) \in Requests[t] /\ \A f \in Files : Pending[f] = << >>
        /\ History' = Append(History, ApplyTo(History[Len(History)], TheReq(t)))
        /\ Pending' = Pending
    BY <1>0, <1>1, NormalRecord
  <2>2. TheReq(t) \in AllRequests
    BY <2>1 DEF AllRequests
  <2>3. Abstract!Write(TheReq(t))
    BY <2>1 DEF Abstract!Write, Abstract!Undisturbed, Abstract!InTransaction, Abstract!Newest
  <2> QED BY <2>2, <2>3 DEF Abstract!Next, AllRequests
<1>2. ASSUME NEW t \in Threads, DoWriteRecord(t), status[t] = SET_TRANSACTION
      PROVE  Abstract!Next
  <2>1. /\ TheReq(t) \in Requests[t]
        /\ fileOf[t] \in Files /\ Pending[fileOf[t]] # << >>
        /\ History' = History
        /\ Pending' = [Pending EXCEPT ![fileOf[t]] = ApplyTo(Pending[fileOf[t]], TheReq(t))]
    BY <1>0, <1>2, TransactionRecord
  <2>2. TheReq(t) \in AllRequests
    BY <2>1 DEF AllRequests
  <2>3. Abstract!WriteInTransaction(fileOf[t], TheReq(t))
    BY <2>1 DEF Abstract!WriteInTransaction, Abstract!InTransaction
  <2> QED BY <2>1, <2>2, <2>3 DEF Abstract!Next, AllRequests
<1>3. ASSUME NEW t \in Threads, DoBeginAcquire(t) PROVE Abstract!Next
  <2>1. /\ fileOf[t] \in Files /\ \A f \in Files : Pending[f] = << >>
        /\ History' = History
        /\ Pending' = [Pending EXCEPT ![fileOf[t]] = History[Len(History)]]
    BY <1>0, <1>3, BeginStep
  <2>2. Abstract!Begin(fileOf[t])
    BY <2>1 DEF Abstract!Begin, Abstract!Undisturbed, Abstract!InTransaction, Abstract!Newest
  <2> QED BY <2>1, <2>2 DEF Abstract!Next
<1>4. ASSUME NEW t \in Threads, DoEndCall(t), transaction = SET_TRANSACTION
      PROVE  Abstract!Next
  <2>1. /\ fileOf[t] \in Files /\ Pending[fileOf[t]] # << >>
        /\ History' = Append(History, Pending[fileOf[t]])
        /\ Pending' = [Pending EXCEPT ![fileOf[t]] = << >>]
    BY <1>0, <1>4, EndStep
  <2>2. Abstract!End(fileOf[t])
    BY <2>1 DEF Abstract!End, Abstract!InTransaction
  <2> QED BY <2>1, <2>2 DEF Abstract!Next
<1>5. ASSUME \A t \in Threads : ~ DoWriteRecord(t) /\ ~ DoBeginAcquire(t),
             \A t \in Threads : ~ (DoEndCall(t) /\ transaction = SET_TRANSACTION)
      PROVE  UNCHANGED Abstract!snapVars
  <2>1. History' = History /\ Pending' = Pending
    BY <1>0, <1>5, StutteringSteps
  <2> QED BY <2>1 DEF Abstract!snapVars
<1>6. ASSUME NEW t \in Threads, DoWriteRecord(t)
      PROVE  status[t] \in {SET_TRANSACTION, SET_NORMAL_WRITE}
  <2>1. pc[t] = "record"
    BY <1>6 DEF DoWriteRecord, WriteRecord
  <2> QED BY <1>0, <2>1, RecordOwns
<1> QED BY <1>1, <1>2, <1>3, <1>4, <1>5, <1>6

\* The store implements the history of whole contents that it promises: each
\* write and each END adds exactly the content its caller asked for, nothing
\* else changes a version, and a transaction neither sees nor disturbs another
\* writer; for any number of threads, files, blocks and requests, as long as
\* writes finish, no file is closed inside its transaction, the requests are
\* safe and the versions have not run out (scorw_write_see_thru_ro,
\* scorw_set_transaction, scorw_record_write, scorw_lookup_physical_block).
THEOREM StoreImplementsSnapshots ==
    CleanWrites /\ NoAborts /\ SafeRequests /\ LogicalBlocks # {} =>
        (Spec /\ [](version < MAX_VERSIONS) => ImplementsSnapshots)
<1> SUFFICES ASSUME CleanWrites, NoAborts, SafeRequests, LogicalBlocks # {}
             PROVE  Spec /\ [](version < MAX_VERSIONS) => ImplementsSnapshots
  OBVIOUS
<1>1. Init => RefInv /\ Abstract!Init
  BY RefInitially, InitSimulated
<1>2. RefInv /\ [Next]_vars => RefInv'
  BY RefKept
<1>3. RefInv /\ RefInv' /\ [Next]_vars /\ version < MAX_VERSIONS =>
        [Abstract!Next]_(Abstract!snapVars)
  BY StepSimulated
<1> QED BY <1>1, <1>2, <1>3, PTL DEF Spec, ImplementsSnapshots, Abstract!Spec
=============================================================================
