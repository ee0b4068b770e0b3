---------------------------- MODULE VersionStore ----------------------------
(***************************************************************************)
(* A versioned (SEE_TH_RO) parent file while it stays open: writes and     *)
(* transactional writes append new blocks to the parent and log a record;  *)
(* the version counter says which records readers see; read-only children  *)
(* read the parent at a version of their own.                              *)
(*                                                                         *)
(* A block is a function from its PAGE_SIZE units to values.  The RAM maps *)
(* built from the log are left out: here a lookup reads the log itself.    *)
(***************************************************************************)
EXTENDS TxnLock, VersionLog

CONSTANTS
    PAGE_SIZE,     \* units in a block
    LogicalBlocks, \* the logical blocks that requests may touch
    Requests,      \* per thread: the write requests its program may issue
    Vectors,       \* the writev requests: sequences of one-block requests
    Children,      \* read-only clones of the parent
    DataMayFail,   \* may the page loop of a write stop early?
    ClosesOverlap, \* may files be closed while a write is in progress?
    Values,        \* what a unit can hold
    Zero,          \* what a unit of a fresh block holds
    OrigTail,      \* units of the original file in a last, partial block
    Original,      \* what the units of each original block hold
    MaxCalls       \* bound: BEGINs, writes and writevs in a behaviour

\* The size of the original file in units (p_inode->logical_size), and in
\* blocks, rounded up.
OrigEnd   == OrigBlocks * PAGE_SIZE + OrigTail
OrigPages == IF OrigTail = 0 THEN OrigBlocks ELSE OrigBlocks + 1

\* count units from unit off of logical block blk.
Request == [blk : Nat, off : 0..(PAGE_SIZE - 1), count : Nat \ {0}, val : Values]

ASSUME StoreAssumption ==
    /\ PAGE_SIZE \in Nat \ {0}
    /\ LogicalBlocks \subseteq Nat
    /\ Zero \in Values
    /\ OrigTail \in 0..(PAGE_SIZE - 1)
    /\ Original \in [0..(OrigPages - 1) -> Values]
    /\ Requests \in [Threads -> SUBSET Request]
    /\ Vectors \subseteq Seq(Request)
    /\ DataMayFail \in BOOLEAN
    /\ ClosesOverlap \in BOOLEAN
    /\ MaxCalls \in Nat

VARIABLES
    version,       \* p_inode->version
    log,           \* the records of the log file
    size,          \* i_size of the parent, in blocks
    data,          \* its blocks 0 .. size - 1
    curr_version,  \* the parent's curr_version xattr
    childVersion,  \* the version of each child's scorw inode
    req,           \* per thread: the request(s) it is executing
    app,           \* per thread: first block its data goes to
    page,          \* per thread: pages of data written so far
    ver,           \* per thread: the version its records carry
    calls          \* BEGINs, writes and writevs issued so far

storeVars == <<version, log, size, data, curr_version, childVersion,
               req, app, page, ver, calls>>
vars == <<lockVars, storeVars>>

Units == 0..(PAGE_SIZE - 1)
ZeroBlock == [u \in Units |-> Zero]

-----------------------------------------------------------------------------
EndUnit(r)   == r.off + r.count
LastBlock(r) == r.blk + (EndUnit(r) - 1) \div PAGE_SIZE
NrBlocks(r)  == LastBlock(r) - r.blk + 1

\* Is unit u of the k-th block of the request written?
Written(r, k, u) == r.off <= k * PAGE_SIZE + u /\ k * PAGE_SIZE + u < EndUnit(r)

Fill(r, k, block) ==
    [u \in Units |-> IF Written(r, k, u) THEN r.val ELSE block[u]]

\* Block b of a file holding d; nothing was ever written past its end.
BlockAt(d, b) == IF b \in DOMAIN d THEN d[b] ELSE ZeroBlock

\* The file holding d after block b was given this content.
PutBlock(d, b, block) ==
    [x \in DOMAIN d \cup 0..b |-> IF x = b THEN block ELSE BlockAt(d, x)]

PutSize(s, b) == IF b < s THEN s ELSE b + 1

\* What a reader at version v finds in logical block L
\* (scorw_read_from_parent).  The lookup rounds the original size down, so it
\* misses a partial last block; a reader below that size then takes the block
\* at the logical position.
ContentAt(v, L) ==
    LET p == Lookup(log, v, L)
    IN  IF p # BLK_NOT_FOUND THEN BlockAt(data, p)
        ELSE IF L < OrigPages THEN BlockAt(data, L) ELSE ZeroBlock

OriginalBlock(b) ==
    [u \in Units |-> IF b * PAGE_SIZE + u < OrigEnd THEN Original[b] ELSE Zero]

-----------------------------------------------------------------------------
Init ==
    /\ LockInit
    /\ version = 1
    /\ log = << >>
    /\ size = OrigPages
    /\ data = [b \in 0..(OrigPages - 1) |-> OriginalBlock(b)]
    /\ curr_version = 1
    /\ childVersion = [c \in Children |-> 1]
    /\ req = [t \in Threads |-> << >>]
    /\ app = [t \in Threads |-> 0]
    /\ page = [t \in Threads |-> 0]
    /\ ver = [t \in Threads |-> 0]
    /\ calls = 0

\* The request of a thread that executes a single write.
TheReq(t) == req[t][1]

StartCall(t, rs) ==
    /\ calls < MaxCalls
    /\ calls' = calls + 1
    /\ req' = [req EXCEPT ![t] = rs]
    /\ UNCHANGED <<version, log, size, data, curr_version, childVersion,
                   app, page, ver>>

-----------------------------------------------------------------------------
(* Transactions and signals.                                               *)
DoBeginCall(t)    == BeginCall(t) /\ StartCall(t, << >>)
DoBeginAcquire(t) == BeginAcquire(t) /\ UNCHANGED storeVars
DoInterrupted(t)  == Interrupted(t) /\ UNCHANGED storeVars
DoEndRelease(t)   == EndRelease(t) /\ UNCHANGED storeVars

\* UNSET_TRANSACTION makes a transaction's records visible.
BumpIfTransaction ==
    version' = IF transaction = SET_TRANSACTION THEN version + 1 ELSE version

DoEndCall(t) ==
    /\ EndCall(t)
    /\ BumpIfTransaction
    /\ UNCHANGED <<log, size, data, curr_version, childVersion,
                   req, app, page, ver, calls>>

-----------------------------------------------------------------------------
(* A write.                                                                *)
DoWriteCall(t) ==
    /\ WriteCall(t)
    /\ \E r \in Requests[t] : StartCall(t, <<r>>)

DoWriteLockInode(t) == WriteLockInode(t) /\ UNCHANGED storeVars
DoWriteDecide(t)    == WriteDecide(t) /\ UNCHANGED storeVars
DoWriteLockTxn(t)   == WriteLockTxn(t) /\ UNCHANGED storeVars

\* A mutant: a partial write of a single block that starts at its first unit
\* is taken for a whole one.
CopiesFirst_offset_only(r) == r.off # 0

\* The blocks a partial write copies before it overwrites part of them: the
\* first one from where the current version has it, the last one from the
\* original file.
CopiesFirst(r) ==
    \/ r.off # 0
    \/ NrBlocks(r) = 1 /\ EndUnit(r) % PAGE_SIZE # 0

CopiesLast(r) ==
    /\ NrBlocks(r) > 1
    /\ EndUnit(r) % PAGE_SIZE # 0
    /\ LastBlock(r) * PAGE_SIZE < OrigEnd

\* There is something to copy: the lookup found the first block, or the write
\* starts below the original size.
HasOld(r, p) == p # BLK_NOT_FOUND \/ r.blk * PAGE_SIZE + r.off < OrigEnd

\* A first block that the lookup missed is copied from block BLK_NOT_FOUND,
\* far past the end of the file: from zeros.
FirstCopied(r, p) ==
    IF HasOld(r, p) /\ CopiesFirst(r)
    THEN PutBlock(data, size, BlockAt(data, p)) ELSE data

LastCopied(r, p, d) ==
    IF HasOld(r, p) /\ CopiesLast(r)
    THEN PutBlock(d, size + NrBlocks(r) - 1, BlockAt(d, LastBlock(r))) ELSE d

SizeAfterCopies(r, p) ==
    IF HasOld(r, p) /\ CopiesLast(r) THEN size + NrBlocks(r)
    ELSE IF HasOld(r, p) /\ CopiesFirst(r) THEN size + 1
    ELSE size

\* A mutant: append_pos is rounded down, so the last block is reused.
DoWriteReserve_round_down(t) ==
    /\ WriteReserve(t)
    /\ LET r == TheReq(t)
           p == Lookup(log, version, r.blk)
       IN  /\ data' = LastCopied(r, p, FirstCopied(r, p))
           /\ size' = SizeAfterCopies(r, p)
    /\ app' = [app EXCEPT ![t] = size - 1]
    /\ page' = [page EXCEPT ![t] = 0]
    /\ version' = IF status[t] = SET_NORMAL_WRITE THEN version + 1 ELSE version
    /\ UNCHANGED <<log, curr_version, childVersion, req, ver, calls>>

\* A mutant: a normal write does not bump the version.
DoWriteReserve_no_bump(t) ==
    /\ WriteReserve(t)
    /\ LET r == TheReq(t)
           p == Lookup(log, version, r.blk)
       IN  /\ data' = LastCopied(r, p, FirstCopied(r, p))
           /\ size' = SizeAfterCopies(r, p)
    /\ app' = [app EXCEPT ![t] = size]
    /\ page' = [page EXCEPT ![t] = 0]
    /\ UNCHANGED <<version, log, curr_version, childVersion, req, ver, calls>>

DoWriteReserve(t) ==
    /\ WriteReserve(t)
    /\ LET r == TheReq(t)
           p == Lookup(log, version, r.blk)
       IN  /\ data' = LastCopied(r, p, FirstCopied(r, p))
           /\ size' = SizeAfterCopies(r, p)
    /\ app' = [app EXCEPT ![t] = size]
    /\ page' = [page EXCEPT ![t] = 0]
    /\ version' = IF status[t] = SET_NORMAL_WRITE THEN version + 1 ELSE version
    /\ UNCHANGED <<log, curr_version, childVersion, req, ver, calls>>

\* "return pos": the data goes to the logical position itself.  The copy of
\* the last block may fail after that of the first one was made.
DoWriteCopyFails(t) ==
    /\ WriteCopyFails(t)
    /\ LET r == TheReq(t)
           p == Lookup(log, version, r.blk)
       IN  /\ HasOld(r, p)
           /\ \/ CopiesFirst(r) /\ UNCHANGED <<data, size>>
              \/ /\ CopiesLast(r)
                 /\ data' = FirstCopied(r, p)
                 /\ size' = IF CopiesFirst(r) THEN size + 1 ELSE size
           /\ app' = [app EXCEPT ![t] = r.blk]
    /\ page' = [page EXCEPT ![t] = 0]
    /\ UNCHANGED <<version, log, curr_version, childVersion, req, ver, calls>>

\* A mutant: a transaction's records are logged under the current version.
RecordVersion_current(t) == version

\* The version a record is logged under.
RecordVersion(t) == IF status[t] = SET_TRANSACTION THEN version + 1 ELSE version

\* scorw_record_write; past MAX_VERSIONS there is no map for the version, and
\* the -ENOMEM it returns is ignored.
DoWriteRecord(t) ==
    /\ WriteRecord(t)
    /\ LET r == TheReq(t)
           curr == RecordVersion(t)
       IN  /\ ver' = [ver EXCEPT ![t] = curr]
           /\ log' = IF curr <= MAX_VERSIONS
                     THEN Append(log, [version_num        |-> curr,
                                       logical_start_blk  |-> r.blk,
                                       physical_start_blk |-> app[t],
                                       len_blks           |-> NrBlocks(r)])
                     ELSE log
    /\ UNCHANGED <<version, size, data, curr_version, childVersion,
                   req, app, page, calls>>

DoWriteUnset(t) ==
    /\ WriteUnset(t)
    /\ IF MayUnset(fileOf[t]) THEN BumpIfTransaction ELSE UNCHANGED version
    /\ UNCHANGED <<log, size, data, curr_version, childVersion,
                   req, app, page, ver, calls>>

\* One turn of the page loop of scorw_generic_perform_write.
DoWritePage(t) ==
    /\ pc[t] = "data"
    /\ page[t] < NrBlocks(TheReq(t))
    /\ LET b == app[t] + page[t] IN
         /\ data' = PutBlock(data, b, Fill(TheReq(t), page[t], BlockAt(data, b)))
         /\ size' = PutSize(size, b)
    /\ page' = [page EXCEPT ![t] = @ + 1]
    /\ UNCHANGED <<lockVars, version, log, curr_version, childVersion,
                   req, app, ver, calls>>

\* A mutant: the loop may leave its last pages unwritten.
DoWriteDataDone_early(t) == WriteDataDone(t) /\ UNCHANGED storeVars

\* The loop ends when all is written, or early: fatal signal, failed
\* write_begin.
DoWriteDataDone(t) ==
    /\ WriteDataDone(t)
    /\ page[t] = NrBlocks(TheReq(t)) \/ DataMayFail
    /\ UNCHANGED storeVars

\* The locals die with the call.
DoUnlockInode(t) ==
    /\ UnlockInode(t)
    /\ req' = [req EXCEPT ![t] = << >>]
    /\ app' = [app EXCEPT ![t] = 0]
    /\ page' = [page EXCEPT ![t] = 0]
    /\ ver' = [ver EXCEPT ![t] = 0]
    /\ UNCHANGED <<version, log, size, data, curr_version, childVersion, calls>>

-----------------------------------------------------------------------------
(* The writev ioctl.                                                       *)
DoWritevCall(t) ==
    /\ WritevCall(t)
    /\ \E vecs \in Vectors : StartCall(t, vecs)

\* append_pos and new_version are computed once the inode lock is held.
DoWritevLockInode(t) ==
    /\ WritevLockInode(t)
    /\ app' = [app EXCEPT ![t] = size]
    /\ ver' = [ver EXCEPT ![t] = version + 1]
    /\ UNCHANGED <<version, log, size, data, curr_version, childVersion,
                   req, page, calls>>

\* Phase 1: each vector copies the block at its logical position to the end of
\* the file, then overwrites part of the copy.
DoWritevVector(t) ==
    /\ pc[t] = "data_v"
    /\ page[t] < Len(req[t])
    /\ LET r == req[t][page[t] + 1]
           b == app[t] + page[t]
       IN  /\ data' = PutBlock(data, b, Fill(r, 0, BlockAt(data, r.blk)))
           /\ size' = PutSize(size, b)
    /\ page' = [page EXCEPT ![t] = @ + 1]
    /\ UNCHANGED <<lockVars, version, log, curr_version, childVersion,
                   req, app, ver, calls>>

DoWritevData(t) ==
    /\ WritevData(t)
    /\ page[t] = Len(req[t])
    /\ UNCHANGED storeVars

\* An error ends phase 1 before the copy of a vector or right after it.
DoWritevFails(t) ==
    /\ WritevFails(t)
    /\ page[t] < Len(req[t])
    /\ LET b == app[t] + page[t] IN
         \/ UNCHANGED <<data, size>>
         \/ /\ data' = PutBlock(data, b, BlockAt(data, req[t][page[t] + 1].blk))
            /\ size' = PutSize(size, b)
    /\ UNCHANGED <<version, log, curr_version, childVersion,
                   req, app, page, ver, calls>>

\* Phase 2 takes append_pos from the i_size that phase 1 has already advanced.
VectorRecords(t) ==
    [k \in 1..Len(req[t]) |-> [version_num        |-> ver[t],
                              logical_start_blk  |-> req[t][k].blk,
                              physical_start_blk |-> size + k - 1,
                              len_blks           |-> 1]]

\* Phases 2 and 3.
DoWritevCommit(t) ==
    /\ WritevCommit(t)
    /\ \/ /\ ver[t] <= MAX_VERSIONS
          /\ log' = log \o VectorRecords(t)
          /\ version' = ver[t]
       \/ ver[t] > MAX_VERSIONS /\ UNCHANGED <<log, version>>
    /\ UNCHANGED <<size, data, curr_version, childVersion,
                   req, app, page, ver, calls>>

-----------------------------------------------------------------------------
(* Closing files, children, and the end of the parent's scorw inode.       *)

\* The threads whose write has reserved its blocks and is not finished.
InFlight(t) == pc[t] \in {"record", "unset", "data"}

\* Every scorw_put_inode, the last one or not, saves the version of the inode
\* in its xattr; it takes neither of the two locks.
SaveVersion ==
    /\ ClosesOverlap \/ \A t \in Threads : ~ InFlight(t)
    /\ curr_version' = version
    /\ UNCHANGED <<version, log, size, data, childVersion, req, app, page, ver, calls>>

\* A file is closed inside its transaction.
DoClose(f) == Close(f) /\ SaveVersion

\* Another file of the parent, or one of a child, is closed; others stay open.
CloseOther == SaveVersion /\ UNCHANGED lockVars

\* EXT4_UPDATE_VERSION on a child: update_version.
UpdateVersion(c) ==
    /\ childVersion' = [childVersion EXCEPT ![c] = curr_version]
    /\ UNCHANGED <<lockVars, version, log, size, data, curr_version,
                   req, app, page, ver, calls>>

\* Every file is closed: scorw_unprepare_par_inode saves the version in the
\* xattr; the next open reads it back and initialises the locks afresh.
Reopen ==
    /\ \A t \in Threads : pc[t] = "idle"
    /\ \A f \in Files : SelfStatus(f) # SET_TRANSACTION
    /\ curr_version' = version
    /\ holder' = NONE
    /\ owner' = NONE
    /\ transaction' = NO_STATUS
    /\ UNCHANGED <<inode_lock, pc, status, version, log, size, data,
                   childVersion, req, app, page, ver, calls>>

-----------------------------------------------------------------------------
Next ==
    \/ \E t \in Threads :
         \/ DoBeginCall(t) \/ DoBeginAcquire(t) \/ DoEndCall(t) \/ DoEndRelease(t)
         \/ DoInterrupted(t)
         \/ DoWriteCall(t) \/ DoWriteLockInode(t) \/ DoWriteDecide(t)
         \/ DoWriteLockTxn(t) \/ DoWriteReserve(t) \/ DoWriteCopyFails(t)
         \/ DoWriteRecord(t) \/ DoWriteUnset(t) \/ DoWritePage(t)
         \/ DoWriteDataDone(t) \/ DoUnlockInode(t)
         \/ DoWritevCall(t) \/ DoWritevLockInode(t) \/ DoWritevVector(t)
         \/ DoWritevData(t) \/ DoWritevFails(t) \/ DoWritevCommit(t)
    \/ \E f \in Files : DoClose(f)
    \/ CloseOther
    \/ \E c \in Children : UpdateVersion(c)
    \/ Reopen

Spec == Init /\ [][Next]_vars

-----------------------------------------------------------------------------
(* Properties.                                                             *)
Blocks == [Units -> Values]

StoreTypeOK ==
    /\ version \in Nat \ {0}
    /\ log \in Seq(Record)
    /\ size \in Nat
    /\ data \in [0..(size - 1) -> Blocks]
    /\ curr_version \in Nat \ {0}
    /\ childVersion \in [Children -> Nat \ {0}]
    /\ req \in [Threads -> Seq(Request)]
    /\ app \in [Threads -> Nat]
    /\ page \in [Threads -> Nat]
    /\ ver \in [Threads -> Nat]
    /\ calls \in 0..MaxCalls

TypeOK == LockTypeOK /\ StoreTypeOK

\* The log stays in version order, whatever mixture of writes, transactions,
\* aborts and failures produced it, and nothing in it is more than one
\* version ahead.  scorw_truncate_log_to_version and scorw_do_recovery cut
\* the log at the first record they reject, and scorw_gc_blocks compares each
\* record with the one before it: all three depend on this order.
LogOrdered == LogSorted(log) /\ LogBelow(log, version)

\* The version a write in progress changes; nobody relies on it or on a later
\* one yet.  A write whose copy failed has no version.
FlightVersion(t) ==
    CASE pc[t] = "record" /\ status[t] = SET_NORMAL_WRITE -> version
      [] pc[t] = "record" /\ status[t] # SET_NORMAL_WRITE -> version + 1
      [] pc[t] # "record" /\ ver[t] > 0 -> ver[t]
      [] OTHER -> version + 1

Settled == {v \in 1..version : \A t \in Threads : InFlight(t) => v < FlightVersion(t)}

\* A version never changes its mind about where a logical block is: no write,
\* transaction, abort, failure or reopening moves a block of a version that
\* is not being written.
MappingImmutable ==
    [][\A v \in Settled, L \in LogicalBlocks :
          Lookup(log', v, L) = Lookup(log, v, L)]_vars

\* Nor does the data behind it change: what a reader at a settled version
\* finds in a logical block is what it found before, so a snapshot is a
\* snapshot.
SnapshotImmutable ==
    [][\A v \in Settled, L \in LogicalBlocks :
          ContentAt(v, L)' = ContentAt(v, L)]_vars

\* What the owner of a child relies on: between two update ioctls of the child
\* its contents stay as they are, however the parent is written: its ranges
\* are those of which a "static snapshot of par file is to be maintained"
\* (corw_sparse.h:194; update_version, scorw_put_inode).
ChildViewStable ==
    [][\A c \in Children :
          childVersion'[c] = childVersion[c] =>
             \A L \in LogicalBlocks :
                ContentAt(childVersion[c], L)' = ContentAt(childVersion[c], L)]_vars

\* physical_start_blk: "Where Ext4 actually put it on disk"
\* (corw_sparse.h:86).  Once no write is in progress every record points into
\* the file.
RecordsPointAtData ==
    (\A t \in Threads : ~ InFlight(t)) =>
        \A i \in DOMAIN log : RecordEnd(log[i]) <= size

\* "We increase the version while END_TXN" (corw_sparse.c:4973): records that
\* are in the log before their version is reached were written by a
\* transaction, and only its END_TRANSACTION makes them visible.
TxnVisibleAtEnd ==
    [][\A i \in DOMAIN log :
          (version < log[i].version_num /\ log[i].version_num <= version') =>
             \E t \in Threads : pc[t] = "idle" /\ pc'[t] = "end"]_vars
=============================================================================
