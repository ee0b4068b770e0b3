------------------------------ MODULE TxnLock ------------------------------
(***************************************************************************)
(* The two locks a write to a versioned (SEE_TH_RO) parent file goes       *)
(* through, and the transaction ioctls that share one of them:             *)
(*                                                                         *)
(*   inode_lock          the VFS i_rwsem of the parent, taken by           *)
(*                       ext4_buffered_write_iter and by the writev ioctl; *)
(*   transaction_lock    the mutex of struct Transaction_locks, taken by   *)
(*                       BEGIN_TRANSACTION (and held until END or close)   *)
(*                       and by each write outside a transaction.          *)
(*                                                                         *)
(* A thread works through one open file (struct file); fork() lets several *)
(* threads share one.  The version counter, the log and the data belong to *)
(* VersionStore, which extends this module and conjoins its steps.         *)
(***************************************************************************)
EXTENDS Naturals, Integers, FiniteSets

CONSTANTS
    Threads,      \* tasks issuing system calls on the parent
    Files,        \* open files (struct file) of the parent
    fileOf,       \* the open file each thread uses
    TxnThreads,   \* threads whose program uses BEGIN/END_TRANSACTION
    VecThreads,   \* threads whose program uses the writev ioctl
    AbortFiles,   \* open files that may be closed inside a transaction
    CopyMayFail,  \* may scorw_internal_copy_blocks report an error?
    NONE          \* a null pointer: no thread, no file

ASSUME LockAssumption ==
    /\ fileOf \in [Threads -> Files]
    /\ TxnThreads \subseteq Threads
    /\ VecThreads \subseteq Threads
    /\ AbortFiles \subseteq Files
    /\ CopyMayFail \in BOOLEAN
    /\ NONE \notin Threads
    /\ NONE \notin Files

UNSET_TRANSACTION == 0
SET_TRANSACTION   == 1
SET_NORMAL_WRITE  == 2
NO_STATUS         == -1

VARIABLES
    inode_lock,   \* the thread that holds i_rwsem of the parent for writing
    holder,       \* the thread that locked t_locks.transaction_lock
    owner,        \* t_locks.owner
    transaction,  \* t_locks.transaction
    pc,           \* where each thread is
    status        \* its local "status" in scorw_write_see_thru_ro

lockVars == <<inode_lock, holder, owner, transaction, pc, status>>

PCs == {"idle",
        "lock_begin", "end",                                 \* BEGIN, END
        "lock_inode", "decide", "lock_write",                \* write
        "reserve", "record", "unset", "data",
        "lock_inode_v", "data_v", "commit_v",                \* writev
        "unlock_inode"}

Goto(t, label) == pc' = [pc EXCEPT ![t] = label]

mutex_is_locked == holder # NONE

\* scorw_self_transaction_status
SelfStatus(f) == IF mutex_is_locked /\ owner = f THEN transaction ELSE NO_STATUS

LockInit ==
    /\ inode_lock = NONE
    /\ holder = NONE
    /\ owner = NONE
    /\ transaction = NO_STATUS
    /\ pc = [t \in Threads |-> "idle"]
    /\ status = [t \in Threads |-> NO_STATUS]

\* A mutant: the lock is not waited for.
AcquireTxn_no_wait(t, val) ==
    /\ holder' = t
    /\ owner' = fileOf[t]
    /\ transaction' = val

\* mutex_lock_interruptible succeeds and the two fields are filled in.
AcquireTxn(t, val) ==
    /\ ~ mutex_is_locked
    /\ holder' = t
    /\ owner' = fileOf[t]
    /\ transaction' = val

\* The tail of UNSET_TRANSACTION, and all of scorw_set_transaction_error.
ReleaseTxn ==
    /\ owner' = NONE
    /\ transaction' = UNSET_TRANSACTION
    /\ holder' = NONE

\* A mutant: anybody may unset.
MayUnset_anybody(f) == mutex_is_locked

\* The check UNSET_TRANSACTION starts with; when it fails the call returns -25.
MayUnset(f) == mutex_is_locked /\ owner = f

-----------------------------------------------------------------------------
(* EXT4_BEGIN_TRANSACTION.  A call by the file that already has an open    *)
(* transaction returns -25 and changes nothing.                            *)
BeginCall(t) ==
    /\ pc[t] = "idle"
    /\ t \in TxnThreads
    /\ SelfStatus(fileOf[t]) # SET_TRANSACTION
    /\ Goto(t, "lock_begin")
    /\ UNCHANGED <<inode_lock, holder, owner, transaction, status>>

BeginAcquire(t) ==
    /\ pc[t] = "lock_begin"
    /\ AcquireTxn(t, SET_TRANSACTION)
    /\ Goto(t, "idle")
    /\ UNCHANGED <<inode_lock, status>>

(* EXT4_END_TRANSACTION: the check, then (after the log was synced) the    *)
(* release.  The version bump between the two is VersionStore's.           *)
EndCall(t) ==
    /\ pc[t] = "idle"
    /\ t \in TxnThreads
    /\ MayUnset(fileOf[t])
    /\ Goto(t, "end")
    /\ UNCHANGED <<inode_lock, holder, owner, transaction, status>>

EndRelease(t) ==
    /\ pc[t] = "end"
    /\ ReleaseTxn
    /\ Goto(t, "idle")
    /\ UNCHANGED <<inode_lock, status>>

(* The last close of an open file with an unfinished transaction.          *)
Close(f) ==
    /\ f \in AbortFiles
    /\ \A t \in Threads : fileOf[t] = f => pc[t] = "idle"
    /\ SelfStatus(f) = SET_TRANSACTION
    /\ ReleaseTxn
    /\ UNCHANGED <<inode_lock, pc, status>>

\* A mutant: the write returns with the inode lock held.
Interrupted_keeps_inode(t) ==
    /\ pc[t] \in {"lock_begin", "lock_write"}
    /\ Goto(t, "idle")
    /\ UNCHANGED <<inode_lock, holder, owner, transaction, status>>

(* A signal ends the interruptible wait for the mutex: BEGIN returns -67,  *)
(* a write returns -EIO after dropping the inode lock.                     *)
Interrupted(t) ==
    /\ \/ pc[t] = "lock_begin" /\ Goto(t, "idle")
       \/ pc[t] = "lock_write" /\ Goto(t, "unlock_inode")
    /\ UNCHANGED <<inode_lock, holder, owner, transaction, status>>

-----------------------------------------------------------------------------
(* ext4_buffered_write_iter -> scorw_generic_perform_write ->              *)
(* scorw_write_see_thru_ro.                                                *)
WriteCall(t) ==
    /\ pc[t] = "idle"
    /\ Goto(t, "lock_inode")
    /\ UNCHANGED <<inode_lock, holder, owner, transaction, status>>

WriteLockInode(t) ==
    /\ pc[t] = "lock_inode"
    /\ inode_lock = NONE
    /\ inode_lock' = t
    /\ Goto(t, "decide")
    /\ UNCHANGED <<holder, owner, transaction, status>>

\* Inside the file's own transaction the write goes on under its lock;
\* otherwise SET_NORMAL_WRITE waits for the mutex, unless the file already
\* has it for a normal write (-25, turned into -EIO).
WriteDecide(t) ==
    /\ pc[t] = "decide"
    /\ \/ /\ SelfStatus(fileOf[t]) = SET_TRANSACTION
          /\ status' = [status EXCEPT ![t] = SET_TRANSACTION]
          /\ Goto(t, "reserve")
       \/ /\ SelfStatus(fileOf[t]) = SET_NORMAL_WRITE
          /\ Goto(t, "unlock_inode")
          /\ UNCHANGED status
       \/ /\ SelfStatus(fileOf[t]) \notin {SET_TRANSACTION, SET_NORMAL_WRITE}
          /\ Goto(t, "lock_write")
          /\ UNCHANGED status
    /\ UNCHANGED <<inode_lock, holder, owner, transaction>>

WriteLockTxn(t) ==
    /\ pc[t] = "lock_write"
    /\ AcquireTxn(t, SET_NORMAL_WRITE)
    /\ status' = [status EXCEPT ![t] = SET_NORMAL_WRITE]
    /\ Goto(t, "reserve")
    /\ UNCHANGED inode_lock

\* Block copy and version bump.
WriteReserve(t) ==
    /\ pc[t] = "reserve"
    /\ Goto(t, "record")
    /\ UNCHANGED <<inode_lock, holder, owner, transaction, status>>

\* A failed block copy returns from scorw_write_see_thru_ro at once: no bump,
\* no record, and no UNSET_TRANSACTION either.
WriteCopyFails(t) ==
    /\ CopyMayFail
    /\ pc[t] = "reserve"
    /\ Goto(t, "data")
    /\ UNCHANGED <<inode_lock, holder, owner, transaction, status>>

\* scorw_record_write; a normal write goes on to drop the transaction lock.
WriteRecord(t) ==
    /\ pc[t] = "record"
    /\ Goto(t, IF status[t] = SET_NORMAL_WRITE THEN "unset" ELSE "data")
    /\ UNCHANGED <<inode_lock, holder, owner, transaction, status>>

\* UNSET_TRANSACTION of a normal write; -EIO when the lock is not ours.
WriteUnset(t) ==
    /\ pc[t] = "unset"
    /\ \/ /\ MayUnset(fileOf[t])
          /\ ReleaseTxn
          /\ Goto(t, "data")
       \/ /\ ~ MayUnset(fileOf[t])
          /\ Goto(t, "unlock_inode")
          /\ UNCHANGED <<holder, owner, transaction>>
    /\ UNCHANGED <<inode_lock, status>>

\* The page loop of scorw_generic_perform_write is over.
WriteDataDone(t) ==
    /\ pc[t] = "data"
    /\ Goto(t, "unlock_inode")
    /\ UNCHANGED <<inode_lock, holder, owner, transaction, status>>

UnlockInode(t) ==
    /\ pc[t] = "unlock_inode"
    /\ inode_lock' = NONE
    /\ status' = [status EXCEPT ![t] = NO_STATUS]
    /\ Goto(t, "idle")
    /\ UNCHANGED <<holder, owner, transaction>>

-----------------------------------------------------------------------------
(* scorw_ioctl_see_thru_writev: the inode lock only.                       *)
WritevCall(t) ==
    /\ pc[t] = "idle"
    /\ t \in VecThreads
    /\ Goto(t, "lock_inode_v")
    /\ UNCHANGED <<inode_lock, holder, owner, transaction, status>>

WritevLockInode(t) ==
    /\ pc[t] = "lock_inode_v"
    /\ inode_lock = NONE
    /\ inode_lock' = t
    /\ Goto(t, "data_v")
    /\ UNCHANGED <<holder, owner, transaction, status>>

\* Phase 1 is done, or given up after an error.
WritevData(t) ==
    /\ pc[t] = "data_v"
    /\ Goto(t, "commit_v")
    /\ UNCHANGED <<inode_lock, holder, owner, transaction, status>>

WritevFails(t) ==
    /\ CopyMayFail
    /\ pc[t] = "data_v"
    /\ Goto(t, "unlock_inode")
    /\ UNCHANGED <<inode_lock, holder, owner, transaction, status>>

WritevCommit(t) ==
    /\ pc[t] = "commit_v"
    /\ Goto(t, "unlock_inode")
    /\ UNCHANGED <<inode_lock, holder, owner, transaction, status>>

-----------------------------------------------------------------------------
TxnStep(t)   == BeginCall(t) \/ BeginAcquire(t) \/ EndCall(t) \/ EndRelease(t)
WriteStep(t) == \/ WriteLockInode(t) \/ WriteDecide(t) \/ WriteLockTxn(t)
                \/ WriteReserve(t) \/ WriteCopyFails(t) \/ WriteRecord(t)
                \/ WriteUnset(t) \/ WriteDataDone(t) \/ UnlockInode(t)
WritevStep(t) == \/ WritevLockInode(t) \/ WritevData(t) \/ WritevFails(t)
                 \/ WritevCommit(t)

LockNext ==
    \/ \E t \in Threads : \/ TxnStep(t) \/ Interrupted(t)
                          \/ WriteCall(t) \/ WriteStep(t)
                          \/ WritevCall(t) \/ WritevStep(t)
    \/ \E f \in Files : Close(f)

LockSpec == LockInit /\ [][LockNext]_lockVars

(* A task inside the kernel keeps running, and both locks hand themselves  *)
(* to a waiter (the mutex and the rwsem queue their waiters), so a task    *)
(* that can acquire a lock again and again eventually does.  Nothing       *)
(* obliges a program to issue another call, to END a transaction or to     *)
(* close.                                                                  *)
LockFairness ==
    \A t \in Threads :
        /\ WF_lockVars(\/ WriteDecide(t) \/ WriteReserve(t) \/ WriteRecord(t)
                       \/ WriteUnset(t) \/ WriteDataDone(t) \/ UnlockInode(t)
                       \/ EndRelease(t) \/ WritevData(t) \/ WritevCommit(t))
        /\ SF_lockVars(WriteLockInode(t) \/ WritevLockInode(t))
        /\ SF_lockVars(WriteLockTxn(t) \/ BeginAcquire(t))

LockFairSpec == LockSpec /\ LockFairness

-----------------------------------------------------------------------------
(* Properties.                                                             *)

\* No two threads use the same open file.
PrivateFiles == \A t, u \in Threads : fileOf[t] = fileOf[u] => t = u

LockTypeOK ==
    /\ inode_lock \in Threads \cup {NONE}
    /\ holder \in Threads \cup {NONE}
    /\ owner \in Files \cup {NONE}
    /\ transaction \in {NO_STATUS, UNSET_TRANSACTION, SET_TRANSACTION, SET_NORMAL_WRITE}
    /\ pc \in [Threads -> PCs]
    /\ status \in [Threads -> {NO_STATUS, SET_TRANSACTION, SET_NORMAL_WRITE}]

\* Between SET_NORMAL_WRITE and UNSET_TRANSACTION a write owns the
\* transaction lock, and a write that runs inside a transaction runs inside
\* the transaction its own file began: no other file's transaction can be
\* open while a write bumps the version and logs its record
\* (scorw_write_see_thru_ro, corw_sparse.c:4622-4678).
WriteOwnsLock ==
    \A t \in Threads :
        /\ pc[t] \in {"reserve", "record"} => SelfStatus(fileOf[t]) = status[t]
        /\ pc[t] = "unset" => SelfStatus(fileOf[t]) = SET_NORMAL_WRITE
        /\ pc[t] = "end" => owner = fileOf[t]

\* "2 process open the same file. one of them calls BeginTransaction and the
\* other EndTransaction. Ideally it should error" (corw_sparse.h:218): an open
\* transaction of one file is never ended by a step of a thread that uses
\* another file.
OnlyOwnerEnds ==
    [][\A f \in Files :
         (SelfStatus(f) = SET_TRANSACTION /\ owner' # f) =>
            \A t \in Threads : fileOf[t] # f => pc'[t] = pc[t]]_lockVars

\* "avoids deadlocks" (corw_sparse.c:5473), said of taking the transaction
\* lock: no thread that holds the inode lock waits for a transaction whose
\* owner waits for the inode lock.
NoCircularWait ==
    \A t, u \in Threads :
        ~ /\ inode_lock = t /\ pc[t] = "lock_write"
          /\ holder = u /\ owner = fileOf[u]
          /\ pc[u] \in {"lock_inode", "lock_inode_v"}

\* If the transaction lock is free again and again (no transaction is left
\* open for good, no failed copy leaks the lock), then every BEGIN, END, write
\* and writev that was started comes to an end: the inode lock is given back
\* on every path, signals and errors included, and nobody is left behind on
\* the two locks.
CallsReturn ==
    []<>(~ mutex_is_locked) =>
        \A t \in Threads : pc[t] # "idle" ~> pc[t] = "idle"
=============================================================================
