------------------------------ MODULE Recovery ------------------------------
(***************************************************************************)
(* A versioned parent across crashes and remounts: what is in memory, what *)
(* has reached the disk, and the recovery of the first open after a mount  *)
(* (scorw_prepare_par_inode): cut the log, roll back, trim, punch.         *)
(*                                                                         *)
(* ext4 runs in data=ordered mode with delayed allocation.  A journal      *)
(* commit makes all metadata of its moment durable at once: xattrs, inode  *)
(* sizes, block mappings.  A block of the parent is mapped when it is      *)
(* written back.  The pages of the log file are plain data: their contents *)
(* reach the disk on their own, so a log whose size is durable may still   *)
(* read as zeros.                                                          *)
(*                                                                         *)
(* How writes interleave is the subject of VersionStore; here a write is   *)
(* one step.                                                               *)
(***************************************************************************)
EXTENDS GcBlocks

CONSTANTS
    LogicalBlocks,  \* the logical blocks that are written
    Lens,           \* how many blocks a write may span
    Children,       \* read-only clones of the parent
    EmptyTxns,      \* may a transaction end without a write?
    MaxWrites,      \* bound: records ever logged
    MaxSize,        \* bound: blocks of the parent
    MaxDowns,       \* bound: crashes and unmounts
    MaxCommits      \* bound: journal commits per mount (only the last one matters)

ASSUME RecoveryAssumption ==
    /\ LogicalBlocks \subseteq Nat
    /\ Lens \subseteq Nat \ {0}
    /\ EmptyTxns \in BOOLEAN
    /\ MaxWrites \in Nat
    /\ MaxSize \in Nat
    /\ MaxDowns \in Nat
    /\ MaxCommits \in Nat

VARIABLES
    phase,         \* "open", or the step of recovery that comes next
    version,       \* scorw_inode->version
    txn,           \* is a transaction open?
    log,           \* the records of the log file, as its pages have them
    logDiskSize,   \* i_disksize of the log, in records
    size,          \* i_size of the parent, in blocks
    diskSize,      \* its i_disksize
    mapped,        \* its appended blocks that have an extent
    dirty,         \* its appended blocks that wait for writeback
    curr_version,  \* its curr_version xattr
    childXattr,    \* the curr_version xattr of each child
    disk,          \* the metadata of the last journal commit
    pages,         \* the log records that were written back
    before,        \* history: the log when the system went down
    plain,         \* history: the versions made outside transactions
    seen,          \* history: what crashes did that recovery does not expect
    rollback_version, \* recovery: the oldest version found without its blocks, or 0
    valid_log_end,    \* recovery: the records not yet given up by the scan
    expected_end,     \* recovery: where it will trim the parent
    writes, downs, commits  \* counters for the bounds

locals == <<rollback_version, valid_log_end, expected_end>>
control == <<phase, locals>>
logVars == <<log, logDiskSize>>
dataVars == <<size, diskSize, mapped, dirty>>
xattrs == <<curr_version, childXattr>>
memVars == <<version, txn, logVars, dataVars, xattrs>>
diskVars == <<disk, pages>>
history == <<before, plain, seen>>
bounds == <<writes, downs, commits>>
vars == <<control, memVars, diskVars, history, bounds>>

\* What a log page that was never written back reads as.
ZeroRecord == [version_num        |-> 0, logical_start_blk |-> 0,
               physical_start_blk |-> 0, len_blks          |-> 0]

Extent(rec) == rec.physical_start_blk..(RecordEnd(rec) - 1)

\* The metadata as it is in memory, for a parent of that many blocks on disk
\* with the extents ms.
MetadataWith(blocks, ms) ==
    [curr_version |-> curr_version, childXattr |-> childXattr,
     logDiskSize |-> logDiskSize, diskSize |-> blocks, mapped |-> ms]

Metadata == MetadataWith(diskSize, mapped)

Init ==
    /\ phase = "open"
    /\ version = 1
    /\ txn = FALSE
    /\ log = << >>
    /\ logDiskSize = 0
    /\ size = OrigBlocks
    /\ diskSize = OrigBlocks
    /\ mapped = {}
    /\ dirty = {}
    /\ curr_version = 1
    /\ childXattr = [c \in Children |-> 1]
    /\ disk = Metadata
    /\ pages = << >>
    /\ before = << >>
    /\ plain = {}
    /\ seen = {}
    /\ rollback_version = 0
    /\ valid_log_end = 0
    /\ expected_end = OrigBlocks
    /\ writes = 0
    /\ downs = 0
    /\ commits = 0

-----------------------------------------------------------------------------
(* The parent is open.                                                     *)

\* A write appends its blocks and its record.
AppendRecord(ver, L, len) ==
    /\ writes < MaxWrites
    /\ size + len <= MaxSize
    /\ writes' = writes + 1
    /\ log' = Append(log, [version_num        |-> ver,
                           logical_start_blk  |-> L,
                           physical_start_blk |-> size,
                           len_blks           |-> len])
    /\ logDiskSize' = Len(log) + 1
    /\ size' = size + len
    /\ dirty' = dirty \cup size..(size + len - 1)

Write(L, len) ==
    /\ phase = "open" /\ ~ txn
    /\ version' = version + 1
    /\ AppendRecord(version', L, len)
    /\ plain' = plain \cup {version'}
    /\ UNCHANGED <<control, txn, diskSize, mapped, xattrs, diskVars,
                   before, seen, downs, commits>>

BeginTransaction ==
    /\ phase = "open" /\ ~ txn
    /\ txn' = TRUE
    /\ UNCHANGED <<control, version, logVars, dataVars, xattrs,
                   diskVars, history, bounds>>

TxnWrite(L, len) ==
    /\ phase = "open" /\ txn
    /\ AppendRecord(version + 1, L, len)
    /\ UNCHANGED <<control, version, txn, diskSize, mapped, xattrs,
                   diskVars, history, downs, commits>>

\* The journal makes the metadata m durable.
CommitOf(m) ==
    /\ commits < MaxCommits
    /\ commits' = commits + 1
    /\ disk' = m

\* A record was appended since the log was last cut, so that its pages are dirty.
LogAppended == logDiskSize = Len(log)

\* END bumps the version and writes the pages of the log.  It also writes the
\* log's inode, which forces a commit if the inode is dirty: background
\* writeback may have cleaned it.
EndTransaction ==
    /\ phase = "open" /\ txn
    /\ \/ \E i \in DOMAIN log : log[i].version_num = version + 1
       \/ EmptyTxns /\ version <= MaxWrites
    /\ txn' = FALSE
    /\ version' = version + 1
    /\ pages' = IF LogAppended THEN log ELSE pages
    /\ \/ CommitOf(Metadata)
       \/ UNCHANGED <<disk, commits>>
    /\ UNCHANGED <<control, logVars, dataVars, xattrs, history, writes, downs>>

\* A close saves the version; one by the owner of a transaction aborts it.
Close ==
    /\ phase = "open"
    /\ curr_version' = version
    /\ txn' \in {txn, FALSE}
    /\ UNCHANGED <<control, version, logVars, dataVars, childXattr, diskVars, history,
                   bounds>>

\* The last close saves the versions of the children too; those in cs were
\* moved to the saved version of the parent while it was open.
LastClose(cs) ==
    /\ phase = "open"
    /\ txn' = FALSE
    /\ curr_version' = version
    /\ childXattr' = [c \in Children |-> IF c \in cs THEN curr_version ELSE childXattr[c]]
    /\ UNCHANGED <<control, version, logVars, dataVars, diskVars, history, bounds>>

-----------------------------------------------------------------------------
(* What reaches the disk, and when.                                        *)

\* A journal commit, after the writeback of the blocks bs, which allocates them.
Commit(bs) ==
    /\ mapped' = mapped \cup bs
    /\ dirty' = dirty \ bs
    /\ diskSize' = Latest({diskSize} \cup {b + 1 : b \in bs})
    /\ CommitOf(MetadataWith(diskSize', mapped'))
    /\ UNCHANGED <<control, version, txn, logVars, size, xattrs, pages, history, writes, downs>>

\* What the pages of the log may be on disk: as they were last synced, or as
\* they were after some later append.  Cutting the log with truncate_setsize
\* changes neither its pages on disk nor its i_disksize.
AsOnDisk(n) == n <= Len(pages) /\ \A i \in 1..n : log[i] = pages[i]

LogPages ==
    {pages} \cup {SubSeq(log, 1, n) : n \in {k \in DOMAIN log : LogAppended /\ ~ AsOnDisk(k)}}

\* The log as the next mount will read it.
DiskLog(d, ps) ==
    [i \in 1..d.logDiskSize |-> IF i <= Len(ps) THEN ps[i] ELSE ZeroRecord]

\* Everything in memory is gone; what the next mount reads of the disk d.
Reload(d, ps) ==
    /\ phase' = "truncate"
    /\ version' = d.curr_version
    /\ curr_version' = d.curr_version
    /\ childXattr' = d.childXattr
    /\ log' = DiskLog(d, ps)
    /\ logDiskSize' = d.logDiskSize
    /\ size' = d.diskSize
    /\ diskSize' = d.diskSize
    /\ mapped' = d.mapped
    /\ dirty' = {}
    /\ txn' = FALSE
    /\ before' = IF phase = "open" THEN log ELSE before
    /\ downs < MaxDowns
    /\ downs' = downs + 1
    /\ commits' = 0
    /\ rollback_version' = 0
    /\ valid_log_end' = 0
    /\ expected_end' = OrigBlocks
    /\ UNCHANGED <<plain, writes>>

\* Blocks of the parent that a crash loses although they were written.
Lost == (mapped \cup dirty) \ disk.mapped

\* A later block is on disk and an earlier one is not, or part of a record is.
Torn ==
    \E b \in Lost :
        \/ \E d \in disk.mapped : b < d
        \/ \E i \in DOMAIN log : b \in Extent(log[i])
                                 /\ Extent(log[i]) \cap disk.mapped # {}

\* The log is long enough for the record at i, but another one or zeros are on
\* its page.
LostRecord(ps, i) == i <= disk.logDiskSize /\ DiskLog(disk, ps)[i] # log[i]

\* Zeros are read where the log on disk is longer than what was written to it.
Hole(ps) == \E i \in 1..disk.logDiskSize : DiskLog(disk, ps)[i] = ZeroRecord

\* A record of an earlier life takes the place of a lost one.
Stale(ps, i) == DiskLog(disk, ps)[i].version_num \in 1..disk.curr_version

\* A rollback is undone: its lower version did not reach the disk, and a record
\* that used a version up to the saved one again is not part of the log there.
Undone == \E i \in DOMAIN log : i > disk.logDiskSize /\ log[i].version_num <= disk.curr_version

Crash(ps) ==
    /\ Reload(disk, ps)
    /\ LET lost == {i \in DOMAIN log : LostRecord(ps, i)}
       IN  seen' = seen
                   \cup {a \in {"torn"}  : Torn}
                   \cup {a \in {"log"}   : lost # {} \/ Hole(ps)}
                   \cup {a \in {"plain"} : \E i \in lost : log[i].version_num \in plain}
                   \cup {a \in {"stale"} : \E i \in lost : Stale(ps, i)}
                   \cup {a \in {"undone"} : Undone}
    /\ pages' = ps
    /\ UNCHANGED disk

\* An unmount writes everything back first.
Unmount ==
    /\ phase = "open"
    /\ ~ txn
    /\ curr_version = version
    /\ LET d == MetadataWith(size, mapped \cup dirty)
           ps == IF LogAppended THEN log ELSE pages
       IN  /\ disk' = d
           /\ pages' = ps
           /\ Reload(d, ps)
    /\ UNCHANGED seen

-----------------------------------------------------------------------------
(* Recovery, at the first open after the mount.                            *)

\* Cut the log before the first record of a version above the saved one.
TruncateLogToVersion ==
    /\ phase = "truncate"
    /\ \E n \in 0..Len(log) :
          /\ \A i \in 1..n : log[i].version_num <= version
          /\ n < Len(log) => log[n + 1].version_num > version
          /\ log' = SubSeq(log, 1, n)
          /\ valid_log_end' = n
    /\ phase' = "rollback"
    /\ UNCHANGED <<rollback_version, expected_end, version, txn, logDiskSize, dataVars,
                   xattrs, diskVars, history, bounds>>

\* ext4_map_blocks is asked for the record's extent and answers for its first
\* block; it finds nothing for an empty extent.
FirstMapped(rec) ==
    /\ rec.len_blks > 0
    /\ rec.physical_start_blk \in 0..(OrigBlocks - 1) \cup mapped

\* The record the backward scan looks at belongs to a version given up already.
GivenUp(rec) == rollback_version > 0 /\ rec.version_num >= rollback_version

\* One record of the backward scan: its version is given up, or its first block
\* is missing and it will be.
ScanRecord ==
    /\ phase = "rollback"
    /\ valid_log_end > 0
    /\ LET rec == log[valid_log_end]
       IN  \/ /\ GivenUp(rec)
              /\ UNCHANGED rollback_version
           \/ /\ ~ GivenUp(rec)
              /\ ~ FirstMapped(rec)
              /\ rollback_version' = rec.version_num
    /\ valid_log_end' = valid_log_end - 1
    /\ UNCHANGED <<phase, expected_end, memVars, diskVars, history, bounds>>

\* The scan has passed the first record, or found one whose first block is there.
ScanDone ==
    valid_log_end > 0 =>
        ~ GivenUp(log[valid_log_end]) /\ FirstMapped(log[valid_log_end])

\* A mutant: the version whose blocks are missing is kept.
RecoveredVersion_late(rollback) == rollback

RecoveredVersion(rollback) == IF rollback - 1 < 1 THEN 1 ELSE rollback - 1

\* A mutant: the last block of the last record is cut off.
ExpectedEnd_lastBlock(recs) ==
    Latest({OrigBlocks} \cup {RecordEnd(recs[i]) - 1 : i \in DOMAIN recs})

ExpectedEnd(recs) == Latest({OrigBlocks} \cup {RecordEnd(recs[i]) : i \in DOMAIN recs})

\* With an empty log scorw_do_recovery returns at once.
SkipRecovery ==
    /\ phase = "rollback"
    /\ log = << >>
    /\ phase' = "gc"
    /\ UNCHANGED <<locals, memVars, diskVars, history, bounds>>

\* Drop the versions whose blocks did not reach the disk.
Rollback ==
    /\ phase = "rollback"
    /\ log # << >>
    /\ ScanDone
    /\ expected_end' = ExpectedEnd(SubSeq(log, 1, valid_log_end))
    /\ \/ /\ rollback_version > 0
          /\ log' = SubSeq(log, 1, valid_log_end)
          /\ version' = RecoveredVersion(rollback_version)
          /\ curr_version' = version'
       \/ /\ rollback_version = 0
          /\ UNCHANGED <<log, version, curr_version>>
    /\ phase' = "trim"
    /\ rollback_version' = 0
    /\ valid_log_end' = 0
    /\ UNCHANGED <<txn, logDiskSize, dataVars, childXattr, diskVars,
                   history, bounds>>

\* Cut the parent behind the blocks its records name.  The second cut of the
\* log, at records that end behind expected_end, never finds one: expected_end
\* is the maximum over these records.
Trim ==
    /\ phase = "trim"
    /\ phase' = "gc"
    /\ expected_end' = OrigBlocks
    /\ \/ /\ size > expected_end
          /\ size' = expected_end
          /\ diskSize' = expected_end
          /\ mapped' = {b \in mapped : b < expected_end}
          /\ dirty' = {b \in dirty : b < expected_end}
       \/ /\ size <= expected_end
          /\ UNCHANGED dataVars
    /\ UNCHANGED <<rollback_version, valid_log_end, version, txn, logVars, xattrs, diskVars,
                   history, bounds>>

\* A mutant: the children's versions are not collected.
ActiveVersions_parentOnly == {0, version}

ActiveVersions == {0, version} \cup {childXattr[c] : c \in Children}

\* Punch the blocks nobody reads.
PunchGarbage ==
    /\ phase = "gc"
    /\ phase' = "open"
    /\ mapped' = mapped \ Garbage(log, ActiveVersions)
    /\ before' = << >>
    /\ UNCHANGED <<locals, version, txn, logVars, size, diskSize, dirty, xattrs,
                   diskVars, plain, seen, bounds>>

-----------------------------------------------------------------------------
Next ==
    \/ \E L \in LogicalBlocks, len \in Lens : Write(L, len) \/ TxnWrite(L, len)
    \/ BeginTransaction
    \/ EndTransaction
    \/ Close
    \/ \E cs \in SUBSET Children : LastClose(cs)
    \/ \E bs \in SUBSET dirty : Commit(bs)
    \/ \E ps \in LogPages : Crash(ps)
    \/ Unmount
    \/ TruncateLogToVersion
    \/ SkipRecovery
    \/ ScanRecord
    \/ Rollback
    \/ Trim
    \/ PunchGarbage

Spec == Init /\ [][Next]_vars


-----------------------------------------------------------------------------
(* Properties.                                                             *)

\* The blocks that writes may cover.
ReadBlocks == UNION {UNION {L..(L + len - 1) : len \in Lens} : L \in LogicalBlocks}

\* What scorw_do_recovery takes for granted of the disk ("Found valid data,
\* everything before is valid"): blocks reach it in order and records whole, and
\* the log there has no holes and no records of an earlier life.
DiskAsExpected == seen \cap {"torn", "log"} = {}

\* Recovery removes the records that lack parent data and GC punches only what
\* nobody reads: whenever the parent is open, every block that the current
\* version or a child's version names is there.
ActiveReadable ==
    phase = "open" /\ DiskAsExpected =>
        \A v \in {version} \cup {childXattr[c] : c \in Children}, L \in ReadBlocks :
            LET p == Lookup(log, v, L)
            IN  p >= OrigBlocks => p \in mapped \cup dirty

\* The data area is append-only across crashes: no two records share a block,
\* and the next append lands behind all of them.  Recovery must trim the parent
\* neither too little nor too much.
ExtentsDisjoint ==
    phase = "open" /\ DiskAsExpected =>
        \A i \in DOMAIN log :
            /\ RecordEnd(log[i]) <= size
            /\ \A j \in 1..(i - 1) : Extent(log[i]) \cap Extent(log[j]) = {}

\* Recovery changes no version it keeps: each reads as it did before the crash,
\* to the block.  END syncs the log before its version can be saved, so
\* transactions that write need no assumption.  It fails where the record of a
\* plain write is lost although its version was saved, where a record of an
\* earlier life stands in the place of a lost one, and where a rollback whose
\* lower version is not yet on disk is undone after its versions were used again.
KeepsVersions ==
    [][PunchGarbage /\ seen \cap {"plain", "stale", "undone"} = {} =>
        \A v \in 1..version, L \in ReadBlocks :
            Lookup(log, v, L) = Lookup(before, v, L)]_vars
=============================================================================
