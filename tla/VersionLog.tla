----------------------------- MODULE VersionLog -----------------------------
(***************************************************************************)
(* The log of a versioned parent file as a value: what the records of the  *)
(* log file mean.  A record says that, from version version_num on, the    *)
(* len_blks logical blocks from logical_start_blk are found at the         *)
(* physical blocks from physical_start_blk of the parent file.             *)
(*                                                                         *)
(* The operators are pure; VersionStore and Recovery apply them to their   *)
(* state.  Blocks are numbered from 0 and versions from 1.                 *)
(***************************************************************************)
EXTENDS Integers, Sequences, FiniteSets

CONSTANTS
    MAX_VERSIONS,     \* entries of version_states
    OrigBlocks        \* the parent's size when it was cloned, in blocks

ASSUME LogAssumption ==
    /\ MAX_VERSIONS \in Nat \ {0}
    /\ OrigBlocks \in Nat \ {0}

BLK_NOT_FOUND == -1

Record == [version_num        : Nat \ {0},
           logical_start_blk  : Nat,
           physical_start_blk : Nat,
           len_blks           : Nat \ {0}]

Covers(rec, L) ==
    /\ rec.logical_start_blk <= L
    /\ L < rec.logical_start_blk + rec.len_blks

PhysicalOf(rec, L) == rec.physical_start_blk + (L - rec.logical_start_blk)

\* The first physical block after the record's extent.
RecordEnd(rec) == rec.physical_start_blk + rec.len_blks

\* The last of a set of positions or versions.
Latest(S) == CHOOSE x \in S : \A y \in S : x >= y

-----------------------------------------------------------------------------
(* scorw_replay_log_version fills the delta map of version v record by     *)
(* record, so the last record of v that covers L decides.                  *)
DeltaHits(log, v, L) ==
    {i \in DOMAIN log : log[i].version_num = v /\ Covers(log[i], L)}

InDelta(log, v, L) == DeltaHits(log, v, L) # {}

DeltaAt(log, v, L) == PhysicalOf(log[Latest(DeltaHits(log, v, L))], L)

(* scorw_lookup_physical_block: the versions from ver down to 1 that can   *)
(* be loaded, then the original file.                                      *)
HitVersions(log, ver, L) ==
    {v \in 1..ver : v <= MAX_VERSIONS /\ InDelta(log, v, L)}

Lookup(log, ver, L) ==
    IF HitVersions(log, ver, L) # {}
    THEN DeltaAt(log, Latest(HitVersions(log, ver, L)), L)
    ELSE IF L < OrigBlocks THEN L ELSE BLK_NOT_FOUND

-----------------------------------------------------------------------------
(* The records are in version order, and none is more than one version     *)
(* ahead of ver.                                                           *)
LogSorted(log) ==
    \A i, j \in DOMAIN log : i <= j => log[i].version_num <= log[j].version_num

LogBelow(log, ver) ==
    \A i \in DOMAIN log : log[i].version_num <= ver + 1
=============================================================================
