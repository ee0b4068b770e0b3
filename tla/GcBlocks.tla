------------------------------ MODULE GcBlocks ------------------------------
(***************************************************************************)
(* scorw_gc_blocks as a function: which physical blocks of the parent are  *)
(* garbage, given its log and the versions somebody still reads.           *)
(***************************************************************************)
EXTENDS VersionLog

\* The scan of the log keeps, for each logical block, the last record that
\* covered it; these are the earlier records that cover L.
Earlier(log, i, L) ==
    {j \in 1..(i - 1) : log[j].version_num > 0 /\ Covers(log[j], L)}

\* Version and place of L just before record i replaces it.
PrevVersion(log, i, L) ==
    IF Earlier(log, i, L) = {} THEN 0 ELSE log[Latest(Earlier(log, i, L))].version_num

PrevBlock(log, i, L) ==
    IF Earlier(log, i, L) = {} THEN L ELSE PhysicalOf(log[Latest(Earlier(log, i, L))], L)

\* Nobody reads a version from PrevVersion up to the one before record i's:
\* the smallest active version that is no less than PrevVersion
\* (scorw_gc_find_next_active) is missing or too large.
Unused(log, active, i, L) ==
    \A a \in active : PrevVersion(log, i, L) <= a => a >= log[i].version_num

CoveredBlocks(rec) ==
    rec.logical_start_blk..(rec.logical_start_blk + rec.len_blks - 1)

Replaces(log, i) == {L \in CoveredBlocks(log[i]) : log[i].version_num > 0}

Garbage(log, active) ==
    UNION {{PrevBlock(log, i, L) : L \in {K \in Replaces(log, i) : Unused(log, active, i, K)}}
           : i \in DOMAIN log}
=============================================================================
