------------------------------ MODULE Mballoc ------------------------------
(* Allocation and freeing of clusters in one block group: the bitmap on    *)
(* disk, the bitmap of the buddy that is built from it and cached in pages *)
(* that may be reclaimed, preallocation spaces of files and of the         *)
(* locality group, and clusters that are freed in a transaction and become *)
(* free in the buddy when it has committed.                                *)
(*                                                                         *)
(* An allocation or a free of one file runs under its i_data_sem, so each  *)
(* file has at most one operation under way; its steps are the sections    *)
(* under the group lock or a preallocation's lock. What a search finds is  *)
(* the first free extent of any length up to the goal (for the search      *)
(* itself see AllocScan).                                                  *)
EXTENDS Integers, FiniteSets, FiniteSetsExt

CONSTANTS
    MbClusters,     \* clusters of the group
    MbFiles,        \* regular files
    MbBlocks,       \* blocks of each file are 0 .. MbBlocks - 1
    MbPas,          \* identities of preallocation spaces
    MbKinds,        \* requests: length, from the locality group, without preallocation
    MbGoal,         \* the normalised goal length
    LgMax, LgKeep,  \* preallocations of one order in the locality group: 8 and 5
    WbFiles,        \* files with data=writeback
    MbOps,          \* bound: allocations and frees
    MbNone

VARIABLES
    dbm,        \* clusters in use in the bitmap on disk
    fgd,        \* free clusters by the group descriptor
    bbm,        \* clusters in use in the buddy's bitmap, or MbNone: not in memory
    pas,        \* preallocation spaces
    freed,      \* s_freed_data_list: clusters freed under each parity of the transaction
    par,        \* parity of the running transaction
    fcc, dcc,   \* s_freeclusters_counter, s_dirtyclusters_counter
    mop,        \* the operation of each file
    fblk,       \* the clusters of each file
    cblk,       \* the same in the committed and in the committing transaction
    nops        \* operations begun

mbVars == <<dbm, fgd, bbm, pas, freed, par, fcc, dcc, mop, fblk, cblk, nops>>

Clu == 0 .. MbClusters - 1
Lblk == 0 .. MbBlocks - 1
Span(s, n) == s .. s + n - 1
Smaller(a, b) == IF a < b THEN a ELSE b
RECURSIVE OrderOf(_)
OrderOf(n) == IF n < 2 THEN 0 ELSE 1 + OrderOf(n \div 2)

IdleOp == [st |-> "idle", l |-> 0, n |-> 0, grp |-> FALSE, noPa |-> FALSE, pa |-> MbNone,
           start |-> 0, len |-> 0, buddy |-> FALSE, res |-> 0, tries |-> 0, strict |-> FALSE,
           moved |-> FALSE, list |-> {}]

PaRange(p) == Span(p.pstart, p.len)
LivePas == {i \in MbPas : pas[i] # MbNone}
OnGroup == {i \in LivePas : pas[i].ongrp}

\* Mutant: preallocated clusters are not marked in a buddy that is read again.
generate_from_pa_none(bits) == bits

\* ext4_mb_generate_from_pa
generate_from_pa(bits) == bits \cup UNION {PaRange(pas[i]) : i \in OnGroup}

\* ext4_mb_load_buddy, ext4_mb_init_cache: the bitmap and the preallocations
\* are copied under the group lock
Bitmap == IF bbm = MbNone THEN generate_from_pa(dbm) ELSE bbm

\* discard_pa_seq, counted in mb_mark_used and mb_free_blocks, read by an
\* allocation that has found nothing before
Noticed(m) == [f \in MbFiles |-> [m[f] EXCEPT !.moved = @ \/ (m[f].st = "scan" /\ m[f].strict)]]

----------------------------------------------------------------------------
(* Allocation: ext4_mb_new_blocks.                                         *)

\* ext4_mb_use_inode_pa
use_inode_pa(op, p) ==
    LET off == op.l - p.lstart
    IN  [start |-> p.pstart + off, len |-> Smaller(p.len - off, op.n)]

\* the space of a file that holds the block and has clusters left
InodePa(f, op) ==
    {i \in LivePas : /\ pas[i].type = "inode" /\ pas[i].owner = f /\ pas[i].listed
                     /\ ~pas[i].deleted /\ pas[i].free > 0
                     /\ op.l \in Span(pas[i].lstart, pas[i].len)}
\* a space of the locality group that is large enough, the nearest to the goal
GroupPa(op) ==
    {i \in LivePas : /\ pas[i].type = "group" /\ pas[i].listed /\ ~pas[i].deleted
                     /\ pas[i].free >= op.n /\ OrderOf(op.n) <= pas[i].order}

\* ext4_claim_free_clusters, ext4_mb_initialize_context, ext4_mb_use_preallocated
Begin(f, l, n, grp, noPa) ==
    LET op == [IdleOp EXCEPT !.l = l, !.n = n, !.grp = grp, !.noPa = noPa, !.res = n]
        use(i, ex) == [op EXCEPT !.st = "mark", !.pa = i, !.start = ex.start, !.len = ex.len]
    IN  /\ mop[f].st = "idle"
        /\ \A b \in Span(l, n) : b \in Lblk /\ fblk[f][b] = MbNone
        /\ fcc - dcc >= n
        /\ grp => \A g \in MbFiles : ~mop[g].grp                \* lg_mutex
        /\ dcc' = dcc + n
        /\ IF InodePa(f, op) # {}
           THEN \E i \in InodePa(f, op) :
                  LET ex == use_inode_pa(op, pas[i])
                  IN  /\ mop' = [mop EXCEPT ![f] = use(i, ex)]
                      /\ pas' = [pas EXCEPT ![i].count = @ + 1, ![i].free = @ - ex.len]
           ELSE IF grp /\ GroupPa(op) # {}
           THEN \E i \in GroupPa(op) :
                  /\ mop' = [mop EXCEPT ![f] = use(i, [start |-> pas[i].pstart, len |-> n])]
                  /\ pas' = [pas EXCEPT ![i].count = @ + 1]
           ELSE mop' = [mop EXCEPT ![f] = [op EXCEPT !.st = "scan"]] /\ UNCHANGED pas
        /\ nops < MbOps /\ nops' = nops + 1
        /\ UNCHANGED <<dbm, fgd, bbm, freed, par, fcc, fblk, cblk>>

\* ext4_mb_new_inode_pa, ext4_mb_new_group_pa: the space that is left over
NewPa(f, op, start, len, lstart) ==
    LET ex == [start |-> start + (op.l - lstart), len |-> op.n]
    IN  IF op.grp
        THEN [type |-> "group", owner |-> f, lstart |-> start, pstart |-> start, len |-> len,
              free |-> len, count |-> 1, deleted |-> FALSE, ongrp |-> TRUE, listed |-> FALSE,
              order |-> 0]
        ELSE [type |-> "inode", owner |-> f, lstart |-> lstart, pstart |-> start, len |-> len,
              free |-> len - ex.len, count |-> 1, deleted |-> FALSE, ongrp |-> TRUE,
              listed |-> TRUE, order |-> 0]

\* windows of one file do not overlap (ext4_mb_pa_adjust_overlap)
NoOverlap(f, lo, n) ==
    \A i \in LivePas : pas[i].type = "inode" /\ pas[i].owner = f /\ ~pas[i].deleted =>
                           Span(lo, n) \cap Span(pas[i].lstart, pas[i].len) = {}

\* an allocation that has an extent of the buddy, and pins its pages
Holds(op, i, s, n) ==
    [op EXCEPT !.st = "mark", !.pa = i, !.start = s, !.len = n, !.buddy = TRUE,
               !.tries = 0, !.strict = FALSE, !.moved = FALSE]

\* ext4_mb_regular_allocator, ext4_mb_use_best_found
Found(f) ==
    LET op == mop[f]
        goal == IF op.noPa THEN op.n ELSE MbGoal
    IN  /\ op.st = "scan"
        /\ \E s \in Clu, n \in 1 .. goal :
             /\ Span(s, n) \subseteq Clu \ Bitmap
             /\ \A t \in 0 .. s - 1 : Span(t, n) \cap Bitmap # {}
             /\ bbm' = Bitmap \cup Span(s, n)
             /\ IF op.n < n
                THEN \E i \in MbPas \ LivePas, lo \in {op.l, op.l - (n - op.n)} :
                       /\ \A j \in MbPas \ LivePas : i <= j
                       /\ IF op.grp THEN lo = op.l ELSE lo >= 0 /\ NoOverlap(f, lo, n)
                       /\ pas' = [pas EXCEPT ![i] = NewPa(f, op, s, n, lo)]
                       /\ mop' = [Noticed(mop) EXCEPT
                                    ![f] = Holds(op, i, s + (op.l - lo), op.n)]
                ELSE /\ mop' = [Noticed(mop) EXCEPT
                                    ![f] = Holds(op, MbNone, s, n)]
                     /\ UNCHANGED pas
        /\ UNCHANGED <<dbm, fgd, freed, par, fcc, dcc, fblk, cblk, nops>>

\* the spaces ext4_mb_discard_group_preallocations may take
Discardable == {i \in OnGroup : pas[i].count = 0 /\ ~pas[i].deleted}

\* ext4_mb_release_inode_pa frees what the bitmap on disk has not in use,
\* ext4_mb_release_group_pa the whole rest
release_pa(i) == IF pas[i].type = "inode" THEN PaRange(pas[i]) \ dbm ELSE PaRange(pas[i])

\* ext4_mb_discard_preallocations_should_retry
should_retry(op, D) == D # {} \/ ~op.strict \/ op.moved

\* nothing found: the spaces of the group are given back
Discard(f) ==
    LET op == mop[f]
        D == Discardable
        back == UNION {release_pa(i) : i \in D}
    IN  /\ op.st = "scan" /\ Clu \subseteq Bitmap
        /\ bbm' = Bitmap \ back
        /\ pas' = [i \in MbPas |-> IF i \in D THEN MbNone ELSE pas[i]]
        /\ LET m == IF back # {} THEN Noticed(mop) ELSE mop
           IN  mop' = [m EXCEPT ![f] =
                 IF op.tries < 2 /\ should_retry(op, D)
                 THEN [op EXCEPT !.tries = @ + 1, !.strict = @ \/ D = {},
                                 !.moved = op.strict /\ D # {}]
                 ELSE [IdleOp EXCEPT !.st = "release", !.res = op.res, !.grp = op.grp]]
        /\ UNCHANGED <<dbm, fgd, freed, par, fcc, dcc, fblk, cblk, nops>>

\* the claim ext4_mb_new_blocks made for the request
reserved(op) == op.res

\* ext4_mb_mark_context: the descriptor changes by the bits that change
mark_context(used, bits) ==
    /\ dbm' = IF used THEN dbm \cup bits ELSE dbm \ bits
    /\ fgd' = IF used THEN fgd - Cardinality(bits \ dbm) ELSE fgd + Cardinality(bits \cap dbm)

\* ext4_mb_mark_diskspace_used
MarkDisk(f) ==
    LET op == mop[f]
    IN  /\ op.st = "mark"
        /\ mark_context(TRUE, Span(op.start, op.len))
        /\ fcc' = fcc - op.len
        /\ dcc' = dcc - reserved(op)
        /\ mop' = [mop EXCEPT ![f].st = "release", ![f].res = 0]
        /\ fblk' = [fblk EXCEPT ![f] = [b \in Lblk |-> IF b \in Span(op.l, op.len)
                                                       THEN op.start + b - op.l ELSE @[b]]]
        /\ UNCHANGED <<bbm, pas, freed, par, cblk, nops>>

\* it fails to get write access: ext4_discard_allocated_blocks
MarkFails(f) ==
    LET op == mop[f]
    IN  /\ op.st = "mark"
        /\ IF op.pa = MbNone
           THEN bbm' = Bitmap \ Span(op.start, op.len) /\ UNCHANGED pas
           ELSE /\ pas' = [pas EXCEPT ![op.pa].free =
                             IF pas[op.pa].type = "inode" THEN @ + op.len ELSE @]
                /\ UNCHANGED bbm
        /\ mop' = [(IF op.pa = MbNone THEN Noticed(mop) ELSE mop) EXCEPT
                     ![f].st = "release", ![f].len = 0]
        /\ UNCHANGED <<dbm, fgd, freed, par, fcc, dcc, fblk, cblk, nops>>

\* a space of the locality group moves past the clusters that were used
Consumed(p, n) ==
    IF p.type = "inode" THEN p
    ELSE [p EXCEPT !.pstart = @ + n, !.lstart = @ + n, !.free = @ - n, !.len = @ - n]

\* ext4_mb_release_context: the space of the locality group moves to the
\* list of its order, which is trimmed when it is long
Release(f) ==
    LET op == mop[f]
        p == Consumed(pas[op.pa], op.len)
        lists == p.type = "group" /\ p.free > 0
        q == IF lists THEN [p EXCEPT !.listed = TRUE, !.order = OrderOf(p.free)] ELSE p
        same == {i \in LivePas : /\ pas[i].type = "group" /\ pas[i].listed /\ ~pas[i].deleted
                                 /\ pas[i].order = q.order /\ i # op.pa}
        over == lists /\ Cardinality(same) + 1 > LgMax
    IN  /\ op.st = "release"
        /\ dcc' = dcc - op.res
        /\ IF op.pa = MbNone
           THEN UNCHANGED pas /\ mop' = [mop EXCEPT ![f] = IdleOp]
           ELSE /\ pas' = [pas EXCEPT ![op.pa] = q]
                /\ mop' = [mop EXCEPT ![f] = [IdleOp EXCEPT !.st = IF over THEN "trim" ELSE "put",
                                                 !.pa = op.pa, !.grp = op.grp, !.buddy = op.buddy]]
        /\ UNCHANGED <<dbm, fgd, bbm, freed, par, fcc, fblk, cblk, nops>>

\* the last user of a space leaves it without clusters
Emptied(p) == p.count = 1 /\ p.free = 0 /\ ~p.deleted

\* ext4_mb_put_pa, up to the group lock
PutPa(f) ==
    LET i == mop[f].pa
    IN  /\ mop[f].st = "put"
        /\ pas' = [pas EXCEPT ![i].count = @ - 1, ![i].deleted = @ \/ Emptied(pas[i])]
        /\ mop' = [mop EXCEPT ![f] = IF Emptied(pas[i]) THEN [@ EXCEPT !.st = "unlink"]
                                     ELSE IdleOp]
        /\ UNCHANGED <<dbm, fgd, bbm, freed, par, fcc, dcc, fblk, cblk, nops>>

\* ... and from there: the space leaves the list of the group and its own
Unlink(f) ==
    /\ mop[f].st = "unlink"
    /\ pas' = [pas EXCEPT ![mop[f].pa] = MbNone]
    /\ mop' = [mop EXCEPT ![f] = IdleOp]
    /\ UNCHANGED <<dbm, fgd, bbm, freed, par, fcc, dcc, fblk, cblk, nops>>

\* ext4_mb_discard_lg_preallocations: spaces are taken off the list of one
\* order until few are left, then released one by one
TrimPick(f) ==
    LET op == mop[f]
        L == {i \in LivePas : /\ pas[i].type = "group" /\ pas[i].listed /\ ~pas[i].deleted
                              /\ pas[i].order = pas[op.pa].order}
        idle == {i \in L : pas[i].count = 0}
        need == Cardinality(L) - LgKeep
    IN  /\ op.st = "trim"
        /\ \E D \in SUBSET idle :
             /\ Cardinality(D) = Smaller(need, Cardinality(idle))
             /\ pas' = [i \in MbPas |-> IF i \in D
                                        THEN [pas[i] EXCEPT !.deleted = TRUE, !.listed = FALSE]
                                        ELSE pas[i]]
             /\ mop' = [mop EXCEPT ![f] = [op EXCEPT !.st = "drop", !.list = D]]
        /\ UNCHANGED <<dbm, fgd, bbm, freed, par, fcc, dcc, fblk, cblk, nops>>

----------------------------------------------------------------------------
(* Freeing: ext4_discard_preallocations, then ext4_free_blocks.            *)

\* the spaces ext4_discard_preallocations takes off the tree of the inode
FilePas(f) == {i \in LivePas : pas[i].type = "inode" /\ pas[i].owner = f /\ pas[i].listed}

FreeBegin(f, l) ==
    /\ mop[f].st = "idle" /\ fblk[f][l] # MbNone
    /\ \A i \in FilePas(f) : pas[i].count = 0
    /\ pas' = [i \in MbPas |-> IF i \in FilePas(f)
                               THEN [pas[i] EXCEPT !.deleted = TRUE, !.listed = FALSE] ELSE pas[i]]
    /\ mop' = [mop EXCEPT ![f] = [IdleOp EXCEPT !.st = "drop", !.l = l, !.list = FilePas(f),
                                                !.start = fblk[f][l], !.len = 1]]
    /\ nops < MbOps /\ nops' = nops + 1
    /\ UNCHANGED <<dbm, fgd, bbm, freed, par, fcc, dcc, fblk, cblk>>

\* one space that was taken off its list is released under the group lock
DropPa(f) ==
    LET op == mop[f]
    IN  /\ op.st = "drop"
        /\ IF op.list = {}
           THEN /\ mop' = [mop EXCEPT ![f].st = IF op.grp THEN "put" ELSE "clear"]
                /\ UNCHANGED <<bbm, pas>>
           ELSE \E i \in op.list :
                  /\ bbm' = Bitmap \ release_pa(i)
                  /\ pas' = [pas EXCEPT ![i] = MbNone]
                  /\ mop' = [Noticed(mop) EXCEPT ![f] = [op EXCEPT !.list = @ \ {i}]]
        /\ UNCHANGED <<dbm, fgd, freed, par, fcc, dcc, fblk, cblk, nops>>

\* ext4_mb_clear_bb: the buddy is loaded and the bitmap on disk cleared
ClearBits(f) ==
    LET op == mop[f]
    IN  /\ op.st = "clear"
        /\ bbm' = Bitmap
        /\ mark_context(FALSE, {op.start})
        /\ mop' = [mop EXCEPT ![f] = [op EXCEPT !.st = "list", !.buddy = TRUE]]
        /\ fblk' = [fblk EXCEPT ![f][op.l] = MbNone]
        /\ UNCHANGED <<pas, freed, par, fcc, dcc, cblk, nops>>

\* ... then ext4_mb_free_metadata puts the cluster on the list of the
\* transaction, or mb_free_blocks frees it at once for data=writeback
FreeEnds(f) ==
    LET op == mop[f]
    IN  /\ op.st = "list"
        /\ IF f \in WbFiles
           THEN bbm' = Bitmap \ {op.start} /\ mop' = [Noticed(mop) EXCEPT ![f] = IdleOp]
                /\ UNCHANGED freed
           ELSE freed' = [freed EXCEPT ![par] = @ \cup {op.start}]
                /\ mop' = [mop EXCEPT ![f] = IdleOp] /\ UNCHANGED bbm
        /\ fcc' = fcc + 1
        /\ UNCHANGED <<dbm, fgd, pas, par, dcc, fblk, cblk, nops>>

----------------------------------------------------------------------------
(* The journal and memory pressure.                                        *)

\* a commit begins when no handle of the running transaction is open
CommitStart ==
    /\ cblk.next = MbNone
    /\ \A f \in MbFiles : mop[f].st = "idle"
    /\ cblk' = [cblk EXCEPT !.next = fblk]
    /\ par' = 1 - par
    /\ UNCHANGED <<dbm, fgd, bbm, pas, freed, fcc, dcc, mop, fblk, nops>>

\* Mutant: the clusters freed by the running transaction are released too.
freed_data_list_both == freed[0] \cup freed[1]

\* the list ext4_process_freed_data takes: the one of the committed transaction
freed_data_list == freed[1 - par]

\* ext4_process_freed_data, the callback of the commit
CommitDone ==
    /\ cblk.next # MbNone
    /\ cblk' = [now |-> cblk.next, next |-> MbNone]
    /\ bbm' = IF freed_data_list = {} THEN bbm ELSE Bitmap \ freed_data_list
    /\ freed' = [freed EXCEPT ![1 - par] = {}, ![par] = @ \ freed_data_list]
    /\ mop' = IF freed_data_list = {} THEN mop ELSE Noticed(mop)
    /\ UNCHANGED <<dbm, fgd, pas, par, fcc, dcc, fblk, nops>>

\* references on the pages of the buddy: an allocation from the buddy until
\* it is released, a free until it is listed, the clusters of the lists
Pinned == \/ \E f \in MbFiles : mop[f].buddy
          \/ freed[0] \cup freed[1] # {}

\* the pages of the buddy are reclaimed
Reclaim ==
    /\ bbm # MbNone /\ ~Pinned
    /\ bbm' = MbNone
    /\ UNCHANGED <<dbm, fgd, pas, freed, par, fcc, dcc, mop, fblk, cblk, nops>>

MbInit ==
    /\ dbm = {} /\ fgd = MbClusters /\ bbm = MbNone
    /\ pas = [i \in MbPas |-> MbNone]
    /\ freed = [i \in 0 .. 1 |-> {}] /\ par = 0
    /\ fcc = MbClusters /\ dcc = 0
    /\ mop = [f \in MbFiles |-> IdleOp]
    /\ fblk = [f \in MbFiles |-> [b \in Lblk |-> MbNone]]
    /\ cblk = [now |-> fblk, next |-> MbNone]
    /\ nops = 0

MbNext ==
    \/ \E f \in MbFiles :
         \/ \E l \in Lblk, k \in MbKinds : Begin(f, l, k[1], k[2], k[3])
         \/ Found(f) \/ Discard(f) \/ MarkDisk(f) \/ MarkFails(f) \/ Release(f) \/ TrimPick(f)
         \/ PutPa(f) \/ Unlink(f)
         \/ \E l \in Lblk : FreeBegin(f, l)
         \/ DropPa(f) \/ ClearBits(f) \/ FreeEnds(f)
    \/ CommitStart \/ CommitDone \/ Reclaim

MbSpec == MbInit /\ [][MbNext]_mbVars

----------------------------------------------------------------------------
\* A cluster is in use in the buddy exactly when it is in use on disk, lies
\* in a preallocation, waits for a commit, or is being allocated or freed:
\* none is handed out twice, none is lost, also when the buddy is rebuilt.
BuddyCovers ==
    bbm # MbNone =>
        bbm = dbm \cup freed[0] \cup freed[1]
                  \cup UNION {PaRange(pas[i]) : i \in OnGroup}
                  \cup UNION {Span(mop[f].start, mop[f].len) :
                                f \in {g \in MbFiles : mop[g].st \in {"mark", "list"}}}

\* A preallocation nobody uses counts as free what the bitmap on disk shows
\* free in it (ext4_mb_release_inode_pa reports any difference), and no two
\* preallocations share a cluster.
PaExact ==
    \A i \in OnGroup :
        /\ pas[i].count = 0 /\ pas[i].type = "inode" =>
               pas[i].free = Cardinality(PaRange(pas[i]) \ dbm)
        /\ pas[i].count = 0 /\ pas[i].type = "group" =>
               pas[i].free = pas[i].len /\ PaRange(pas[i]) \cap dbm = {}
        /\ \A j \in OnGroup \ {i} : PaRange(pas[i]) \cap PaRange(pas[j]) = {}

\* A crash finds its files intact: a cluster that a file has in the last
\* committed transaction, or in the one being committed, belongs to nothing
\* else now (but for data=writeback, whose blocks are reused at once).
CommittedKept ==
    \A img \in {cblk.now} \cup ({cblk.next} \ {MbNone}), f \in MbFiles \ WbFiles, l \in Lblk :
        img[f][l] # MbNone =>
            \A g \in MbFiles, k \in Lblk : fblk[g][k] = img[f][l] => <<g, k>> = <<f, l>>

\* Claims are covered by free clusters, and when nothing is under way the
\* counters agree with the bitmap on disk and no claim is left.
CountersSettle ==
    /\ dcc <= fcc /\ fgd = MbClusters - Cardinality(dbm)
    /\ (\A f \in MbFiles : mop[f].st = "idle") => dcc = 0 /\ fcc = fgd

\* Every cluster is in one account: free in the buddy, in a preallocation, in
\* use or claimed, whenever the buddy was dropped and built again.
ClustersInAccount == BuddyCovers /\ PaExact /\ CountersSettle
=============================================================================
